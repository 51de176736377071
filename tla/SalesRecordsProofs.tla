------------------------- MODULE SalesRecordsProofs -------------------------
(***************************************************************************)
(* Proofs about SalesRecords, that is about LeadWorkflow, CustomerPool and *)
(* SystemAccess, one after the other, and that the composition keeps what  *)
(* is proved of each.                                                      *)
(***************************************************************************)
EXTENDS SalesRecords, SequenceTheorems, WellFoundedInduction, TLAPS
-----------------------------------------------------------------------------
(***************************************************************************)
(* Leads, for any tasks, pages, due times and people. A page can be        *)
(* applied only while it shows the row as it is, and being applied         *)
(* outdates it for good; the rest follows from the lead's lock.            *)
(***************************************************************************)
\* A page that was applied is not taken for current again.
PagesInv == \A f \in Form : /\ form[f].applied \in {0, 1}
                            /\ form[f].applied = 1 => form[f].page # "current"

LeadInv == TypeOK /\ PagesInv /\ TrashedIsNotConverted
-----------------------------------------------------------------------------
(***************************************************************************)
(* The operators of the model.                                             *)
(***************************************************************************)
\* A set of numbers that is not empty has a least one.
LEMMA LeastExists ==
  ASSUME NEW S \in SUBSET Nat, S # {}
  PROVE  \E d \in S : \A e \in S : d <= e
<1> DEFINE R == OpToRel(<, Nat)
<1>1. IsWellFoundedOn(R, Nat)
  BY NatLessThanWellFounded
<1>2. \A d, e \in Nat : <<e, d>> \in R <=> e < d
  BY DEF OpToRel
<1> HIDE DEF R
<1>3. PICK d \in S : \A e \in S : ~(<<e, d>> \in R)
  BY <1>1, WFMin
<1>4. \A e \in S : e \in Nat /\ d \in Nat /\ ~(e < d)
  BY <1>2, <1>3
<1>5. \A e \in S : d <= e
  BY <1>4
<1> QED BY <1>5

\* synchronize_submission_next_follow_up finds the first actionable task.
LEMMA EarliestIsLeast ==
  ASSUME NEW tasks \in [Task -> TaskRecord]
  PROVE  /\ Earliest(tasks) \in 0..MaxDue
         /\ ActiveDues(tasks) = {} => Earliest(tasks) = 0
         /\ ActiveDues(tasks) # {} => /\ Earliest(tasks) \in ActiveDues(tasks)
                                      /\ \A e \in ActiveDues(tasks) : Earliest(tasks) <= e
<1>1. ActiveDues(tasks) \subseteq 0..MaxDue
  BY DEF ActiveDues, TaskRecord
<1>2. 0..MaxDue \subseteq Nat /\ 0 \in 0..MaxDue
  BY BoundsAssumption
<1>3. CASE ActiveDues(tasks) = {}
  BY <1>2, <1>3 DEF Earliest
<1>4. CASE ActiveDues(tasks) # {}
  <2>1. \E d \in ActiveDues(tasks) : \A e \in ActiveDues(tasks) : d <= e
    BY <1>1, <1>2, <1>4, LeastExists
  <2> QED BY <1>1, <1>4, <2>1 DEF Earliest
<1> QED BY <1>3, <1>4

\* A task planned for the time the lead shows does not change the earliest one.
LEMMA PlannedTask ==
  ASSUME NEW tasks \in [Task -> TaskRecord], NEW t \in Task, tasks[t].status = "none",
         NEW d \in 1..MaxDue, d = Earliest(tasks)
  PROVE  Earliest(NewTask(tasks, t, d)) = d
<1> DEFINE after == NewTask(tasks, t, d)
<1>1. after \in [Task -> TaskRecord]
  BY BoundsAssumption DEF NewTask, TaskRecord
<1>2. ActiveDues(after) = ActiveDues(tasks) \cup {d}
  <2>1. /\ after[t].status = "active" /\ after[t].due = d
        /\ \A u \in Task : u # t => after[u] = tasks[u]
    BY DEF NewTask
  <2> QED BY <2>1 DEF ActiveDues
<1>3. ActiveDues(tasks) # {} /\ d \in ActiveDues(tasks) /\ \A e \in ActiveDues(tasks) : d <= e
  BY BoundsAssumption, EarliestIsLeast
<1>4. ActiveDues(after) = ActiveDues(tasks)
  BY <1>2, <1>3
<1>5. Earliest(after) <= d /\ d <= Earliest(after) /\ Earliest(after) \in 0..MaxDue
  BY <1>1, <1>3, <1>4, EarliestIsLeast
<1> QED BY <1>5, BoundsAssumption

\* _store_idempotency_result keeps a list of tokens.
LEMMA RememberedIsLedger ==
  ASSUME NEW ledger \in Seq(Form), NEW f \in Form
  PROVE  Remembered(ledger, f) \in Seq(Form)
<1> DEFINE all == Append(ledger, f)
<1>1. all \in Seq(Form)
  BY AppendProperties
<1>2. CASE Len(all) > LedgerLimit
  <2>1. /\ Len(all) \in Int /\ Len(all) - LedgerLimit + 1 \in Int
        /\ Len(all) - LedgerLimit + 1 \in 1..Len(all)
    BY <1>1, <1>2, BoundsAssumption
  <2>2. \A i \in Len(all) - LedgerLimit + 1 .. Len(all) : all[i] \in Form
    BY <1>1, <2>1
  <2>3. SubSeq(all, Len(all) - LedgerLimit + 1, Len(all)) \in Seq(Form)
    BY <2>1, <2>2, SubSeqProperties, Zenon
  <2> QED BY <1>2, <2>3 DEF Remembered
<1>3. CASE ~(Len(all) > LedgerLimit)
  BY <1>1, <1>3 DEF Remembered
<1> QED BY <1>2, <1>3

\* Saving the row closes no page and applies none.
LEMMA OutdatedPages ==
  ASSUME TypeOK
  PROVE  /\ Outdated(form) \in [Form -> FormRecord]
         /\ \A f \in Form : /\ Outdated(form)[f].applied = form[f].applied
                            /\ Outdated(form)[f].page # "current"
BY DEF TypeOK, Outdated, FormRecord

LEMMA StagedLead ==
  ASSUME NEW l \in LeadRecord, NEW stage \in Stage
  PROVE  /\ Staged(l, stage) \in LeadRecord
         /\ Staged(l, stage).trashed = l.trashed /\ Staged(l, stage).converted = l.converted
         /\ Staged(l, stage).config = l.config /\ Staged(l, stage).followUp = l.followUp
BY StageAssumption DEF Staged, LeadRecord

LEMMA QueuesStages ==
  ASSUME TypeOK, NEW stage \in Stage, Queues(stage)
  PROVE  queued' \subseteq {"contacted", "qualified", "won"}
BY DEF TypeOK, Queues, StageEvents
-----------------------------------------------------------------------------
(***************************************************************************)
(* The invariant.                                                          *)
(***************************************************************************)
LEMMA InitLeadInv == Init => LeadInv
<1> SUFFICES ASSUME Init PROVE LeadInv
    OBVIOUS
<1>1. NewConfig \in Config
  BY DEF NewConfig, Config
<1>2. NewLead \in LeadRecord
  BY <1>1, BoundsAssumption DEF NewLead, LeadRecord, LeadStage, Owner
<1>3. task \in [Task -> TaskRecord] /\ form \in [Form -> FormRecord]
  BY BoundsAssumption DEF Init, TaskRecord, FormRecord
<1>4. editor \in EditorRecord
  BY <1>1 DEF Init, NoEditor, EditorRecord
<1>5. TypeOK
  BY <1>2, <1>3, <1>4 DEF Init, TypeOK
<1> QED BY <1>5 DEF Init, LeadInv, PagesInv, TrashedIsNotConverted, NewLead

LEMMA StutterLeadInv == LeadInv /\ UNCHANGED vars => LeadInv'
BY DEF vars, LeadInv, TypeOK, PagesInv, TrashedIsNotConverted

\* A step that saves the lead or leaves it, and applies no page.
LEMMA SavesLeadInv ==
  ASSUME LeadInv, lead' \in LeadRecord, task' \in [Task -> TaskRecord],
         form' \in {form, Outdated(form)}, queued' \subseteq {"contacted", "qualified", "won"},
         editor' \in EditorRecord,
         ~(lead'.trashed /\ lead'.converted)
  PROVE  LeadInv'
<1>1. form' \in [Form -> FormRecord] /\ PagesInv'
  BY OutdatedPages DEF LeadInv, TypeOK, PagesInv
<1> QED BY <1>1 DEF LeadInv, TypeOK, TrashedIsNotConverted

LEMMA OpenFormLeadInv ==
  ASSUME LeadInv, NEW f \in Form, OpenForm(f)
  PROVE  LeadInv'
<1>1. /\ form' \in [Form -> FormRecord]
      /\ \A g \in Form : form'[g].applied = form[g].applied
      /\ \A g \in Form : g # f => form'[g].page = form[g].page
      /\ form[f].applied = 0
  BY DEF LeadInv, TypeOK, OpenForm, FormRecord
<1>2. PagesInv'
  BY <1>1 DEF LeadInv, PagesInv
<1> QED BY <1>1, <1>2 DEF LeadInv, TypeOK, OpenForm, TrashedIsNotConverted

\* A disposition outdates its own page as well.
LEMMA DisposeLeadInv ==
  ASSUME LeadInv, NEW f \in Form, NEW stage \in Stage, NEW assignee \in Owner,
         NEW d \in Due \cup {0}, Dispose(f, stage, assignee, d)
  PROVE  LeadInv'
<1>1. task' \in [Task -> TaskRecord]
  BY BoundsAssumption DEF Dispose, NewTask, LeadInv, TypeOK, TaskRecord, Due
<1>2. Remembered(lead.config.ledger, f) \in Seq(Form) /\ Earliest(task') \in 0..MaxDue
  BY <1>1, RememberedIsLedger, EarliestIsLeast DEF LeadInv, TypeOK, LeadRecord, Config
<1>3. Staged(lead, stage) \in LeadRecord
  BY StagedLead DEF LeadInv, TypeOK
<1>4. lead' \in LeadRecord /\ lead'.trashed = FALSE
  <2> DEFINE l == Staged(lead, stage)
             time == IF d = 0 THEN l.followUp ELSE NextFollowUp(task', d)
  <2>1. l.config = lead.config /\ l.trashed = lead.trashed /\ lead.trashed = FALSE
    BY StagedLead DEF Dispose, LeadInv, TypeOK, LeadRecord
  <2>2. time \in 0..MaxDue
    BY <1>2, <1>3 DEF NextFollowUp, LeadRecord
  <2>3. lead' = [l EXCEPT !.assignee = assignee, !.followUp = time,
                          !.config.ledger = Remembered(l.config.ledger, f)]
    BY DEF Dispose
  <2> QED BY <1>2, <1>3, <2>1, <2>2, <2>3 DEF LeadRecord, Config
<1>5. /\ form' \in [Form -> FormRecord]
      /\ form'[f].applied = form[f].applied + 1 /\ form'[f].page # "current"
      /\ \A g \in Form : g # f => /\ form'[g].applied = form[g].applied
                                  /\ form'[g].page # "current"
  <2>1. form[f].applied \in Nat
    BY DEF LeadInv, TypeOK, FormRecord
  <2> QED BY <2>1, OutdatedPages DEF Dispose, LeadInv, FormRecord
<1>6. form[f].applied = 0
  BY DEF Dispose, UpToDate, LeadInv, PagesInv
<1>7. PagesInv'
  BY <1>5, <1>6 DEF LeadInv, PagesInv
<1>8. queued' \subseteq {"contacted", "qualified", "won"} /\ editor' = editor
  BY QueuesStages DEF Dispose, LeadInv
<1> QED BY <1>1, <1>4, <1>5, <1>7, <1>8 DEF LeadInv, TypeOK, TrashedIsNotConverted

\* Assignment, trash, restore and the privacy actions.
LEMMA LeadSavedLeadInv ==
  ASSUME LeadInv,
         \/ \E u \in User : AssignOwner(u) \/ BulkAssign(u)
         \/ MoveToTrash \/ Restore \/ WithdrawConsent \/ Erase
  PROVE  LeadInv'
<1>1. [ledger |-> << >>, erased |-> TRUE] \in Config
  BY DEF Config
<1>2. lead' \in LeadRecord /\ ~(lead'.trashed /\ lead'.converted)
  BY <1>1 DEF LeadInv, TypeOK, TrashedIsNotConverted, LeadRecord, Owner, AssignOwner, BulkAssign,
     MoveToTrash, Restore, WithdrawConsent, Erase
<1> QED BY <1>2, SavesLeadInv DEF LeadInv, TypeOK, AssignOwner, BulkAssign, MoveToTrash, Restore,
           WithdrawConsent, Erase

LEMMA ChangesStage ==
  ASSUME LeadInv, NEW stage \in Stage, ChangeStage(stage)
  PROVE  /\ lead' \in LeadRecord /\ ~(lead'.trashed /\ lead'.converted)
         /\ form' = Outdated(form) /\ queued' \subseteq {"contacted", "qualified", "won"}
BY StagedLead, QueuesStages DEF ChangeStage, LeadInv, TypeOK, LeadRecord

LEMMA BulkStageLeadInv ==
  ASSUME LeadInv, NEW stage \in Stage, BulkStage(stage)
  PROVE  LeadInv'
BY ChangesStage, SavesLeadInv DEF BulkStage, LeadInv, TypeOK

LEMMA SynchronizedSaves ==
  ASSUME LeadInv, ~lead.trashed, task' \in [Task -> TaskRecord], Synchronized(task')
  PROVE  /\ lead' \in LeadRecord /\ ~(lead'.trashed /\ lead'.converted)
         /\ form' \in {form, Outdated(form)}
         /\ lead'.followUp = Earliest(task') /\ lead'.converted = lead.converted
BY EarliestIsLeast DEF Synchronized, LeadInv, TypeOK, LeadRecord

\* Every change of a task synchronizes the lead.
LEMMA TaskChangedLeadInv ==
  ASSUME LeadInv, ~lead.trashed, task' \in [Task -> TaskRecord], Synchronized(task'),
         UNCHANGED <<queued, editor>>
  PROVE  LeadInv'
BY SynchronizedSaves, SavesLeadInv DEF LeadInv, TypeOK

LEMMA CreateOrUpdateLeadInv ==
  ASSUME LeadInv, NEW t \in Task, NEW d \in Due, CreateTask(t, d) \/ UpdateTask(t, d)
  PROVE  LeadInv'
<1>1. task' \in [Task -> TaskRecord]
  BY BoundsAssumption DEF CreateTask, UpdateTask, NewTask, LeadInv, TypeOK, TaskRecord, Due
<1> QED BY <1>1, TaskChangedLeadInv DEF CreateTask, UpdateTask

LEMMA ClosedTasks ==
  ASSUME LeadInv, NEW t \in Task, NEW next \in Task, NEW d \in Due \cup {0}, CloseTask(t, next, d)
  PROVE  task' \in [Task -> TaskRecord]
<1>1. [task EXCEPT ![t].status = "closed"] \in [Task -> TaskRecord]
  BY DEF LeadInv, TypeOK, TaskRecord
<1>2. [status |-> "active", due |-> d] \in TaskRecord
  BY BoundsAssumption DEF TaskRecord, Due
<1> QED BY <1>1, <1>2 DEF CloseTask, NewTask

LEMMA CloseTaskLeadInv ==
  ASSUME LeadInv, NEW t \in Task, NEW next \in Task, NEW d \in Due \cup {0}, CloseTask(t, next, d)
  PROVE  LeadInv'
BY ClosedTasks, TaskChangedLeadInv DEF CloseTask, MayClose

LEMMA ConvertLeadInv == LeadInv /\ Convert => LeadInv'
<1> SUFFICES ASSUME LeadInv, Convert PROVE LeadInv'
    OBVIOUS
<1>1. lead' \in LeadRecord /\ lead'.trashed = FALSE
  BY DEF Convert, LeadInv, TypeOK, LeadRecord
<1>2. task' \in [Task -> TaskRecord]
  <2>1. [status |-> "active", due |-> lead.followUp] \in TaskRecord
    BY DEF LeadInv, TypeOK, LeadRecord, TaskRecord
  <2> QED BY <2>1 DEF Convert, NewTask, LeadInv, TypeOK
<1> QED BY <1>1, <1>2, SavesLeadInv DEF Convert, LeadInv, TypeOK

LEMMA EditorLeadInv ==
  ASSUME LeadInv,
         \/ EditorLoads \/ EditorStops
         \/ \E stage \in Stage : EditorStages(stage)
         \/ \E assignee \in Owner, d \in Due \cup {0} : EditorSaves(assignee, d)
  PROVE  LeadInv'
<1>1. NoEditor \in EditorRecord
  BY DEF NoEditor, EditorRecord, NewConfig, Config
<1>2. CASE EditorLoads \/ EditorStops
  <2>1. editor' \in EditorRecord
    BY <1>1, <1>2 DEF EditorLoads, EditorStops, LeadInv, TypeOK, LeadRecord, EditorRecord
  <2> QED BY <1>2, <2>1, SavesLeadInv
          DEF EditorLoads, EditorStops, LeadInv, TypeOK, TrashedIsNotConverted
<1>3. ASSUME NEW stage \in Stage, EditorStages(stage)
      PROVE  LeadInv'
  BY <1>1, <1>3, ChangesStage, SavesLeadInv DEF EditorStages, LeadInv, TypeOK
<1>4. ASSUME NEW assignee \in Owner, NEW d \in Due \cup {0}, EditorSaves(assignee, d)
      PROVE  LeadInv'
  <2>1. /\ lead' \in LeadRecord /\ lead'.trashed = lead.trashed
        /\ lead'.converted = lead.converted
    <3>1. editor.config \in Config /\ d \in 0..MaxDue
      BY BoundsAssumption DEF LeadInv, TypeOK, EditorRecord, Due
    <3>2. lead' = [lead EXCEPT !.assignee = assignee, !.followUp = d, !.config = editor.config]
      BY <1>4 DEF EditorSaves
    <3> QED BY <3>1, <3>2 DEF LeadInv, TypeOK, LeadRecord
  <2>2. editor' \in EditorRecord
    BY <1>4 DEF EditorSaves, LeadInv, TypeOK, EditorRecord
  <2> QED BY <1>4, <2>1, <2>2, SavesLeadInv DEF EditorSaves, LeadInv, TypeOK, TrashedIsNotConverted
<1> QED BY <1>2, <1>3, <1>4

LEMMA NextLeadInv == LeadInv /\ [Next]_vars => LeadInv'
<1> SUFFICES ASSUME LeadInv, [Next]_vars PROVE LeadInv'
    OBVIOUS
<1>1. ASSUME NEW f \in Form, OpenForm(f)
      PROVE  LeadInv'
  BY <1>1, OpenFormLeadInv
<1>2. ASSUME NEW f \in Form, NEW stage \in Stage, NEW assignee \in Owner, NEW d \in Due \cup {0},
             Dispose(f, stage, assignee, d)
      PROVE  LeadInv'
  BY <1>2, DisposeLeadInv
<1>3. ASSUME NEW stage \in Stage, BulkStage(stage)
      PROVE  LeadInv'
  BY <1>3, BulkStageLeadInv
<1>4. ASSUME NEW t \in Task, NEW d \in Due, CreateTask(t, d) \/ UpdateTask(t, d)
      PROVE  LeadInv'
  BY <1>4, CreateOrUpdateLeadInv
<1>5. ASSUME NEW t \in Task, NEW next \in Task, NEW d \in Due \cup {0}, CloseTask(t, next, d)
      PROVE  LeadInv'
  BY <1>5, CloseTaskLeadInv
<1>6. CASE Convert
  BY <1>6, ConvertLeadInv
<1>7. CASE \/ \E u \in User : AssignOwner(u) \/ BulkAssign(u)
           \/ MoveToTrash \/ Restore \/ WithdrawConsent \/ Erase
  BY <1>7, LeadSavedLeadInv
<1>8. CASE \/ EditorLoads \/ EditorStops
           \/ \E stage \in Stage : EditorStages(stage)
           \/ \E assignee \in Owner, d \in Due \cup {0} : EditorSaves(assignee, d)
  BY <1>8, EditorLeadInv
<1>9. CASE UNCHANGED vars
  BY <1>9, StutterLeadInv
<1> QED BY <1>1, <1>2, <1>3, <1>4, <1>5, <1>6, <1>7, <1>8, <1>9 DEF Next
-----------------------------------------------------------------------------
\* The inductive invariant of a lead, its tasks and its pages.
THEOREM LeadInvariant == Spec => []LeadInv
BY InitLeadInv, NextLeadInv, PTL DEF Spec

\* Every reachable state is well typed.
THEOREM LeadTypesHold == Spec => []TypeOK
<1>1. LeadInv => TypeOK
  BY DEF LeadInv
<1> QED BY <1>1, LeadInvariant, PTL

\* dispose_lead applies a page at most once, although the ledger forgets its
\* token and a stale editor may write back a ledger that lacks it.
THEOREM DispositionIsOnce == Spec => []AppliedOnce
<1>1. LeadInv => AppliedOnce
  BY DEF LeadInv, PagesInv, AppliedOnce
<1> QED BY <1>1, LeadInvariant, PTL

\* A converted lead never is in the trash (move_lead_to_trash and
\* convert_qualified_lead look at each other's mark under the row's lock).
THEOREM ConvertedStaysOut == Spec => []TrashedIsNotConverted
<1>1. LeadInv => TrashedIsNotConverted
  BY DEF LeadInv
<1> QED BY <1>1, LeadInvariant, PTL

\* What FollowUpFollowsTasks says of one step.
FollowUpStep ==
    /\ task' # task
    /\ lead.followUp = Earliest(task) \/ lead'.converted = lead.converted
    => lead'.followUp = Earliest(task')

LEMMA StepFollows == LeadInv /\ [Next]_vars => FollowUpStep
<1> SUFFICES ASSUME LeadInv, Next, task' # task,
                    lead.followUp = Earliest(task) \/ lead'.converted = lead.converted
             PROVE  lead'.followUp = Earliest(task')
    BY DEF FollowUpStep, vars
<1>1. ASSUME NEW f \in Form, NEW stage \in Stage, NEW assignee \in Owner, NEW d \in Due \cup {0},
             Dispose(f, stage, assignee, d)
      PROVE  lead'.followUp = Earliest(task')
  <2>1. d # 0
    BY <1>1 DEF Dispose
  <2>2. Staged(lead, stage) \in LeadRecord
    BY StagedLead DEF LeadInv, TypeOK
  <2> QED BY <1>1, <2>1, <2>2 DEF Dispose, NextFollowUp, LeadRecord
<1>2. ASSUME NEW t \in Task, NEW next \in Task, NEW d \in Due \cup {0},
             \/ CreateTask(t, d) \/ UpdateTask(t, d) \/ CloseTask(t, next, d)
      PROVE  lead'.followUp = Earliest(task')
  BY <1>2 DEF CreateTask, UpdateTask, CloseTask, Synchronized, LeadInv, TypeOK, LeadRecord
<1>3. CASE Convert
  <2>1. lead.followUp = Earliest(task) /\ lead'.followUp = lead.followUp
    BY <1>3 DEF Convert, LeadInv, TypeOK, LeadRecord
  <2>2. PICK t \in Task : /\ Free(t) /\ lead.followUp # 0
                          /\ task' = NewTask(task, t, lead.followUp)
    BY <1>3 DEF Convert
  <2>3. lead.followUp \in 1..MaxDue /\ task \in [Task -> TaskRecord]
    BY <2>2, BoundsAssumption DEF LeadInv, TypeOK, LeadRecord
  <2>4. task[t].status = "none"
    BY <2>2 DEF Free
  <2>5. Earliest(NewTask(task, t, lead.followUp)) = lead.followUp
    BY <2>1, <2>3, <2>4, PlannedTask
  <2> QED BY <2>1, <2>2, <2>5
<1> QED BY <1>1, <1>2, <1>3 DEF Next, OpenForm, AssignOwner, BulkAssign, MoveToTrash, Restore,
           BulkStage, EditorLoads, EditorSaves, EditorStages, EditorStops, WithdrawConsent, Erase

\* However the tasks of a lead change, its follow-up time is the earliest of
\* them afterwards (synchronize_submission_next_follow_up).
THEOREM TasksSetFollowUp == Spec => FollowUpFollowsTasks
<1>1. LeadInv /\ [Next]_vars => [FollowUpStep]_vars
  BY StepFollows
<1>2. [][FollowUpStep]_vars <=> FollowUpFollowsTasks
  BY PTL DEF FollowUpFollowsTasks, FollowUpStep
<1> QED BY <1>1, <1>2, LeadInvariant, PTL DEF Spec

LEMMA StepPauses == [Next]_vars => [lead.trashed => UNCHANGED task]_vars
<1> SUFFICES ASSUME Next, lead.trashed PROVE UNCHANGED task
  BY DEF vars
<1>1. /\ \A f \in Form, stage \in Stage, assignee \in Owner, d \in Due \cup {0} :
            ~ Dispose(f, stage, assignee, d)
      /\ \A t \in Task, d \in Due : ~ CreateTask(t, d) /\ ~ UpdateTask(t, d)
      /\ \A t \in Task, next \in Task, d \in Due \cup {0} : ~ CloseTask(t, next, d)
  BY DEF Dispose, CreateTask, UpdateTask, CloseTask, MayClose
<1>2. CASE \/ \E f \in Form : OpenForm(f)
           \/ \E u \in User : AssignOwner(u) \/ BulkAssign(u)
           \/ MoveToTrash \/ Restore
           \/ \E stage \in Stage : BulkStage(stage)
           \/ Convert \/ WithdrawConsent \/ Erase
  BY <1>2 DEF OpenForm, AssignOwner, BulkAssign, MoveToTrash, Restore, BulkStage, Convert,
     WithdrawConsent, Erase
<1>3. CASE \/ EditorLoads \/ EditorStops
           \/ \E assignee \in Owner, d \in Due \cup {0} : EditorSaves(assignee, d)
           \/ \E stage \in Stage : EditorStages(stage)
  BY <1>3 DEF EditorLoads, EditorSaves, EditorStages, EditorStops
<1> QED BY <1>1, <1>2, <1>3 DEF Next

\* No workflow touches a task of a lead in the trash (_authorize_locked).
THEOREM TrashPauses == Spec => TrashPausesTasks
BY StepPauses, PTL DEF Spec, TrashPausesTasks

LEMMA StepHasConsent == [Next]_vars => [queued' # queued => lead.consent]_vars
BY DEF vars, Next, OpenForm, Dispose, Queues, AssignOwner, BulkAssign, MoveToTrash, Restore,
   ChangeStage, BulkStage, CreateTask, UpdateTask, CloseTask, Convert, EditorLoads, EditorSaves,
   EditorStages, EditorStops, WithdrawConsent, Erase

\* Every way to change a stage asks for the consent before it queues events.
THEOREM ConsentIsAsked == Spec => EventsHaveConsent
BY StepHasConsent, PTL DEF Spec, EventsHaveConsent
-----------------------------------------------------------------------------
(***************************************************************************)
(* Customers, for any people, deals and tasks. What a pool operation       *)
(* checked stays true until it commits, because everything that could      *)
(* change it waits for the company's row.                                  *)
(***************************************************************************)
\* Nothing active hangs on the customer.
Unused == ActiveOn(OnCompany) = {} /\ ActiveDeals = {}

\* What an operation under way has checked is still so.
PendingInv ==
    /\ pending.op = "release" => company.state = "owned" /\ Unused
    /\ pending.op = "archive" => company.state = "available" /\ Unused
    /\ pending.op = "claim" => company.state = "available" /\ Unused /\ pending.user # None
    /\ pending.op = "assign" => /\ company.state \in {"available", "owned"}
                                /\ ActiveOn(OnCompany) \subseteq pending.listed
                                /\ pending.user # None

\* A conversion holds the inquiry's row as it found it.
ConvertingInv ==
    converting.phase = "reading" =>
        inquiry.converted = "no" /\ ~inquiry.trashed /\ inquiry.assignee # None

AbsentInv == company.state = "absent" => company.owner = None

PoolInv == /\ PoolTypeOK /\ OwnerMatchesState /\ ConvertedIsNotTrashed
        /\ AbsentInv /\ PendingInv /\ ConvertingInv
-----------------------------------------------------------------------------
(***************************************************************************)
(* Tasks.                                                                  *)
(***************************************************************************)
LEMMA UserIsSomebody == \A u \in User : u # None /\ u \in Owner
BY NoneAssumption DEF Owner

LEMMA NewWorkIs ==
  ASSUME NEW works \in [Work -> WorkRecord], NEW t \in Work, NEW target \in Target, NEW u \in Owner
  PROVE  NewWork(works, t, target, u) \in [Work -> WorkRecord]
BY DEF NewWork, WorkRecord

\* The company's tasks are left alone: none is added, closed or linked.
CompanyWorkStays == ActiveOn(OnCompany)' = ActiveOn(OnCompany)

LEMMA InitPoolInv == PoolInit => PoolInv
<1> SUFFICES ASSUME PoolInit PROVE PoolInv
    OBVIOUS
<1>1. None \in Owner
  BY DEF Owner
<1>2. PoolTypeOK
  BY <1>1 DEF PoolInit, PoolTypeOK, Company, PoolState, DealRecord, WorkRecord, Target, Inquiry,
     Pending, Reading, NoOperation, NoReading
<1> QED BY <1>2 DEF PoolInit, PoolInv, OwnerMatchesState, ConvertedIsNotTrashed, AbsentInv, PendingInv,
           ConvertingInv, NoOperation, NoReading

LEMMA StutterPoolInv == PoolInv /\ UNCHANGED poolVars => PoolInv'
BY DEF poolVars, PoolInv, PoolTypeOK, OwnerMatchesState, ConvertedIsNotTrashed, AbsentInv, PendingInv,
   ConvertingInv, Unused, ActiveOn, ActiveDeals

\* An operation that locks the company's row, with the checks of Archive,
\* Release, Claim and Assign.
LEMMA StartsPoolInv ==
  ASSUME PoolInv, NEW u \in User,
         Archive \/ Release \/ Claim(u) \/ Assign(u)
  PROVE  PoolInv'
<1>1. pending' \in Pending
  BY UserIsSomebody DEF Archive, Release, Claim, Assign, Starts, Pending, ActiveOn, Owner
<1>2. UNCHANGED <<company, deal, work, inquiry, converting>>
  BY DEF Archive, Release, Claim, Assign, Starts
<1>3. PendingInv'
  <2>1. OnCompany \subseteq Related
    BY DEF OnCompany, Related
  <2>2. ActiveOn(OnCompany) \subseteq ActiveOn(Related)
    BY <2>1 DEF ActiveOn
  <2>3. ActiveOn(OnCompany)' = ActiveOn(OnCompany) /\ ActiveDeals' = ActiveDeals
    BY <1>2 DEF ActiveOn, ActiveDeals
  <2>4. CASE Archive
    BY <1>2, <2>3, <2>4 DEF PendingInv, Unused, Archive, Starts
  <2>5. CASE Release
    BY <1>2, <2>3, <2>5 DEF PendingInv, Unused, Release, Starts
  <2>6. CASE Claim(u)
    BY <1>2, <2>2, <2>3, <2>6, UserIsSomebody DEF PendingInv, Unused, Claim, Starts
  <2>7. CASE Assign(u)
    BY <1>2, <2>2, <2>3, <2>7, UserIsSomebody DEF PendingInv, Unused, Assign, Starts
  <2> QED BY <2>4, <2>5, <2>6, <2>7
<1> QED BY <1>1, <1>2, <1>3 DEF PoolInv, PoolTypeOK, OwnerMatchesState, ConvertedIsNotTrashed,
           AbsentInv, ConvertingInv

\* While nobody holds the company's row, or before there is one, the company
\* may change freely.
LEMMA FreePoolInv ==
  ASSUME PoolInv, pending.op = "none", pending' = pending,
         company' \in Company, deal' \in [Deal -> DealRecord], work' \in [Work -> WorkRecord],
         inquiry' \in Inquiry, converting' \in Reading,
         OwnerMatchesState', AbsentInv', ConvertedIsNotTrashed', ConvertingInv'
  PROVE  PoolInv'
BY DEF PoolInv, PoolTypeOK, PendingInv

\* Otherwise what an operation checked has to stay.
LEMMA KeptPoolInv ==
  ASSUME PoolInv, UNCHANGED <<company, deal, pending>>, work' \in [Work -> WorkRecord],
         CompanyWorkStays, inquiry' \in Inquiry, converting' \in Reading,
         ConvertedIsNotTrashed', ConvertingInv'
  PROVE  PoolInv'
<1>1. ActiveDeals' = ActiveDeals
  BY DEF ActiveDeals
<1> QED BY <1>1 DEF PoolInv, PoolTypeOK, PendingInv, Unused, CompanyWorkStays, OwnerMatchesState,
           AbsentInv

LEMMA NothingPending ==
  ASSUME PoolInv, CompanyFree \/ ~Exists
  PROVE  pending.op = "none"
BY DEF PoolInv, PoolTypeOK, Pending, PendingInv, CompanyFree, NoOperation, Exists

LEMMA CreateCustomerPoolInv ==
  ASSUME PoolInv, NEW owner \in Owner, CreateCustomer(owner)
  PROVE  PoolInv'
<1>1. company' \in Company /\ OwnerMatchesState' /\ AbsentInv'
  BY DEF CreateCustomer, Company, PoolState, OwnerMatchesState, AbsentInv
<1> QED BY <1>1, NothingPending, FreePoolInv
        DEF CreateCustomer, PoolInv, PoolTypeOK, ConvertedIsNotTrashed, ConvertingInv

LEMMA CompanyWrittenPoolInv ==
  ASSUME PoolInv, Publish \/ Reject \/ RestoreCustomer \/ \E owner \in Owner : ChangeOwner(owner)
  PROVE  PoolInv'
<1>1. company' \in Company /\ OwnerMatchesState' /\ AbsentInv'
  BY DEF Publish, Reject, RestoreCustomer, ChangeOwner, PoolInv, PoolTypeOK, Company, PoolState, Owner,
     OwnerMatchesState, AbsentInv, Exists
<1>2. CompanyFree /\ UNCHANGED <<deal, work, inquiry, pending, converting>>
  BY DEF Publish, Reject, RestoreCustomer, ChangeOwner
<1> QED BY <1>1, <1>2, NothingPending, FreePoolInv
        DEF PoolInv, PoolTypeOK, ConvertedIsNotTrashed, ConvertingInv

LEMMA WithAssigneeIs ==
  ASSUME PoolInv, NEW u \in Owner
  PROVE  /\ WithAssignee(u) \in Inquiry
         /\ WithAssignee(u).converted = inquiry.converted
         /\ WithAssignee(u).trashed = inquiry.trashed
         /\ inquiry.converted # "here" => WithAssignee(u) = inquiry
         /\ inquiry.converted = "here" => WithAssignee(u).assignee = u
BY DEF WithAssignee, PoolInv, PoolTypeOK, Inquiry

LEMMA MovedRows ==
  ASSUME PoolInv, NEW u \in Owner
  PROVE  MovedWork(u) \in [Work -> WorkRecord] /\ MovedDeals(u) \in [Deal -> DealRecord]
<1>1. \A t \in Work : [work[t] EXCEPT !.owner = u] \in WorkRecord /\ work[t] \in WorkRecord
  BY DEF PoolInv, PoolTypeOK, WorkRecord
<1>2. \A d \in Deal : [deal[d] EXCEPT !.owner = u] \in DealRecord /\ deal[d] \in DealRecord
  BY DEF PoolInv, PoolTypeOK, DealRecord
<1>3. MovedWork(u) \in [Work -> WorkRecord]
  BY <1>1 DEF MovedWork
<1>4. MovedDeals(u) \in [Deal -> DealRecord]
  BY <1>2 DEF MovedDeals
<1> QED BY <1>3, <1>4

LEMMA CommitsPoolInv == PoolInv /\ Commits => PoolInv'
<1> SUFFICES ASSUME PoolInv, Commits PROVE PoolInv'
    OBVIOUS
<1>1. pending.user \in Owner /\ None \in Owner
  BY DEF PoolInv, PoolTypeOK, Pending, Owner
<1>2. pending' \in Pending /\ pending'.op = "none"
  BY <1>1 DEF Commits, NoOperation, Pending
<1>3. company' \in Company /\ OwnerMatchesState' /\ AbsentInv'
  BY <1>1 DEF Commits, PoolInv, PoolTypeOK, Company, PoolState, OwnerMatchesState, AbsentInv, PendingInv
<1>4. work' \in [Work -> WorkRecord] /\ deal' \in [Deal -> DealRecord]
  <2>1. (work' = work \/ work' = MovedWork(pending.user)) /\ (deal' = deal \/ deal' = MovedDeals(pending.user))
    BY DEF Commits
  <2> QED BY <1>1, <2>1, MovedRows DEF PoolInv, PoolTypeOK
<1>5. /\ inquiry' \in Inquiry /\ inquiry'.converted = inquiry.converted
      /\ inquiry'.trashed = inquiry.trashed
      /\ inquiry.converted # "here" => inquiry' = inquiry
  BY <1>1, WithAssigneeIs DEF Commits, PoolInv, PoolTypeOK
<1>6. converting' = converting
  BY DEF Commits
<1>7. ConvertedIsNotTrashed' /\ ConvertingInv'
  BY <1>5, <1>6 DEF PoolInv, ConvertedIsNotTrashed, ConvertingInv
<1> QED BY <1>2, <1>3, <1>4, <1>5, <1>6, <1>7 DEF PoolInv, PoolTypeOK, PendingInv

LEMMA AbortsPoolInv == PoolInv /\ Aborts => PoolInv'
<1> SUFFICES ASSUME PoolInv, Aborts PROVE PoolInv'
    OBVIOUS
<1>1. pending' \in Pending /\ pending'.op = "none"
  BY DEF Aborts, NoOperation, Pending, Owner
<1> QED BY <1>1 DEF Aborts, PoolInv, PoolTypeOK, PendingInv, OwnerMatchesState, ConvertedIsNotTrashed,
           AbsentInv, ConvertingInv

LEMMA DealChangedPoolInv ==
  ASSUME PoolInv, NEW d \in Deal,
         MoveDeal(d) \/ \E u \in User : OpenDeal(d, u) \/ ReassignDeal(d, u)
  PROVE  PoolInv'
<1>1. deal' \in [Deal -> DealRecord]
  BY DEF MoveDeal, OpenDeal, ReassignDeal, PoolInv, PoolTypeOK, DealRecord, Owner
<1>2. CompanyFree /\ UNCHANGED <<company, work, inquiry, pending, converting>>
  BY DEF MoveDeal, OpenDeal, ReassignDeal
<1> QED BY <1>1, <1>2, NothingPending, FreePoolInv
        DEF PoolInv, PoolTypeOK, OwnerMatchesState, AbsentInv, ConvertedIsNotTrashed, ConvertingInv

\* A step of tasks that do not hang on the company, or one that waited for it.
LEMMA WorkChangedPoolInv ==
  ASSUME PoolInv, work' \in [Work -> WorkRecord], CompanyFree \/ CompanyWorkStays,
         UNCHANGED <<company, deal, inquiry, pending, converting>>
  PROVE  PoolInv'
<1>1. OwnerMatchesState' /\ AbsentInv' /\ ConvertedIsNotTrashed' /\ ConvertingInv'
  BY DEF PoolInv, OwnerMatchesState, AbsentInv, ConvertedIsNotTrashed, ConvertingInv
<1>2. CASE CompanyFree
  BY <1>1, <1>2, NothingPending, FreePoolInv DEF PoolInv, PoolTypeOK
<1>3. CASE CompanyWorkStays
  BY <1>1, <1>3, KeptPoolInv DEF PoolInv, PoolTypeOK
<1> QED BY <1>2, <1>3

LEMMA CreateWorkPoolInv ==
  ASSUME PoolInv, NEW t \in Work, NEW target \in Target, NEW u \in User, CreateWork(t, target, u)
  PROVE  PoolInv'
<1>1. work' \in [Work -> WorkRecord]
  BY NewWorkIs, UserIsSomebody DEF CreateWork, PoolInv, PoolTypeOK
<1>2. CASE target \in OnCompany
  BY <1>1, <1>2, WorkChangedPoolInv DEF CreateWork, Touchable, RowsFree
<1>3. CASE target \notin OnCompany
  <2>1. /\ work[t].status = "none" /\ work'[t].on = target
        /\ \A v \in Work : v # t => work'[v] = work[v]
    BY DEF CreateWork, NewWork, PoolInv, PoolTypeOK
  <2>2. CompanyWorkStays
    BY <1>3, <2>1 DEF CompanyWorkStays, ActiveOn
  <2> QED BY <1>1, <2>2, WorkChangedPoolInv DEF CreateWork
<1> QED BY <1>2, <1>3

LEMMA CloseWorkPoolInv ==
  ASSUME PoolInv, NEW t \in Work, CloseWork(t)
  PROVE  PoolInv'
<1> DEFINE closed == [work EXCEPT ![t].status = "closed"]
<1>1. /\ closed \in [Work -> WorkRecord] /\ work[t].on \in Target
      /\ closed[t].status = "closed" /\ closed[t].on = work[t].on
      /\ \A v \in Work : v # t => closed[v] = work[v]
  BY DEF PoolInv, PoolTypeOK, WorkRecord
<1>2. work' = closed \/ \E next \in Work, u \in User :
                           work[next].status = "none" /\ work' = NewWork(closed, next, work[t].on, u)
  BY DEF CloseWork
<1>3. work' \in [Work -> WorkRecord]
  <2>1. CASE work' = closed
    BY <1>1, <2>1
  <2>2. ASSUME NEW next \in Work, NEW u \in User, work' = NewWork(closed, next, work[t].on, u)
        PROVE  work' \in [Work -> WorkRecord]
    <3> HIDE DEF closed
    <3> QED BY <1>1, <2>2, NewWorkIs, UserIsSomebody
  <2> QED BY <1>2, <2>1, <2>2
<1>4. CASE work[t].on \in OnCompany
  BY <1>3, <1>4, WorkChangedPoolInv DEF CloseWork, Touchable, RowsFree
<1>5. CASE work[t].on \notin OnCompany
  <2>1. ASSUME work' = closed
        PROVE  CompanyWorkStays
    <3>1. \A v \in Work : v = t \/ work'[v] = work[v]
      BY <1>1, <2>1
    <3>2. work'[t].on \notin OnCompany
      BY <1>1, <1>5, <2>1
    <3> QED BY <1>5, <3>1, <3>2 DEF CompanyWorkStays, ActiveOn
  <2>2. ASSUME NEW next \in Work, NEW u \in User, work[next].status = "none",
               work' = NewWork(closed, next, work[t].on, u)
        PROVE  CompanyWorkStays
    <3>1. closed[t].on \notin OnCompany
      BY <1>1, <1>5
    <3>2. /\ work'[next].on = work[t].on
          /\ \A v \in Work : v # next => work'[v] = closed[v]
      BY <1>1, <2>2 DEF NewWork
    <3>3. \A v \in Work : v = t \/ v = next \/ work'[v] = work[v]
      BY <1>1, <3>2
    <3>4. work'[t].on \notin OnCompany /\ work'[next].on \notin OnCompany
      BY <1>5, <3>1, <3>2
    <3> QED BY <1>5, <2>2, <3>3, <3>4 DEF CompanyWorkStays, ActiveOn
  <2>3. CompanyWorkStays
    BY <1>2, <2>1, <2>2
  <2> QED BY <1>3, <2>3, WorkChangedPoolInv DEF CloseWork
<1> QED BY <1>4, <1>5

LEMMA ReassignWorkPoolInv ==
  ASSUME PoolInv, NEW t \in Work, NEW u \in User, ReassignWork(t, u)
  PROVE  PoolInv'
<1>1. work' \in [Work -> WorkRecord]
  BY UserIsSomebody DEF ReassignWork, PoolInv, PoolTypeOK, WorkRecord
<1>2. \A v \in Work : work'[v].status = work[v].status /\ work'[v].on = work[v].on
  BY DEF ReassignWork, PoolInv, PoolTypeOK, WorkRecord
<1>3. CompanyWorkStays
  BY <1>2 DEF CompanyWorkStays, ActiveOn
<1> QED BY <1>1, <1>3, WorkChangedPoolInv DEF ReassignWork
-----------------------------------------------------------------------------
(***************************************************************************)
(* The inquiry and its conversion.                                         *)
(***************************************************************************)
LEMMA InquiryChangedPoolInv ==
  ASSUME PoolInv,
         \/ \E ready \in BOOLEAN, assignee \in Owner : EditInquiry(ready, assignee)
         \/ TrashInquiry \/ RestoreInquiry
  PROVE  PoolInv'
<1>1. inquiry' \in Inquiry /\ ConvertedIsNotTrashed'
  BY DEF EditInquiry, TrashInquiry, RestoreInquiry, PoolInv, PoolTypeOK, Inquiry, ConvertedIsNotTrashed
<1>2. converting = NoReading /\ UNCHANGED <<company, deal, work, pending, converting>>
  BY DEF EditInquiry, TrashInquiry, RestoreInquiry, InquiryFree
<1>3. ConvertingInv' /\ CompanyWorkStays
  BY <1>2 DEF ConvertingInv, NoReading, CompanyWorkStays, ActiveOn
<1> QED BY <1>1, <1>2, <1>3, KeptPoolInv DEF PoolInv, PoolTypeOK

LEMMA ReadForConversionPoolInv == PoolInv /\ ReadForConversion => PoolInv'
<1> SUFFICES ASSUME PoolInv, ReadForConversion PROVE PoolInv'
    OBVIOUS
<1>1. converting' \in Reading
  BY DEF ReadForConversion, Reading, PoolInv, PoolTypeOK, Company
<1>2. ConvertingInv' /\ CompanyWorkStays /\ ConvertedIsNotTrashed'
  BY DEF ReadForConversion, ConvertingInv, CompanyWorkStays, ActiveOn, PoolInv, ConvertedIsNotTrashed
<1> QED BY <1>1, <1>2, KeptPoolInv DEF ReadForConversion, PoolInv, PoolTypeOK

LEMMA NoReadingIs == NoReading \in Reading /\ NoReading.phase = "idle"
BY DEF NoReading, Reading, Owner

LEMMA ConversionEndsPoolInv == PoolInv /\ (ConvertsElsewhere \/ ConversionFails) => PoolInv'
<1> SUFFICES ASSUME PoolInv, ConvertsElsewhere \/ ConversionFails PROVE PoolInv'
    OBVIOUS
<1>1. converting' \in Reading /\ ConvertingInv'
  BY NoReadingIs DEF ConvertsElsewhere, ConversionFails, ConvertingInv
<1>2. inquiry' \in Inquiry /\ ConvertedIsNotTrashed'
  BY DEF ConvertsElsewhere, ConversionFails, PoolInv, PoolTypeOK, Inquiry, ConvertedIsNotTrashed,
     ConvertingInv
<1>3. CompanyWorkStays
  BY DEF ConvertsElsewhere, ConversionFails, CompanyWorkStays, ActiveOn
<1> QED BY <1>1, <1>2, <1>3, KeptPoolInv DEF ConvertsElsewhere, ConversionFails, PoolInv, PoolTypeOK

LEMMA FollowUpWorkIs ==
  ASSUME PoolInv, FollowUpWork
  PROVE  work' \in [Work -> WorkRecord]
<1>1. CASE work' = work
  BY <1>1 DEF PoolInv, PoolTypeOK
<1>2. CASE \E t \in ActiveOn({"lead"}) : work' = [work EXCEPT ![t].on = "all"]
  BY <1>2 DEF ActiveOn, PoolInv, PoolTypeOK, WorkRecord, Target
<1>3. CASE \E t \in Work : work' = NewWork(work, t, "all", inquiry.assignee)
  <2>1. "all" \in Target /\ inquiry.assignee \in Owner
    BY DEF Target, PoolInv, PoolTypeOK, Inquiry
  <2> QED BY <1>3, <2>1, NewWorkIs DEF PoolInv, PoolTypeOK
<1> QED BY <1>1, <1>2, <1>3 DEF FollowUpWork

LEMMA ConvertsPoolInv ==
  ASSUME PoolInv, NEW d \in Deal, Converts(d)
  PROVE  PoolInv'
<1>1. inquiry.assignee \in Owner /\ inquiry.assignee # None /\ ~inquiry.trashed
  BY DEF Converts, PoolInv, ConvertingInv, PoolTypeOK, Inquiry
<1>2. company' \in Company /\ OwnerMatchesState' /\ AbsentInv'
  BY <1>1 DEF Converts, PoolInv, PoolTypeOK, Company, PoolState, OwnerMatchesState, AbsentInv
<1>3. deal' \in [Deal -> DealRecord] /\ work' \in [Work -> WorkRecord]
  BY <1>1, FollowUpWorkIs DEF Converts, PoolInv, PoolTypeOK, DealRecord
<1>4. inquiry' \in Inquiry /\ ConvertedIsNotTrashed'
  BY <1>1 DEF Converts, PoolInv, PoolTypeOK, Inquiry, ConvertedIsNotTrashed
<1>5. converting' \in Reading /\ ConvertingInv'
  BY NoReadingIs DEF Converts, ConvertingInv
<1>6. pending.op = "none" /\ pending' = pending
  BY NothingPending DEF Converts
<1> QED BY <1>2, <1>3, <1>4, <1>5, <1>6, FreePoolInv

LEMMA NextPoolInv == PoolInv /\ [PoolNext]_poolVars => PoolInv'
<1> SUFFICES ASSUME PoolInv, [PoolNext]_poolVars PROVE PoolInv'
    OBVIOUS
<1>1. ASSUME NEW owner \in Owner, CreateCustomer(owner)
      PROVE  PoolInv'
  BY <1>1, CreateCustomerPoolInv
<1>2. CASE Publish \/ Reject \/ RestoreCustomer \/ \E owner \in Owner : ChangeOwner(owner)
  BY <1>2, CompanyWrittenPoolInv
<1>3. ASSUME NEW u \in User, Archive \/ Release \/ Claim(u) \/ Assign(u)
      PROVE  PoolInv'
  BY <1>3, StartsPoolInv
<1>4. CASE (Archive \/ Release) /\ User = {}
  <2>1. pending' \in Pending
    BY <1>4 DEF Archive, Release, Starts, Pending, Owner
  <2> QED BY <1>4, <2>1 DEF Archive, Release, Starts, PoolInv, PoolTypeOK, OwnerMatchesState,
             ConvertedIsNotTrashed, AbsentInv, ConvertingInv, PendingInv, Unused, ActiveOn, ActiveDeals
<1>5. CASE Commits \/ Aborts
  BY <1>5, CommitsPoolInv, AbortsPoolInv
<1>6. ASSUME NEW d \in Deal,
             MoveDeal(d) \/ \E u \in User : OpenDeal(d, u) \/ ReassignDeal(d, u)
      PROVE  PoolInv'
  BY <1>6, DealChangedPoolInv
<1>7. ASSUME NEW d \in Deal, Converts(d)
      PROVE  PoolInv'
  BY <1>7, ConvertsPoolInv
<1>8. ASSUME NEW t \in Work, NEW target \in Target, NEW u \in User, CreateWork(t, target, u)
      PROVE  PoolInv'
  BY <1>8, CreateWorkPoolInv
<1>9. ASSUME NEW t \in Work, CloseWork(t) \/ \E u \in User : ReassignWork(t, u)
      PROVE  PoolInv'
  BY <1>9, CloseWorkPoolInv, ReassignWorkPoolInv
<1>10. CASE \/ \E ready \in BOOLEAN, assignee \in Owner : EditInquiry(ready, assignee)
            \/ TrashInquiry \/ RestoreInquiry
  BY <1>10, InquiryChangedPoolInv
<1>11. CASE ReadForConversion \/ ConvertsElsewhere \/ ConversionFails
  BY <1>11, ReadForConversionPoolInv, ConversionEndsPoolInv
<1>12. CASE UNCHANGED poolVars
  BY <1>12, StutterPoolInv
<1> QED BY <1>1, <1>2, <1>3, <1>4, <1>5, <1>6, <1>7, <1>8, <1>9, <1>10, <1>11, <1>12 DEF PoolNext
-----------------------------------------------------------------------------
\* The inductive invariant of a customer and what hangs on it.
THEOREM PoolInvariantHolds == PoolSpec => []PoolInv
BY InitPoolInv, NextPoolInv, PTL DEF PoolSpec

\* Every reachable state is well typed.
THEOREM PoolTypesHold == PoolSpec => []PoolTypeOK
<1>1. PoolInv => PoolTypeOK
  BY DEF PoolInv
<1> QED BY <1>1, PoolInvariantHolds, PTL

\* Nobody owns a customer of the public pool and somebody owns an owned one.
THEOREM PoolAgrees == PoolSpec => []OwnerMatchesState
<1>1. PoolInv => OwnerMatchesState
  BY DEF PoolInv
<1> QED BY <1>1, PoolInvariantHolds, PTL

\* A conversion never meets an inquiry in the trash, although it wrote the
\* customer before it marked the inquiry.
THEOREM ConvertedInquiryStays == PoolSpec => []ConvertedIsNotTrashed
<1>1. PoolInv => ConvertedIsNotTrashed
  BY DEF PoolInv
<1> QED BY <1>1, PoolInvariantHolds, PTL

\* What the action properties say of one step.
KeptStep ==
    company.owner # None /\ (pending.op = "claim" \/ inquiry'.converted # inquiry.converted)
      => company'.owner = company.owner
UnusedStep ==
    pending.op \in {"release", "archive", "claim"} /\ company' # company
      => ActiveOn(OnCompany) = {} /\ ActiveDeals = {}
HandoverStep ==
    pending.op = "assign" /\ company' # company =>
      /\ \A d \in ActiveDeals : deal'[d].owner = company'.owner
      /\ \A t \in ActiveOn(OnCompany) : work'[t].owner = company'.owner
      /\ inquiry.converted = "here" => inquiry'.assignee = company'.owner

LEMMA StepKeepsCustomer == PoolInv /\ [PoolNext]_poolVars => KeptStep
<1> SUFFICES ASSUME PoolInv, [PoolNext]_poolVars, company.owner # None,
                    pending.op = "claim" \/ inquiry'.converted # inquiry.converted
             PROVE  company'.owner = company.owner
    BY DEF KeptStep
<1>1. pending.op # "claim"
  BY DEF PoolInv, PendingInv, OwnerMatchesState
<1>2. inquiry'.converted # inquiry.converted
  BY <1>1
<1>3. (\E d \in Deal : Converts(d)) \/ ConvertsElsewhere
  <2>1. ~ UNCHANGED poolVars
    BY <1>2 DEF poolVars
  <2>2. ~ Commits
    BY <1>2, WithAssigneeIs DEF Commits, PoolInv, PoolTypeOK, Pending
  <2>3. \A ready \in BOOLEAN, assignee \in Owner : ~ EditInquiry(ready, assignee)
    BY <1>2 DEF EditInquiry, PoolInv, PoolTypeOK, Inquiry
  <2>4. ~ TrashInquiry /\ ~ RestoreInquiry
    BY <1>2 DEF TrashInquiry, RestoreInquiry, PoolInv, PoolTypeOK, Inquiry
  <2>5. /\ \A owner \in Owner : ~ CreateCustomer(owner) /\ ~ ChangeOwner(owner)
        /\ ~ Publish /\ ~ Reject /\ ~ RestoreCustomer /\ ~ Archive /\ ~ Release
        /\ \A u \in User : ~ Claim(u) /\ ~ Assign(u)
        /\ ~ Aborts
    BY <1>2 DEF CreateCustomer, ChangeOwner, Publish, Reject, RestoreCustomer, Archive, Release,
       Claim, Assign, Starts, Aborts
  <2>6. /\ \A d \in Deal : ~ MoveDeal(d)
        /\ \A d \in Deal, u \in User : ~ OpenDeal(d, u) /\ ~ ReassignDeal(d, u)
        /\ \A t \in Work : ~ CloseWork(t)
        /\ \A t \in Work, u \in User : ~ ReassignWork(t, u)
        /\ \A t \in Work, target \in Target, u \in User : ~ CreateWork(t, target, u)
        /\ ~ ReadForConversion /\ ~ ConversionFails
    BY <1>2 DEF MoveDeal, OpenDeal, ReassignDeal, CloseWork, ReassignWork, CreateWork,
       ReadForConversion, ConversionFails
  <2> QED BY <2>1, <2>2, <2>3, <2>4, <2>5, <2>6 DEF PoolNext
<1>4. CASE ConvertsElsewhere
  BY <1>4 DEF ConvertsElsewhere
<1>5. ASSUME NEW d \in Deal, Converts(d)
      PROVE  company'.owner = company.owner
  BY <1>5 DEF Converts, Adopts, Exists, PoolInv, AbsentInv, OwnerMatchesState
<1> QED BY <1>3, <1>4, <1>5

\* While an operation is under way only its commit changes the company.
LEMMA OnlyCommitsWrites ==
  ASSUME PoolInv, [PoolNext]_poolVars, pending.op # "none", company' # company
  PROVE  Commits
<1>1. ~CompanyFree /\ Exists
  BY NothingPending
<1> QED BY <1>1 DEF PoolNext, poolVars, CreateCustomer, ChangeOwner, Publish, Reject,
     RestoreCustomer, Archive, Release, Claim, Assign, Starts, Aborts, MoveDeal, OpenDeal,
     ReassignDeal, CreateWork, CloseWork, ReassignWork, EditInquiry, TrashInquiry, RestoreInquiry,
     ReadForConversion, ConversionFails, Converts, ConvertsElsewhere

LEMMA StepIsHandover == PoolInv /\ [PoolNext]_poolVars => HandoverStep
<1> SUFFICES ASSUME PoolInv, [PoolNext]_poolVars, pending.op = "assign", company' # company
             PROVE  /\ \A d \in ActiveDeals : deal'[d].owner = company'.owner
                    /\ \A t \in ActiveOn(OnCompany) : work'[t].owner = company'.owner
                    /\ inquiry.converted = "here" => inquiry'.assignee = company'.owner
    BY DEF HandoverStep
<1>1. Commits
  BY OnlyCommitsWrites
<1>2. /\ company'.owner = pending.user /\ inquiry' = WithAssignee(pending.user)
      /\ work' = MovedWork(pending.user) /\ deal' = MovedDeals(pending.user)
  BY <1>1 DEF Commits
<1>3. \A d \in ActiveDeals : deal'[d].owner = pending.user
  BY <1>2 DEF MovedDeals, ActiveDeals, PoolInv, PoolTypeOK, DealRecord
<1>4. \A t \in ActiveOn(OnCompany) : work'[t].owner = pending.user
  BY <1>2 DEF MovedWork, ActiveOn, PoolInv, PoolTypeOK, PendingInv, WorkRecord
<1>5. inquiry.converted = "here" => inquiry'.assignee = pending.user
  BY <1>2, WithAssigneeIs DEF PoolInv, PoolTypeOK, Pending
<1> QED BY <1>2, <1>3, <1>4, <1>5

\* No claim and no conversion takes a customer from its owner
\* (claim_customer, _record_conversion_company_source).
THEOREM OwnerIsKept == PoolSpec => CustomerIsKept
<1>1. PoolInv /\ [PoolNext]_poolVars => [KeptStep]_poolVars
  BY StepKeepsCustomer
<1>2. [][KeptStep]_poolVars <=> CustomerIsKept
  BY PTL DEF CustomerIsKept, KeptStep
<1> QED BY <1>1, <1>2, PoolInvariantHolds, PTL DEF PoolSpec

\* Whatever goes on between the check and the commit of release_customer,
\* archive_reviewed_customer and claim_customer, nothing active is left behind.
THEOREM NothingLeftBehind == PoolSpec => NoWorkLeftBehind
<1>1. PoolInv /\ [PoolNext]_poolVars => [UnusedStep]_poolVars
  BY DEF PoolInv, PendingInv, Unused, UnusedStep
<1>2. [][UnusedStep]_poolVars <=> NoWorkLeftBehind
  BY PTL DEF NoWorkLeftBehind, UnusedStep
<1> QED BY <1>1, <1>2, PoolInvariantHolds, PTL DEF PoolSpec

\* assign_customer hands over every active deal, every active task of the
\* company and the converted inquiry, although it listed the tasks earlier.
THEOREM HandoverIsWhole == PoolSpec => HandoverMovesWork
<1>1. PoolInv /\ [PoolNext]_poolVars => [HandoverStep]_poolVars
  BY StepIsHandover
<1>2. [][HandoverStep]_poolVars <=> HandoverMovesWork
  BY PTL DEF HandoverMovesWork, HandoverStep
<1> QED BY <1>1, <1>2, PoolInvariantHolds, PTL DEF PoolSpec
-----------------------------------------------------------------------------
(***************************************************************************)
(* Accounts and teams, for any number of them. An editor that has compared *)
(* its version with the row holds that row (HeldInv), so what it saw is    *)
(* still so when it saves (CheckedInv).                                    *)
(***************************************************************************)
Checked(a) == edit[a].step = "checked"

\* What an editor has checked against the row it holds is still so.
CheckedInv ==
    \A a \in Account : Checked(a) =>
        \/ edit[a].of \in Account /\ account[edit[a].of] = edit[a].seen
        \/ edit[a].of \in Team /\ team[edit[a].of].enabled = edit[a].seen

\* A row is held by one editor.
HeldInv == \A a, b \in Account : Checked(a) /\ Checked(b) /\ edit[a].of = edit[b].of => a = b

AccessInv == AccessTypeOK /\ CheckedInv /\ HeldInv

PersonEditor == [step : {"opened", "sent", "checked"}, of : Account, seen : Person, wants : Person]
TeamEditor == [step : {"opened", "sent", "checked"}, of : Team, seen : BOOLEAN, wants : BOOLEAN]

LEMMA EditorIs ==
  ASSUME AccessTypeOK, NEW a \in Account
  PROVE  /\ edit[a] \in PersonEditor \cup TeamEditor \cup {ClosedEditor}
         /\ edit[a].step # "closed" =>
               /\ edit[a].of \in Account => edit[a] \in PersonEditor
               /\ edit[a].of \in Team => edit[a] \in TeamEditor
<1>1. edit[a] \in PersonEditor \cup TeamEditor \cup {ClosedEditor}
  BY DEF AccessTypeOK, Editor, PersonEditor, TeamEditor
<1>2. ClosedEditor.step = "closed"
  BY DEF ClosedEditor
<1>3. edit[a] \in PersonEditor => edit[a].of \in Account
  BY DEF PersonEditor
<1>4. edit[a] \in TeamEditor => edit[a].of \in Team
  BY DEF TeamEditor
<1> QED BY <1>1, <1>2, <1>3, <1>4, RowsAssumption

LEMMA InitAccessInv == AccessInit => AccessInv
<1> SUFFICES ASSUME AccessInit PROVE AccessInv
    OBVIOUS
<1>1. \A a \in Account : edit[a] = ClosedEditor /\ ~Checked(a)
  BY DEF AccessInit, ClosedEditor, Checked
<1>2. [role |-> "administrator", active |-> TRUE, teams |-> {}] \in Person /\ Nobody \in Person
  BY DEF Person, Role, Nobody
<1>3. AccessTypeOK
  BY <1>2 DEF AccessInit, AccessTypeOK, Editor, TeamRow
<1> QED BY <1>1, <1>3 DEF AccessInv, CheckedInv, HeldInv

\* One editor moves; no row is written.
LEMMA EditorMoves ==
  ASSUME AccessInv, UNCHANGED <<account, team>>, NEW a \in Account,
         edit' \in [Account -> Editor],
         \A b \in Account : b # a => edit'[b] = edit[b],
         Checked(a)' =>
             /\ ~Held(edit'[a].of)
             /\ \/ edit'[a].of \in Account /\ account[edit'[a].of] = edit'[a].seen
                \/ edit'[a].of \in Team /\ team[edit'[a].of].enabled = edit'[a].seen
  PROVE  AccessInv'
<1>1. AccessTypeOK'
  BY DEF AccessInv, AccessTypeOK
<1>2. CheckedInv'
  <2> SUFFICES ASSUME NEW b \in Account, Checked(b)'
               PROVE \/ edit'[b].of \in Account /\ account[edit'[b].of] = edit'[b].seen
                     \/ edit'[b].of \in Team /\ team[edit'[b].of].enabled = edit'[b].seen
    BY DEF CheckedInv
  <2>1. CASE b = a
    BY <2>1
  <2>2. CASE b # a
    <3>1. edit'[b] = edit[b]
      BY <2>2
    <3> QED BY <3>1 DEF AccessInv, CheckedInv, Checked
  <2> QED BY <2>1, <2>2
<1>3. HeldInv'
  <2> SUFFICES ASSUME NEW b \in Account, NEW c \in Account, Checked(b)', Checked(c)',
                      edit'[b].of = edit'[c].of, b # c
               PROVE FALSE
    BY DEF HeldInv
  <2>1. CASE b # a /\ c # a
    BY <2>1 DEF AccessInv, HeldInv, Checked
  <2>2. CASE b = a
    BY <2>2 DEF Held, Checked
  <2>3. CASE c = a
    BY <2>3 DEF Held, Checked
  <2> QED BY <2>1, <2>2, <2>3
<1> QED BY <1>1, <1>2, <1>3 DEF AccessInv

\* The step of an editor and what it wants change, to the type its row has.
LEMMA OpenedIs ==
  ASSUME AccessInv, NEW a \in Account, NEW row, NEW seen, Edits(a, row, seen),
         \/ row \in Account /\ seen \in Person
         \/ row \in Team /\ seen \in BOOLEAN,
         UNCHANGED <<account, team>>
  PROVE  AccessInv'
<1> DEFINE new == [step |-> "opened", of |-> row, seen |-> seen, wants |-> seen]
<1>1. new \in Editor /\ new.step # "checked"
  BY DEF Editor
<1>2. edit' = [edit EXCEPT ![a] = new]
  BY DEF Edits
<1> HIDE DEF new
<1>3. /\ edit' \in [Account -> Editor] /\ edit'[a] = new
      /\ \A b \in Account : b # a => edit'[b] = edit[b]
  BY <1>1, <1>2 DEF AccessInv, AccessTypeOK
<1> QED BY <1>1, <1>3, EditorMoves DEF Checked

LEMMA ClosesAccessInv ==
  ASSUME AccessInv, NEW a \in Account, edit' = [edit EXCEPT ![a] = ClosedEditor]
  PROVE  /\ edit' \in [Account -> Editor] /\ ~Checked(a)'
         /\ \A b \in Account : b # a => edit'[b] = edit[b]
BY DEF AccessInv, AccessTypeOK, Editor, ClosedEditor, Checked

LEMMA SendAccessInv == ASSUME AccessInv, NEW a \in Account, Send(a) PROVE AccessInv'
<1>1. /\ edit[a].step = "opened" /\ edit' = [edit EXCEPT ![a].step = "sent"]
      /\ UNCHANGED <<account, team>> /\ edit \in [Account -> Editor]
  BY DEF Send, AccessInv, AccessTypeOK
<1> DEFINE new == [edit[a] EXCEPT !.step = "sent"]
<1>2. edit[a] \in PersonEditor \cup TeamEditor
  BY <1>1, EditorIs DEF AccessInv, ClosedEditor
<1>3. new \in Editor /\ new.step = "sent"
  BY <1>2 DEF PersonEditor, TeamEditor, Editor
<1>4. edit' = [edit EXCEPT ![a] = new]
  BY <1>1
<1> HIDE DEF new
<1>5. /\ edit' \in [Account -> Editor] /\ edit'[a] = new
      /\ \A b \in Account : b # a => edit'[b] = edit[b]
  BY <1>1, <1>3, <1>4
<1> QED BY <1>1, <1>3, <1>5, EditorMoves DEF Checked

LEMMA CheckAccountAccessInv ==
  ASSUME AccessInv, NEW a \in Account, NEW wants \in Person, CheckAccount(a, wants)
  PROVE  AccessInv'
<1>1. /\ edit[a].step = "sent" /\ edit[a].of \in Account /\ ~Held(edit[a].of)
      /\ edit[a].seen = account[edit[a].of]
      /\ edit' = [edit EXCEPT ![a].step = "checked", ![a].wants = wants]
      /\ UNCHANGED <<account, team>> /\ edit \in [Account -> Editor]
  BY DEF CheckAccount, Current, Checks, AccessInv, AccessTypeOK
<1> DEFINE new == [edit[a] EXCEPT !.step = "checked", !.wants = wants]
<1>2. edit[a] \in PersonEditor
  BY <1>1, EditorIs DEF AccessInv
<1>3. /\ new \in Editor /\ new.step = "checked"
      /\ new.of = edit[a].of /\ new.seen = edit[a].seen
  BY <1>2 DEF PersonEditor, Editor
<1>4. edit' = [edit EXCEPT ![a] = new]
  BY <1>1
<1> HIDE DEF new
<1>5. /\ edit' \in [Account -> Editor] /\ edit'[a] = new
      /\ \A b \in Account : b # a => edit'[b] = edit[b]
  BY <1>1, <1>3, <1>4
<1> QED BY <1>1, <1>3, <1>5, EditorMoves

LEMMA CheckTeamAccessInv ==
  ASSUME AccessInv, NEW a \in Account, NEW enabled \in BOOLEAN, CheckTeam(a, enabled)
  PROVE  AccessInv'
<1>1. /\ edit[a].step = "sent" /\ edit[a].of \in Team /\ ~Held(edit[a].of)
      /\ edit[a].seen = team[edit[a].of].enabled
      /\ edit' = [edit EXCEPT ![a].step = "checked", ![a].wants = enabled]
      /\ UNCHANGED <<account, team>> /\ edit \in [Account -> Editor]
  BY DEF CheckTeam, Current, Checks, AccessInv, AccessTypeOK
<1> DEFINE new == [edit[a] EXCEPT !.step = "checked", !.wants = enabled]
<1>2. edit[a] \in TeamEditor
  BY <1>1, EditorIs DEF AccessInv
<1>3. /\ new \in Editor /\ new.step = "checked"
      /\ new.of = edit[a].of /\ new.seen = edit[a].seen
  BY <1>2 DEF TeamEditor, Editor
<1>4. edit' = [edit EXCEPT ![a] = new]
  BY <1>1
<1> HIDE DEF new
<1>5. /\ edit' \in [Account -> Editor] /\ edit'[a] = new
      /\ \A b \in Account : b # a => edit'[b] = edit[b]
  BY <1>1, <1>3, <1>4
<1> QED BY <1>1, <1>3, <1>5, EditorMoves

\* An editor that closes saves at most the row it held.
LEMMA SavesAccessInv ==
  ASSUME AccessInv, NEW a \in Account, edit' = [edit EXCEPT ![a] = ClosedEditor], Checked(a),
         account' \in [Account -> Person], team' \in [Team -> TeamRow],
         \A u \in Account : u # edit[a].of => account'[u] = account[u],
         \A t \in Team : t # edit[a].of => team'[t] = team[t]
  PROVE  AccessInv'
<1>1. /\ edit' \in [Account -> Editor] /\ ~Checked(a)'
      /\ \A b \in Account : b # a => edit'[b] = edit[b]
  BY ClosesAccessInv
<1>2. CheckedInv'
  <2> SUFFICES ASSUME NEW b \in Account, Checked(b)'
               PROVE \/ edit'[b].of \in Account /\ account'[edit'[b].of] = edit'[b].seen
                     \/ edit'[b].of \in Team /\ team'[edit'[b].of].enabled = edit'[b].seen
    BY DEF CheckedInv
  <2>1. b # a /\ edit'[b] = edit[b]
    BY <1>1
  <2>2. Checked(b) /\ edit[b].of # edit[a].of
    BY <2>1 DEF AccessInv, HeldInv, Checked
  <2> QED BY <2>1, <2>2 DEF AccessInv, CheckedInv
<1>3. HeldInv'
  BY <1>1 DEF AccessInv, HeldInv, Checked
<1> QED BY <1>1, <1>2, <1>3 DEF AccessInv, AccessTypeOK

LEMMA SaveAccountAccessInv == ASSUME AccessInv, NEW a \in Account, SaveAccount(a) PROVE AccessInv'
<1>1. /\ Checked(a) /\ edit[a].of \in Account /\ UNCHANGED team
      /\ account' = [account EXCEPT ![edit[a].of] = edit[a].wants]
      /\ edit' = [edit EXCEPT ![a] = ClosedEditor]
      /\ account \in [Account -> Person] /\ team \in [Team -> TeamRow]
  BY DEF SaveAccount, Checked, AccessInv, AccessTypeOK
<1>2. edit[a].wants \in Person
  BY <1>1, EditorIs DEF AccessInv, Checked, PersonEditor
<1> QED BY <1>1, <1>2, SavesAccessInv

LEMMA SaveTeamAccessInv == ASSUME AccessInv, NEW a \in Account, SaveTeam(a) PROVE AccessInv'
<1>1. /\ Checked(a) /\ edit[a].of \in Team /\ UNCHANGED account
      /\ team' = [team EXCEPT ![edit[a].of].enabled = edit[a].wants]
      /\ edit' = [edit EXCEPT ![a] = ClosedEditor]
      /\ account \in [Account -> Person] /\ team \in [Team -> TeamRow]
  BY DEF SaveTeam, Checked, AccessInv, AccessTypeOK
<1>2. edit[a].wants \in BOOLEAN
  BY <1>1, EditorIs DEF AccessInv, Checked, TeamEditor
<1>3. team' \in [Team -> TeamRow]
  BY <1>1, <1>2 DEF TeamRow
<1> QED BY <1>1, <1>3, SavesAccessInv

LEMMA WorkChangesAccessInv == ASSUME AccessInv, NEW t \in Team, WorkChanges(t) PROVE AccessInv'
<1>1. /\ team' = [team EXCEPT ![t].busy = ~@] /\ UNCHANGED <<account, edit>>
      /\ team \in [Team -> TeamRow]
  BY DEF WorkChanges, AccessInv, AccessTypeOK
<1>2. team' \in [Team -> TeamRow] /\ \A s \in Team : team'[s].enabled = team[s].enabled
  BY <1>1 DEF TeamRow
<1> QED BY <1>1, <1>2 DEF AccessInv, AccessTypeOK, CheckedInv, HeldInv, Checked

LEMMA NextAccessInv == AccessInv /\ [AccessNext]_accessVars => AccessInv'
<1> SUFFICES ASSUME AccessInv, [AccessNext]_accessVars PROVE AccessInv'
    OBVIOUS
<1>1. CASE UNCHANGED accessVars
  BY <1>1 DEF accessVars, AccessInv, AccessTypeOK, CheckedInv, HeldInv, Checked
<1>2. ASSUME NEW a \in Account, NEW u \in Account, OpenAccount(a, u) PROVE AccessInv'
  BY <1>2, OpenedIs DEF OpenAccount, AccessInv, AccessTypeOK
<1>3. ASSUME NEW a \in Account, NEW t \in Team, OpenTeam(a, t) PROVE AccessInv'
  BY <1>3, OpenedIs DEF OpenTeam, AccessInv, AccessTypeOK, TeamRow
<1>4. ASSUME NEW a \in Account, CloseEditor(a) PROVE AccessInv'
  BY <1>4, ClosesAccessInv, EditorMoves DEF CloseEditor
<1> QED BY <1>1, <1>2, <1>3, <1>4, SendAccessInv, CheckAccountAccessInv, CheckTeamAccessInv,
           SaveAccountAccessInv, SaveTeamAccessInv, WorkChangesAccessInv DEF AccessNext

\* The inductive invariant of accounts, teams and their editors.
THEOREM AccessInvariant == AccessSpec => []AccessInv
BY InitAccessInv, NextAccessInv, PTL DEF AccessSpec

\* An account or a team is only saved over the row the editor has seen, however
\* many administrators edit at once (system_user_edit, system_team_edit).
THEOREM SavesAreCurrent == AccessSpec => EditorsAreCurrent
<1>1. AccessInv /\ [AccessNext]_accessVars =>
        [\A a \in Account : edit[a].step = "checked" /\ edit'[a].step = "closed" =>
          \/ UNCHANGED <<account, team>>
          \/ edit[a].of \in Account /\ account[edit[a].of] = edit[a].seen
          \/ edit[a].of \in Team /\ team[edit[a].of].enabled = edit[a].seen]_accessVars
  BY DEF AccessInv, CheckedInv, Checked
<1> QED BY <1>1, AccessInvariant, PTL DEF AccessSpec, EditorsAreCurrent
-----------------------------------------------------------------------------
\* A run of the three beside each other is a run of each of them, so that what is
\* proved of the parts holds of the composition.
THEOREM RecordsKeepTheirParts == RecordsSpec => Spec /\ PoolSpec /\ AccessSpec
<1>1. RecordsInit => Init /\ PoolInit /\ AccessInit
  BY DEF RecordsInit
<1>2. [RecordsNext]_recordVars =>
          [Next]_vars /\ [PoolNext]_poolVars /\ [AccessNext]_accessVars
  BY DEF RecordsNext, recordVars
<1> QED BY <1>1, <1>2, PTL DEF RecordsSpec, Spec, PoolSpec, AccessSpec
=============================================================================

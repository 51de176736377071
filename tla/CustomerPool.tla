----------------------------- MODULE CustomerPool -----------------------------
(***************************************************************************)
(* One customer of the pool with the deals, tasks and inquiry that hang on *)
(* it (leads/customer_pool_services.py; convert_qualified_lead of          *)
(* leads/crm_services.py; create_opportunity_workflow and the task         *)
(* workflows; company_update and bulk_assign of console/sales_views.py).   *)
(*                                                                         *)
(* A pool operation locks the company's row, checks, and writes when it    *)
(* commits.  "pending" is the one under way between its check and its      *)
(* commit; meanwhile every transaction that locks the company or inserts a *)
(* row naming it waits (the foreign key locks the company's row too), and  *)
(* everything else goes on.  Conversion reads the company without a lock   *)
(* and holds the inquiry's row; "converting" is what it has read.          *)
(*                                                                         *)
(* The expected version of a page and the request's receipt only refuse or *)
(* answer a request; every request is taken to show the current version.   *)
(***************************************************************************)
EXTENDS SalesTeam

CONSTANTS
    Work,   \* bound: tasks explored
    Deal    \* bound: opportunities of the customer explored

VARIABLES
    company,     \* crm_company and crm_company_pool_state
    deal,        \* the customer's opportunities
    work,        \* tasks of the customer and of the inquiry
    inquiry,     \* the lead that may be converted into this customer
    pending,     \* the pool operation that has checked and not committed
    converting   \* the conversion that has read and not written

poolVars == <<company, deal, work, inquiry, pending, converting>>
-----------------------------------------------------------------------------
PoolState == {"absent", "review", "available", "owned", "archived"}

\* What a task hangs on: the inquiry, the company, one of its contacts or
\* deals, or all of them, as a conversion links it.
Target == {"lead", "company", "part", "all"}
OnCompany == {"company", "all"}
OnLead == {"lead", "all"}

Company == [state : PoolState, owner : Owner]
DealRecord == [state : {"none", "active", "closed"}, owner : Owner]
WorkRecord == [status : {"none", "active", "closed"}, on : Target, owner : Owner]
Inquiry == [ready : BOOLEAN, trashed : BOOLEAN, assignee : Owner,
            converted : {"no", "here", "elsewhere"}]
Pending == [op : {"none", "release", "archive", "claim", "assign"},
            user : Owner, listed : SUBSET Work]
Reading == [phase : {"idle", "reading"}, state : {"absent", "present"}, owner : Owner]

PoolTypeOK ==
    /\ company \in Company
    /\ deal \in [Deal -> DealRecord]
    /\ work \in [Work -> WorkRecord]
    /\ inquiry \in Inquiry
    /\ pending \in Pending
    /\ converting \in Reading

NoOperation == [op |-> "none", user |-> None, listed |-> {}]
NoReading == [phase |-> "idle", state |-> "absent", owner |-> None]

PoolInit ==
    /\ company = [state |-> "absent", owner |-> None]
    /\ deal = [d \in Deal |-> [state |-> "none", owner |-> None]]
    /\ work = [t \in Work |-> [status |-> "none", on |-> "lead", owner |-> None]]
    /\ inquiry = [ready |-> FALSE, trashed |-> FALSE, assignee |-> None, converted |-> "no"]
    /\ pending = NoOperation
    /\ converting = NoReading
-----------------------------------------------------------------------------
Exists == company.state # "absent"

\* Mutant of CompanyFree.
CompanyFreeMutant == TRUE

\* Nobody holds the lock of the company's row.
CompanyFree == pending = NoOperation

\* Nobody holds the lock of the inquiry's row for long.
InquiryFree == converting = NoReading

ActiveDeals == {d \in Deal : deal[d].state = "active"}
ActiveOn(targets) == {t \in Work : work[t].status = "active" /\ work[t].on \in targets}

\* Targets reached through the customer and what was converted into it.
Related == {"company", "part", "all"} \cup (IF inquiry.converted = "here" THEN {"lead"} ELSE {})

Starts(op, user, listed) ==
    /\ pending' = [op |-> op, user |-> user, listed |-> listed]
    /\ UNCHANGED <<company, deal, work, inquiry, converting>>

\* create_manual_customer; a new name only.
CreateCustomer(owner) ==
    /\ ~Exists
    /\ company' = [state |-> IF owner = None THEN "review" ELSE "owned", owner |-> owner]
    /\ UNCHANGED <<deal, work, inquiry, pending, converting>>

\* publish_reviewed_customer, restore_archived_customer and the rejection of a
\* review by archive_reviewed_customer read nothing else.
Publish ==
    /\ CompanyFree /\ company.state = "review"
    /\ company' = [state |-> "available", owner |-> None]
    /\ UNCHANGED <<deal, work, inquiry, pending, converting>>

Reject ==
    /\ CompanyFree /\ company.state = "review"
    /\ company' = [company EXCEPT !.state = "archived"]
    /\ UNCHANGED <<deal, work, inquiry, pending, converting>>

RestoreCustomer ==
    /\ CompanyFree /\ company.state = "archived"
    /\ company' = [company EXCEPT !.state = "review"]
    /\ UNCHANGED <<deal, work, inquiry, pending, converting>>

\* archive_reviewed_customer on a customer of the public pool.
Archive ==
    /\ CompanyFree /\ company.state = "available" /\ company.owner = None
    /\ ActiveOn(OnCompany) = {} /\ ActiveDeals = {}
    /\ Starts("archive", None, {})

\* release_customer.
Release ==
    /\ CompanyFree /\ company.state = "owned"
    /\ ActiveOn(OnCompany) = {} /\ ActiveDeals = {}
    /\ Starts("release", None, {})

\* claim_customer.
Claim(u) ==
    /\ CompanyFree /\ company.state = "available" /\ company.owner = None
    /\ ActiveDeals = {} /\ ActiveOn(Related) = {}
    /\ Starts("claim", u, {})

\* assign_customer: lists the active tasks it will move.
Assign(u) ==
    /\ CompanyFree
    /\ \/ company.state = "available" /\ company.owner = None
       \/ company.state = "owned" /\ company.owner # None
    /\ u # company.owner
    /\ Starts("assign", u, ActiveOn(Related))

\* The inquiry's row, once converted into the customer, goes with it.
WithAssignee(u) ==
    IF inquiry.converted = "here" THEN [inquiry EXCEPT !.assignee = u] ELSE inquiry

\* An assignment moves what it listed and the deals that are active by then.
MovedWork(u) ==
    [t \in Work |-> IF t \in pending.listed THEN [work[t] EXCEPT !.owner = u] ELSE work[t]]
MovedDeals(u) ==
    [d \in Deal |-> IF d \in ActiveDeals THEN [deal[d] EXCEPT !.owner = u] ELSE deal[d]]

Commits ==
    /\ pending' = NoOperation
    /\ \/ /\ pending.op = "release"
          /\ company' = [state |-> "available", owner |-> None]
          /\ UNCHANGED <<deal, work, inquiry>>
       \/ /\ pending.op = "archive"
          /\ company' = [company EXCEPT !.state = "archived"]
          /\ UNCHANGED <<deal, work, inquiry>>
       \/ /\ pending.op = "claim"
          /\ InquiryFree \/ inquiry.converted # "here"
          /\ company' = [state |-> "owned", owner |-> pending.user]
          /\ inquiry' = WithAssignee(pending.user)
          /\ UNCHANGED <<deal, work>>
       \/ /\ pending.op = "assign"
          /\ InquiryFree \/ inquiry.converted # "here"
          /\ company' = [state |-> "owned", owner |-> pending.user]
          /\ inquiry' = WithAssignee(pending.user)
          /\ work' = MovedWork(pending.user)
          /\ deal' = MovedDeals(pending.user)
    /\ UNCHANGED converting

\* Related rows of another team, a deadlock, a crash.
Aborts ==
    /\ pending # NoOperation
    /\ pending' = NoOperation
    /\ UNCHANGED <<company, deal, work, inquiry, converting>>

\* company_update with another owner: the rest must agree already, and the
\* table's trigger refuses a pair of state and owner that does not fit.
ChangeOwner(owner) ==
    /\ CompanyFree /\ Exists /\ owner # company.owner
    /\ \A d \in ActiveDeals : deal[d].owner = owner
    /\ inquiry.converted = "here" => inquiry.assignee = owner
    /\ company.state = "available" => owner = None
    /\ company.state = "owned" => owner # None
    /\ company' = [company EXCEPT !.owner = owner]
    /\ UNCHANGED <<deal, work, inquiry, pending, converting>>
-----------------------------------------------------------------------------
\* create_opportunity_workflow locks the company.
OpenDeal(d, u) ==
    /\ CompanyFree /\ Exists /\ company.owner # None
    /\ deal[d].state = "none"
    /\ deal' = [deal EXCEPT ![d] = [state |-> "active", owner |-> u]]
    /\ UNCHANGED <<company, work, inquiry, pending, converting>>

\* change_opportunity_stage: into a final stage, or reopened.
MoveDeal(d) ==
    /\ CompanyFree /\ deal[d].state # "none"
    /\ deal' = [deal EXCEPT ![d].state = IF @ = "active" THEN "closed" ELSE "active"]
    /\ UNCHANGED <<company, work, inquiry, pending, converting>>

\* bulk_assign of opportunities.
ReassignDeal(d, u) ==
    /\ CompanyFree /\ deal[d].state # "none"
    /\ deal' = [deal EXCEPT ![d].owner = u]
    /\ UNCHANGED <<company, work, inquiry, pending, converting>>

\* Locks a transaction about a task takes: the inquiry's row, and the company's
\* by the rows it inserts.
RowsFree(target) ==
    /\ target \in OnLead => InquiryFree
    /\ target \in OnCompany => CompanyFree

Touchable(target) == RowsFree(target) /\ (target \in OnLead => ~inquiry.trashed)

NewWork(works, t, target, u) ==
    [works EXCEPT ![t] = [status |-> "active", on |-> target, owner |-> u]]

\* create_task_workflow with one target.
CreateWork(t, target, u) ==
    /\ work[t].status = "none" /\ target # "all" /\ Touchable(target)
    /\ target # "lead" => Exists
    /\ work' = NewWork(work, t, target, u)
    /\ UNCHANGED <<company, deal, inquiry, pending, converting>>

\* close_task_workflow; the next task has the same targets.
CloseWork(t) ==
    /\ work[t].status = "active" /\ Touchable(work[t].on)
    /\ LET closed == [work EXCEPT ![t].status = "closed"]
       IN  \/ work' = closed
           \/ \E next \in Work, u \in User :
                 /\ work[next].status = "none"
                 /\ work' = NewWork(closed, next, work[t].on, u)
    /\ UNCHANGED <<company, deal, inquiry, pending, converting>>

\* reassign_task_workflow, and bulk_assign of tasks, which takes closed ones and
\* those of an inquiry in the trash too.
ReassignWork(t, u) ==
    /\ work[t].status # "none" /\ RowsFree(work[t].on)
    /\ work' = [work EXCEPT ![t].owner = u]
    /\ UNCHANGED <<company, deal, inquiry, pending, converting>>
-----------------------------------------------------------------------------
\* The operations of LeadWorkflow, as far as the customer is concerned.
EditInquiry(ready, assignee) ==
    /\ InquiryFree /\ ~inquiry.trashed
    /\ inquiry' = [inquiry EXCEPT !.ready = ready, !.assignee = assignee]
    /\ UNCHANGED <<company, deal, work, pending, converting>>

TrashInquiry ==
    /\ InquiryFree /\ ~inquiry.trashed /\ inquiry.converted = "no"
    /\ inquiry' = [inquiry EXCEPT !.trashed = TRUE]
    /\ UNCHANGED <<company, deal, work, pending, converting>>

RestoreInquiry ==
    /\ InquiryFree /\ inquiry.trashed
    /\ inquiry' = [inquiry EXCEPT !.trashed = FALSE]
    /\ UNCHANGED <<company, deal, work, pending, converting>>

\* convert_qualified_lead: locks the inquiry and looks the company up.
ReadForConversion ==
    /\ InquiryFree /\ ~inquiry.trashed /\ inquiry.converted = "no"
    /\ inquiry.ready /\ inquiry.assignee # None
    /\ converting' = [phase |-> "reading",
                      state |-> IF Exists THEN "present" ELSE "absent",
                      owner |-> company.owner]
    /\ UNCHANGED <<company, deal, work, inquiry, pending>>

\* Mutant of Adopts.
AdoptsMutant == converting.owner = None

\* _record_conversion_company_source: the state is read under its lock, the
\* owner is the one read before.
Adopts == company.state = "available" /\ converting.owner = None

\* A follow-up's task: one planned before by the same owner, or a new one.
FollowUpWork ==
    \/ work' = work
    \/ \E t \in ActiveOn({"lead"}) :
          /\ work[t].owner = inquiry.assignee
          /\ work' = [work EXCEPT ![t].on = "all"]
    \/ \E t \in Work :
          /\ work[t].status = "none"
          /\ work' = NewWork(work, t, "all", inquiry.assignee)

Converts(d) ==
    /\ converting.phase = "reading"
    /\ \/ converting.state = "absent" /\ ~Exists
       \/ converting.state = "present" /\ CompanyFree
    /\ deal[d].state = "none"
    /\ company' = IF converting.state = "absent" \/ Adopts
                  THEN [state |-> "owned", owner |-> inquiry.assignee] ELSE company
    /\ deal' = [deal EXCEPT ![d] = [state |-> "active", owner |-> inquiry.assignee]]
    /\ inquiry' = [inquiry EXCEPT !.converted = "here"]
    /\ FollowUpWork
    /\ converting' = NoReading
    /\ UNCHANGED pending

\* The company was created after it was looked for: the inquiry gets another.
ConvertsElsewhere ==
    /\ converting.phase = "reading" /\ converting.state = "absent" /\ Exists
    /\ inquiry' = [inquiry EXCEPT !.converted = "elsewhere"]
    /\ converting' = NoReading
    /\ UNCHANGED <<company, deal, work, pending>>

ConversionFails ==
    /\ converting # NoReading
    /\ converting' = NoReading
    /\ UNCHANGED <<company, deal, work, inquiry, pending>>

PoolNext ==
    \/ \E owner \in Owner : CreateCustomer(owner) \/ ChangeOwner(owner)
    \/ Publish \/ Reject \/ RestoreCustomer
    \/ Archive \/ Release
    \/ \E u \in User : Claim(u) \/ Assign(u)
    \/ Commits \/ Aborts
    \/ \E d \in Deal : MoveDeal(d) \/ Converts(d)
    \/ \E d \in Deal, u \in User : OpenDeal(d, u) \/ ReassignDeal(d, u)
    \/ \E t \in Work, target \in Target, u \in User : CreateWork(t, target, u)
    \/ \E t \in Work : CloseWork(t)
    \/ \E t \in Work, u \in User : ReassignWork(t, u)
    \/ \E ready \in BOOLEAN, assignee \in Owner : EditInquiry(ready, assignee)
    \/ TrashInquiry \/ RestoreInquiry
    \/ ReadForConversion \/ ConvertsElsewhere \/ ConversionFails

PoolSpec == PoolInit /\ [][PoolNext]_poolVars
-----------------------------------------------------------------------------
\* The pool's state and the owner agree, whatever a conversion remembers: only
\* company_update relies on the table's trigger.
OwnerMatchesState ==
    /\ company.state = "available" => company.owner = None
    /\ company.state = "owned" => company.owner # None

\* An inquiry that became a customer's is not in the trash.
ConvertedIsNotTrashed == inquiry.converted # "no" => ~inquiry.trashed

\* A claim or a conversion never takes a customer from the owner it has.
CustomerIsKept ==
    [][company.owner # None /\ (pending.op = "claim" \/ inquiry'.converted # inquiry.converted)
         => company'.owner = company.owner]_poolVars

\* A customer is released, retired or claimed only when nothing active hangs on
\* it at that moment, however long ago that was checked.
NoWorkLeftBehind ==
    [][pending.op \in {"release", "archive", "claim"} /\ company' # company
         => ActiveOn(OnCompany) = {} /\ ActiveDeals = {}]_poolVars

\* A handover leaves no active deal, no active task of the company and no
\* converted inquiry with anybody else.
HandoverMovesWork ==
    [][pending.op = "assign" /\ company' # company =>
         /\ \A d \in ActiveDeals : deal'[d].owner = company'.owner
         /\ \A t \in ActiveOn(OnCompany) : work'[t].owner = company'.owner
         /\ inquiry.converted = "here" => inquiry'.assignee = company'.owner]_poolVars
=============================================================================

# Verification of the CRM's delivery, record, file and publishing protocols

This directory holds TLA+ specifications of the parts of the repository that
must survive concurrency and failure: the delivery of advertising events,
notification mails and WhatsApp messages; the capture of inquiries and the
processing of what providers push; leads, customers, their tasks and deals, and
the accounts of those who work on them; customer exports and imports; private
attachment files; and the public website from the article to the server. TLC
checks each of them on a small instance, and every safety property it checks is
also proved for every instance (section 6).

Source paths below are relative to `src/apps/crm/` unless they start with
`docs/`.

## 1. The system

A Django application over PostgreSQL. The processes that touch one row at the
same time are web requests, provider webhooks, the scheduler process
(`run_scheduled_tasks`, one job after the other), operator commands, and the
export worker (`process_customer_exports`). They share nothing but the database
and three directories (private files, the preview build, the serving store).
Each of them may be killed between any two statements; each network call may be
lost, taken without an answer, or answered late.

### Components

| Component | State | Operations | Made hard by | Module |
|---|---|---|---|---|
| Marketing event delivery (`leads/marketing_delivery.py`, `google_data_manager.py`, `marketing_review.py`) | `lead_event_outbox`, `lead_event_attempt`, `lead_event_result` | dispatch, claim, hand off, POST, finish, project, poll, recover, exact retry, review | ambiguous answers, crashes after the POST, expired claims, unlocked polls, stale projections | `EventDelivery` (partly) |
| Notification mails (`leads/notification_attempts.py`, `notifications.py`, `notification_review.py`, `send_lead_reminders`) | `lead_notification_attempt`, columns of `lead_submission` | sweep, claim, prepare, hand off, send, finish, project, review | the same, and two kinds of mail that share one active attempt | `NotificationDelivery` |
| WhatsApp sending (`leads/whatsapp_cloud.py`, `whatsapp_ycloud.py`, status receipts of `inbound.py`) | `whatsapp_message`, its delivery events | queue, dispatch, claim, POST, answers, stale recovery, rate limit, manual retry, status receipts | open answers, dispatchers taken for dead, receipts lost, repeated and reordered | `WhatsAppSend` (partly) |
| Inbound receipts (`leads/inbound.py`, `webhooks.py`, `retry_inbound_leads`) | `lead_inbound_event`, the lead of an event | record, claim, fetch, store, finish, fail, recover, retry | a network call between two transactions, stale claims that come back | `InboundReceipt` (partly) |
| Lead capture (`leads/services.py`) | `lead_submission` | a form's request from its look for repetitions to its commit | a look without a lock, three locks waited for in turn | `LeadCapture` (partly) |
| Lead workflow (`leads/lead_workflow_services.py`, `services.py`, the older editor) | lead, its tasks, a bounded ledger of tokens | dispose, assign, stage, trash, restore, convert, edit, withdraw consent, erase | pages opened before, a ledger that forgets, an editor that writes back what it read | `LeadWorkflow` (partly) |
| Customer pool, tasks and deals (`leads/customer_pool_services.py`, `task_workflow_services.py`, `crm_services.py`) | company, pool state, tasks, deals, conversion | create, publish, reject, archive, restore, claim, assign, release, edit; tasks and deals; conversion | a check and a commit with other work between them | `CustomerPool` (partly) |
| Accounts and teams (`console/system_forms.py`, `system_versions.py`) | `auth_user`, roles, memberships, `sales_team` | edit an account, switch a team on or off | editors opened earlier, a look at rows that nobody locks | `SystemAccess` (partly) |
| Customer exports (`console/customer_pool_exports.py`, `process_customer_exports`) | `crm_customer_export_job`, private files | claim, build, complete, fail, download, retry, cancel | stale reclaim, files outside the transaction, unlocked downloads | `CustomerExport` |
| Customer import (`leads/customer_import_services.py`) | batches, their rows, companies' external records | preview, commit, refuse a row, commit again | a preview that ages, two batches at once | `CustomerImport` (partly) |
| Private attachments (`console/crm_files.py`, `crm_upload_recovery.py`) | `crm_attachment`, private files, the upload journal | store, deduplicate, retire, clean up, recover | a rollback does not undo a file; files are shared between rows | `PrivateFiles` |
| Content authoring (`console/forms.py`, `article_imports.py`, `content_access.py`, `commit_authorization.py`) | articles of a language, sessions, roles and grants | create, edit, import | rights and rows that change between the form and the save | `ContentAuthoring` (partly) |
| Article releases (`console/article_delivery.py`, `article_preview.py`, `website_candidate.py`, `locale_admin.py`) | releases, languages | read a snapshot, preview, candidate; languages created and switched | three queries, and a review before the second reading | `ArticleRelease` (partly) |
| Local preview (`console/release_pipeline.py`, `export_release_snapshot`) | `release_build`, one release row, shared directories | claim, export, copy, Astro, finish, fail | one directory for all builds, killed processes | `PreviewBuild` (partly) |
| Website (`console/website_selection.py`, `website_deployment.py`, `website_serving_store.py`, `website_recovery.py`) | selections, operations, receipts, the pointer `current`, `deploy.lock` | select, prepare, replay, copy, switch, finalize, fail, reconcile | a pointer outside the transaction, replays of one token, lost volume | `WebsiteDeployment` |
| Scheduler (`siteos_admin/job_scheduler.py`) | due times, heartbeat, advisory lock | run due jobs, verify the session | loss of the lock's session while a job runs | section 8 |
| Retention and privacy, flow workspace, public assets, e-mail settings, installer | their own tables and directories | see `PROJECT.json` | smaller or covered by the same pattern | section 8 |
| Pages, queries, browser UI, backup scripts | none of their own | rendering, `pg_dump` | nothing a model checker would reach | section 8 |

### How they interact

* A captured inquiry commits the lead, its events and its outbox rows in one
  transaction (`StoreInquiry` of `LeadCapture`). *Event delivery* and
  *notification delivery* start from those rows: they are the initial states of
  their modules. Both lock the lead before their own row, and both refuse to
  hand anything over for a lead in the trash; trashing, restoring and editing a
  lead are actions of the environment in both, and actions of `LeadWorkflow`.
* *Inbound receipts* create leads too, and such a lead is notified at once
  instead of being queued (`queued` in `NotificationDelivery!Init`, action
  `NotifyInbound`). Status receipts of WhatsApp come through the same webhook
  and move messages (`ReceiptComes` of `WhatsAppSend`).
* Event delivery and notification delivery are two implementations of one idea,
  stated in `DeliverySlot`: durable attempts in front of a system that cannot be
  asked what it has. `WhatsAppSend` is not one: it may hold the outcome of an
  attempt open and yet end the message (section 7).
* *Conversion* turns a lead into a customer's inquiry: `Convert` of
  `LeadWorkflow` is its effect on the lead, `Converts` of `CustomerPool` its
  effect on the customer. People and teams are common to both (`SalesTeam`).
* *Exports* read the companies that *imports* and the pool write.
* An article that is saved (`ContentAuthoring`) is what a build reads (`Write`
  of `ArticleRelease`); a recorded candidate is what `Select` of
  `WebsiteDeployment` takes as a version. Versions are immutable from there on.
* The *scheduler* calls the dispatch, reminder and inbound commands; what it
  runs and how often is the fairness of those modules (section 5).
* Retention and privacy requests retire *private attachments* (action `Retire`)
  and withdraw consent or erase a lead (`WithdrawConsent`, `Erase`).

## 2. What makes each component correct

* **Delivery.** Never two uploads, first mails or copies for one event, lead or
  message unless the receiving system itself refused the earlier one; nothing is
  sent while an outcome is open; the summary a person sees and acts on is not
  ahead of the facts; a receipt, once stored, is not rewritten and reaches the
  summary; nothing waits forever except for a person.
* **Inquiries.** One event, one lead; a form sent twice, one inquiry; only the
  newest claim decides; a recorded event ends.
* **Lead and customer records.** A page is applied once; the copy of the
  earliest task follows the tasks; the trash pauses them; a customer keeps its
  owner, is never let go with work on it, and is handed over whole.
* **Accounts.** Nobody saves over what they have not seen; an administrator
  remains (not always, section 7).
* **Export and import.** Only the newest claim publishes and customer data is
  not left on disk; a cancel holds (it does not, section 7); a record belongs to
  one company, and the totals of a batch are those of its rows.
* **Files.** An active row has its file; a file on disk is known to somebody;
  what must be deleted is deleted.
* **Website.** An article is written by somebody who may, over what they have
  read; translations are tied one to one; what is published is what was
  reviewed; a preview holds what its build read; receipts form a chain; what is served is
  on record (it is not always, section 7); a prepared operation ends.

`PROJECT.json` lists the hazards, each at its line of the source, with the
properties that would catch it.

## 3. Modules and code

All modules follow the same conventions. One action is one database transaction,
or one step on the network or the file system between two of them. Row locks and
advisory locks appear only where they are held *across* such steps; a
transaction that holds its locks from its first read to its commit is atomic.
What a process remembers between two steps - the possibly stale copies on which
the hazards turn - is in `worker[w]`, `reader[r]`, `request[r]`, `upload[u]` and
so on. Time appears as the outcome of the comparisons the code makes: a claim is
`aged` or `late`, a row is `due`, a version is `stale` or still `fresh`; a step
of the environment may make it so at any moment. `Crash` (or `Die`) may end a
process at any step; it also stands for a transaction that the database refuses
and whose caller gives up. Definitions whose name ends in `Mutant` are not part of any
specification: each is a plausible error in the definition that follows it, and
the property it is listed for in `PROJECT.json` fails once it is put in.

### `EventDelivery`

One row of `lead_event_outbox` at one provider (`Provider`: `meta`, `google`, or
`validation`, Google's validateOnly mode, in which an acceptance is final).

| Variable | In the code |
|---|---|
| `lead` | the lead is in the trash; site, consent, form, route and integration allow sending |
| `outbox` | the row: `status`, `attempt_count`, `provider_request_id` (as the generation it belongs to), backoff over, and `fresh`: the processes for which `updated_at` is still the value they read |
| `latest`, `attempt` | `lead_event_attempt` by generation: `state`, `result_status`, number, lease over, captured versions out of date, and the `final_status` of its `lead_event_result` |
| `worker` | program counter and local variables of a process |
| `flight`, `verdict` | external: POSTs that may still arrive, and what the provider did with each |

Every function has its actions: `dispatch_pending_outbox` is `Dispatch`, the
exact retry of the console `ManualRetry`, `meta_entry_eligible` `MetaEntry`,
`dispatch_google_now` `GoogleEntry`/`GoogleRead`/`GoogleReread`,
`claim_meta_event` the four `Claim...` actions, `begin_meta_handoff` `Handoff`,
`finish_meta_attempt` the operator `Finish` used by `PrepareFails` and `Answer`,
`repair_event_projection` the operator `Projected` used by `Repair`,
`ClaimFindsReceipt` and `Review`, `_commit_google_poll` `PollDecided` and
`PollUndecided`, `repair_google_result` `RepairResult`,
`recover_legacy_meta_handoffs` the three `Recover...` actions, and
`reconcile_marketing_event` `Review`. `Projected` takes the result that its
caller *remembers*, because the code projects an object read in an earlier
transaction.

Taken as true: an answer the client classifies as a confirmed rejection (4xx)
means that nothing was stored, and a reviewer reports what the provider's
records say after sending has stopped (the form requires both confirmations).
Left out: rows older than the attempt table, unsupported integrations, payload
building, and the deferral to `on_commit`.

### `NotificationDelivery`

One lead; both kinds of mail. `lead` holds the columns the mails touch,
`channel` says whether a mail can leave (form or site closed, no recipients, no
SMTP account), `attempt` is `lead_notification_attempt` by kind and generation,
`flight` and `taken` are the mail server. `Sweep` is the selection in
`send_lead_reminders`, the `Claim...` actions are `claim_notification`, `Prepare`
and `PrepareFails` the part of `_send_submission_notification_now` before its
gate, `Handoff` is `begin_notification_handoff`, `Finish`
`finish_notification_attempt`, `Project` `repair_notification_projection`,
`Review` `reconcile_notification_attempt`. The lead is taken to be old enough
for retries and reminders. A reminder in doubt also holds back the first mail
until it is reviewed; the model shows it because the code's one active attempt
per lead covers both kinds.

### `DeliverySlot`

What both promise: one slot; a message holds it from its claim; after the
handoff it becomes free only with the outcome on record. `IsDeliverySlot` of
either module is this specification under the refinement mapping `SlotOf`.

### `InboundReceipt`

One pushed event and its receipt, for Meta and WhatsApp. For Meta the lead is
fetched between two transactions that both check the claim
(`_owns_meta_inbound_claim`, here `Owns`); WhatsApp has no such check, and
`OwnerDecides`, `AttemptsAreCounted` and `EventEnds` are claimed for Meta only
(section 7). Left out: signatures, payload parsing, integrations switched off
and the conversation, status and media rows of WhatsApp.

### `CustomerExport`

One job. A claim token is the number of the claim, and so is the one file that
claim writes. `Build` and `Complete` are the two halves of
`process_customer_export_job`, with the unlocked build between claim and final
transaction; `Fail` is `_fail_processing_job`; `Download...`, `RemoveFile` and
`SaveStatus` are the three unlocked steps of `customer_pool_export_download`;
`StatusFits` is the `CHECK` of migration 0045. A damaged file, an invalid field
list and a lost permission are refused in the same way and are one switch,
`allowed`. Files of a killed worker, or of a write that failed midway, are
collected in the history variable `orphans`, since nothing in the code promises
to remove them.

### `PrivateFiles`

Uploads of one content on one site: rows with different contents share no row,
path or lock. `upload[u]` follows `store_crm_attachment` between its steps on
the disk and in the database; `Runs` is the advisory lock held to the end of the
transaction, `RowFree` the row lock. `Adopt` is the deduplication with its
recheck after the lock (READ COMMITTED: the snapshot is `seen`, the values
tested are the current ones). `Retire` is `retire_private_attachments`;
`Check`/`Remove`/`Record` are `_cleanup_private_attachment`;
`Lock`...`ClearSwept` are `_reconcile_marker`. The disk may lose a stored file
(`Lose`), which an adopting upload restores.

### `WebsiteDeployment`

One site. `selections`, `operations` and `receipts` are the three append-only
tables, `pointer` is what the web server shows, `holder` is `deploy.lock`. A
request is `deploy_selected_website`: `Prepare` or `Replay`, `Observe`,
`Lock`/`Switch` (`WebsiteServingStore.deploy`), `Finalize` (`_finalize`), and its
exception handler `KeepPrepared`/`GiveUp`/`MarkFailed`. `Reconcile` is
`reconcile_website_serving_cache` with apply, atomic because it keeps the site
row locked. Verifying bytes is a step that may fail at any time. Stale forms and malformed
requests are refused without a change and left out.

### `WhatsAppSend`

One outbound message, its dispatchers and the platform. `row` is
`whatsapp_message`; `copy[n]` is what the platform has of the n-th attempt, and n
stands for its message id; `events` are the recorded delivery events, which make
a repeated receipt known; `allowed` is `_assert_send_policy`. `Claim`,
`PolicyRefuses`, `AttemptLimit` and `RateLimited` are the first transaction of
`dispatch_whatsapp_message`, `Post` the call, `AnsweredSuccess`,
`AnsweredRefusal`, `AnswerLost` and `IdConflict` what follows it, `RecoverStale`
`recover_stale_whatsapp_sends`, `ReceiptComes` `process_whatsapp_status_receipt`.
The platform is taken at its word: an HTTP error means that it made no copy.
Left out: conversations, templates, media, payloads.

### `LeadCapture`

`create_submission`: `Arrive` is the look for repetitions without a lock,
`LockAddress`, `LockAttempt` and `LockContent` the three advisory locks and what
is looked at again under each, `StoreInquiry` the commit. `says.at` is the time
at which the request came in, from which the window of repetitions is counted
however long the request waits.

### `LeadWorkflow`

One lead and its tasks. `form[f]` is a disposition page: whether it still shows
the row as it is, and how often it was applied. The ledger in `lead.config` keeps
the last `LedgerLimit` tokens. `editor` is the request of `lead_submission_edit`,
which loads the row, saves all of it and changes the stage in a second
transaction; everything else is one transaction under the lead's lock. `Dispose`,
`AssignOwner`, `MoveToTrash`, `Restore`, `ChangeStage`, `BulkStage`,
`BulkAssign`, `CreateTask`, `UpdateTask`, `CloseTask`, `Convert`,
`WithdrawConsent` and `Erase` carry the names of their functions.

### `CustomerPool`

One customer with its deals, tasks and the inquiry it came from. `pending` is the
pool operation that has checked and not committed yet (`Starts`, `Commits`,
`Aborts`); while it holds the company's row, whatever locks that row or inserts a
row that names it waits, and the rest goes on. `converting` is what a conversion
has read of the company, without a lock. The expected version of a page and the
request's receipt only refuse or answer a request and are left out.

### `SystemAccess`

`edit[a]` is the page an administrator has open: opened (with the digest of what
it shows), sent (the request is let in by what its author may do then), checked
(the row it edits is locked, the form found valid), closed. `Audited` is the
foreign key of the audit row: it makes a submission wait for whoever holds its
author's row. An account that does not exist yet is one that is switched off.

### `CustomerExport` and `CustomerImport` in `CustomerFiles`

`CustomerImport` has batches whose files hold the same external records.
`PreviewFile` classifies each row against the companies there are; `Begin`,
`ImportRow`, `RefuseRow` and `CommitBatch` are `commit_customer_import`, one
transaction with a savepoint for each row. What it has written but not committed
is in `work[b].made`; the unique index on external records makes a second
writer of the same record wait (`ImportRow`) or fail (`Indexed`).

### `ContentAuthoring`

Articles of one language. `draft[u]` is a request: `checked` (the form is valid,
with the rights and the row it had then), `authorised` (user, session and grants
are locked and asked once more), `named` (the identity's advisory lock is held).
`Save` is the rest of `ArticleEditorForm.save`: the comparison with what was read
and the write. `fresh` is whether `updated_at` still is what the request read.

### `ArticleRelease`

Builds of the whole site read the site (`OpenBuild`), the languages
(`ReadLanguages`) and the articles (`ReadPages`) in three queries, while people
write and switch languages. A build with `reviews = NoBuild` is a preview; a
candidate names the preview it was reviewed in. `CreateLanguage` clones every
article of the source and makes or overwrites the row of the language.

### `PreviewBuild`

The builds of one site's local preview. `running` are the rows that
`_create_running_build` looks for; `snapshot` says which build wrote each file
last, `public` the content of each image in the directory that Astro copies, and
`dist` what Astro found of both when it made the result. A build reads any articles
(`ReadContent`) and any active images (`CheckAssets`), so each has file names of its
own; `WriteFile` and `CopyAsset` replace those and leave every other file of the
shared directories as an earlier build left it. `index` stands for the files every
export writes before the articles, `manifest` for those after them. `KillPreview`
leaves the row running, as the code does. `BuiltIsWhole` says what a preview marked as
built holds of what its build has read, and nothing of files under other names.

### Compositions

`SalesRecords`, `Inquiries`, `CustomerFiles` and `WebsitePublishing` put modules
side by side for one run each. Their parts share no lock and no row that changes:
a lead, a customer and an account; an inquiry, a receipt and a message; an export
and an import; an article, a build, a preview and the serving pointer. What one
does looks to another like an action of its environment (section 1) and is in
that module. So a behaviour follows one part, chosen in the initial state
(`record`, `channel`, `direction`, `stage`), and leaves the others as they began:
all interleavings *within* each part are explored, and those *between* parts
would only repeat them.

## 4. The runs

| Run | Instance | Shows |
|---|---|---|
| `event` | Google, 2 processes, 2 generations, 2 counted attempts; 365 960 states | `AtMostOneUpload`, `RetriesAreSafe`, `SummaryIsTrue`, `FactsAreFinal`, the refinement `IsDeliverySlot` |
| `event_live` | Meta, Google or validation, 1 process, 2 generations, 1 fault; 37 816 states | `ReceiptReachesSummary`, `NoEventForgotten` |
| `notify` | 2 processes, a queued lead or an inbound one, 2 first mails, 1 reminder, the channel opened and closed, 1 fault; 672 571 states | `NoMailTwice`, `SummaryIsTrue`, `TableNeverRejects`, `IsDeliverySlot`, `InitialNotForgotten` |
| `inquiries` | an event: 3 processes, both providers, 3 attempts, 4 claims; a message: 3 dispatchers, 4 attempts; a form: 2 requests, 1 attempt, 2 contents, 1 address, times 0 to 2; 291 161 states | `OneLead`, `OwnerDecides`, `EventEnds`; `OneCopy`, `FailureIsTrue`, `MessageSettles`; `NoInquiryTwice` |
| `sales` | 2 people; a lead with 2 tasks, 2 pages, a ledger of 1; a customer with 2 tasks and a deal; 2 accounts and a team; 471 145 states | `AppliedOnce`, `FollowUpFollowsTasks`, `TrashPausesTasks`; `CustomerIsKept`, `NoWorkLeftBehind`, `HandoverMovesWork`; `EditorsAreCurrent` |
| `lead_editor` | 1 person, 1 task, 1 page | a violation: `EditorLeavesTrashAlone` |
| `admin` | 3 accounts, 1 team | a violation: `AdministratorRemains` |
| `export` | 2 workers, 2 downloads, 3 claims; 2 files of 2 records, 3 companies; 304 473 states | `OnlyNewestIsKept`, `ClaimIsExclusive`, `ExportEnds`; `ImportsAreTrue` |
| `export_cancel` | 1 worker, 1 download, 2 claims | a violation: `CancellationIsAuthoritative` |
| `files` | 3 uploads (one stored before), 1 clean-up, 1 recovery, 1 fault; 54 830 states | `FilesAgree`, `PurgedIsGone`, `FilesAreRemoved` |
| `website` | 2 articles, 1 identity, 2 authors; 2 languages, 1 story, 1 text, 2 builds; 3 previews, 1 article, 1 image of 2 contents; 2 requests, 2 versions, 3 selections, 4 operations, 1 loss, 2 faults; 482 283 states | `OneArticlePerIdentity`, `SavesAreSound`; `CandidateIsReviewed`; `BuiltIsWhole`; `ReceiptsAgree`, `PointerMovesAsRecorded`, `OperationEnds` |
| `website_crash` | 1 request, 3 operations, no loss | a violation: `ServedIsRecorded` |

Several of these names are conjunctions of named parts: `RetriesAreSafe` is
`NoBlindRetry` and `RetryableRowsAreClear`; `NoMailTwice` is `OneInitialMail` and
`NoBlindMail`; `NoInquiryTwice` is `OneInquiryPerAttempt` and `RepeatsAreApart`;
`OnlyNewestIsKept` is `NewestClaimPublishes` and `NoLeftovers`; `ImportsAreTrue`
is `RecordsKeepTheirCompany` and `TotalsAreTrue`; `FilesAgree` is `ActiveHasFile`
and `NothingUntracked`; `FilesAreRemoved` is `RetiredIsRemoved` and
`AbandonedIsRemoved`; `SavesAreSound` is `WritersAreAuthorised` and
`NothingOverwritten`; `ReceiptsAgree` is `ReceiptsChain` and
`OneReceiptPerOperation`.

`CHECK_DEADLOCK FALSE` is set everywhere: a delivered event, a processed
receipt, a finished job and an exhausted bound are real ends.

### Why the bounds are enough

* *Two processes.* Every hazard of the delivery modules is about a process that
  returns late and the one that replaced it. The claims serialise the rest: a
  third process finds the same row states as the second. For safety
  the proofs of section 6 remove the bounds altogether.
* *Two generations.* One whose outcome is open, failed or accepted, and one that
  wants to follow it.
* *Three claims of an export, four of a receipt, four attempts of a message.* A
  worker that was overtaken twice, and with four claims `max_attempts` (3) is
  passed by one.
* *Times 0 to 2 with windows of 1* in `LeadCapture`: a repetition inside the
  window, one after it, and a request that waits while the window passes. One
  address and one attempt are enough to meet; requests without either are there
  too (`Unknown`), and two contents let a repeated attempt bring another one.
* *A ledger of 1 token* against 2 pages: the code's 20 forget in the same way.
* *Two accounts in `sales`* are enough for two editors of one account; the
  violation of `admin` needs three.
* *Three companies, two batches of two records.* One company from before and one
  for each record, or two that both match.
* *Two builds*: a preview and the candidate that names it, or two previews.
  Another story or text adds only rows that are read in the same query.
* *Three previews, one slug, one image of two contents*: two builds that leave
  something and one that runs over it, with the article and the image or without,
  or one that was killed, one that runs and one that wants to. The article shows
  that files of another build stay; a second slug (1 280 457 states of `PreviewBuild`
  alone, checked once) adds only the order of the articles.
* *Four website operations, two versions.* Enough for deploy, switch back, a
  failure between, and a late request of the first token.
* *Three uploads of one content.* One stored before, one that adopts it, and one
  that adopts or replaces either.
* *Faults.* Safety runs without liveness allow crashes at every step without a
  bound. A liveness run needs a bound, or the system may fail forever;
  `MaxFaults` counts failures, and in `NotificationDelivery` also changes of the
  channel. One failure at any step is followed by the whole recovery.

All bounds are constants that are called so where they are declared and appear in
guards and nowhere else; `MaxAttempts` of `EventDelivery` and `InboundReceipt`,
`MaxSends`, `LedgerLimit`, `Window`, `RateWindow` and `RateLimit` are settings of
the program.

## 5. Fairness, and what justifies it

* *Delivery* (`EventDeliveryLive`, `NotificationDeliveryLive`). The scheduler
  runs the outbox and the reminders every 60 seconds (`docs/BACKGROUND_TASKS.md`).
  Each round looks at the row afresh, and rounds keep coming while it changes
  in between: strong fairness of `Dispatch` and `Recover...`, and of the `Sweep`
  for first mails, in whichever process. Of events, a process that is up takes its
  next step, and of mails some process that is at work does, so that one of two may
  hang for ever with what it has claimed: weak fairness of these steps. Leases and
  waiting times end, requests in flight arrive or are lost: weak fairness. A poll is
  fair to a provider that has decided (strong fairness of `PollDecided`). People are
  never assumed to act.
* *Messages* (`MessageFairness`). `dispatch_whatsapp_messages` runs again and
  again, and neither the rate limit nor the policy keeps every run from the
  message: strong fairness of `Dispatch` for each sender, weak fairness of the
  steps of a sender that lives, of `RecoverStale` and of time. Nothing is assumed
  of the platform, of users or of crashes.
* *Inbound* (`ReceiptFairness`). `retry_inbound_leads` every 300 seconds, for Meta
  only; that is why nothing is promised for a WhatsApp receipt.
* *Export* (`ExportFairness`). The export worker is restarted when it stops and
  takes over a claim of 15 minutes' age (`docs/BACKGROUND_TASKS.md`). Crashes are
  bounded by the claims.
* *Website* (`LiveFairness`). The operator reopens a prepared operation with its
  token (`docs/ARTICLE_DELIVERY.md`, "replaying the same UUID"), and no step fails
  every time: strong fairness of the steps that can also fail.
* *Files*. An administrator repeats both clean-ups (the command
  `retry_private_attachment_cleanup` and the Data Governance page; neither is in
  the scheduler). Rows are tried least recently tried first and markers page by page, so
  each one's turn comes: strong fairness per row and per marker.

In a composition the fairness is that of the part with liveness; where a
behaviour follows another part, those actions are never enabled and the liveness
properties hold of the part at rest.

## 6. The proofs

Every safety invariant, action property and refinement that a passing run
checks is also a theorem about the specification, for every value of the
constants the assumptions allow. Each proof has the same shape: an inductive
invariant, a lemma that it holds initially, one lemma per action (or group of
actions) that it is kept, and the theorem by `PTL`. Updates are first restated by
their effect on one record (`WorkerStep`, `AttemptStep`, `Became`...), so that the
lemmas about actions do not each expand functions and records. Components that
are composed for one run share a module of proofs.

The assumptions are the ones the modules name. Most only give a bound its type.
Four say more:

* `ProviderAssumption`: the three values of `Provider` in `EventDelivery`.
* `RowsAssumption` (`SystemAccess`): accounts and teams are different rows; they
  are in two tables, and the locks of section 3 are locks of rows.
* `UnknownAssumption` (`LeadCapture`): `Unknown`, for what a form leaves out, is
  no attempt, content or address.
* `NothingAssumption` (`PreviewBuild`): `Nothing`, for a file that is not there, is
  no build and no content of an image.

### Delivery

`EventDeliveryProofs`, for any set of processes, any of the three providers, any
retry limit and any number of generations:

| Theorem | Says |
|---|---|
| `TypesHold` | `Spec => []TypeOK` |
| `NoDuplicateUpload` | `Spec => []AtMostOneUpload` |
| `NeverBlind`, `RetryIsSafe`, `RepetitionIsSafe` | `Spec => []NoBlindRetry`, `[]RetryableRowsAreClear`, and `[]RetriesAreSafe`, which is both |
| `FactsStay` | `Spec => FactsAreFinal` |
| `SummaryHolds` | `Spec => []SummaryIsTrue` |
| `AttemptsAreADeliverySlot` | `Spec => IsDeliverySlot` |

None of the invariants is inductive: that no second upload exists says nothing
about a process that is about to make one. `IInv` adds

* `AttemptsInv`, what each attempt state says about the outside: a claimed,
  failed or cancelled attempt has nothing under way and nothing at the provider,
  an accepted one has a verdict, a recorded result is the verdict;
* `OrderInv`: only the latest generation is unsettled. This is where an
  expired claim may be replaced and a handoff may not;
* `WorkersInv` and `OneOwner`: what a process may still rely on at each point of
  its program, in particular that a remembered result that would make the row
  retryable can only come from an attempt that has ended so, and that no two
  processes hold the same generation between claim and answer;
* `QuietRows`: a row that is offered for sending, or carries the stamp of an
  exact retry, has only settled attempts behind it. It is what makes the stale
  projections harmless: `Projected` may write an old status, but never one that
  invites another upload.

`SummaryHolds` needs a second invariant over the first. A stale copy may be
projected at any time, so it is not enough that the row is true: whatever a
process remembers and whatever an attempt has on record must be true as well
(`TruthInv`, in which `Says(s, verdict)` is what a status claims of the provider).
It is kept because verdicts only grow (`VerdictsGrow`): what a process remembers
may be old, but it was true and what the provider has it keeps.

The refinement maps the attempt under way to the slot (`SlotOf`). By `OrderInv`
there is one at most (`UnderWay`), so the slot is a function of that attempt and of
where its upload is (`HeldSlot`, `FreeSlot`); each action then is a step of
the slot or leaves it alone. The delicate ones are the ends: when a generation is
settled (`SettleSlot`) nothing of it may still be under way, which `AttemptsInv`
and `WorkersInv` give.

`NotificationDeliveryProofs`, for any set of processes, any number of attempts of
each kind and any kind of lead: `TypesHold`, `NoSecondMail` (`[]NoMailTwice`),
`SummaryHolds` (`[]SummaryIsTrue`), `TableAcceptsEveryStep` (`TableNeverRejects`)
and `AttemptsAreADeliverySlot` (`IsDeliverySlot`). Here the two kinds of mail have
generations of their own but share one active attempt, so what `OrderInv` is for
events falls apart into `InOrder` (of its kind, the attempt under way and the
receipt that rules out another mail are the latest) and `OneUnderWay` (of both
kinds, one). `OnNetwork` and `WorkerInv` are as above. The summary is part of the
invariant: a process that is to write it remembers only whether its own mail was
accepted, and an accepted mail is at the server.

`DeliverySlotProofs`: `NothingIsUnrecorded`, for any set of messages: in the
abstract specification a slot that is free leaves nothing delivered and
unrecorded. With the two refinements it holds of both implementations.

### Inquiries (`InquiriesProofs`)

| Theorem | Says |
|---|---|
| `ReceiptTypesHold`, `EventIsOneLead`, `AttemptsCounted` | `Spec => []TypeOK`, `[]OneLead`, `[]AttemptsAreCounted` |
| `OnlyOwnerDecides` | `Spec => OwnerDecides` |
| `MessageTypesHold`, `MessageIsSentOnce`, `FailureCanBeTrusted` | `MessageSpec => []MessageTypeOK`, `[]OneCopy`, `[]FailureIsTrue` |
| `DeliveredForGood` | `MessageSpec => DeliveryIsFinal` |
| `InquiryIsCapturedOnce` | `CaptureSpec => []NoInquiryTwice` |

*Receipts*, for any processes and any limit of attempts and claims. `CountInv`
says that a process on a Meta receipt remembers the number of its own claim, so
that the one that finds its number on record is the newest. The lead is protected
by the lookup of the submission, not by the claim: `OneLead` holds although an
overtaken process may still store (`StoredInv`).

*Messages*, for any dispatchers and number of attempts. That one copy lives says
nothing about a dispatcher that was taken for dead. Only the newest attempt has a
dispatcher or a live copy (`WorkerInv`, `CopyInv`), a row that is clear has neither
(`ClearInv`), and the reported failure of the copy the row names is used up before
the next attempt begins (`IdInv`): so a failure that is repeated cannot send the
message again.

*Forms*, for any requests, attempts, contents and addresses, and any windows and
limits. Two requests that hold locks of one kind hold different ones (`LocksInv`).
Hence what a request looked for under its lock is still so when it commits
(`FoundInv`), however many locks it waits for in between.

### Lead, customer and account records (`SalesRecordsProofs`)

| Theorem | Says |
|---|---|
| `LeadTypesHold`, `DispositionIsOnce`, `ConvertedStaysOut` | `Spec => []TypeOK`, `[]AppliedOnce`, `[]TrashedIsNotConverted` |
| `TasksSetFollowUp`, `TrashPauses`, `ConsentIsAsked` | `Spec => FollowUpFollowsTasks`, `TrashPausesTasks`, `EventsHaveConsent` |
| `PoolTypesHold`, `PoolAgrees`, `ConvertedInquiryStays` | `PoolSpec => []PoolTypeOK`, `[]OwnerMatchesState`, `[]ConvertedIsNotTrashed` |
| `OwnerIsKept`, `NothingLeftBehind`, `HandoverIsWhole` | `PoolSpec => CustomerIsKept`, `NoWorkLeftBehind`, `HandoverMovesWork` |
| `SavesAreCurrent` | `AccessSpec => EditorsAreCurrent` |

*Leads*, for any people, tasks, pages and due times: a page that was applied is
never taken for current again (`PagesInv`), whatever the ledger forgets.
*Customers*, for any people, deals and tasks: what a pool operation has checked
stays true until it commits (`PendingInv`), since whatever could change it waits for
the company's row; a conversion holds the inquiry's row as it found it
(`ConvertingInv`); a company that does not exist has no owner (`AbsentInv`).
*Accounts*, for any accounts and teams: an editor that has compared what it saw
holds the row alone (`HeldInv`), so what it saw is still so (`CheckedInv`).

### Exports and imports (`CustomerFilesProofs`)

| Theorem | Says |
|---|---|
| `OnlyNewestFileStays` | `Spec => []OnlyNewestIsKept` |
| `ClaimHasOneEnd` | `Spec => ClaimIsExclusive` |
| `ImportsStayTrue` | `ImportSpec => []ImportsAreTrue` |

*Exports*, for any workers, downloads and claims: while a claim is processed the row
names the newest one, and it names a file only once there is one to offer
(`JobInv`); whoever is at work has a claim, so the token of a row that was
cancelled or offered again is nobody's (`HoldersInv`). *Imports*, for any records,
companies and batches: an open commit counts what it has written so far, row by row
(`ProgressInv`); what it has written is nobody else's record (`MadeInv` against what
is committed, `MadeApart` against other open commits, which is what the unique index
gives). The totals are cardinalities, so each step moves one row from one
set to another (`FiniteSetTheorems`).

### Files (`PrivateFilesProofs`)

For any number of uploads, stored files, clean-ups, recoveries and faults:

| Theorem | Says |
|---|---|
| `TypesHold` | `Spec => []TypeOK` |
| `FilesStay`, `FilesAreTracked`, `RowsAndFilesAgree` | `Spec => []ActiveHasFile`, `[]NothingUntracked`, and `[]FilesAgree`, which is both |
| `RetirementIsKept` | `Spec => PurgedIsGone` |

A file can be deleted by the upload that made it, by the clean-up of a retired
row and by the recovery of an abandoned upload. The invariant says what each may
rely on between the moment it looks and the moment it deletes:

* `AdoptionsInv`: the row an upload has locked goes on naming the adopted file;
* `CleanersInv`: a clean-up has its row to itself, and no active row comes to
  share the file it found unshared. New sharers need an active row to adopt,
  and `RowsInv` keeps running uploads out of the table;
* `SweepersInv`: a token that recovery found unnamed belongs to an ended upload,
  so that nobody can come to name it;
* `JournalsInv`: a running upload has its marker, and its file until it adopts
  another.

### Website (`WebsitePublishingProofs`)

| Theorem | Says |
|---|---|
| `ContentTypesHold`, `IdentitiesStayApart` | `ContentSpec => []ContentTypeOK`, `[]OneArticlePerIdentity` |
| `WritesAreAllowed`, `NothingIsLost`, `ArticlesAreSafe` | `ContentSpec => WritersAreAuthorised`, `NothingOverwritten`, and `SavesAreSound`, which is both |
| `CandidatesAreReviewed` | `ReleaseSpec => []CandidateIsReviewed` |
| `BuiltPreviewIsWhole` | `PreviewSpec => []BuiltIsWhole` |
| `ReceiptsFollowOperations` | `Spec => []ReceiptsAgree` |
| `PointerIsMovedByTheLedger` | `Spec => PointerMovesAsRecorded` |

*Articles*, for any articles, identities and authors: the identity about to be
given is nobody's, and two requests that hold an identity's lock hold different
ones (`NamesInv`); a transaction keeps the rights it asked for (`RightsInv`); a
request that is still fresh has seen the row as it is (`ViewsInv`); a row that does
not exist is empty (`RowsInv`). `IdentitiesStayApart` needs all of them: a save that
gives no identity writes the one the article had, because the row was compared.

*Candidates*, for any languages, sources and builds: once a candidate has accepted
what the preview holds, both stay as they are (`CandidateInv`). *Previews*, for any
builds, articles and images, and whatever lies in the shared directories: one build
at most is at work, and the files and images it has put under the names it read are
still its own (`SnapshotInv`, `ImageInv`, `BuildInv`); the build that is marked as
built has ended, and its result stays until another build reaches Astro, when the
row has long said `exported` (`BuiltInv`).

*Deployment*, for any versions, requests and bounds: there is one prepared operation
at most, and it names what is deployed (`OnePrepared`); a request that copies
holds the lock under which it compared the pointer (`CopyInv`). So a receipt that
is added continues the chain, and a switch starts from what its operation
recorded.

### Compositions

`InquiriesKeepTheirParts`, `RecordsKeepTheirParts`, `FilesKeepTheirParts` and
`SiteKeepsItsParts` prove that a run of a composition is a run of each of its parts.
What is proved of a part therefore holds of what the runs check.

### Only model-checked

* *Liveness*: `ReceiptReachesSummary`, `NoEventForgotten`, `InitialNotForgotten`,
  `ExportEnds`, `OperationEnds`, `EventEnds`, `MessageSettles` and
  `FilesAreRemoved`. The prover reaches neither fairness nor `ENABLED`.
* *The four violations* of section 7 are counterexamples, and need no proof.

## 7. What was found

Four runs end in a violation, each of a sentence the repository states.

* **A cancelled export can come back** (`export_cancel`).
  `customer_pool_export_download` reads the job without a lock, finds it expired
  or no longer authorised, and saves only `status`
  (`console/customer_pool_exports.py:735`). A cancel in between is overwritten by
  `expired` or `failed`, and such a job can be retried. The docstring at
  `console/customer_pool_exports.py:503` says that cancellation remains
  authoritative. The data is safe: the file is gone in either case, and a claim
  cannot be overwritten, because migration 0045 ties the token to the status.
* **A served website without a record** (`website_crash`). A request dies after
  it switched the pointer; the replay cannot open the candidate or serving store
  and marks the operation failed without looking at the pointer
  (`console/website_deployment.py:291`). The site shows a version with neither
  receipt nor prepared operation, and later deployments of other candidates are
  refused with `website_deployment_recovery_required`. `docs/ARTICLE_DELIVERY.md:115`
  says that a crash after the switch leaves `prepared`, and that `failed` is for
  failures known to have come before the switch.

* **An editor writes to a lead in the trash** (`lead_editor`). `save_operations` of
  the older lead editor saves the assignee, the follow-up time and the whole
  `config_json` of the row it read, without a lock (`console/lead_forms.py:603`).
  If the lead was moved to the trash since, those fields change there; if it was
  erased, `config_json` from before comes back. `update_submission_stage`, which
  the request calls next, says that a stale editor object must not mutate a lead
  another operator has trashed (`leads/services.py:1246`); by then it has.
* **No administrator remains** (`admin`). `ConsoleUserForm.clean` looks for another
  active administrator without locking one (`console/system_forms.py:175`), and
  the request locks the account it edits alone. With two administrators who
  switch each other off the foreign key of the audit row makes each wait for
  the other, and the database ends one of them. With three, A switches off B, B
  switches off C and C switches off A: each finds the third active, the requests
  wait for each other's rows one by one, and the first that may commit frees
  another in time. The message of the form says that the system must keep at
  least one active administrator.

Met while modelling, without a run of their own:

* *Website, two requests with one token.* The second finds `deploy.lock` busy
  and marks the operation failed (`website_deployment.py:305`) while the first is
  still copying; the first then switches. The receipts stay right
  (`OneReceiptPerOperation`), the pointer is again unrecorded. A late request
  that read an operation before it was activated can also switch the site back
  to that operation's target after a newer deployment returned to the version it
  replaced. A lost or foreign pointer under a prepared operation leaves an
  operation that can neither end nor be passed until somebody restores the
  pointer (`website_deployment.py:284`); `OperationEnds` excludes it.
* *Export page.* The history offers a retry for a ready job past its expiry
  (`console/customer_pool_views.py:727`), which the retry view refuses
  (`customer_pool_exports.py:774`) until a download has marked it expired.
* *Inbound WhatsApp.* The failure of a worker whose claim was taken over is saved
  over the newer worker's result (`leads/inbound.py:1338`); the lead stays one
  (`OneLead` covers both providers).
* *WhatsApp sending.* A message the platform reported as failed and that is sent
  again gets another message id; the conflict is raised outside the `try`
  (`leads/whatsapp_cloud.py:716`), the result is rolled back and the message,
  sent, is later declared failed - with an open code, so that `FailureIsTrue`
  holds. `_rate_limit_delay` (`:572`) saves `queued` with `retryable` still set,
  which `whatsapp_message_retry_check` of migration 0026 refuses. A status event
  with a provider time before the local time of acceptance is dropped
  (`leads/inbound.py:1144`).
* *Customer pool.* `claim_customer` locks the pool state before the company
  (`leads/customer_pool_services.py:605`), the other operations the company
  first: two of them can wait on each other until the database ends one, as can
  the older task page, which locks the task before its lead
  (`console/sales_views.py:983`). The docstring of `assign_customer` promises all
  active tasks of the customer; a task that names only the lead, a contact or a
  deal and is created between the listing and the update stays with its owner,
  and one that is closed in between gets the new one. The older `bulk_assign`
  also rewrites owners of closed tasks and does not ask about the trash. A
  conversion whose company is released between its look and its commit leaves an
  active deal on an available customer; `NoWorkLeftBehind` is about pool
  operations only. Two conversions can both find no company of a name and
  create one each (`ConvertsElsewhere`).
* *Erasure.* The older editor can undo it (see above).
* *Languages.* The form that creates a language refuses one the site has, but the
  command behind it makes or *overwrites* its row, with `is_default` off
  (`sitecore/management/commands/bootstrap_locale_content.py:133`): if the
  language was created and made the default in between, the site is left with a
  default language that is not flagged, which may then be disabled, and its
  articles are overwritten by the clones. No release can be built while the
  default is disabled (`Deliverable`).
* *Preview builds.* The row of a killed build stays `running`, nothing clears it,
  and every later build of the site is refused
  (`console/release_pipeline.py:648`). Nothing clears the snapshot and image
  directories: files of withdrawn articles and retired images stay and are in the
  result of every later build (`export_release_snapshot.py:169`,
  `release_pipeline.py:613`). Articles of two languages with one slug, as
  `bootstrap_locale_content` clones them (`:282`), share `articles/<slug>.json`, where
  the last one is left; an article with the slug `index` replaces
  `articles/index.json`. The images are read after the export, so they may be newer
  than the list in `assets.json`.
* *Imports.* A commit may overwrite what somebody changed in a company after the
  preview; a row that was new and whose record another company has by now fails
  in every commit; the counts of the 21-column preview are saved after its
  transaction.
* *Teams.* A membership or a lead may be added to a team while it is switched off:
  the count of what is left to it locks only rows that exist.

## 8. What is not modelled

* *Scheduler.* It runs jobs one after the other under an advisory lock and checks
  the lock's session around each. What matters of it for the modelled jobs is
  that they run again and again and that a lost session may leave two runs side
  by side for the rest of a job; the delivery modules have several processes
  without any such lock, so they do not rely on it.
* *Retention, privacy and e-mail settings.* Their effects on modelled rows are
  actions there (`Erase`, `WithdrawConsent`, `Retire`, `Reconfigure`); the
  selection of what is due is a query.
* *Flow workspace and tracking flows.* A draft guarded by an expected version in one
  transaction: the pattern of `SystemAccess`, with nothing between the check and
  the save.
* *Public assets.* Their upload journal is that of private attachments with other
  paths.
* *The installer, packaging and backup scripts* are run by hand, once, around
  `psql` and `pg_dump`.
* *Pages, queries and forms* (`console/views.py`, `payloads.py`,
  `workbench_queries.py` and most of `console/`) are the larger half of the
  implementation. They parse requests, build querysets and render; where one of
  them changes state it does so through the services above, which are modelled.
  That is also why the lines that `map` names stay a minor share of all lines.

Within the modelled components: message texts, payloads, signatures, paths and
sizes; the SQLite mode of development; database failover; and what the modules
of section 3 name. Isolation is PostgreSQL's READ COMMITTED with the row and
advisory locks the code takes.

## 9. Plan

Done, in the order of what loses or duplicates something outside the database,
then of what confuses records, then of what is published: the modules of section
3. What is left, in this order:

1. `Scheduler`, with the loss of its session, in place of the words of section 5.
2. Contacts and evidence in `CustomerPool`, and its lock order as state, since
   waiting is what is in question there.
3. Conversations and media of WhatsApp.

Proofs: no safety property that a run checks is without its theorem, and each
new module of this list is to come with its own: for the lock order, that what is
waited for is ordered; for the scheduler, that two runs side by side need a lost
session. The liveness properties stay with TLC.

# Formal models of the Noq SaaS (cloudumi)

This directory holds TLA+ models of the parts of the Noq control plane where
several handlers, tasks and outside services act on the same state, TLC
configurations that check them on small instances, and proofs about them that
TLAPS checks for every instance. Everything is translated from the Python
source; GitHub and SQS, which are not in the repository, are modelled from how
the source uses them and marked external.

## The system

Noq lets employees of a tenant (a customer) request changes to cloud
permissions. A Tornado API (`src/api`) and Celery workers
(`src/common/celery_tasks`) share a Postgres database, DynamoDB, Redis and S3,
and talk to GitHub, AWS, Slack and the identity providers. Handlers are
`asyncio` coroutines: everything they read before an `await` may be stale after
it, and nothing in the database access is locked or versioned: a row is read in
one session and written in another.

| Component | State it keeps | Operations | What is hard | What makes it correct |
|---|---|---|---|---|
| Self-service IAMbic requests (`common/iambic_request`) | row of `request`, `revert_request_reference`, the pull request on GitHub | create, view, update, approve, apply, reject, revert; the webhook task | handlers interleave at every await; webhooks are lost, late, repeated; two writes and several GitHub calls per operation | the status never claims what has not happened; nothing unapproved is applied; reverts are one to one; a merged request is reported in the end |
| GitHub webhook queue (`common/github/webhook_event_buffer.py`) | SQS messages and what a run has received | receive, look up tenants, fan out, delete | overlapping runs, redelivery, one poisoned message in a batch, a limit per run | a message is deleted only after an attempt; the tenants linked to its installation, and no others, are told; nothing stays for ever |
| GitHub installations (`common/github/models.py`, `api/handlers/v3/github`) | `github_installs`, `github_oauth_state` | link, unlink, OAuth callback | the queue deletes rows a tenant may be changing | a webhook reaches the tenants that have linked its installation |
| Git working directories (`common/iambic/git/models.py`) | the tenant's clone, a working directory per request on shared storage, the branch on GitHub | set up, pull, reset, write, stage, commit, push | handlers share a directory without a lock; forced pushes; files left by a handler that died; lost directories | what is pushed is what was asked for; no commit is thrown away |
| IAMbic template sync (`common/iambic/templates/tasks.py`) | template tables, `iambic_templates_last_parsed` | full create, incremental upsert, delete, rollback | the window is advanced before the work and put back after a failure; runs overlap; a run is many transactions | between runs the tables agree with the repository, a failed full create is repeated until it gets through |
| Provider definitions (`common/iambic/config`) | provider definitions of a tenant | reconciliation with the configuration in git | three rounds of bulk writes per provider | the table agrees with the configuration |
| Celery tasks and schedule (`common/celery_tasks`) | Redis broker | periodic fan-out to tenants, retries | late acknowledgement, expiry, retries of what was done | the tasks are safe to repeat |
| AWS Marketplace (`common/lib/aws/marketplace`) | subscriptions and usage in DynamoDB | queue of notifications, metering | retries, errors that are swallowed | usage is metered once |
| Tenant AWS integration queue (`common/lib/tenant_integrations/aws.py`) | SQS, tenant configuration | registration of accounts and roles, answers to CloudFormation | a message that raises leaves its batch undeleted; a hub account is two writes | what is deleted was answered; what was answered with success is registered |
| Tenant static configuration (`common/config`) | one DynamoDB document per tenant, a copy of it for ten seconds | read, modify, write of its parts | concurrent writers of different parts, reads that are old or fail and return an empty document, decisions by the copy | no part is lost but by a stale write |
| Cloud policy requests v2 (`common/lib/v2/requests.py`, `common/lib/aws/utils.py`) | one DynamoDB item per request, what AWS grants | create, apply, cancel, approve, reject, date; page views; removal of what has expired | every call writes back the whole item it read; AWS calls and writes fail half-way | the record agrees with AWS; a closed request has nothing applied; what has expired is removed |
| Role access (`common/aws/role_access`) | tables `identity_role` and `role_access` | sync per tenant; lookup by the credential handlers | tasks overlap; rows are listed early and deleted late; either half may fail | access follows the templates; nobody loses what everyone knows to be granted |
| Credential authorization mapping | caches of roles and of who may assume them, Redis and S3 | refresh per account and tenant | parallel runs, partial refresh, two stores | the caches follow the accounts |
| Users, groups, SCIM | accounts, memberships, tokens | create, delete, verify, reset | soft deletes, tokens reused | a deleted user has no access |
| Challenge authentication (`common/lib/challenge`) | challenges in DynamoDB | create, validate, poll | the poll races the validation | a challenge is used once |
| Request types, identity providers, Slack, notifications, front end | reference data, none, none, none, none | | mostly I/O and data | |

`PROJECT.json` lists the components with their sources, and under `hazards`
what this code is exposed to, with the line and the properties that cover it.

### How the components interact

    GitHub --webhook--> lambda --SNS/SQS--> webhook queue task --Celery--> webhook task
                                               |  reads github_installs        |
                                               |                               v
    browser / Slack --> API handlers ----------+--------> row of `request` <---+
                            |                                  ^
                            +--comments, closes--> pull request+--views repair the status
                                                       | merge
    webhook task, beat --Celery--> template sync <--pull-- repository
                                       +--> template tables, Tenant.iambic_templates_last_parsed

A person acts on a request through the API; the handler comments on the pull
request (`iambic approve`, signed, or `iambic apply`), the IAMbic app in the
tenant's repository reviews, applies and merges, and GitHub tells the webhook.
The status in the row is a cache of all this, which the handlers, the task and
every view try to keep up to date.

## Modules

| Module | Models | Kind |
|---|---|---|
| `RequestStatus` | what the status of a request promises its readers | abstract specification |
| `IambicRequest` | rows, pull requests, API handlers and the webhook task | component; implements `RequestStatus` |
| `IambicRequestProofs`, `IambicRecordProofs` | types and statuses; approvers and applies, the refinement, reverts and Reverted rows | proofs about `IambicRequest` |
| `WebhookQueue` | SQS, the lambda, the task that drains the queue, `github_installs` | component |
| `WebhookQueueProofs` | | proofs about `WebhookQueue` |
| `TemplateSync` | the task that brings the templates of a repository into the database | component |
| `TemplateSyncProofs` | | proofs about `TemplateSync` |
| `RequestBranch` | the git side of a request: branch, clone, shared working directory | component |
| `RequestBranchProofs` | | proofs about `RequestBranch` |
| `PolicyRequest` | a v2 request, its commands and views, and the removal of what has expired | component |
| `PolicyRequestProofs` | | proofs about `PolicyRequest` |
| `AccountRegistration` | the integration queue and the accounts in the tenant's document, with the sync of organizations and the admins' API | composition of two components |
| `AccountRegistrationProofs` | | proofs about `AccountRegistration` |
| `RoleAccess` | the task that turns access rules into rows, and the lookup | component |
| `RoleAccessProofs` | | proofs about `RoleAccess` |
| `MC...` | symmetry and the properties the code breaks | TLC |

Operators described as "a mistake" are plausible bugs of the code beside it.
No specification uses them; substituting one for its original shows that the
property it is listed with in `PROJECT.json` notices.

### IambicRequest

| Variable | In the code |
|---|---|
| `row` | `Request.status`, `approved_by`, `created_by` (models.py:559); the columns no handler tests are left out |
| `pr` | the pull request: open, closed or merged, and its reviews in order |
| `payloads` | the arguments of `update_self_service_state` that GitHub has given rise to; the set only grows, and a task takes any member at any time, which is loss, delay, repetition and reordering at once |
| `signed`, `applied` | the signed `iambic approve` and the `iambic apply` comments |
| `revertOf` | the table `revert_request_reference` |
| `referred` | history: the reverts each request was ever referred to |
| `worker` | local variables of the running handlers: the row as it was loaded (`old`), as it was changed in memory (`cur`), the references and linked rows that were joined to it (`refs`, `links`), and the pull request as `load_pr` saw it (`view`) |

A handler becomes a chain of actions that end where it awaits something that
others can see: `Begin...` (read the row, check the guard, change the object in
memory), `Load` (`load_pr`), `Act...` (the effects on the pull request and the
decision), `Write`, and `Respond`/`Settle` (the two writes of
`maybe_update_request`). `revert` goes through a whole `create` before it
`Refer`s. A call the guard refuses has no effect and is no step.

`Written` models what SQLAlchemy does: it updates the columns that differ from
what was *loaded*. Two consequences are in the model because the properties
depend on them: a handler that leaves a column alone keeps another handler's
value, and `approved_by.append(...)` (request_crud.py:403) changes the loaded
list in place, so the write does not see it. 
`reject_request` writes with `session.merge` instead (`WriteMerged`), which copies
every column that was loaded, and cascades to the references `get_request`
has joined to the row and to the requests at their other ends (`RefsOf`,
`LinksOf`). So the linked rows go back to what was loaded, a reference written
since is deleted as an orphan, and one deleted since is inserted again
(`MergedRow`, `MergedRefs`), or the unique columns refuse it and nothing is
written (`Refused`). A rejected revert may in this way turn the request it was
to revert from Reverted to Applied again. `RequestStatus` lets one write change the claims
of several requests for that reason.

### WebhookQueue

`mail` is the queue with receive counts, `consumer` what each run of the Celery
task holds: its batch, the receipts to delete (`processed_messages`), the
number of events, and what the handler has read. `outcome`, `ever` and `since`
are history variables for the properties. Between `Lookup`, which reads
`github_installs`, and each `Tell` or `Unlink` other actions may interleave, as
at the awaits of `webhook_request_handler`.

### TemplateSync

| Variable | In the code |
|---|---|
| `history` | the default branch of the tenant's repository (external) |
| `clone` | the working directory `clone_or_pull_git_repo` updates, one for all tasks |
| `lastParsed` | `Tenant.iambic_templates_last_parsed`; `Never` is NULL |
| `table` | per file the row of `iambic_template` with its `iambic_template_content`, and its `iambic_template_provider_definition` rows: which version of the file each of the two was made from |
| `worker` | local variables of the running tasks: the stamp they read, the three lists of files, how far each modified file is, the references to add |
| `seen` | history variable: the commits a run has carried through |
| `overlapped` | history variable: a task was started while another one was running |

One action is one database transaction, or one read of the clone, of
`sync_tenant_templates_and_definitions` and what it calls. The run reads the
tenant (`Begin`), clones or pulls (`Pull`), stamps (`Stamp`), and then creates
everything (`PlanFull`) or works out a diff (`PlanChanges`, with the arithmetic
of `from_sha` and `to_sha` in `Bases`). `Create`, `Add`, `AddRefused`,
`ClearAll`/`ClearSome` are the create with its fallback, which is called from
three places (`calling`) and returns to each (`EndCreate`). `Look`,
`WriteContent`, `Unref` are the transactions of `update_tenant_template` per
file, in any order between files; `Link` is the `bulk_add` of references that
`gather` runs beside a create. `Forget`, `Wipe` and `Restore` are the exception
handlers; `Fail`, `Crash`, `NoDefinitions` and `Disconnected` what brings a run
there or ends it.

Time is counted in commits: a stamp is the number of commits made before it, so
"older than the stamp" is exact. (Git's times have no fractions, so in reality a
commit of the same second may look older; that would lose more, not less.) The
diff, made by the IAMbic library, compares two trees; for a missing sha it is
either the last commit or nothing, since the library is not in the repository.
A file keeps its path and holds one template, so a row is identified by its
file. The selection and the deletion of `ClearSome` and of `Delete` are one
action; with overlapping runs a row could change between them. When
references cannot be added, the create `gather` has left running is not
followed. Evaluating a template yields one of three scopes: no
provider definition, only imported ones, which an update counts and a create
does not (`evaluate_on_provider`), or managed ones.

### RequestBranch

| Variable | In the code |
|---|---|
| `commits`, `main`, `branch` | GitHub: the commits, the default branch, the branch of the request (external) |
| `clone` | the tenant's clone: where its default branch stands, whether it has a local branch of the request's name (`default_file_path`) |
| `dir` | the directory of the request (`request_file_path`): what is checked out, its index and its files, as a worktree of the clone or a clone of its own (`base`), or stuck in a merge |
| `handler` | which operation a handler is in, at which git command, the changes it was given, and the commit it based them on or loaded |
| `disturbed` | history: two handlers have been writing, or main has moved in a worktree under one, or under uncommitted files |

One action is one git command, or several whose order nobody else can tell;
git itself is external and modelled by what the commands do to commits, index
and files, including when they refuse (`PullRaises`, `ResetRaises`,
`StageRaises`, `RebuildRaises`). Which handler may be called when, and the row,
are `IambicRequest`'s subject. Left out: notes and deleted files, which no
caller passes (models.py:427 has a misspelt command for the former), the
two commands of a reset as separate steps, and the line of a body that is left
out for old versions of IAMbic.

### PolicyRequest

| Variable | In the code |
|---|---|
| `row` | the item of `policy_requests_multitenant`: status, status of each change, what of it the tenant's accounts support, expiration date, the marks of policy names and Sids |
| `grants` | what AWS grants: a change and the mark its policy or statement bears (external) |
| `past`, `marks` | which expiration dates have passed, how many marks there are |
| `handler`, `expirer` | the copies of the item that API calls and the removal hold, and how far they are |
| `spoilt` | history: changes whose record a race, a failed write, a new mark or a foreign account has put out of step; the property about records leaves them out, and nothing else |

A command is a chain `Begin`-like action (read and test), `ApplyOne` per
change, `RecordChange`, `Write`, `Settle` (`maybe_approve_reject_request`), each ending at an
await. Every write replaces the whole item. The removal (`FindExpired`,
`RemoveGrant`, `KeepGrant`, `WriteExpired`) does the same to the approved
requests whose date has passed. Which changes it cannot get is a matter of
their kind and not of chance, so the kinds are constants. `Lasting` changes have no
branch; a `Misnamed` one, the policy of a bucket or a queue, is looked for under the
type of the resource instead of its name; one in a `Foreign` or `ReadOnly`
account is not, or may not be, written to. Of a `Topics` policy, whose reading goes
wrong, an empty one is left, or the write is refused. At a `Trust` policy whose role is missing, and at the `Stray`
tag of a resource outside IAM, the removal ends without its write (`Halt`), on every pass.
`Removable` is the rest, and `ExpiryHappens` is about that. Two things
are simpler here: the changes of a request to several topics are to different
topics, and there is one request, while in the code what is raised at a stray tag
ends the tenant's loop, so that the requests after it are not reached either. Left out: who may issue a command (but for the
creator's right to have a request approved at once, `allowed` in `Create`),
credentials a caller may pass, detaching, requests for other tools, and that
several workers may run the removal at the same time.

### AccountRegistration

| Variable | In the code |
|---|---|
| `mail` | SQS messages; there is no dead-letter policy for this queue (`deploy/.../messaging/main.tf`) |
| `doc`, `versions` | the tenant's document, of which only the accounts are modelled, and the document as it is and as it was, which is what may be read |
| `task` | the batch, the receipts and the stage of a run, and of everyone the document as read and as changed |
| `told`, `mute` | history: the answers to CloudFormation, of success or of failure, and those that were lost |
| `spoilt` | history: the hub and the accounts an admin has removed, or that were lost to a write made of an earlier document or of none |

`ReadConfig` and `StoreConfig` are the two halves of every change of the
document; between them others read and write. What is read is `Readable`: no read is
consistent, and decisions go by copies up to ten seconds old, so it may be any
version; and after a `ClientError` `get_tenant_static_config_from_dynamo`
returns an empty document, on which the writers build just the same. A registration so may wipe
the hub and all other accounts, its own first half included, and answer SUCCESS. A hub account goes through them
twice, once for itself and once as a spoke. `StoreEqual` is how an entry is
found again: it is the same only if every field is. A registration, and a sync
that takes an account over, each describe an account in one way here
(`Registered`, `Onboarded`); in the code a stack that is set up again with another
name adds another entry.

### RoleAccess

| Variable | In the code |
|---|---|
| `clone` | the access rules in the repository on disk: per role a set of users and groups, or no template; or a template that cannot be parsed |
| `people` | ids of the users and groups that are not deleted |
| `identity`, `access` | the tables `identity_role` and `role_access` |
| `task` | the stage of each run and what it has read: rules, roles to remove, people, roles, templates to do, rows left to delete |
| `alone` | history: the run nothing else has met so far |

One action is a transaction or a reading of `sync_identity_roles` and
`sync_role_access`, in their order. The foreign keys are in the model: deleting
a role deletes its rows, and a row cannot refer to a role that is gone, which
ends the run. Users and groups go through equal branches of the code and are one kind here. A template
for several accounts is one transaction for several roles; here a role is a
template. The table of accounts is left out: nothing here reads it.

## What is checked

| Run | Question | Answer |
|---|---|---|
| `request_safety` | two workers, one request: can the row claim what is not so, can an unapproved change be applied, are approvers real, is the promise kept | holds |
| `request_revert` | three requests that revert each other: are references one to one, who may take Reverted back, is the status true and the promise kept when a rejection writes linked rows too | holds |
| `request_live` | is a merged request reported in the end | holds |
| `queue` | is a message deleted only after an attempt, and does every webhook leave the queue | holds |
| `routing` | are the right tenants told | holds |
| `sync_steady` | do rows and references follow the repository when runs do not overlap and nothing else fails | yes, but for two named exceptions |
| `sync_retry` | does a failed full create get through in the end | yes |
| `sync_window` | are all changes since the stamp taken up | no |
| `branch` | is what is pushed what was asked for, and are commits kept, with handlers that share a directory, die or lose it | holds |
| `policy` | does the record of a request agree with AWS, is nothing applied in a closed one, is what has expired removed | holds, for what nothing has spoilt and the removal can get at all |
| `registration` | is what CloudFormation was told so, and is everything it waits for answered before it is deleted; how often can an account be listed | holds, but for parts an admin removed or a stale or empty read has lost |
| `role_access` | does access follow the templates, though tasks overlap and fail | holds |

`sync_window` compares the code with a sentence of its own comments, quoted
under `findings` in `PROJECT.json`: the loop over the commits since the stamp
makes the oldest one the start of the diff, so that what it changed is not
taken up.

The MC modules hold the other sentences of comments, messages and documents
that the code breaks, each quoted beside the property. They are not part of the
regular runs; as the INVARIANT or PROPERTY of the configuration named, without
its own properties, each gives a counterexample in at most a few minutes:

| Property | Configuration to start from | What TLC finds |
|---|---|---|
| `RevertedIsNotReapplied` | `MCIambicRequest_revert` | the comment at models.py:696 keeps Reverted requests from becoming Applied; the webhook task at tasks.py:53 has no such test |
| `ClosedIsLeftRejected` | `MCIambicRequest_safety` | approving or applying a request found closed makes it Rejected, then `maybe_update_request` sees an old approving review and stores Approved |
| `FailedIsRetried` | `MCWebhookQueue_queue` | a webhook whose handler raised is deleted, though the comment beside it counts on the dead-letter queue |
| `DeadWasAttempted` | the same | the limit of a run drops a batch that was already received; its messages may die unattempted |
| `InstallationIsForgotten` | `MCWebhookQueue_routing` | when an installation of two tenants is deleted, the loop returns after the first |
| `OneFullCreate` | `MCTemplateSync_window`, `Workers <- TwoWorkers`, `MaxCommits = 1` | the stamp that is to prevent two full creates is written long after the tenant was read |
| `DeletedAreRemoved` | `MCTemplateSync_window` | the inner join of the deletion does not find templates without references |
| `DesyncIsRemediated` | the same, `MaxCommits = 5` | nor does that of the fallback when such a row stands in the way of a create, so the run fails, and every one after it |
| `MergedIsLoaded` | `MCRequestBranch_branch` | an update pushes between what an apply has loaded and its comment: what is applied is not what was looked at |
| `OnlyAskedIsPushed` | the same | two updates stage in one index, and the first commit takes both |
| `ExistingBranchIsUsed` | the same | a lost directory is rebuilt once; the second time the branch exists, and the exception is not the one that is caught |
| `ShownIsProposed` | the same | what a page shows are the files of the directory, which are not those of the pull request when people have pushed |
| `ExpiredIsGone` | `MCPolicyRequest_policy` | a removal that failed half-way, or looks for a renamed policy, marks the request expired and the grant stays |
| `NothingIsGrantedOnceClosed` | the same | the request is rejected between the test and the call to AWS |
| `AppliedWasGranted` | the same, `ReadOnly = {2}` | whether an account may be written to is asked of the account of another change |
| `AccountIsListedOnce` | `MCAccountRegistration_registration` | a stack and a sync both add the account, with different fields |
| `FailedIsNotRegistered` | the same | the batch raises after FAILED was answered, and is handled again with success |
| `DeletedIsNotBroughtBack` | the same | a sync writes back the account it has read from a copy |
| `StoredIsThereWhenAnswered` | the same | the second half of a hub's registration reads the document from before the first, or none at all: its write loses the hub, and SUCCESS is answered |
| `EverybodyIsFound` | `MCRoleAccess_role_access`, `PageSize = 1` | users and groups are read with the default page of 20 (pg_core/filters.py:8): in a larger tenant the rules of the others are passed over with a warning that they do not exist, and their rows are deleted |

`StaleIsExplained` states what remains true in spite of these: a row differs
from the repository only where a commit was missed or a row without references
was left, never for another reason.

### Bounds

* `request_safety`: two workers suffice for a stale read under a write; three calls
  (`MaxCalls`, views not counted, deaths counted) let an approval, an apply or
  an update, and a rejection overlap; one review per pull request, which can be
  dismissed. A creator who is no approver and an approver, because every guard
  tests one or the other. `MergeOnApproval` TRUE, the longer path.
* `request_revert`: three requests, so that two reverts of one request can race
  for its reference; nobody reviews, since reverting reads no review. A merge that inserts a
  deleted reference again, or is refused, needs more calls than the run
  has; the theorems cover them.
* `request_live`: no symmetry, as liveness requires.
* `queue`: batches of two with a limit of one message give a batch that
  overruns the limit, and two receives per message a redelivery and a dead
  letter. No tenant is linked: whom a webhook is told to is the subject of `routing`.
* `routing`: two installations and two tenants are the least for a wrong address;
  two changes of links fit between a lookup and its sends. One receive per
  message: redelivery is the subject of `queue`.
* `sync_steady`: a missed commit needs three commits (one for the full create, two
  for a window), and a fourth touches the row it left wrong. Two files let
  one run create, update and delete. One worker, as the properties say
  nothing once runs have overlapped; the theorems below are about any number
  of workers, and two with one fault and two commits hold as well (2 400 000
  states). Five commits with two scopes hold too, but take
  longer than the others together.
* `sync_retry`: two faults, so that the repetition may fail as well; three commits
  leave files that come and go between the attempts. No symmetry.
* `sync_window`: one file and three commits, of which two are in a window.
* `branch`: two handlers, of three that are called, and two faults, so that a
  handler may die and its directory be lost before the next; two files and changes of one or of both,
  so that one update can leave what another would take; five commits: the first, one that people push, and one
  per update with room for a merge.
* `policy`: four changes, one of each kind the run can tell apart: with a mark
  and removable; the policy of a bucket, which never is; a stray tag, at
  which the removal ends; and a generated resource policy in an account the tenant does not
  have. Topics, trust policies, accounts to be read only, and changes without a branch are left to the
  theorems. Two calls besides the removal give every stale write; one mark is
  one expiration date.
* `registration`: pairs of messages, as batches of two are what raises or
  answers together; one account, so that everyone writes the same one; one sync or admin call
  and one fault, and reads of any age, which are not counted as faults. The pair of a hub and a
  spoke of one account (`BothRegister`) holds as well (510 000 states).
* `role_access`: two tasks are the least for a stale deletion; two roles and two
  grantees, so that one stays while the other goes; clones that add, take away,
  drop a role or cannot be parsed; one grantee there from the start and the other
  perhaps (`FairSpecWithU1`), one created or deleted, one pull, one failure. A page holds everybody: `EverybodyIsFound` is about what happens otherwise.

Runs of requests, of branches and of the queues disable deadlock checking: all calls made and
all messages handled, the system really rests. The template sync and the sync of
role access never do.

### Fairness

* `IambicRequest`: a running handler goes on (weak fairness of `Continue` per
  worker; the event loop and Celery starve nobody) and the page of a request is
  opened again and again (strong fairness of `BeginView`, since workers may be
  busy whenever it is). Nothing is assumed of people or of the webhook.
* `WebhookQueue`: a run goes on; SQS offers a visible message to some poll again
  and again (strong fairness per message), ends visibility timeouts and applies
  the redrive policy. Nothing forces a handler to succeed or a delete to work.

* `TemplateSync`: a started task goes on, and tasks are started: the Celery beat
  schedule has `sync_iambic_templates_all_tenants` every five minutes
  (celery_tasks.py:3328). Faults and pushes are under no fairness; the property
  asks what happens once they have stopped.
* `PolicyRequest`: the removal is started (beat sends it every six hours) and goes
  on. Nothing is assumed of users, of dates or of the API.
* `AccountRegistration`: a run goes on and another is started (every fifteen
  seconds), and SQS offers a visible message again and again, as in `WebhookQueue`.
  Nothing is assumed of syncs and admins.
* `RoleAccess`: a task is started again and again (beat, every half hour) and each one
  goes on. Faults, pulls and users are under no fairness.

## What is proved

Each theorem holds for every value of the constants that the assumptions named
in the module allow. They come down to this: what must be told apart is (a
name of nobody, the hub and an account, a consumer, a sync and an admin),
bounds and sizes are natural numbers, changes are bodies of known files, and the sets that are counted, or of
which a least number is chosen, are finite.

| Theorem | Statement | Rests on |
|---|---|---|
| `IambicRequestProofs!TypeCorrect` | `Spec => []TypeOK` | itself |
| `StatusInvariant`, `StatusCorrect` | `[]StatusInv`, `[]StatusIsTruthful` | `TypeOK` |
| `IambicRecordProofs!NamesInvariant` | `[]NamesInv` | `StatusInv` |
| `ApplyCorrect`, `ApproversCorrect` | `[]ApplyIsAuthorised`, `[]ApproversAreLegitimate` | `NamesInv` |
| `PromiseKept` | `Spec => ImplementsPromise` (the refinement of `RequestStatus`) | `StatusInv` |
| `RevertsCorrect` | `[]RevertsAreSound` | `RevertInv` |
| `RevertedStays` | `RevertedIsFinalForReaders`, an action property | `ReaderInv` |
| `WebhookQueueProofs!QueueInvariant` | `[]QueueInv` | itself |
| `QueueTypes`, `DeletedCorrect`, `ToldAllCorrect`, `ToldOnlyCorrect` | `[]` of `TypeOK`, `DeletedWasAttempted`, `ToldAllWhoStayed`, `ToldOnlyLinked` | `QueueInv` |
| `PolicyRequestProofs!TypeCorrect` | `[]TypeOK` | `TypeInv` |
| `ClosedCorrect`, `RecordCorrect` | `[]ClosedHasNothingApplied`, `[]RecordIsRight` | `CoherentInv`, `RecordInv` |
| `AccountRegistrationProofs!RegistrationInvariant` | `[](Typed /\ DoneInv /\ RegistryInv)` | itself |
| `AnswersCorrect`, `DeletedCorrect` | `[]AnsweredIsRegistered`, `[]DeletedWasAnswered` | the same |
| `FitInvariant` | `[]FitInv` | the same |
| `TypeCorrect`, `EntriesCorrect` | `[]TypeOK`, `[]EntriesAreApart` | `FitInv` |
| `RequestBranchProofs!TypeCorrect` | `[]TypeOK` | `TypeInv` |
| `BranchInvariant` | `[](TypeInv /\ DirInv)` | itself |
| `PushCorrect` | `[]PushedIsWhatWasAsked` | `BranchInvariant` |
| `HistoryKept` | `PushKeepsHistory`, an action property | the same |
| `RoleAccessProofs!RowInvariant`, `RowsCorrect` | `[]RowInv`, `[]TypeOK` | itself |
| `AccessKept` | `KeptWhileGranted`, an action property | `RowInv` |
| `SyncIsExact` | `UndisturbedSyncIsExact`, an action property | `AloneInv`, `RowInv` |
| `TemplateSyncProofs!TypeInvariant`, `TypeCorrect` | `[]TypeInv`, `[]TypeOK` | itself |
| `CalmInvariant` | `[]CalmInv` | `TypeInv` |
| `RefsCorrect`, `StaleCorrect` | `[]RefsFollowContent`, `[]StaleIsExplained` | `CalmInv` |

TLC has checked every one of the inductive invariants on the configurations of
the runs. None of the properties is inductive by itself, always for the same
reason: a handler or a task writes what it has read long before. The
invariants say what is known of everything held in memory.

* `StatusInv`. The row is truthful only if every copy of a row, a pull request
  or a payload was true when it was taken and cannot become false: `ToldOf`
  relates the pull request to the payloads GitHub has produced of it,
  `Remembers` says of every worker that the status it loaded, the status it is
  about to write, its view and its payload are supported by facts. The facts
  (`Supported`) only grow (`Grown`, `FactsGrow`), so each action has to show
  only that what it puts into memory or a row is supported.
* `NamesInv`. The same for names: who is in `approved_by`, in a copy of it, in
  a view, in a payload or in a signed comment is entitled to approve, or did
  approve that pull request; and a worker that is going to post `iambic apply`
  holds a row that was approved.
* `PromiseKept` maps the status column to the claim of `RequestStatus`, and
  GitHub and the reference table to its facts (`FactsOf`). A step of a worker
  that writes a row is a claim the facts support, by `StatusInv`; one of GitHub
  or of `Refer` learns facts of one request; all others are stutters.
* `RevertInv`. `Refer` comes several awaits after a new request was made for
  the revert. `Heir` says that until then the new request is of nobody else,
  neither in the table nor in the memory of another worker, which makes
  references one to one.
  The merge of a rejection can bring an old reference back, so the same is said of
  the references a rejection holds, and `referred` remembers each reference there ever was.
* `ReaderInv` follows which handlers may have loaded a Reverted row: views and
  the webhook task, all others have refused it, and views leave it alone. So `RevertedStays` can say by whom Reverted is
  taken back: by the webhook task, or by a worker with an older copy of that row
  in memory, its own or one joined to the revert it rejects (`ReadEarlier`).
* `QueueInv`. What a run holds is `Sound`: whom it has still to tell was linked
  since the webhook was sent, whoever stayed is told or on its list, what it is
  going to delete was attempted, and its count with the rest of the batch does
  not exceed the limit by a whole batch. Soundness does not depend on the other
  runs (`SoundStays`), and the history of links agrees with the table
  (`LinkInv`).
* `CoherentInv`. Every copy of the item that may be written back is coherent,
  and one that is about to apply something is of an open request, one that
  closes it has nothing applied (`Carries`); so it does not matter which copy
  is written last. `TypeInv` adds to the types that only a request that was
  created is worked on.
* `RecordInv`. As long as changes are left that no race has spoilt, one copy is
  out at a time. `HandlerRight` and `ExpirerRight` say that this copy is right
  about each such change under the mark it has, and the row is too if it
  agrees with the copy, which is what a dropped copy needs; `ToApply` that a
  change still to be applied is not recorded as applied.
* `Inv` of `AccountRegistrationProofs`. What a run is done with is settled
  (`DoneInv`). A part of the document `Stands` if it is there or counts as
  spoilt. Drafts of registrations and syncs drop nothing of what was read for
  them, however old or empty it was (`DraftInv`); so standing is lost only when
  an admin writes, or a draft whose base is no longer, or never was, the document, and what these drop is
  spoilt. `Registering` says which parts stand
  at each stage of a registration. That those who write are apart
  (`ActorsAssumption`) is used.
* `FitInv`. For the count of a run: a message of a batch is begun only below the
  limit or after another one of its batch, so what is counted and what is left of the
  batch are together below the limit and a batch. For the lists: whoever appends an
  entry has compared it with all others, and whoever compares accounts
  rewrites the first entry in words neither a registration nor a take-over
  uses; this needs that a sync only writes back what it has looked into, and
  holds of every version of the document, so it does not matter which is
  read or written last. This bounds the list, however many calls are made, to
  three entries of an account.
* `DirInv` of `RequestBranchProofs`. What an update commits depends on what all
  earlier ones have left in the directory. Three facts suffice, as long as
  nothing has disturbed it: one handler writes (`OneWriter`); what is staged of
  a file is what the file is or what main has (`StagedInv`), so that the reset,
  which looks at files only, takes back everything that is staged
  (`ResetTakesAll`); and each step of an update finds what the step before it
  has left (`Holds`). `SawInv` says that the commit a handler has pulled is
  before the one checked out. `StagedInv` is lost when main moves in a worktree
  between the reset and the writing of an update, although everything is
  committed at that moment: the update may then write what main has, die, and
  leave an old body staged that the next reset passes over. With two
  edits by people, one beyond the bounds of the run, TLC finds this in 25
  steps if only uncommitted files are taken to disturb the directory;
  with `disturbed` as it is, the larger instance with one handler and
  two edits holds as well (10 800 000 states).
* `RowInv` and `AloneInv`. What a task has listed for deletion loses, with
  every template it is done with, the rows that template grants
  (`StruckInv`), whatever other tasks insert and delete meanwhile; with it, a
  row disappears only by a task that does not know it to be granted. Of a task
  that meets nothing else, `Undisturbed` says what it has achieved at each of
  its awaits. `SyncIsExact` is conditional: `PageSuffices`, the users and
  groups are no more than `PageSize`, without which the property is false
  (`EverybodyIsFound` above); the run has a page of that size.
* `TypeInv` of `TemplateSyncProofs`. To the types it adds what they rest on:
  whatever a task has loaded, planned or stamped is of commits the clone has
  (`Coherent`), and no commit deletes what is not there (`GitInv`), which is
  not typing at all but what the window arithmetic needs.
* `RefsInv`, the first half of `CalmInv`, which speaks of behaviours without
  faults in which no two runs have overlapped (`Calm`; the properties are
  silent about the others, for the reasons given with them). The references
  of a row that is not as it should be are in the hands of the run
  (`InHand`): it has taken them away, or changed the content, and has what is
  to be added. `Grasp` is what the run knows of each row it is going to change.
* `StaleInv`, the other half. `Found` says what a run finds, and goes back to
  if its create raises: every commit carried through is older than the
  stamp, and every row is explained by the commits up to it. While the run
  works, its plan is of the tree of the clone (`Charted`), and all files but
  those it has still to look at (`Pending`) are explained by the clone and the
  commits it is about to have carried through (`Settled`). That this holds the
  moment it plans is the heart of the proof (`OutsideThePlan`). A file outside
  the diff of the window was touched by none of its commits but perhaps the
  oldest, which the diff starts at and nobody carries through, or it was
  written in it and deleted again. For the latter `GitInv` is needed: a deletion
  deletes something, so the window has two commits, and whatever row the file
  had before goes back to its oldest.
  That the last of finitely many commits to a file exists is derived from the
  well-founded order of finite sets (`TouchedLast`), without induction.

Model-checked only: all liveness, `FullCreateIsRetried` of `TemplateSync`
included, since neither fairness nor `ENABLED` can be
reasoned about with the proof system.

## Not modelled

Comments and listings of requests, the deletion of a branch, `deleted`
requests (no handler sets the flag), `RequestStatusEnum` labels nobody writes;
the parts each section above names; and the components `PROJECT.json` marks
`not_modelled` with their reasons. The largest of those are thin wrappers of
AWS, Cognito and Slack calls, data (`common/lib/free_email_domains`, the models
of `common/models.py`), or caches that are refreshed from AWS and keep no
protocol state. Data whose content no property distinguishes (titles,
templates, justifications) is left out throughout. The composition of
`IambicRequest` with `RequestBranch`, and of `TemplateSync` with `RoleAccess`,
is by their interfaces only (a handler may be called; the clone changes): their
product is out of TLC's reach.

That an access rule expires is not modelled because nothing in the code looks
at the date it stores.

## Plan

1. `CredentialMapping`: the caches of roles and the mapping from users to them,
   with the guard against parallel runs
   (celery_tasks.py:545) that only looks at positional arguments.
2. `ProviderDefinitions`, which `TemplateSync` calls first.
3. The marketplace queue, whose loop is that of `WebhookQueue` with another
   failure policy; `UserAccounts` and `Challenge`.

# node-kit: TLA+ models, checks and proofs

node-kit is a set of npm packages that a Next.js host installs next to its own
PostgreSQL and Redis: SMS sending (`sms-kit`), sign-in (`auth-kit`), product
specifications and SKUs (`sku-kit`), a library of regions (`area-kit`) and an
address parser (`addr-parse-kit`). None of the packages is a service of its own. Each is
code that any number of host processes run at once over shared tables, so what
can go wrong is decided by transactions, row and advisory locks, leases, retries
and lost answers, and hardly any of it can be provoked by a unit test. That is
what the modules here describe.

Paths below are relative to `src/packages/` unless they start with `src/`.

* [The system](#the-system)
* [The plan](#the-plan)
* [How the modules are written](#how-the-modules-are-written)
* [The modules](#the-modules)
* [The runs](#the-runs)
* [What is proved](#what-is-proved)
* [Where the code departs from its documents](#where-the-code-departs-from-its-documents)
* [What is only model-checked and what is not modelled](#what-is-only-model-checked-and-what-is-not-modelled)
* [Running it](#running-it)

## The system

### sms-kit

| Component | State | Operations | Meets |
|---|---|---|---|
| Send pipeline (`application/send-service.ts`, `send-worker.ts`, `dispatch-recovery-service.ts`) | `send_message`, `send_job`, `send_attempt`, `daily_send_budget`, `send_budget_reservation` | enqueue a notification, send an OTP now, run a worker batch, recover lost dispatches | the provider, the task endpoint of the host, delivery |
| Delivery (`receipt-service.ts`, `reconcile-service.ts`) | `delivery_receipt`, reconcile jobs, delivery columns of `send_message` | ingest a batch of callbacks, query what no callback settled, give up after thirty days | the send pipeline, which creates the jobs; the provider |
| Tenant codes (`challenge-service.ts`, `proof-service.ts`, `send-policy.ts`) | `otp_challenge`, `rate_limit_event` | issue, verify, consume a proof inside a transaction of the host | the send pipeline through `sendOtpNow`; host operations |
| SYSTEM codes (`system-auth-service.ts`, `system-lifecycle.ts`) | the same tables, SYSTEM scope | issue, verify, consume, recover, ingest, reconcile | auth-kit; the provider |
| Administrator operations (`admin-operation.ts`, `reconcile-admin-service.ts`) | `admin_operation` | idempotent commands, one-off reconciliation | delivery |
| Configuration and resources (`config-service.ts`, `resource-sync-service.ts`, `resource-admin-service.ts`, `policy-service.ts`) | versioned configuration, signatures, templates, policy with the circuit | put, activate, synchronise with the provider, switch the circuit | the send pipeline reads all of it |
| Retention, health, statistics (`maintenance-repository.ts`) | none of its own | settle and scrub messages after ninety days, delete other old rows; counts | the send pipeline, whose pending messages it decides; every table |
| HTTP handlers (`next/`), provider adapter (`aliyun/`), cryptography (`security/`), better-auth adapter, migrations | none / schema | parse, authorise, map, sign, encrypt | everything above |

What makes them correct: no SMS is sent twice whatever is retried; what a row
says was decided is what the provider decided; nothing stays pending or waiting
for ever; nothing moves backward; at most one code of a subject works, a proof
is spent once and together with what it protects; limits and budgets hold.

### auth-kit

Sign-in by password and by code, sending codes, changing and resetting
passwords, sign-out (`server/auth.ts`), over the tables of the host and a Redis
cache (`server/state.ts`: active challenges, send window, rate windows,
captcha). Every request takes a connection, finds the user, takes an advisory
lock and uses sms-kit's SYSTEM codes on other connections. The React form
(`react/forms.tsx`) asks for captchas one after the other, counts down until
the next code and submits. Correct means: no session outlives the password or the number it was
opened with, no requests wait for each other for ever, the codes sent to a number stay
apart and few, what the form shows is what the server takes, and when its countdown is over
sending is allowed. The form for changing a password and the phone migration are the rest.

### sku-kit

One document per product: specifications (dimensions and values), SKUs, stock,
receipts of commands (`server/service.ts` over `postgres/store.ts`). Clients
save, patch, copy and book stock from what they have read, and repeat commands
under a `commandId`. Correct means: a combination is one SKU with one sequence
number for ever, a command takes effect once, nobody overwrites what he did not
see, and one scope has one authority over stock. An in-memory store for tests
and a React editor are the rest.

### area-kit

The region library in datasets, one per version: source preparation (CSV to a
manifest), import (`import/runner.ts` over `postgres/import-backend.ts`),
activation, presentation settings, public queries pinned to a dataset by their cursors
(`server/query.ts`), the check of a selection (`server/selection.ts`), a cascading selector
(`react/use-area-selection.ts`, `selection-state.ts`, `cascader.tsx`). Correct means: an import that
was interrupted anywhere is completed by repeating it, a dataset that is ready never changes, the
public only ever sees a ready one, and a field shows what its host holds, whatever
order calls are answered and effects run in.

### addr-parse-kit

Parses an address against a snapshot of the region library. An external engine
(address-smart-parse) proposes paths of regions and a recipient; `internal/map.ts` finds them in
the text, cuts the text into what was recognised and what was not, and decides whether a
person has to look at it. The providers in `examples/` load a snapshot from area-kit page by page or from a
file; the example host in `examples/next/` lets a user correct a candidate and saves it with the
version it belongs to. Correct means: nothing of the text is lost, nothing doubtful goes
unreviewed, and what is saved is a path of one version of the regions.

### ai-kit, oss-kit

Only their compiled bundles are in the repository.

### Which behaviours are hard

* Workers, recovery and callers meet on the same rows; each may stall for
  longer than its lease, or die, between any two statements.
* An answer of the provider may come late, never, or after somebody has drawn
  conclusions from its absence. Callbacks are repeated, early, contradictory.
* Rows are read outside of transactions and acted on after network calls.
* A COMMIT or an answer is lost: clients and error paths repeat what was done.
* Budgets, rate limits, pools and sequence numbers are shared and bounded.
* One failure ends a batch that had other things to do.
* In a browser, answers overtake each other and the edits of the user, and a handler sees the
  state of the last render.

`PROJECT.json` lists the hazards one by one, each at the line where it bites and
with the properties that would show it going wrong.

## The plan

1. `SmsPromise`, `SmsDispatch` - what sending promises, and the pipeline that
   implements it. It comes first because everything else builds on a message being
   sent at most once. **Done**, with proofs in `SmsDispatchProofs`.
2. `SmsDelivery` - receipts and reconciliation over `SmsPromise` - composed in `SmsOneOff` with the requests
   of administrators for the reconciliation of one message. **Done**, with proofs in `SmsDeliveryProofs`.
3. `SmsSystemAuth`, `SmsChallenge` - the two kinds of codes. **Done**, with proofs in `SmsSystemAuthProofs` and
   `SmsChallengeProofs`.
4. `AuthKit` - the requests over SYSTEM codes - composed in `AuthForms` with `AuthGate`, which is Redis, and with
   the form of a browser. **Done**, with proofs in `AuthProofs`.
5. `SkuConfiguration` - commands on product documents. **Done**, with proofs in `SkuConfigurationProofs`.
6. `AreaImport` - the import; `AreaQuery`, `AreaSelection` - the queries and the
   field. **Done**, with proofs in `RegionProofs`.
7. `SmsAdministration` over `RowLocks` - the provider configuration and its tests,
   synchronisation of signatures and templates, idempotent operations of administrators,
   the sends that read all this, and every lock they take. **Done**, with proofs in `SmsAdministrationProofs`.
8. `AddressRegions`, `AddressParse`, `AddressForm` - from the load of the regions over the parse
   to the saved address. **Done**, with proofs in `RegionProofs`.

Proofs: first the send pipeline, because everything else takes its outcomes for granted, with its refinement of the promise;
then delivery, the two kinds of codes, the requests of auth-kit and its form, the import, the products, administration, the
field and the address form (**all done**). The section on what is only model-checked says what is left to TLC, and why.

## How the modules are written

* An action is one transaction, or one step a process takes between two
  transactions. What a transaction reads it reads in its own state; what a
  process read earlier is in its variable (`proc`, `rec`, `call`, `sweep`, `imp`,
  `host`, `request`, `req`, `page`) and may be stale. In a browser an action is one handler, effect, microtask,
  render or answer. Where a transaction does not see one state,
  because it waits for a lock in the middle or its UPDATE took its snapshot before it
  waited, it is split: `BeginIssue`/`CommitIssue`, `CountTenant`/`CommitIssue`. In `SmsAdministration`
  every lock is a step of its own, because the order of the locks is what is in question there.
* A transaction that throws rolls back and is a step that does not happen; a
  separate action says what the process does then (`AbortMark`, `AbortResult`,
  `Break`), if it does anything.
* Time is a nondeterministic step: a lease expires, a message ages, a code
  expires, a day passes at any moment, and no property depends on how long anything takes. `AuthForms`
  is the exception: its windows and countdowns are about times, so time passes there in ticks.
* A crash forgets what a process holds in memory, at any point. A COMMIT whose
  answer is lost is the commit followed by a crash, except where the code goes
  on after the error (`SmsChallenge!MarkAccepted`, `AreaImport!Fail`, `SmsDelivery!Ingest`).
* Definitions named as in the code are translations of it; `PROJECT.json` ("map")
  gives the lines. A definition whose comment begins with "Mutation:" is a plausible
  mistake in the definition after it. No action uses it; it is put in that definition's
  place to see that the property which guards against the mistake really fails.
* The `MC...` modules give the constants their small values.

## The modules

### SmsPromise

What a host and a recipient see: `outcome` (the acceptance it reads of a message)
and `sends` (the messages whose SMS the provider sends, each once). A message is
submitted, sent at most once and only while it is undecided, accepted only if it
was sent, rejected only if it was not; any number of pending messages may become
unknown in one step, and an unknown one may still be decided either way.
`SmsDispatch` and `SmsDelivery` are each checked to implement it. `SmsDelivery` goes
further: its pipeline actions *are* those of `SmsPromise`, conjoined with what the same
transactions write on the delivery side, which is how the two modules compose.

### SmsDispatch

| Variable | Code |
|---|---|
| `acceptance`, `delivery`, `params` | `send_message.acceptance_status`, `.delivery_status`, whether the sealed render parameters are still there |
| `job` | the `send_job` row: state, lease token, whether `lease_until` is in the future (`live`), `attempt_count` |
| `attempts` | the `send_attempt` rows in order; attempt n carries dispatch token `<<m, n>>` |
| `reservation`, `heldCount` | `send_budget_reservation`, `daily_send_budget.held_count` |
| `reconcile` | whether the reconcile job exists |
| `day`, `circuitOpen` | the calendar, `policy_config.circuit_open` |
| `proc` | what a worker or caller of `sendOtpNow` holds in memory |
| `inflight`, `taken`, `refused` | external: requests on their way to the provider, and what it made of them |

`EnqueueNotification`, `SendOtpNow`, `DispatchOtp` and `CompleteOtp` are
`send-service.ts`; `Lease` to `DropAnswer` are `runBatch`, `runJob` and `complete` of
`send-worker.ts`, one action per transaction and per branch; `RecoverBatch` is one
transaction of `dispatch-recovery-service.ts` over the three kinds of rows it
finds (a lease without a marker, a lease with one, an abandoned direct attempt).
`Retain` is what `applyRetention` does to one message that is older than ninety days and whose job nobody holds:
besides erasing personal data it decides what is still pending (unknown if a request may have been made, else rejected),
closes markers, kills jobs and releases budget. The model's calendar is short, so a message is old on its last day.
`Receive` is the answer a process sees: a timeout (`"unknown"`) may hide
anything, and the request may still reach the provider afterwards.

Abstractions. Template and signature being unusable is a nondeterministic
choice between `MarkDispatch` and `RejectUndispatched`; how a message gets its template
in the first place is in `SmsAdministration`. The budget is a constant: the
code reads it from the policy row, which an administrator may change, and then
promises nothing about sends of the same day. `RecoverBatch` may take any started
direct attempt, however young: the age limit only makes it rarer. A lease token is
random in the code; here it is any value that nobody still holds for the message.

### SmsDelivery

`acceptance`, `sends`, `attempt` and `bizKnown` are the send pipeline's side;
`delivery`, `receipts`, `reports` (callbacks the provider has not seen acknowledged, which it
repeats), `job` (the reconcile job), `aged` (thirty days) and `rec` (a reconciler's
batch and its stale read) are this one's. `Ingest` is one transaction of
`receipt-service.ts`: it stores or promotes the receipts of a whole batch, and its
acknowledgement may be lost. `LeaseReconciliation`, `ReadMessage`, then `CloseSettled`,
`Defer`, `FinalizeUnknown` or `QueryDelivery`, then `RecordResult` or `AbortResult`, are
the steps of `reconcile-service.ts`. Postponement of a job (its `available_at`) is left out:
a postponed job is a pending one. `Retain` is retention, as in `SmsDispatch`, from the side of the delivery; an aged
message is thirty days old, and may be ninety.

### SmsOneOff

`reconcile-admin-service.ts` next to all of `SmsDelivery`: `desk` is what an administrator's request holds in memory,
`ledger` the `admin_operation` row of the key, `origin` the `origin_action` of the reconcile jobs, `authorized` the messages whose
job has an `admin_job_authorization` row. `Ask` is the look for the key outside of a transaction, `Schedule` and `RollBack` are the
transaction behind it, `Replay` the two places where the key may be found completed. Two administrators send under one
key; one of them may also send tests (`Testers`). A message is always found, by whatever identifier: messages are not deleted while
they wait. The expected version is told by the acceptance, since nothing else moves the version of a message that waits.
`crew` lets either two reconcilers run, or one and the administrators.

That `ensureReconcile` has an origin `receipt.reconcile` to give looks as if an administrator could be the first to create a job.
`OriginIsOfTheMessage` says that this never happens: a message an administrator may ask about has got its job in the
transaction that made it wait.

### SmsSystemAuth

The requests of one subject and action, each with its own message and challenge.
`call` is the caller of `issue()`, `provider` what the provider made of it,
`acceptance`/`delivery`/`bizKnown`/`age` the message, `challenge` its challenge,
`receipts`/`reports` as above, `sweep` a `reconcile()` with the list it has read.
`BeginIssue` and `CommitIssue` are one transaction: its UPDATE sees the challenges
committed when it starts and looks at the changed ones again when it gets their row locks.
Two such transactions exclude each other only over the same phone, which is why
`OneActivePerPhone` says "per phone". `MarkMessageAcceptance` overwrites whatever status the
message has, as the code does. Rate limits, templates and the budget may refuse
any request (`EndCall`).

### SmsChallenge

`issue()` for a tenant takes three advisory locks in turn: the idempotency key
(`Enter`), the phone (`CountPhone`), the tenant and purpose (`CountTenant`); the last one
serialises all requests of a subject over any phones. The lock, the event it
records and the count are one step, and the locks are held until the transaction
ends (`CommitRefusal`, `CommitIssue`). Then the caller that created the challenge
sends (`AskProvider`, `Answer`, `MarkAccepted`, `Fail`), and a repeated request waits
for its outcome or gives it up (`ReadOutcome`, `TimeOut`). A host operation consumes a proof:
`ConsumeProof` locks the challenge row, `CommitHost` commits consumption and the host's own write.

Abstractions. All requests fall into one limit window. The limit by IP address and
the circuit are a nondeterministic refusal. The message behind a challenge is what
`SmsDispatch` makes of it, here only "asked", "sent" and an answer. The error code
`"unanswered"` exists in the model only: it marks a challenge that its own caller
gave up because nobody answered the COMMIT of its acceptance, so that `AnswersAgree` can name the
one exception it makes. The expiry of an accepted code and of its proof is one flag.
Deletion after seven days is left out.

### AuthKit

`request` is what a request holds in memory, `bound` the number of each user,
`password` how often the credential was replaced (its "generation"), `sessions` the session
rows with what they were opened with, `challenge` the SYSTEM challenges
reduced to open, dead or used, `active` the Redis cache. A request takes a connection and
finds its user (`Resolve`), takes the lock of that user (`Lock`) and then
does one of seven things. A request that is turned away never starts. The host may give a number to another user at any time
(`Rebind`), with the transaction the README of 0.3.3 asks of it, and without the lock. The
SMS store has a pool of its own, as the README requires; the mutant
`BeginIssueFromPool` shows what happens otherwise. A send is let into the window of its number first (`EnterWindow`) and then waits for
one of these connections (`BeginIssue`). `GET /session` and a change of
password by an administrator are not modelled.

### AuthGate

The scripts that Redis runs (`server/state.ts`), each a function from what is stored and the time to what is stored
and answered: `Reserve` and `Finish` for the sends to a number, `Save` and `Consume` for captchas. A window is a
sorted set: the sends, each by its request and with its time, one member `pending` while a send is under way, and a time at which
Redis drops the whole key.

### AuthForms

The composition of the form, the gate and the requests. It extends `AuthKit` and `AuthGate`, and its actions on
requests are those of `AuthKit` conjoined with what they do to the gate and to the form.

| Variable | Code |
|---|---|
| `form` | the state of the component `AuthForms` in `forms.tsx`: view, method, number, captcha shown, the queue of requests for captchas, busy, the countdown of each number; and the browser's captcha cookie |
| `call` | the call `perform` waits for, its way through the gate and what it will be answered |
| `gate` | Redis: its time, windows and captchas; history: who last used a window (`last`), numbers whose send failed or broke (`broken`), numbers with a send that took too long (`late`) |
| `sending`, `sent` | the number a request sends to and since when; history: the codes the gateway got |
| `mix`, `left` | what may happen in a behaviour, and what is left of it |

`SendCode`, `SubmitPassword` and `SubmitCode` hand the captcha in that is shown. `Admit` consumes it and starts a request of
`AuthKit`; `TurnAway` is a full rate window. `ReserveSend`, `ConnectSend`, `IssueCode` and `FinishSend` are one sending: the reservation, the
connection of the SMS store, the code, and the record of it; time may pass before each of them. `Arrive` is the rest of `perform`: it sets the countdown, in the browser's time (`Recorded`), and
loads the next captcha where the code does.

Abstractions. There is one form in one browser; other clients' requests begin behind the gate (`OtherStart`). The
browser's clock is ahead of Redis by a constant (`Skew`). A send takes any time: it waits for a connection as long as the pool has none, and for
the gateway as long as the host's time limit lets it. Right and wrong captchas and codes are choices of the user. The host is
assumed not to unmount the form. Six minutes, an hour and five codes become 2, 3 and 2.

### SkuConfiguration

`docs` is `sku_product_config` with its child tables per product, `authority` the
binding of the scope, `sent` the payload of each request, `prepared` the requests
between the statements before the transaction and the transaction, `answer` and
`applied` what came of them. A request is built from a state the client has read and may
arrive any number of times, at any later time. `Prepare` is what the service does outside the
transaction (bind the authority, look the code up); `SaveConfiguration`,
`PatchSkuConfigurations`, `CopySkuConfiguration`, `SetLocalInventory` and `Replay` are the
transactions under the advisory lock of the product, which return the document that `store.ts`
writes back - when they refuse, too.

Abstractions. Labels, prices and images are left out, and with them the unique
index on active labels, whose violation is an abort: a step that does not happen. So is a refused
save that had already allocated a sequence number (foreign key). The
`approveModeChange` hook, with which a host answers for the stock of a product that changes its mode, and the reads other than
`previewConfiguration` (`Preview`) are not modelled. External stock is the host's: `forwarded` holds the requests its adapter gets. `read()` is not a
snapshot, but it reads the version before the rest, and a save with an older
version is refused, so a form carries the current version or none. Every write renews all
receipts of the product, so they lapse together (`Lapse`). A request is the same as an earlier one if its input is
(`Fingerprint`): `seen`, which a request also carries here, is what its client knew and only there for a property.
The in-memory store for tests behaves differently in places and is not what is modelled.

A value under an existing dimension is known by its id or new by a `draftKey`. Under a new dimension the service
takes any id a client gives a value (`named`, `NewId`): one of a value it has read, or one of its own making
(`OwnIds`), which may be in use by the time the save is executed, for instance because the same form was sent before under another
`commandId`. There is one row for an id, so the dimension written last has the value and the others have it no more (`Persisted`,
`Turn`). Clients are assumed not to name ids of other products.

### AreaImport

`status`, `manifest`, `rows`, `inherited` and `report` are the target dataset;
`settings` the presentation settings of each dataset, `active` the public one, `lock` the
advisory lock of the import session, `imp` an importer. One run of
`importAuditedSource` is `Verify`, `TryLock`, `EnsureDataset`, `AppendBatch` (until the rows of
all levels are there), `Inherit` or `KeepInheritance`, `AuditDataset`, `MarkReady`, `Finish`.
`Fail` is the error path, which marks the dataset failed unless it is ready; it
may follow any step, after the step's statement has or has not committed. `Lose` is a
lost process or connection. Operators edit settings and activate datasets
meanwhile. Of a region, code, level, parent and name are kept; a digest is the set of
the rows.

### AreaQuery

What the server answers: the path to a region, the children of a region as a page behind a cursor that only fits the
dataset and query it was made for (`PageOf`, `CursorFits`), and the verdict on a selection (`Verdict`). Tables map a code to
its row: parent, kind, enabled, sort. Siblings have different `sort` (the code falls back on the
code of a region).

### AreaSelection

| Variable | Code |
|---|---|
| `edition` | the dataset that queries get which name none |
| `hostProps`, `rendered` | the props the host passes, and those of the last render (`valueRef`, `valueKeyRef`) |
| `hook` | the state of the reducer, `generationRef`, the calls in flight, and the status last passed to `onStatus` |
| `view` | the state of the last render, which handlers read (`stateRef`) |
| `effect`, `microtask` | the effect the last render has left to run; `reconcileControlledValue`, queued |
| `panel` | the search of the cascader |
| `budget` | bounds |

`HostChanges`, `Render`, `RunEffect` and `RunMicrotask` are React's steps; `Choose`, `Clear`, `LoadMore`, `Retry`,
`Search`, `CloseSearch` and `PickHit` are what the controls of the cascader let a user do; `Answer...` and `Fail` end
a call, at any time and in any order. The operators called `Dispatch...` are the cases of the reducer in
`selection-state.ts`. An aborted call may end at once, or be answered later all the same (a straggler), because
the client is the host's. When `onChange` offers a value, the host adopts it or keeps its own.

Abstractions. The user and the host act when everything is rendered and no microtask is queued; React flushes effects of an event
of the user at its end. Request numbers are reused once nothing refers to them, which keeps the states finite and
is the same as counting, because they are only compared. One keyword is searched for. Two assumptions on the host are
constants: it does not set a value of a dataset the field does not show (`SwitchesDataset = FALSE`), and it does not
disable the field in answer to `onChange` (`DisablesOnChange = FALSE`). What happens otherwise is told below.

### AddressRegions

The regions of a version and how a provider gets hold of them: `StartLoad`, `ReadPage` and
`CountsAgree` are `loadSnapshot` over the pages of area-kit, province by province and level by level; `Parsable` and `Indexable`
are the checks of a file and of the index; `Offered` is a list to choose from; `ValidSelection`, `OnPathOfLast` and
`DownThePathOfLast` are the checks of a selection by the parser and by the two providers.

### AddressParse

A text is a sequence of words, among which are labels, phones, the names of roads and spaces; the name of a region is such a sequence.
`FindSpan`, `StripSpans`, `FindPhones` and `FindLabeledNames` are `internal/text.ts`;
`AssignSpans`, `SuspectRoad`, `CollectSlots`, `Recipient`, `RebuildText`, `Classify` and `MapCandidate` are `internal/map.ts`, which turns
one candidate of the engine into one of the answer; `FallbackCandidate` is what is made without one. `Parse` is `parse()`. `ToWithoutStreet`,
`ToWithStreet` and `FormatAddress` are `transform.ts`. What a Chinese character is to the code a word is
here, but for the rules about lengths, which count a word as two characters.

### AddressForm

| Variable | Code |
|---|---|
| `host` | the server: the version it was deployed with, its index, and the load of it |
| `sorts` | the order of regions in area-kit, which operators edit |
| `page` | the page: text and options, the result, the draft and what is shown of it |
| `calls` | calls under way |
| `saved` | the addresses saved |
| `mix`, `left` | what may happen in a behaviour, and what is left of it |

`EngineAnswers` is the external engine: paths whose words it may have found in the text, with or without a
name and a phone, in every combination (`mix.free`), or the longest words only. `RunParse`, `Adopt`, `EditRegion`, `EditDetail`,
`Tick`, `CheckPath` and `Confirm` are the user, the `Answer...` actions the server and the page; `LoseConfirm` is a confirmation
that is saved and not answered. `Deploy` replaces the server with one of another version.

### RowLocks

`locks` is what PostgreSQL holds for the transactions that run (`for update` and advisory
locks are exclusive, `for share` is shared), `todo` the locks each transaction still has to take, in order.
`Ask` names them, `Acquire` takes the next one when nobody is in the way, `Release` is the end of the
transaction. `Deadlocked(S)` says that everybody in `S` waits for somebody in `S`.

### SmsAdministration

| Variable | Code |
|---|---|
| `config` | the row of `provider_config`: what the connection is made from, enabled, status, last test, version |
| `lastProbe` | no row: the connection the provider was last asked about, and its answer |
| `signatures`, `templates` | the rows of the catalogue |
| `syncs` | `resource_sync` with its candidates, and those that are committed |
| `messages` | the messages that were stored with a template, and the key they name |
| `ledger` | `admin_operation` |
| `req` | the requests: kind, idempotency key, input, what was read before a lock (`view`) |

A request is one call of a service and one transaction: it reads what the code reads before
the transaction (`ReadBefore`, `Discover`, `FindTemplate`), claims its key or replays
(`Claim`, `Replay`), takes the locks in the order of the statements (`FirstLocks`, then those of
`LockAffected`, `LockParent`, `CheckUpdate`, `CheckTemplate`), decides and commits. `SaveConfig`, `PatchConfig`,
`RecordConnectionTest`, `CreateSyncPreview`, `CommitSync`, `ImportTemplate`, `UpdateSignature`, `UpdateTemplate` and
`StoreMessage` are those commits. `GiveUp` is a refusal, an error or a crash at any point. `Repeat` sends a
request of an administrator a second time, under the same key, while the first may still be running.

Lists of locks are in ascending order, as the code sorts them: `Nth` is the member of a set at a place (`Place`) in that order, and `AllOf` the list of
all rows of one kind. `Identities` is the sorted namespace of `lockResourceIdentities`; `AffectedRows` the rows of the templates and signatures a commit is about to change.

Abstractions. Purposes, variables and visible names are left out; a conflict of names is a refusal, and a refusal
is `GiveUp`. So is an expired preview. The actor, audit rows and events are left out. Preview and commit
without version and key, which only a host in the same process can call, are not modelled, and neither are
repeated sends of a host, which `SmsDispatch` and `SmsChallenge` are about.

## The runs

| Run | Instance | States | Shows |
|---|---|---|---|
| `dispatch_pipeline` | 1 notification and 1 OTP, 2 workers, 2 tokens and a caller, 2 attempts, a budget of 1 on each of 2 days, recovery of 2 rows; the notification grows old | 336 598 | Leases run out and are taken over at every point, answers come late or never: the inductive invariant, no second SMS, the bound on retries, the budget, the refinement to `SmsPromise`, and that every message is decided. |
| `delivery_receipts` | 1 message, 2 reports; 2 reconcilers, or 1 and 2 administrators under one key; it grows old | 469 866 | Statuses never regress, receipts and statuses explain each other, and waiting ends without a single callback; who is shown a job may read it, and nobody else is. |
| `system_codes` | 2 requests, 2 phones, 1 report, no reconciler | 1 955 797 | A challenge tells the same story as its message and its consumer while requests supersede each other. |
| `system_lifecycle` | 1 request, 2 reconcilers, 1 report | 217 008 | Every message settles; nothing but the answer to the request itself moves it back. |
| `challenge_codes` | 4 callers over 3 keys and 2 phones, 2 hosts, 2 consumption keys, limits 1 and 2 | 814 027 | One active code, limits, agreement of repeated callers, one execution per proof. |
| `auth_requests` | 3 requests, 2 users, 1 number, 2 connections and 1 for SMS; alone, or with a form in 3 mixes, 4 ticks | 1 689 867 | Sessions follow password and number; some request can always go on; codes for a number stay apart; the form's captcha and countdown can be relied on. |
| `sku_structure` | 1 product, 3 requests: saves of 2 values in 1 or 2 dimensions, with an id of the client's own or a known one under a new dimension; copies, stock | 450 841 | Identities, sequence numbers, versions and stock under saves that overtake each other; a save does what its preview shows. |
| `sku_commands` | 2 products, 2 codes, 3 requests (2 under one commandId), lapsing receipts, 2 authorities | 554 901 | Repeated commands, the code of a product, the authority over stock. |
| `area_import` | 2 importers, 2 sources of 4 rows, 1 older dataset, batches of 2 | 165 704 | Completeness, finality, one inheritance, and that repetition completes an import. |
| `area_selection` | 2 datasets of 3 and 4 regions, pages of 1, a value of one of them or none, 3 moves, or 2 and a straggler, or 2 and changing targets | 1 521 056 | The reducer and the hook agree on what is current; a field at rest shows what its host holds; what it calls accepted is. |
| `address_form` | 2 versions of 8 regions, 4 mixes: many texts with a free engine; edits and a deployment; overtaking answers, bad files and failures; a load under edits | 265 968 | What is saved is a path of one version; nothing of a text is lost; doubtful readings ask for review. |
| `administration` | 3 requests in 5 mixes, 1 signature, 2 templates, 2 template keys, 2 connections, 2 idempotency keys | 1 826 036 | The provider is ready only for what was tested, the catalogue stays consistent, keys are stable once used, an operation takes effect once, and no locks deadlock. |

### Why the bounds are enough to be interesting

* `dispatch_pipeline`: a lease can be lost to the second worker while the first holder still waits
  for its answer, and taken back with the token nobody holds any more; two attempts let the first one be
  rejected and the second be the last. A budget of one makes the two messages compete, two days let
  a reservation of the first be released on the second. Retention meets the notification
  on the second day in every state it can be in then, also while a worker that lost its lease still waits. More attempts and workers add nothing
  that the proofs leave open: the invariant, the bound on retries and `NeverResent` are proved for all values.
* `delivery_receipts`: messages meet only in the batches, whose failure is
  `AbortResult`; a second message would add batches of two and nothing that one
  message does to another. Two reports are enough to contradict each other, and one may
  arrive before its BizId is known. Two administrators are enough for the key to be completed between the first look
  of one and its claim; they meet one reconciler, as two would only repeat what the other crew shows.
* `system_codes` has two phones and two requests in all assignments, so that the lock either
  holds or does not. One guess (`MaxAttempts = 1`) makes the boundary case
  (a right code after the last wrong one) the common one. `system_lifecycle` is about one message: messages
  share only the reconciler's list and its end, and the second reconciler gives it a stale list.
* `challenge_codes`: a repeated request, a second key over the same phone, and a third over another phone: every pair
  of locks is contended. A phone limit of 1 and a tenant limit of 2 are reached.
* `auth_requests`: three requests are two that race and a third that makes them wait for a
  connection; two connections and one SMS connection are the smallest pools in which a
  lock holder can be starved. The mixes with a form: four moves of the user with one failure, for the queue of captchas; sends by
  the form and two others while the number changes hands; and sends while processes end. In
  four ticks a captcha dies, a fence falls and a window of three passes; two codes fill it. A fence of two ticks falls under a send that takes
two, so numbers with a late send occur.
* `sku_structure`: three requests are a drop, a return and a stale request; `Capacity = 3` is reached. Two values make one
  dimension with a choice, or two of which one takes the value of the other, from it or in vain. Where a client makes an id
  of its own there are two requests only (`FewWithOwnIds`), so that the run ends in time; the proofs have no such bound.
  `sku_commands` leaves out specifications to afford two products and lapses.
* `area_import`: levels of one and three rows in batches of two: a batch that is cut short by
  its level, a full one and a rest. Settings of two codes are edited (`Edited`), one of which
  keeps its meaning between sources and one of which does not.
* `area_selection`: the two datasets differ in what a region belongs to, in a group and in what is enabled; pages of
  one make every layer of two need a cursor. Three moves are a choice, a change by the host and a failure or a
  second choice, with any number of answers between them. The
  target is the city, which values reach, and changes between province and city in the third bounds.
* `address_form`: each mix has what its question needs, because together they would be too many.
  The texts are combined from beginnings (names in full and in part, with spaces, before a road), ends and persons (labels, two phones with extensions, a
  masked one, a name that is also a region's). The second version renames a province and moves a street. Two edits
  of the order fall between any two pages of the load.
* `administration`: `Mixes` names the operations each of the three requests may be, so that every pair of operations
  that shares a row meets, with a third that changes what they read: first saves under tests of a connection; test sends
  that are repeated while their basis changes; sends, renames and revocations; two ways to one
  template key; an old and a new preview. Two templates under one signature are what the order of locks
  needs: each of two transactions can hold one and want the other's.

Symmetry is used only in runs without liveness properties, over sets whose elements no definition
tells apart. `CHECK_DEADLOCK FALSE` stands in the runs of systems that come to rest: every
message settled, every request answered, every code spent or expired.

Bounds that exist in the models only: `LastDay`, `LeaseTokens`, `RecoveryLimit` and `ReportLimit` (how much
happens at once), `OwnIds`, `MaxValues`, `MaxChoices` and the set `Commands` (what clients ask for),
`Edited`, `BatchSizes`, `Mixes`, `Horizon`, `Bounds` of `AreaSelection` (moves and stragglers), the moves, edits, failures
and deployments in the mixes of `AuthForms` and `AddressForm`, and "a request is applied at most twice" in `Lapse`.

### Fairness

Safety needs no fairness. Four specifications add it, for the liveness properties:

* `SmsDispatch!FairSpec`: workers and callers take steps as long as their process lives (weak
  fairness of each worker's steps, and of a caller's steps once it has stored its message),
  leases run out, and recovery keeps being called. The last is the host's duty
  (`sms-kit/src/next/task-handler.ts`, which the documentation tells the host to schedule); as a recovery
  batch takes the oldest rows first, every recoverable message gets its turn: weak
  fairness per message. Nothing is assumed of the provider, of `Enqueue` or of new requests.
  `MessagesAreDecided` also assumes what its formula says: that faults stop (no crash, no lease that runs out
  under a working worker, no switch of the circuit), the circuit stays closed, and every message has or
  can get its share of the budget.
* `SmsDelivery!FairSpec`: reconcilers run, leases run out, days pass. `WaitingEnds` assumes that faults
  stop; it does not assume that a callback ever arrives or that a query is ever answered.
* `SmsSystemAuth!FairSpec`: `recover()` and `reconcile()` are scheduled, time passes, and strong fairness
  of `FinalizeOverdue`: a `reconcile()` that can reach the end of its list again and again
  reaches it at some time. This excludes that every call for ever ends in an exception, and it is
  reasonable because the messages whose queries throw leave the list when they are overdue.
* `AreaImport!FairSpec`: a run goes on while its process lives, and a run that can do nothing but fail fails.
  An operator repeats the import with the source that belongs to the version, when no other run holds the lock, and of
  these runs some get the lock (strong fairness: the code does not queue for the lock, so a run that loses the race for
  it again and again, to one with another source, say, waits for ever by the code's own rule). `ImportsComplete`
  assumes that faults stop: no run is lost or fails that could have gone on. A run that ends, is refused
  the lock or fails because a check refuses what it does is no fault (`Fault`), so a version that could not be resumed, or a
  lock that an ended run kept, would violate it.

## What is proved

Eight modules hold proofs. Each theorem below is about the specification itself, for every value of its constants that
the named assumptions allow: any sets of messages, workers, callers, users and phones, and any limits. The assumptions are what makes the constants meaningful (kinds of things are disjoint, null values
are nothing else, limits are numbers); the two that say more are told where they are used.

### The send pipeline

`SmsDispatchProofs` proves, for any numbers of notifications, one-time passwords, workers,
callers, lease tokens, attempts and days, from the one assumption `DispatchConstants`
(message kinds and process kinds are disjoint, the two null values are none of them, at
least one attempt is allowed, and only messages grow old):

| Theorem | States |
|---|---|
| `InvariantHolds` | `TypeOK /\ DispatchInv` in every reachable state |
| `TypeCorrect` | `TypeOK` |
| `SingleSend` | `SingleAcceptedSend`: the provider takes at most one request of a message |
| `OutcomeIsTrue` | `OutcomeMatchesProvider`: accepted was taken, rejected neither was nor can be |
| `JobsFollowMessages` | `PendingHasJob /\ MarkerFenced`: pending exactly as long as a job can run; markers lie under their own lease |
| `RetriesAreBounded` | `RetriesBounded`: no job counts more attempts than it may |
| `NeverSentAgain` | `NeverResent`: once a message is accepted, rejected or unknown, nobody writes another marker for it, and no worker makes a request for it |

None of these properties is inductive. `SingleAcceptedSend` speaks about requests the
provider took, but what prevents a second one is the row a worker will look at before it
makes it. `DispatchInv` connects the two in five parts:

* `AttemptsFollowAcceptance`: the last attempt carries the message's acceptance, and every earlier one
  was rejected. A second attempt therefore only ever follows a rejection.
* `RequestsFollowAttempts`: a request belongs to an attempt, is taken or refused but not both,
  and a verdict in an attempt is the provider's. So of the attempts before the last one none was taken.
* `DispatchersOwnAttempts`: a process between its marker and its verdict owns its attempt alone, the
  attempt is still open, its request has not been made before the process makes it, and what the process
  has heard is true. This is what survives the loss of a lease: the stalled worker still
  owns its attempt, and nobody else writes a verdict into it except "unknown".
* `PendingHasJob` and `MarkerFenced`: an open marker of a worker lies under the lease it was written
  with, on a pending message, in its last attempt. Without it recovery could return a job whose marker is open.

From these: two taken requests of a message would both be its last attempt. An accepted message has a
last attempt that is accepted, hence taken. A rejected one has only rejected attempts, hence refused
requests only.

The proof that each step preserves the invariant has one case per action (`InvStep`). Actions that write
the same rows share a lemma: `MarkKeepsInv` for the two that create an attempt, `VerdictKeepsInv` and
`CompletionKeepsInv` for the completions, `LearnKeepsInv` for answers, `ForgetKeepsInv` for everything that only ends
a task, `ClosingKeepsInv` for what closes markers nobody will answer (recovery and retention). `TypeOK` needs `DispatchInv` (which attempt
a completion writes to), so the two are proved together.

The bound on retries needs another strengthening, `RetryInv`, which holds only together with `DispatchInv`.
The number of attempts is bounded by the number counted in the job, but the count is written by a
worker that read it when it leased the job: it must be shown that a worker which still owns its lease
still knows the count, and that a pending message has at most one attempt that is not counted yet, the open
one. The proof calls a step quiet (`QuietStep`) that adds no attempt, makes no message
pending and gives nobody a lease; quiet steps keep `RetryInv` by one lemma, and each of the four others
(enqueue, lease, mark, reschedule) has its own. `NeverSentAgain` follows from `DispatchInv` step by
step: a marker is written on a new or a pending message only, and a worker makes its request under its
live lease, which lies on a pending one. (The request of a direct send may follow the recovery that declared its
message unknown; it is the first and only one.)

TLC checks `DispatchInv` in `dispatch_pipeline`, together with the properties that follow from it.

`SmsDispatchProofs` also proves what is kept beside a message, and the refinement:

| Theorem | States |
|---|---|
| `KeptHolds` | `KeptInv` next to `DispatchInv` |
| `CompanionsFollow` | `CompanionInv`: each day's counter is the number of its reservations, the SMS sent out of a day never exceed its budget, parameters and reconcile jobs exist as long as they are needed |
| `PromiseKept` | `ImplementsPromise`: every step is a step of `SmsPromise` or leaves outcome and sends alone |

The counter of a day is right only because of what a reservation may be: `KeptInv` says of every message that it
holds its reservation from its first attempt until it is rejected, and that only a rejected one has given it back, so that no hold and no release
is counted twice. `DailyBudgetHolds` then follows from `DispatchInv`: what the provider takes has an attempt and is not
rejected, hence it holds a reservation of its day, and those are counted. The reservations of a day are finitely many whatever `Messages` is, which has to be
carried along, because the cardinality of anything else says nothing. The promise allows a send only of an undecided message of which nothing was sent;
`TakingIsASend` gets that from `DispatchInv`: a request that can still be taken is the last attempt of its message, and all before it were
rejected.

### Delivery

`SmsDeliveryProofs`, from `DeliveryConstants` and `OneOffConstants`:

| Theorem | States |
|---|---|
| `DeliveryHolds` | `OneOffInv`: receipts explain deliveries and deliveries their receipts; what waits has a job; an administrator is shown a job only if he may read it, whoever holds the key |
| `RequestsOnlyLook` | the requests of administrators leave all of `SmsDelivery` as it is, so everything that is true of it stays true with them |
| `DeliveryNeverRegresses` | `StatusesNeverRegress` |
| `DeliveryKeepsPromise` | `ImplementsPromise` |

What makes it inductive are `RowsAgree` and `ReadsStayTrue`. A reconciler reads a message, makes a network call and acts on what it has
read; the second says which part of a read is still true then, however long the call took: what was settled stays settled, and a record the provider
has found is one of an SMS it sends. Everything else it must look at again, and does. `LedgerNamesAJob` says what a
key, once used, stands for: two calls under one key may overtake each other, and the later one is shown what the earlier one has entered.

### Administration

`SmsAdministrationProofs`, for any set of requests, any connections, idempotency keys and mixes of operations, and any finite catalogue, from
`IdentifiersAssumption` (signatures, templates and keys are finitely many positive numbers: they are listed in order, and 0 is none of them) and
`MixesAssumption` (what is imported at first is under a key and a signature, and requests are of the kinds there are):

| Theorem | States |
|---|---|
| `SetupIsSound` | `SetupInv`: ready only for the connection that was tested; what is enabled is approved, and so is its signature; keys are unique, and stored messages name them |
| `NoDeadlock` | `LocksAreAcyclic`: among any number of requests, no circle of transactions waits for each other |
| `EffectsAreSingle` | `OneEffectPerKey` |
| `SendsUseTheSetup` | `SendsAreUsable`: what a message is stored on may be used at that moment |

Their invariant, `AdministrationInv`, has four parts besides the properties, each of which rests on the ones before it:

* `TypeInv` says what a request has in hand at each statement, and what may have become old about it. A candidate of a preview names a resource there
  is, and one with a local selection a template that is imported (`CandidateOK`); a row of the configuration that was read before the transaction
  is the present one if its version is (`ViewOK`). That the catalogue never forgets a resource (`RowsGrow`) keeps such things true
  while a request does nothing.
* `LockInv` is the order of the locks. Every row has a rank (`Rank`): the nine kinds of rows follow each other (`Floor`), and the rows of
  a kind have the place of their number. What a transaction still has to take is an ascending list (`Ascending`), above all it holds, and below a
  ceiling that depends on how far it has come (`Ceiling`), so that what a later statement asks for comes after it. Two places need care. A commit takes its templates
  and signatures last, after all identities; a rename goes from the template to nothing else, because it takes the keys before it. And the lists are computed
  from rows read without any lock: they may have the wrong members, but their order is right whatever they contain. In a circle of waiting transactions somebody
  waits for the highest row of all that are waited for; who holds that row waits for a lower one, which contradicts the order (`OrderMeansAcyclic`).
* `HoldInv` says which locks a request has at each statement (`Kept`) and which it has or has on its list (`Wanted`). The last part of it is the difficult one:
  a commit must lock every template under the signatures it touches, but asks for those that existed when the statement ran. Another transaction could
  import one in between; it cannot, because it needs the identity of the signature, which the commit holds (`ParentLock`).
* `DecidedInv` says that what was decided under a lock is still so when the transaction writes: no entry under the claimed key, the version of the
  configuration of a test message, a template that may be used under the key it was found by, a rename of what nothing used.

`SetupInv` then follows commit by commit. `ReadyWasTested` rests on the versions (`ViewIsCurrent`, `ReadyStays`): a test is recorded only for the version it read, and every
change of the connection raises it. For the catalogue, `CommitKeepsCatalogue` uses that a withdrawal disables all templates under a signature in the same
transaction, whether the preview named them or not, and that a candidate is applied only to a template whose selection is still the one it was shown with;
`ImportKeepsCatalogue` and `UpdateKeepsCatalogue` that who writes a key has looked for it under its lock; `StoreKeepsCatalogue` that the row lock of a
send keeps its template's key until the message is stored, and from then on the template is in use and cannot be renamed.

### Codes of the system

`SmsSystemAuthProofs`, from `SystemAuthConstants`. The three invariants of the two runs are inductive only together (`SystemInv`):

| Theorem | States |
|---|---|
| `ChallengeHolds` | `ChallengeInv`: a challenge tells the same story as its message, its call and its consumer |
| `OneCodeWorks` | `OneActivePerPhone` |
| `ReportsHold` | `ReportsAreBacked` |
| `MessagesMoveForward` | `OnlyTheAnswerMovesBack` |

`PhoneIsLocked` is the reason for `OneActivePerPhone`: while a call is in the transaction that issues, no other one is for the
same phone, and it knows every active challenge of the phone, although its UPDATE took its snapshot earlier, because the only steps that make
a challenge active are those of a transaction that holds the lock. `RequestsAdvance` orders the rows of a request by the place
where its caller is.

### Codes of a tenant

`SmsChallengeProofs`, from `SmsChallengeConstants`, again with one inductive invariant for all (`CodesInv`):

| Theorem | States |
|---|---|
| `ProofsHold` | `ProofInv`: a proof comes from a right guess at a code that was sent, and it is spent once, with the host's own write |
| `LimitsHold` | `LimitsInv`: one active code of the subject, one request to the provider per key, no more per phone and tenant than their limits |
| `AnswersHold` | `AnswersAgree` |
| `DecisionsHold` | `DecisionsStand` |

The limits are counted in rows of events and promised of requests to the provider. `IssuesAreCounted` relates the
two: the keys that were let through are at most as many as their events, which is what counting under two nested locks has to
achieve, and `CallsTakeTurns` says who is where: of the calls with one key one decides and one sends, of those for a phone
and of all one holds the limit, and what it has counted still has room. `HostsHoldProofs` is the row lock: while an operation of the host holds a proof,
nobody takes it away.

### The requests of auth-kit

`AuthProofs`, from `AuthKitConstants`: `SessionsHold` proves `SessionInv`, that no session outlives the password it was opened
under nor the number. What makes it inductive is `LocksProtect`, which says what a request may rely on between two statements:
it alone is about its user, so the password it has checked is still the one; but the host moves numbers without
taking the lock, and then the number may have changed under the request. In that case all codes of the user are dead, and since sending takes the lock too,
nobody has sent another: this is why a sign-in with a code of the old number finds no open challenge.

### The form and the gate

`AuthProofs` again, from the same assumptions with `AuthGateConstants` (a fence is longer than the distance of two sends and
shorter than the window: six minutes, one and sixty in the code) and `AuthFormsConstants`:

| Theorem | States |
|---|---|
| `FormKeepsRequests` | every behaviour of the composition is one of `AuthKit` |
| `FormSessionsHold` | hence `SessionInv` |
| `SendsHold` | `SendInv`: codes for a number are `SendInterval` apart and at most `SendLimit` in any window, but for the numbers with a send that took too long, and from the limit those with one that failed |
| `FormHolds` | `FormInv`: the captcha shown is one the server takes; when the countdown is over the window is open |

How long a send takes is not assumed. The fence is six minutes (`auth-kit/src/server/state.ts:30`); a send that has less than `SendInterval` left of it, or
none, makes its number `late`, and to a code for such a number the property does not apply any more. Nothing in the code keeps a send from that: the wait
for a connection of the SMS store has no limit (`auth-kit/src/server/auth.ts:346`), and `providerTimeoutMs` of sms-kit has to be positive and nothing else. The theorem therefore says what is true of
every host for the numbers whose sends were over in five minutes.

The inductive invariant (`Core`) has four parts. `FormTypeOK` and `CaptchasAreServed` are the queue of captchas: they arrive in the order they were asked for,
the last one is for what the form shows now, its context is the browser's cookie, and it is unspent until it expires.
`AnswersOpen` follows a promise: what the server answers about the next send is true of the window at that time (`Opens`), stays true
as time passes, and is still true in the form, on the browser's clock, until somebody else asks for the number. `SendInv` consists of
`SendsAreLimited`, the property, and `WindowsHold`, which connects the codes that were sent with what Redis remembers of them. The difficulty is that
the record of a code in the window has two times: when it was reserved, and, after `Finish`, when it was recorded,
which is later than when it was sent. `CodeCounts` says that a code that still counts is in the window under its own request, not before it was sent
(or, while it is under way, under the fence); `Sender` what is known of who sends, and `HoldsWindow` that in time it has the window for itself; `WindowHolds` that the key lives as long as anything in it
counts, unless a send has failed, broken or taken too long, which are the exceptions the section below tells about.

### The import of a dataset

`RegionProofs`, from `ImportConstants` (the names of datasets, sources and importers are distinct, a batch is not empty, the rows of
a source are ordered by level, as the audit writes them):

| Theorem | States |
|---|---|
| `ImportHolds` | `ImportInv`: a ready dataset has exactly the rows of its manifest, and its report tells what was inherited; the public follows no other |
| `ImportsAreFinal` | `ImportsStand`: what is ready is not imported into again, operators' settings stay, settings are inherited once |

`ImportInv` contains what makes it inductive. `WorkIsAlone` says that a run between its advisory lock and its end is the one the lock names, and
what it then knows of the dataset: the manifest is its own, the status is the one `ensureDataset` returned, the conflicts it will report are those the
dataset has, and once it has audited, the rows are exactly those of its manifest. The code keeps what it has read in
memory through the whole run, and this is why it may. A run that lost its connection knows nothing any more; its rows are found by
the next run, which appends them over again (`Appendable`).
The settings of a dataset are finitely many (`TypeOK` says so), whatever the sources hold: the conflicts are counted,
and only finite sets have a count.

### The field for a region

`RegionProofs`, from `AreaQueryConstants` and `AreaSelectionConstants`. What these say of the snapshots is what preparation and schema
leave of them: each is a tree of at most five levels (`IsTree`: the audit counts orphans and wrong parents, `area-kit/src/source/audit.ts:94`,
and only a province has no parent, `migrations/0001-area-kit.sql`), and a code has one level in all of them, because its length tells it (`SameLevels`,
`source/csv.ts:9`). Of the host they say that it sets values of datasets there are. `FieldIsCoherent` assumes nothing of `SwitchesDataset` and `DisablesOnChange`.
`FieldHolds` has two hypotheses. `SteadyHost` is what the run checks too: neither of the two, for with either the property fails (see the
divergences below); and the values a host sets by itself are whole paths, if their last code is in their dataset. A
host gets its values from the field, or keeps ones that were; a value of which the code has since gone is allowed, and reported as
gone. `NoneIsNull` says that `None`, which stands for `null`, is not itself one of the reconciliations it is compared with.

| Theorem | States |
|---|---|
| `FieldIsCoherent` | `LayersFollowPath`: reducer and hook count generations alike; one layer more than the path is long, each below the region one level higher, and nothing in it but regions of its level below its parent |
| `FieldHolds` | `FieldInv`: a field come to rest shows the value of its host, or an error at its root, and nothing in it goes on loading; a value reported as accepted is the one the host holds, and the server accepts it |

The invariant `FieldTypes` says it of the two states there are, that of the reducer and the one that is shown, and of
the path a search goes back to when its hit fails. It rests on three things. A page is only taken in by a layer that
still has the parent it was asked for (`LoadedKeeps`), and the rows of that page have that parent in whichever dataset they are read from
(`PageIsOfRows`). A user chooses in the state that is shown and the reducer applies it to a later one; `PathWithFacts` shows that what is left of the later
path fits, because regions of one level below one parent are replaced by each other only (`ChooseKeeps`). And
`PathTo` gives one region of each level, each below the one before it (`PathFacts`), and beginnings of paths are paths (`PathPrefix`); these two
are lemmas on every tree, and need no induction because a tree has five levels.

`FieldInv` speaks of a field at rest, so it says nothing of the moments before, and its inductive invariant has to: there are two parts,
`FieldMeans` for what is told and `FieldShows` for what is shown. In both a field may be `Unsettled`: the host has changed
its props and React has not rendered, or the effect of a render has not run, or a reconciliation is queued that will still do something.

* `FieldMeans` says what each thing under way is about. The state: its path and layers are in the snapshot of its dataset
  (`RealPath`, `RealLayers`), and there is no path without a value, unless unsettled. A call of the current generation: the path asked for
  is that of the value, and the verdict asked for is on the value and the target, unless unsettled; the hit of a search goes back to
  a path that is real, and only one is followed up (`CallMeans`, `CallsMean`). Calls of older generations may be about
  anything: their answers are ignored. What was told: accepted is a verdict on the value held, unless unsettled (`ToldMeans`).
  `PropsFollow` and `QueuedForThis` say how far rendered props and queued reconciliation may lag behind the host, `ShownIsMeant` and
  `OneDataset` that what the user sees and acts on is of the dataset the hook is in. A choice and a hit make the hook's value
  and the host's differ for a moment; that the host declined it is undone by the reconciliation, because the field
  is unsettled until that has run (`ChoosingMeans`, `AnswerHitMeans`).
* `FieldShows` says, of a field that is settled and enabled, that its dataset or its path is asked for (`Pending`); or every layer that
  loads waits for an open call with its request, parent and level (`Settling`), and the path ends at the value, there
  is none, the root shows an error no answer takes away, or a hit is followed up (`Arrived`). It needs that a fresh request is new (`FreshIsNew`):
  a layer must not take the answer, or the failure, of another one's call. `AnsweredShows` is the lemma on answers: whether a page is
  taken in, ignored or an error, no layer that waited for another call stops waiting for it.

With no call left, nothing is pending and nothing may load (`ShownAtRest`), and accepted is about the value (`MeaningAccepts`).

### The address form

`RegionProofs`, from `AddressRegionsConstants` and `AddressFormConstants`: provinces and one to three levels below them are parsed, each version has
finitely many rows, is a tree, and its groups are on the level of prefectures (`GroupsArePrefectures`); files name codes of their version. For every engine, every text and any edits:

| Theorem | States |
|---|---|
| `RegionsOfAVersion` | `RegionsAreReal`: a server that is ready serves its version whole, and every saved address is one path of the version it names, under the names that version gives |

The invariant `FormTypes` connects what the server knows with what the page holds and what is under way. `LoadOK` is the load: the
rows that were read are of the version, each parent is among them, and counts that agree mean that nothing is
missing (`CountsMakeWhole`), although operators reorder regions between two pages. The index is closed
under parents, so that a path in it is the path in the version (`RestrictedPath`), and `ConfirmedIsReal` shows that the checks of
`confirmAddress` are enough by themselves: whatever a page sends whose levels are in their slots, what is saved is one path.
That the levels are in their slots (`LevelsOK`) is what the page owes; it is shown of the parser (`ParsedLevels`, for every answer of
the engine), of the fallback and of each edit. A page that is edited during a deployment sends the regions of another version, and is refused.

### Products and their SKUs

`SkuConfigurationProofs`, for any products, requests, forms, capacities and numbers of dimensions, from the assumptions
that stand with the constants: there are finitely many requests (stock is compared with their number), bounds
and the capacity are numbers, ids of clients are told from those of the service, no authority is the mark of an unbound scope, and the marks for "nothing" are nothing else
(`CommandsAssumption`, `BoundsAssumption`, `IdsAssumption`, `CapacityAssumption`, `AuthoritiesAssumption`, `NothingAssumption`):

| Theorem | States |
|---|---|
| `ProductsHold` | `ProductInv`: one SKU for a combination, archived ones included; numbers below the counter; stock as many items as requests booked one; none behind a default SKU that was replaced |
| `CommandsHold` | `CommandInv`: a command takes effect once and its replies agree; a code belongs to one product, stock to one authority |
| `ReferencesHold` | `ReferencesStayGood`: a number stays with its combination; what changes moves its version |
| `SavesHold` | `SavesAreForeseen`: a save archives nothing its author had not seen, and does what a preview would have shown |

The proof is about documents first and about commands afterwards. `Good` is what the store may hold, `Grows` what no write takes back of a
document, `StockStays` that it leaves stock alone. `SavedFacts`, `PatchedGrows`, `CopiedGrows` and `StockedGrows` show of the four
functions that compute a new document from an old one that they lead from good documents to good ones that have grown. The longest of them is
`SavedFacts`: new combinations get the next numbers, one each (`AllocationFacts`; there are such numbers, `PlaceExists`,
because a form names finitely many), and resolved combinations that are equal are the same SKU.

The inductive invariant, `SkuInv`, adds what relates requests to documents. A client builds its request from what it has
read, and sends it at any later time: `Behind` says that what it has read still lies behind the document - the version it names is not newer,
and if it is the current one, nothing else it has read has changed - and every document that grows keeps this
(`SaveFitsOn`, `PatchFitsOn`, `StockFitsOn`). A request that took effect has been overtaken by its own effect (`Overtaken`), so a request that
names a version is never accepted twice, whether its receipt is still there or not; that is the part of `CommandInv`
that lives on when receipts lapse. For the rest, `Receipted` gives every effect and every answer its receipt, and `ReceiptsAreUnique` one
receipt to a `commandId`. `NoLostStock` follows from the same fact: the booking that is accepted wrote one more than it had read, it had read the
current stock, and it had not been counted (`BookingCounts`). `CodesBelongToOneSpu` rests on the unique constraint, not on the lookup
before the transaction, whose answer may be old when it is used.

`ReferencesStayGood` is `Grows` for every product in every step (`StepKeeps`). For `SavesAreForeseen` it must be known which step a
save takes effect in (`EffectOfSave`): its form carries the current version, so by `Behind` the counter it has seen is the current
counter, and all numbers lie below it.

## Where the code departs from its documents

None of these has a run of its own: each is stated with a formula or a behaviour of the models that shows it, and the
properties of the runs allow for it in so many words.

sms-kit:

* `markMessageAcceptance` of the SYSTEM scope
  (`sms-kit/src/postgres/repositories/system-auth-repository.ts:291`) has no condition on the status. A caller is slow;
  `recover()` declares its message unknown; a query finds the SMS delivered; then the caller's
  own answer sets the message back to waiting. The data dictionary calls the status final
  (`src/doc/数据库设计.md:47`) and the tenant pipeline refuses the transition (`core/status.ts:34`).
  `OnlyTheAnswerMovesBack` shows that this is the only way back.
* A late rejection leaves a message rejected and waiting: recovery has made it unknown and waiting, and
  `completeAcceptance` (`message-repository.ts:170`) keeps the delivery status. Such a message waits for a
  delivery that cannot come, and `leaseReconciliation` (`job-repository.ts:72`) never takes its job. The data
  dictionary reserves waiting for accepted messages (`src/doc/数据库设计.md:44`). In `SmsDispatch`:
  `\A m \in Messages : acceptance[m] = "rejected" => delivery[m] # "waiting"` fails in `MarkDispatch`,
  `Dispatch`, `RecoverBatch`, `ProviderRefuses`, `Receive`, `CompleteRejected`. `WaitingEnds` allows for it.

sku-kit:

* A patch refused at its second SKU has changed the
  first one in the document it returns (`sku-kit/src/server/service.ts:282`), and the store writes it
  (`store.ts:109`): half of the batch is committed, the client is told VERSION_CONFLICT, and there is no receipt. The
  specification wants a batch committed or rolled back as a unit (`src/.scratch/sku-kit/spec.md:136`). In `SkuConfiguration`: save a product with two
  SKUs, patch the second, then send a patch of both made before that.
* A SKU archived by an earlier save loses its relations to specification values: `writeDocument` deletes them all and writes those of the listed SKUs
  (`sku-kit/src/postgres/store.ts:87`), while the glossary promises that archived SKUs keep them
  (`sku-kit/CONTEXT.md:136`). In `SkuConfiguration`: `pairs = key` for every SKU fails after two saves.
* A combination must have a value for every dimension of the document, archived ones included
  (`service.ts:73`), so a combination may be sold that contains an archived value, and once a
  product has had specifications it cannot return to a single default SKU: its only combination `{}` does
  not name the archived dimensions. ADR 0007 and `CONTEXT.md:48` describe both otherwise.
* For the same reason a preview is not what decides: it knows the dimensions of the form only, so it shows combinations without
  the archived dimensions, which the save refuses, and refuses those the save accepts, while `README.md:36` has it called before
  saving. `SavesDoWhatIsPreviewed` is about the saves of which both succeed.
* The id of a value is checked under an existing dimension ("新规格值必须使用 draftKey", `service.ts:182`) and taken as it is under a new
  one (`service.ts:201`). A value whose id is given again moves to the dimension that is written last (`store.ts:82`): the other
  dimension cannot list it any more, and SKUs in use may keep a pair that their dimension no longer has. In `SkuConfiguration`: save a
  dimension of one value, then add another dimension whose value has the id of the first.
* A save that is refused at its first attempt still registers the product under its code, because the store writes the
  document of a refusal (`service.ts:217`, `store.ts:109`); `README.md:36` says the first *accepted* code is frozen.

auth-kit:

* The cache of the active challenge can name a dead challenge, after a sending that died before it wrote the cache. The right code is
  then refused until the entry expires, for up to 300 s (`auth-kit/src/server/auth.ts:500`), although `auth-kit/README.md:98`
  calls the database the authority. In `AuthKit`: `Issue`, `Break`, `Choose`, `RefuseCode`.
* A sending that fails, or whose process ends, leaves the member `pending`, and the key of the window with the six minutes
  of the fence as its life (`server/state.ts:30`). When they are over Redis drops the whole key, and with it the count of the hour: the
  next hour's five codes begin anew. `SendsAreLimited` excepts these numbers (`gate.broken`) from the limit, not from the distance of two codes. A failed
  sending also answers without the time of the next one, so the form offers to send again although the fence refuses.
* "Provider/database latency cannot shorten the next cooldown" (`server/state.ts:103`), but a sending that takes more than the six minutes of its fence loses
  it: the number is reserved (`server/auth.ts:332`) before the sending waits, without a limit, for a connection of the SMS store. When the number has meanwhile
  changed hands, or the process that waited has ended with the code at the gateway, another request is let in, and two codes may follow each other at once. In `AuthForms`: `ReserveSend`,
  `Tick` until the fence has fallen, `Rebind`, `ReserveSend` of another request, then both send. `SendsAreLimited` excepts the codes for such numbers (`gate.late`).
* After a sign-in by password the spent captcha is still shown, in a host that does not leave the page
  (`react/forms.tsx:338`); `form.done` in `ShownCaptchaCounts`. Two tabs of a browser share one cookie and so one
  captcha per purpose, and each takes the other's away; the model has one form.

area-kit:

* A choice that a host declines is taken back by a microtask (`area-kit/test/selection-hook.test.tsx:128`), but not if the host answers
  by disabling the field: the change of props begins a new generation, the microtask is stale, and a field without a value keeps the declined path. With `DisablesOnChange = TRUE`, `ShowsHostValue` fails.
* A host that sets a value of another dataset than the one shown, and a choice before the field has loaded it: the value then
  carries the codes of one dataset under the name of the other, the field finds its path by the last
  code only (`use-area-selection.ts:160`, `:244`) and reports it accepted, although the server would
  answer PARENT_MISMATCH; `area-kit/README.md:83` tells the host to submit what is accepted. With `SwitchesDataset = TRUE`, `AcceptedIsSelectable` fails.

addr-parse-kit:

* Of the phones after the first one the extension is lost: the span that is cut out includes it, what is kept of it
  does not (`src/internal/map.ts:157`; `CONTEXT.md:17`). `NothingLost` excepts extensions.
* `CONTEXT.md:16` promises `input.slice(begin, end) === matchedText`. Matching passes over spaces within a name (`src/internal/text.ts:11`), and then
  the two differ by these; `ReviewIsAsked` compares without spaces.
* In the example host, an answer to a check or a confirmation that arrives after an edit is shown
  for the edited address; `reviewed` stays ticked over edits; a confirmation that was saved and not answered
  saves a second record when it is repeated. `SavedPathIsReal` is about records, which are all of real paths.
* A hint that conflicts adds `HINT_CONFLICT` after it was decided whether a review is required, and does not ask for one itself.
* An address without any region can never be confirmed: `validatePath` refuses an empty path, although `lib/host.ts:113`
  has a rule for such an address. A record may lack the province, which `DATABASE.md` wants not null.

## What is only model-checked and what is not modelled

Only checked by TLC, on the instances above: `NothingLost` and `ReviewIsAsked` of `AddressForm`, because what the parser takes out of a text it
computes by recursive functions over the words of the text, and what these yield for every text is an induction over data, out of the
proof system's reach. The liveness properties (`MessagesAreDecided`, `WaitingEnds`, `MessagesSettle`, `ImportsComplete`) need
fairness, and `SomeoneGoesOn` of `AuthKit` speaks of ENABLED: both are beyond the proof system and stay with TLC for good.

Not modelled:

* Row locks inside the transactions of the other modules than `SmsAdministration`. Recovery and the completion of a direct send take the
  locks of an attempt and its message in opposite orders; PostgreSQL aborts one of them, which is a step that does
  not happen.
* The deletions of retention (challenges after seven days, candidates and limits that expired, settled reservations, audit events) and
  what it does to messages of the system: elsewhere than in `SmsDispatch` and `SmsDelivery` no message grows ninety days old.
* The `approveModeChange` hook of sku-kit, whose answer is the host's, and its reads other than the preview.
* Windows by address and the check of the origin in auth-kit: a refusal that may happen at any time. `GET /session`, and
  a change of password by an administrator.
* Tree and ancestor queries of area-kit, and its manager: reads, or one call per operation.
* The engine of addr-parse-kit (another package), batches, limits of length and rate.
* Source preparation of area-kit: one sequential pass over files, whose result is the input of `AreaImport`.
* Parsing, authorisation, mapping of provider fields and errors, signing, encryption, hashing, rendering of
  templates, statistics, health, the layout of user interfaces: no shared state, or read-only.
* The better-auth adapter (one call through), the migrators (numbered scripts under one lock), the phone
  migration (one UPDATE per user), the in-memory store of sku-kit.
* ai-kit and oss-kit, whose source is not in the repository.

## Running it

```
tlasany SmsDispatch.tla
tlc -workers 2 -config MCSmsDispatch_pipeline.cfg MCSmsDispatch.tla
tlapm SmsDispatchProofs.tla
```

Every configuration belongs to the module whose name is before the underscore. Each run takes
less than four minutes on two cores. The proofs are in `SmsDispatchProofs`, `SmsDeliveryProofs`,
`SmsSystemAuthProofs`, `SmsChallengeProofs`, `AuthProofs`, `SmsAdministrationProofs`, `RegionProofs` and `SkuConfigurationProofs`; together they take
about three quarters of an hour from nothing, the longest of them a quarter.

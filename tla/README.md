# Verification of the equipment management system

The repository is a web application for a calibration laboratory (quality procedure UL-QP-18): a NestJS
backend over PostgreSQL, a Next.js frontend, and shared packages with the database schema, the enums and the
state machines. This directory holds TLA+ models of its backend, the TLC configurations that check them and
proofs that TLAPS checks.

Run a configuration with `tlc -config <name>.cfg <module>.tla`, where the module is `MCNonConformance` for `nc_*`,
`MCEquipmentImport` for `imports*`, `MCDocumentApproval` for `documents*` and `disposal_*`, and `MCCheckout` for the
others; run the proofs with `tlapm` on each of the eight `*Proofs.tla`.

## 1. The system

| component | state | operations | how it meets the others |
|---|---|---|---|
| checkout state machine (`packages/schemas/src/fsm/checkout-fsm.ts`) | none: a table of 20 rules | which action from which status, for which purpose and permission | backend handlers, approvals page and frontend read it |
| checkout service (`modules/checkouts`) | `checkouts`, `checkout_items`, `condition_checks` | create, two approvals, reject, start, four condition checks, return, approve or reject the return, cancel, edit, revoke, bulk forms | reads through the detail cache, writes by compare-and-set, writes `equipment.status`, sends events |
| optimistic locking (`common/base`) | the `version` of a row | update where id and version match, version + 1; a conflict drops the cached row | base class of most services |
| cache (`common/cache`) | entries with a lifetime, fills in flight | get or fill, delete, delete by prefix, evict | services call it, listeners of notification events delete by pattern |
| overdue scheduler (`modules/notifications/schedulers`) | none | hourly: checked out and late becomes overdue | writes checkout rows outside the service |
| equipment (`modules/equipment`) | `equipment.status` | registration, disposal, batch writes for checkouts | written by checkouts, non-conformances, schedulers, disposal |
| non-conformances (`modules/non-conformances`) | rows with their own machine | create, edit, correct, reject the correction, close, remove, link to a repair | saves and restores `equipment.status`; detail cache and compare-and-set |
| repair and incident history (`modules/equipment/services`) | their rows | record, complete, reopen, remove; report | a repair links and marks a non-conformance, an incident opens one |
| calibration-overdue scheduler | none | hourly: overdue calibration opens a non-conformance | writes `equipment.status` without a compare-and-set |
| equipment imports (`modules/equipment-imports`) | rows of borrowed equipment, management numbers | approve, receive, return (creates a checkout), cancel | a saga with checkouts and equipment, told of their end by events |
| import orphan scheduler | none | every six hours: imports whose checkout has ended | repairs what a lost event left |
| inspections, self-inspections, software validations, calibration plans | documents with items and sections, signatures | edit, submit, review, approve, reject, withdraw, resubmit, remove | detail cache, a version compared at the commit |
| disposal (`modules/equipment/services/disposal.service.ts`) | requests | request, review, approve, reject, cancel | writes `equipment.status` in the same transaction |
| approvals page | none: counters | what waits for whom | queries over all of the above |
| calibration records, equipment approvals, test software | their rows | register, decide | calibration approval marks non-conformances |
| notifications, auth, users, teams, reports, settings, frontend | their own rows | delivery, sessions, queries | decide nothing about the rows above |

What is hard here: every handler of a checkout is a sequence of awaits (load through a five-minute cache, check,
commit, send an event, query the affected teams, drop the cached row), so any two of them interleave at each; the
check is done on the cached row while the commit compares only a version, which the client sends; the scheduler
writes the same rows; a fill of the cache may resolve after the deletion it should have preceded; several
services write `equipment.status`; and the process may stop between any two of these.  Transactions run at READ
COMMITTED, so even inside one a second statement sees what others committed after the first.  The return of an import
is a saga of four commits with compensations; the end of it arrives as an event in memory.  An approver signs what a
page showed some time ago, put together from two statements.

The properties that make each part right:

* locking and cache: a snapshot may be old but never *lies* about the version it carries;
* checkouts: statuses follow the table, terminations record where they happened, nothing is returned without its
  inspection, a rental and a repair never take each other's path;
* equipment: one checkout at a time, marked as out exactly while it is out;
* non-conformances: nothing is corrected without its repair or calibration, equipment is marked exactly while it
  has a non-conformance, closed is final;
* imports: told of exactly the end that happened, one return at a time, no return left without anybody behind it;
* documents: what is approved is what its signers saw, by others than its author, finally; equipment follows its
  disposal;
* schedulers: what is late, overdue or orphaned is noticed;
* approvals page: what is counted as waiting does wait for that action.

`PROJECT.json` lists every component with its state of modelling, and the hazards with their lines.

## 2. The modules

* **`CheckoutFsm`** — the table of `checkout-fsm.ts`, rule by rule, with purposes and permission keys, and the
  questions the services ask of it.
* **`Checkout`** — the service, its cache, its equipment writes, the scheduler, time and restarts. Variables:
  `checkout` (row, items and condition checks), `equipment`, `was` (the status an equipment row had before its
  last change: what a cache entry refilled too early still shows to `create`), `cache` and `fill` (the detail
  entry of a row and the fill in flight), `request` (where each handler stands), `owed` (rows the scheduler has
  yet to invalidate), `importEvents`.
* **`ApprovalQueue`** — the counter of outgoing approvals over the same rows.
* **`Custody`** — the abstract promise: equipment is asked for, agreed, handed over, handed back, disputed,
  settled or refused; no versions, caches or approvals. `Checkout` maps its statuses to stages by `stageOf`, and
  `KeepsPromise` is `Custody`'s specification under that mapping.
* **`NonConformance`** — non-conformances with repairs, incident reports, the approval of calibrations, the hourly
  scheduler, and what checkouts do to the same equipment row. Variables: `nc`, `known` (for each
  non-conformance the rows that a read through the cache may return), `repair`, `equipment`, `fresh` (which requests have read the present
  version of an equipment row), `custody` (where checkouts have the equipment, as `Checkout` would say), `overdue`,
  `scan`, `request`. Equipment starts with one of `StartStatuses`.
* **`NonConformanceLedger`** — the abstract ledger of the same: an entry takes equipment out of use, is remedied,
  corrected and closed, and gives the equipment back as it was, or is withdrawn, each in one step; no versions, caches, requests or
  transactions. `NonConformance` maps to it by `stateOf`, `aboutOf`, `needsOf`, `hasOf` and `notedOf`, and
  `KeepsLedger` is its specification under the mapping.
* **`TemporaryNumber`** — the management number of borrowed equipment: an order on strings, its largest element, the
  next serial.
* **`EquipmentImport`** — imports, the saga that starts their return, the listeners of its end, the orphan scheduler.
  It extends `TemporaryNumber`. The checkout it creates is reduced to how it ends.
* **`BorrowedReturn`** — the abstract promise about a return to the vendor: it begins, is carried out by a checkout
  and ends, or is as if it had not begun; no versions, links, events or compensations. `EquipmentImport` maps imports
  and checkouts to it by `stageOf` and `courseOf`; its `KeepsPromise` is that specification under the mapping.
* **`DocumentApproval`** — five kinds of document over one set of handlers. `Chain[kind]` is the table of steps read
  off each service, with who may not (`apart`) or alone may (`own`) take a step. A behaviour follows one kind, since
  documents of different kinds share nothing. `detail` and `fill` are the detail as the two statements of a read put
  it together; `shown` is a history variable: what each signer of the present round had seen.
* **`DocumentRegister`** — the abstract register that the five services stand for: one clerk, one entry at a time, the
  signer before the desk with the text as it stands; no details, pages, requests or versions. `DocumentApproval` maps
  to it by `statusOf`, `bodyOf`, `signedOf` and `sealsOf`, and `KeepsRegister` is its specification under the mapping.
* **`MCCheckout`**, **`MCNonConformance`**, **`MCEquipmentImport`**, **`MCDocumentApproval`** — symmetry and
  bounds for TLC.
* **`CheckoutProofs`** (types and versions), **`CheckoutFlowProofs`** (statuses), **`CheckoutCustodyProofs`**
  (equipment and the refinement), **`CustodyProofs`** (the promise itself), **`NonConformanceProofs`**,
  **`TemporaryNumberProofs`**, **`EquipmentImportProofs`**, **`DocumentApprovalProofs`** — the theorems.

### How actions correspond to the code

**Checkouts.** A handler is three or four steps, split where the code awaits something that others can get in front of:

1. `Load(r, c, op)`: the row comes from the cache (`ReadRow` and `StoreRow` are the fill that a miss starts and
   that everyone waits for, `Evict` its expiry, eviction or deletion by a listener), and `Permits` is asked of
   what was loaded. `assertFsmAction` asks the table; condition checks, edits and revocations compare the status
   themselves in the code, and so they do here.
2. the commit (`Approve`, `Start`, `SubmitReturn`, ...): `updateWithVersion`, in one transaction with the
   equipment rows where the code has one. It compares the version only. `Conflict` is the 409 with its hook.
3. `Announce`: the event to the imports module after the end of a return to the vendor.
4. `invalidateCache`; or `Fail`, when the query for the affected teams fails in between and the entry stays.

`CreateCheck` and `CreateInsert` are the two halves of `create`. `CheckOverdueCheckouts` is the batch update; its
preceding query and the update are one step, since the update repeats the status condition and a return date
cannot change while a row is checked out. `InvalidateOverdue` is one turn of its loop, which may fail.
`Restart` forgets caches, fills, requests and the rest of the loop.

Left out of the model: who the user is (any permitted user may act, so the rules of teams and sites can only
remove behaviours; `Fail` is a refusal), texts, photos and the audit log, lists and summaries with their own
keys, equipment statuses checkouts never write or accept (disposed, inactive, temporary, pending disposal), and
bulk operations, which call the same handlers with the version of the loaded row, a case `Load` has.

**Non-conformances.** `Load` is the handler's look at a row that may be any row of `known`, with `Allows` (the
transitions and prerequisites) asked of it; `Edit`, `Correct`, `rejectCorrection`, `remove` are its commit. `close` is
a transaction whose statements others may come between: `CloseUpdate` writes the row and `CloseCommit` looks for other
non-conformances and restores the equipment; the row lock taken by the first keeps others from that row until the
second (`Unlocked`). `CreateRead` and `CreateCommit` are the look at the equipment and the transaction with its
compare-and-set on the equipment row. A repair is `RepairCreate`, `LinkLoad`, `LinkCommit`, `MarkLoad`: separate
writes, any of which `Fail` may cut off with the earlier ones kept, as in the code. `CalibrationSelect` and
`CalibrationCommit` find an open row and mark it by its identifier. `Scan` is the scheduler's list, `ProcessOverdue` and
`OverdueFails` a transaction per piece of equipment. `CheckOut`, `ReturnApproved`, `LenderReceives` and
`ReturnRejected` are the writes of checkouts to that row.

**Imports.** Approval, rejection, receipt and cancellation are one step each: their row is read from the database and
the client's version is older than it. The return is `InitiateReturn` (the claim), `SetAvailable`, `CheckActive` and
`CreateCheckout` (the two halves of the creation), `Link`; the ways back are `SetAvailableFails`, `CreateFails`,
`RestoreEquipment`, `RestoreFails`, `UndoImport`, `LastStepFails`. `ReadEvent`, `onReturnCompleted`, `onReturnCanceled`
and `EventFails` are the listener with its retry after a conflict; `ListOrphans`, `RecoverOrphan` and `RecoverFails` the
scheduler. `Restart` forgets requests, events and the scheduler's list. `Lend`, `ComeBack` and `MarkNonConforming`
are the rest of the system at work on the same equipment.

**Documents.** `FillRow` and `FillItems` are the two statements of a detail, `Evict` the end of its cache entry. `Load`
is a person's page and the handler's check, on the cached row for the three kinds of `Cached` and on the database for
the others; `TakeStep` the commit where the version matches; `Remove`, `EditPlanItem` and `EditSection` the writes that
compare none. `createNewVersion`, `requestDisposal` with `InsertDisposal`, `DecideDisposal` and
`cancelDisposalRequest` are what plans and disposals have of their own. Left out: the deprecated `submit` of a plan,
the confirmation of items of an approved plan, templates, photographs and lists.

`ClientVersions` says whether a client may send a version it read elsewhere than in the detail it acts on: from a
list with its own cache key, or from an earlier answer. Nothing in the backend prevents it. What is claimed for
such clients, too, is checked and proved with it; `StatusFollowsTable`, `TerminationRecorded`, `ReturnInspected`
and what rests on them hold only without, because then the compare-and-set confirms the status that was checked.
`NonConformance` and `DocumentApproval` have the same constant. In `NonConformance` the two properties of the
records hold with it; in `DocumentApproval` none of the properties of signatures does, and
`documents_versions.cfg` and `documents_independent.cfg` show how.

The modules also hold, next to the definitions they vary, a few operators named `<definition>_<change>` and marked
as mutants: plausible bugs (a version not raised, a guard dropped). Each is substituted for its definition to see
that the property named with it in `PROJECT.json` notices.

## 3. The runs

| run | instance | checks |
|---|---|---|
| `versions` | 1 checkout, 2 requests, rental or return to the vendor, 6 versions, any client version | `TypeOK`, `SnapshotsAgree`, `StatusFitsPurpose` |
| `lifecycle` | the same with 11 versions and honest versions | `ReturnInspected`, `StatusFollowsTable`, `TerminationRecorded` |
| `custody` | 2 checkouts over 1 piece of equipment, 1 request, 5 versions, no creation beside a half approved rental | `NoDoubleBooking`, `EquipmentFollowsCheckout`, `ImportEventsMatch`, `KeepsPromise` |
| `overdue` | 1 calibration, fairness, 8 versions | `LateIsNoticed` |
| `double_booking` | 2 rentals, 1 request | `NoDoubleBooking` is violated |
| `late_fill` | 1 calibration, 1 request | `InvalidationIsFinal` is violated |
| `outgoing_queue` | 1 calibration, 1 request | `OutgoingAwaitsApproval` is violated |
| `nc_records` | 1 non-conformance, 2 repairs, 2 requests, 3 versions, any client version, all actors but scheduler and checkouts | `TypeOK`, `CorrectedMeetsPrerequisite`, `LinkIsStable` |
| `nc_mark` | 2 non-conformances over 1 piece of equipment, spare or inactive at first, 2 requests, 4 versions, users and repairs | `MarkFollowsRecords`, `ClosedIsFinal`, `KeepsLedger` |
| `nc_overdue` | 2 pieces of equipment, checkouts and scheduler, fairness | `OverdueIsNoticed` |
| `imports` | 1 import, 3 checkouts, 2 requests, fairness | `TypeOK`, `ImportFollowsCheckout`, `ReturnHasOneCheckout`, `NoOrphanWithoutFault`, `RefusalRestoresMark`, `KeepsPromise`, `EndedReturnIsFollowed` |
| `documents` | each of five kinds, 2 documents, 2 people, 2 requests | `TypeOK`, `ApprovedAsSeen`, `ApproverIsIndependent`, `EquipmentFollowsRequest`, `DecisionIsFinal`, `KeepsRegister` |

**Bounds.** `MaxVersion` is the only bound on behaviours: no request writes a row with that version. A rental is
created at version 1 and is settled with its eighth, so eleven versions hold a whole life and a rejected return or
a revocation on the way; six hold the races around every pair of neighbouring steps, since the properties of
`versions` speak of a snapshot and the row only. Two requests are the race of two handlers; a third could only
make a snapshot older, which the cache and its fill make it already. Requests are interchangeable (symmetry, not
used with liveness). `custody` has one request at a time, with fills, events and scheduler of the other checkout
interleaving; two requests over two checkouts exceed what TLC does in reasonable time. One piece of equipment is
what a conflict needs. Return to the vendor stands for the shop flow because it has all of calibration's rules
and the events as well.

In `nc_records` `MaxVersion` stops a row at its third version: created, edited or linked, corrected is all it takes
to decide on a row that another request changed. `nc_mark` has one version more for the closing; two
non-conformances, of which one needs a repair, are what an insertion beside a closing needs. Both types with a
prerequisite, and one without, occur. Its equipment starts with a status that a closing must give back
(spare) or replace (inactive), so that giving back what was not noted shows. `nc_overdue` has two pieces of equipment so that the failure of one transaction
does not keep the other from its own. In `imports`, `MaxVersion` bounds only the starts of a return, and 12 leaves
room for request, approval, receipt and three whole attempts of claim, link and end. `Limit = 10` is 10000 in small. In `documents` a
first document goes through its chain with an edit, or back to a draft and into a second round (`First`), which a
self-inspection and a validation can finish and an intermediate inspection and a plan can take to their review; the
proofs have no such bound. A second document is
only begun, to be there when requests are mixed up; two people are the least that independence needs, and `MaxParts`
allows one edit of sections to the kinds that have any (an inspection, and a plan with its items). A second disposal request is excluded (`Seconds`), because the properties fail with one.

The runs of these modules do not look for deadlock: identifiers and versions run out, after which everything may be
settled.

`custody` explores only states where `CreationsApart` holds (a `CONSTRAINT`): no two creations are between check and
insert over the same equipment, and none is beside a rental that only its borrower's manager has approved. These are
the two ways in which `double_booking` shows the code to let a second checkout in; the run shows that there is no third,
and that nothing else breaks. `custody_creations.cfg` is the same with two requests and rentals, so that creations do
meet, up to the third version.

**Fairness** (`LiveSpec`): the hourly cron runs (`@Cron(EVERY_HOUR)`), its loop ends, a fill resolves, and a
handler that has loaded runs on to its end; nobody is forced to send requests, and restarts may happen for ever.
`CheckOverdueCheckouts` stays enabled across restarts while a late row is checked out, so weak fairness is enough.
In `nc_overdue` the hourly `Scan` is weakly fair and `ProcessOverdue` strongly: each transaction may fail, and a
checkout may make its equipment ineligible again and again, but what is listed time and again is processed some
time. In `imports` the six-hourly `ListOrphans` and `RecoverOrphan` are fair in the same way; the listeners of
events are not, so that the scheduler alone must do.

**Violations.** They are disagreements between the code and its own comments:

* `double_booking`: `activeStatuses` in `create` lacks `borrower_approved`. Create a rental, let its borrower's
  manager approve it, and create a second rental of the same equipment: accepted, without any race. (The same
  property also fails by a race of two creations between check and insert, which no constraint of the schema
  stops.)
* `late_fill`: `getOrSet` stores the result of a fill whatever was deleted meanwhile. `SnapshotsAgree` is why the
  damage is bounded: a handler that uses the old entry gets a conflict.
* `outgoing_queue`: `LENDER_APPROVAL_PENDING_STATUSES` is derived from the permission `approve:checkout`, which
  returns require too, so equipment that is out is counted as waiting for an outgoing approval.

### Counterexamples kept beside the runs

These configurations end in a counterexample, too (but `nc_reason` and `nc_removal`, which show where one ends). Each states what one would like to hold and the code does not give;
no sentence of the repository promises it in so many words, or a comment does so only in passing, so they are notes to
the team rather than findings.

| cfg | property | what happens |
|---|---|---|
| `nc_stuck` | `NonConformingHasReason` | two closings of one piece of equipment each see the other's row still unclosed; neither restores the status (write skew at READ COMMITTED). `nc_reason.cfg`, a smaller instance kept to `ClosingsApart`, finds nothing: see `MarkHasReason` |
| `nc_unmarked` | `OpenNcKeepsMark` | approving a return makes equipment available that has an open non-conformance. Without checkouts, and with removals, `nc_removal.cfg` finds nothing: see `RemovalsKeepMark` |
| `nc_returned` | `CheckedOutIsOut` | a non-conformance opened while equipment was out gives `checked_out` back after it came home |
| `nc_reopened` | `ClosedIsFinal` | calibration approval finds an open row and updates it by identifier after it was closed |
| `nc_orphan_repair` | `RepairsAreLinked` | a repair is recorded and its link fails |
| `imports_numbers` | `NumbersDoNotCollide` (proved for one letter, see `ReceiptsAreNumbered`) | numbers are ordered as strings over all classification letters: the next serial is taken from another letter's number. The unique constraint refuses the duplicate, so the import cannot be received, although the comment at `equipment-imports.service.ts:965` makes uniqueness the contract of the generator |
| `imports_inactive` | `ReturnedIsInactive` | the orphan scheduler sets the import returned and leaves its equipment active, which the listener would have made inactive |
| `imports_rejected` | `RejectedReturnIsFollowed` | rejecting the checkout of a return emits no event and the scheduler does not look for it: the import waits for ever |
| `documents_parts`, `documents_plan_items` | `PartsChangeInDraft` | result sections and plan items are written without comparing status or version, also after approval |
| `documents_versions`, `documents_independent` | `ApprovedAsSeen`, `ApproverIsIndependent` | a client that sends a newer version than that of the detail it was shown: the cache is invalidated inside the transaction (`self-inspections.service.ts:342`), so an old detail may be stored again |
| `documents_removal` | `RemovedByManager` | an inspection is approved between the check of the role against its status and the deletion by identifier |
| `documents_latest` | `OneLatestPlan` | two new versions of one approved plan are both latest; the comment in the schema (`calibration-plans.ts:85`) leaves uniqueness to the service |
| `disposal_second`, `disposal_seen` | `EquipmentFollowsRequest`, `ApprovedAsSeen` | a reviewed disposal does not stop a second request (`disposal.service.ts:97`), and a decision takes whichever request has the status |

Noticed while modelling, without a configuration: `assert-independent-approver.ts` says that every approving module
calls it, disposal and calibration do not, and the quality approver of a validation may be its submitter;
`requestDisposal` does not look at the equipment's status, and a rental's receipt overwrites `pending_disposal`; the
comment at `equipment-approval.service.ts:442` claims one transaction while `equipmentService` writes on another
connection; `calibration.service.ts` lets a record be edited whatever its approval status; equipment made available by
an approved return may be lent before the import's listener makes it inactive; a crash between the claim of an import and
its link is repaired by nothing; `critical-workflows.md:380` has a second non-conformance created for equipment that is
non-conforming, which `create` refuses.

## 4. The proofs

For any number of checkouts, pieces of equipment, requests and versions, under the named assumptions on the
constants (`PurposesAssumption`, `StartAssumption`, `MaxVersionAssumption`, `ClientVersionsAssumption`):

* **`TypeCorrect`**: `Spec => []TypeOK`.
* **`VersionsDecide`**: `Spec => []SnapshotsAgree`. Not inductive alone: that a new row starts with version 1
  does not contradict an older snapshot needs to know that there is none. The inductive invariant is
  `VersionInv`: types, `SnapshotsAgree`, `FreshDrafts` (a creation between its check and its insert owns an
  identifier that has no row and that nobody else is about) and `RowsExist` (a row with version 0 is no row).
  The central lemmas are `CommitHasShape` (every one of the twelve commits raises the version of one row and
  follows `Follows`), `RowChanges` (a row is left alone, inserted, committed, or touched by time or scheduler)
  and `RowStep` (no step turns a version back or changes a status without raising it).
* **`FlowsStayApart`**: `Spec => []StatusFitsPurpose`, for any client versions. `FlowInv` adds `LoadedPermitted`:
  a handler was allowed its operation for the purpose of an existing row. The purpose never changes, and that
  alone keeps the flows apart (`NewStatusFits`), however old the status was.
* **`TableFollowed`**, **`TerminationsRecorded`**: assuming `ClientVersions = FALSE`, the action properties
  `StatusFollowsTable` and `TerminationRecorded`. `FreshInv` adds that a handler's version is its snapshot's, so
  with `SnapshotsAgree` the commit confirms the loaded status (`StatusConfirmed`), and a permitted operation leads
  along a rule (`PermittedByTable`), where `StatusFitsPurpose` excludes the rule for overdue rentals.
* **`ReturnsInspected`**: under the same assumption `[]ReturnInspected`. `Evidenced` says which condition checks
  a rental has behind it in each status.

* **`EventsMatch`**: under the same assumption `[]ImportEventsMatch`. `EventsInv` says that an event sent, or about
  to be sent by a request between its commit and its invalidation, fits the row; no permitted operation leaves a
  terminal status (`TerminalStays`), so it goes on fitting however late it is sent.
* **`EquipmentFollows`**: under the same assumption, `Spec /\ []NoDoubleBooking => []EquipmentFollowsCheckout`. The
  hypothesis is what `double_booking` shows the code not to give; with it, a commit touches only equipment that no
  other checkout in progress claims. `CustodyInv` adds `BackInLab`: what a rental in `lender_received` claims is
  available, which makes the conditional update of a rejected return take all of it back. `CommitEquipment` says
  what each of the twelve commits writes, `CustodyOfOperation` what the state machine lets it mean, and
  `QuietOrCommit` that nothing else moves equipment.
* **`PromiseKept`**: under the same hypotheses `KeepsPromise`, the refinement of `Custody`. `StageOfOperation` maps
  each permitted operation to a step of the promise or to none, `NobodyHasIt` gives the guard of a hand-over,
  `InsertAsks` maps the insert, and all other steps stutter (`OtherStepsKeep`).
* **`BookedTwiceOnlyUnseen`**: under the same assumption, `Spec /\ []CreationsApart => []NoDoubleBooking`, so that the
  hypothesis of the last two is reduced to what a creation does not see. `BookedOnce` adds to the property that what a
  checked creation wants is claimed by nobody: the check makes it so (`CheckedIsUnclaimed`), and until the insert no
  commit claims anything that its checkout did not claim before (`ClaimOrigins`).
* **`SerialCreationSuffices`**: where no rentals are made and one creation is under way at a time, `CreationsApart`
  holds, and with it all three properties of custody without a hypothesis on bookings.
* **`OneAtATime`**: of `Custody` itself: a piece of equipment is with one checkout at a time, and away exactly while
  it is with one (`OneHolder`, inductive with the types).

Of non-conformances, with no hypothesis but the assumptions on the constants, for any actors and any client versions:

* **`NonConformanceTyped`**, **`CorrectionHasPrerequisite`**, **`LinkStaysPut`**: `[]TypeOK`,
  `[]CorrectedMeetsPrerequisite`, `LinkIsStable`. A handler decides on a row that may be old. `Inv` has, next to the
  types and the property, `CacheIsPast` and `RequestsFit`: every row still known somewhere is followed by the present
  one (`Follows`): its type is the same, its repair and calibration, once there, are still there, and at the same
  version it is the same row. So a prerequisite met by an old row is met by the present one. `Moves` says that every
  action leaves rows alone or advances them; `LinkIsStable` follows from it.

Under the hypotheses that the counterexamples of section 3 call for:

* **`ClosedStaysClosed`** (`Confirming`: clients send the version of the detail they act on, and no calibration is
  approved): `ClosedIsFinal`. `Locked` adds that a request is at the version of the row it decided on (`Held`), so that
  its compare-and-set confirms that row, and that of two closes of one non-conformance the later waits for the earlier
  (`LocksApart`), as the row lock of the update makes it.
* **`MarkIsRight`** (`Quiet`: users and repairs only): `[]MarkFollowsRecords`. `Marked` adds that a piece of equipment
  has at most one open non-conformance (`OneActive`) and, of requests (`Marks`): a creation that is still fresh has
  read equipment that is not marked, and a close has found no other open one. Hence the status a close gives back is
  right although it was decided in an earlier statement of the transaction.
* **`RemovalsKeepMark`** (`Calm`: users, repairs and removals): `[]OpenNcKeepsMark`. Only one half of
  `MarkFollowsRecords` needs that nothing is removed (`MarksAreKept`); the other, which is `OpenIsMarked` of `Marked`,
  is what creations and closes rely on, so that removals leave equipment marked and never unmark any.
* **`MarkHasReason`** (no removals; any other actors, any client versions): `Spec /\ []ClosingsApart =>
  []NonConformingHasReason`. It says of the counterexample `nc_stuck` that two closings over one piece of equipment
  that are under way together are its only cause. `Reasoned` adds that a close that found others, and will therefore
  leave the mark, still has them when it commits: closing is the only way out of being open, and another closing is
  excluded. Removals are left out because the last open row can be removed with nothing given back.
* **`RecordsAreALedger`** (`Calm`): `KeepsLedger`, the refinement of `NonConformanceLedger`, for any statuses equipment
  may start with. A request that commits finds the row it decided on, so its write is a step of the ledger; the
  transaction of a close, which looks for others between the two rows it writes, is one step there when it commits.
  What it gives back is what its row noted, and that is the status the equipment had when the row was made, because
  a creation that is still fresh has read the present status (`Marks`). The three writes of a repair are a remedy,
  perhaps a correction, and stutters; which of them are lost does not matter to the ledger. `nc_removal.cfg` checks
  the same with removals, as `nc_mark` does without.

Of imports, with crashes, failures and lost events, for any number of imports, checkouts and requests:

* **`ImportsFollow`**, **`OneReturn`**, **`CompensationsComplete`**, **`RefusalLeavesMark`**:
  `[]ImportFollowsCheckout`, `[]ReturnHasOneCheckout`, `[]NoOrphanWithoutFault`, `[]RefusalRestoresMark`. The claim acts
  as a lock: a request that claimed an import finds it, at each of its later steps, at the version it gave it and
  without a link, since listener and scheduler look for imports by their link or compare an older version
  (`ClaimFits`). So its compare-and-sets never miss, and the checkouts of an import that are not turned down are at most
  one: the one its request created, or the one it is linked to (`RowFits`). That the checkout service's own check
  would let two through does not matter. `OrphanFits` and `LentFits` say who still has to link, compensate or restore.
  A step touches one import, and what fits another goes on fitting (`OthersFit`).

* **`ImportsTyped`**: `[]TypeOK`. The types of the numbers need `NextNumberIsTyped` below, and what the saga has kept
  follows from the types of requests (`Numbered`).

* **`ReturnKept`**: `KeepsPromise`, the refinement of `BorrowedReturn`, from the same `Inv`. Claim and compensation are
  the beginning of a return and its withdrawal, which the promise allows only while nobody carries it out: that is
  what `ClaimFits` knows of the request that compensates. Listener and scheduler end a return in the way its
  checkout ended, however late they come, since a checkout that is still linked is of the present attempt (`RowFits`).
* **`ReceiptsAreNumbered`**: assuming one letter and fewer imports than `Limit`, `[]NumbersDoNotCollide`. `Counted`
  says that a serial is no larger than the number of imports that have one, so that all stay below the limit, where
  `NextNumberIsNew` applies.

Of the numbers: **`OrderIsTotal`**; **`NextNumberIsTyped`**: the next number is well formed whatever was given, over-long
serials included; and **`NextNumberIsNew`**: for one classification and serials below the limit it is new.
`imports_numbers.cfg` shows that neither condition can be dropped. That a largest number exists is shown with the
well-ordering of natural numbers: of the numbers with the largest letter, the one with the largest rank, where `Rank`
puts an over-long serial behind its first four digits (`RankOrders`, `HasLargest`).

Of documents, assuming `Hypotheses` (clients send the version of the detail they act on; no second disposal is
requested):

* **`DocumentsTyped`**, **`SignedAsSeen`**, **`ApproversAreIndependent`**, **`DisposalDecidesEquipment`**,
  **`DecisionsAreFinal`**: `[]TypeOK`, `[]ApprovedAsSeen`, `[]ApproverIsIndependent`, `[]EquipmentFollowsRequest`,
  `DecisionIsFinal`. `Inv` adds `CopiesAgree` (a detail or a half-read one is older than the row or says what it says:
  what reading the row before the items is for), `RequestsAgree` (a request's version is older than the row's, or its
  check holds of the row and its person saw what the row says), `OneDisposal` and `StandingFits` (who has signed in
  the present round follows from the status).
* **`ChainsAreARegister`**: `KeepsRegister`, the refinement of `DocumentRegister`. A step of a chain that commits found
  the row its request had checked and its person had seen (`RequestsAgree`), so at the desk it is a signature by
  somebody entitled to it under the text as it stands; edits of items and sections are moves of the body; handlers that
  read, fill, evict or conflict stutter. That a body changes with every edit, so that an edit is a move and no stutter,
  is `BodyBelow`. The register concedes to the code that an entry may be removed whatever its status: who may remove
  it is decided on an older row (`documents_removal.cfg`).

Model-checked only: liveness (`LateIsNoticed`, `OverdueIsNoticed`, `EndedReturnIsFollowed`), which is out of the
prover's reach. All counterexamples are the model checker's.

## 5. Plan

Next, the most important first:

1. Calibration records and equipment approvals: the decision on a record that may be edited meanwhile, and the
   transaction that calls a service on another connection.
2. One module in which the equipment row is shared by checkouts, non-conformances, imports and disposal in full, in
   place of the few writes each module now has of the others.
3. The Redis cache and a second process.

## 6. Not modelled

* Notifications and server-sent events, reports, documents and files, dashboard, settings, search and lists: input,
  output and queries. Handlers swallow the errors of notifications, so these decide nothing about the state above.
* Authentication, users, teams, sites: the models let any permitted user act, which allows more behaviours.
* Migration of data: an import of tables under an administrator's eyes.
* The frontend: of it the models use only which version it sends back. It is the larger part of the repository's lines,
  as are seed data, tests and translations; the share of lines the models stand for is small for that reason.
* The Redis provider of the cache and several processes; equipment approvals, calibration records (but for what their
  approval does to non-conformances) and test software: planned, or without a state machine of their own.

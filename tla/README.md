# Verification of the MAS harness control plane

TLA+ models of the control plane's stateful core, the TLC runs that check them
on small instances, and TLAPS proofs, for every value of the constants, of every safety and
action property those runs check and of the refinements. Paths below are relative to the repository's root.

- [The system](#the-system)
- [Modules](#modules)
- [From code to actions](#from-code-to-actions)
- [Runs, bounds and what they show](#runs-bounds-and-what-they-show)
- [Fairness](#fairness)
- [Proofs](#proofs)
- [Where code and documents disagree](#where-code-and-documents-disagree)
- [Not modelled](#not-modelled)
- [Plan](#plan)
- [Running it](#running-it)

## The system

A tenant (an *organization*) describes the agents it wants in a
questionnaire, states a *demand*, has the demand validated and approved by
several people, and gets a *profile* compiled from it. The profile is reviewed
in turn, locked, handed to a bundle source and reported signed. External
sources then report how the deployed harnesses fare, and an overview derives
what may be shown. The web control plane (`apps/control-web`, TypeScript) keeps
its rows in in-process stores behind one event loop; the profile compiler
(`workers/profile-compiler`, Python) is a set of one-shot workers around a
store; both mirror a PostgreSQL schema (`packages/db/migrations`) whose row checks
and transition triggers say what the rows may do.

| Part | State it keeps | Operations | What is hard | What makes it correct |
|---|---|---|---|---|
| Compilation queue, `profile_compiler/domain.py`, `postgres.py` | operations, jobs with leases, profile revisions and their bindings, outbox | `create_job`, `claim`, `extend`, `retry`, `fail`, `succeed`, `run_once` | several workers with their own clocks; leases that end while the holder compiles; dead workers; retries | one valid holder per job; only the holder writes; job and operation agree; attempts explained; events sequential |
| Outbox relay and inbox, same file | delivery receipts, inbox, last sequence per subject | `deliver_next`, `accept_event` | a crash between sink and receipt; order recovered from times alone | consumer sees each operation's transitions once, in order, without a gap; never stuck |
| Operation store, `lib/operations`, and the life cycle of migration 004 | operation rows polled by clients, queued jobs, idempotency records, outbox, audit | `requestCompilation`, `createBundleOperation`, `completeBundleOperation`, `applyWorkerTransition` | several writers; two transitions in one call; inputs and demands that change between calls; failing audit | one job for each accepted request, for what was approved; events and audit tell the row; one path through the states |
| Demands and approvals, `lib/demands` | demands, approvals with decisions, findings | `create`, `validate`, `requestApproval`, `decide` (and its expiry branch) | policies and sources that change between calls, expiry, second rounds | approval rests on a real quorum for exactly what was validated |
| Questionnaire sessions, `lib/questionnaire` | session rows, accepted answers, findings | `create`, `saveAnswers`, `review` | edits in any order over staged questions | answers, completed stages and findings agree |
| Request protocol, in every store | idempotency records, revisions as ETags, audit trail | key and ETag checks around each mutation | lost answers, repeats, delays, failing audit | each request applied at most once, no blind overwrite, all or nothing |
| Profile approval, lock, bundle, `lib/profiles` | profiles, approvals, locks, bundle requests, source inbox | `registerCompiledProfile`, `requestApproval`, `decide`, `lock`, `requestBundle`, `reportSignedBundle` | expiry before the lock; two stores; repeated and reordered envelopes | a lock rests on a live quorum; the stores agree; nothing settled is undone |
| Status projection, `lib/harness-status` | projection per organization, cursor per source, events seen, lost sources | `ingest`, `markSourceUnavailable`, the read-time derivation | reports late, twice or missing; snapshots that age; sources lost | health is shown only while it is earned; only news changes what is shown |
| Tenant audit chain, `lib/security` | per tenant a sequence of sealed records | `append`, verification | batches, a failed append in the middle of a change, records altered afterwards | every version of every row is told once, in order; an altered chain no longer verifies |
| Sign-in and sessions, `lib/foundation` | authorization attempts, replay stores, sessions with revisions and audit | `beginAuthorization`, `completeAuthorization`, `authenticate`, `transition` | repeated callbacks, tokens by another clock, limits that pass, failing audit in the middle | one session for each sign-in, nobody let in outside a session's life, ends are final |
| Profile review page, `app/profiles` and the profile routes | what is shown, the requests on their way | open, request approval, decide, lock, request bundle | answers that arrive while another profile is being opened; views that others have made stale | a click does what its user was shown |
| Pack admission, compiler adapter, HTTP routes, pages, migrations, CI | none that changes, or files | parse, validate, render, build | | |

How the parts interact: a mutation enters through an HTTP route, passes the
request protocol of its store, and appends to the tenant's audit chain before
the store changes. The demand store calls a policy hook and a source resolver
at each call, and their answers may change in between. An approved demand
becomes an operation and a queued job (`requestCompilation` reads the demand store
and an input resolver in the same turn); a worker claims the job, compiles with
no lock held and writes its result under the lease's token. Every operation
transition after the first leaves an outbox event, and the relay hands events
to the consumer's inbox. The profile store shares operations with the operation
store: `requestBundle` creates one, `reportSignedBundle` completes it. A browser's
page reads a profile in four requests and mutates it by guarded requests that
carry the ETag of what was shown.

The full list of parts, with the status of each, is `components` in
`PROJECT.json`; everything in the code that is hard to test, at the line where
it bites and with the properties that watch it, is `hazards`.

## Modules

| Module | Models | Uses |
|---|---|---|
| `OperationLifecycle` | abstract: what any operation row may do | |
| `CompilationStore` | the queue, its workers, clocks and faults | `Lifecycle == INSTANCE OperationLifecycle` |
| `EventRelay` | the queue composed with the relay and a consumer's inbox, and what the consumer knows of the operations | extends `CompilationStore`, `Consumer == INSTANCE OperationLifecycle` |
| `DemandApproval` | demand and approval store, policy hook, source resolver | |
| `QuestionnaireSession` | questionnaire store behind the request protocol, clients and network | |
| `ProfileLifecycle` | profile store with the bundle operations of the operation store | |
| `ProfilePage` | the review page of one browser, composed with the profile store and its other users | extends `ProfileLifecycle` |
| `StatusProjection` | projection store and its derivations | |
| `AuthSession` | sign-in, the admission of ID tokens, sessions | |
| `TenantAuditChain` | the chain as operators over free digests: append, verification | |
| `OperationStore` | the web control plane's operation store with its audit chains | extends `TenantAuditChain`, `Lifecycle == INSTANCE OperationLifecycle` |
| `CompilationStoreProofs` | theorems about the queue and the relay | extends `EventRelay`, `TLAPS` |
| `OperationStoreProofs` | theorems about the audit chain and the operation store | extends `OperationStore`, `TLAPS` |
| `QuestionnaireSessionProofs`, `AuthSessionProofs`, `DemandApprovalProofs`, `ProfileLifecycleProofs`, `ProfilePageProofs`, `StatusProjectionProofs` | theorems about the module each is named for | extend it and `TLAPS` |

Each `MC...` module gives the constants of one of these concrete values, and
each `.cfg` is one instance. In every module a definition marked `Variant:` in
its comment is a deliberately wrong form of the definition that follows it. No
specification uses them; substituting one breaks the property that
`PROJECT.json` pairs it with under `mutants`, which shows that the property
depends on that piece of code.

## From code to actions

A store method runs to completion in one event-loop turn, or in one database
transaction, so it is one atomic action. A refusal changes nothing and is no
step, except where a worker or client forgets something because of it.

**CompilationStore.** `CreateJob` is `create_job`. `Claim` is `claim` as called
by `run_once`: the head of `CLAIM_SQL`'s order, an expired lease included, is
leased under a fresh token and a pending operation becomes `RUNNING`. The
worker then keeps `held[w]`, the local variables of `run_once` (job, token and
the `now` of its call), because compilation runs before the result is written.
`FinishSucceed`, `FinishRetry`, `FinishFail` and `FinishRefused` are the four ways
`run_once` ends, with the fence `Leased` and the time `now + 1 second` of the
code, however long compilation took. `Extend` is `extend`. `Crash` is a worker
that dies or a transaction that aborts. Each call's `now` is chosen by its
caller, no global clock exists, and the only assumption is that a claim happens
no earlier than its query allows. A UUID lease token is modelled by the number
of the attempt that created it, which names the claim as the UUID does. The
compiler is a function from a job to the digest of its profile. The exact
compiler reports every error as final; `FinishRetry` is the branch of `run_once`
for an injected compiler whose error is retryable, which `Compiler` allows and
the tests use.

**EventRelay.** `DeliverNext` is `deliver_next` with `accept_event` as its sink,
`DeliverAndCrash` the same call dying between the two. The order of the outbox
is recovered as the code does, from the event times, with ties broken by a random
id and so in any way.

**OperationLifecycle.** `OpCreate` and `OpAdvance` are the INSERT and the UPDATE
that the transition trigger and row checks of migration 004 admit, over the
transition table the web store declares. The queue is shown to implement it; the web store's
workers also take the path over `CANCELLING` and `CANCELLED`, in `OperationStore`,
whose `OutboxTellsRow` checks each step against the same table.

**DemandApproval.** `CreateDemand`, `Validate`, `RequestApproval` and `Decide` are
the methods; `Expire` is the branch of `decide` that finds the approval out of
date and reopens the demand. `PolicyChange` and `Tick` are the environment.

**QuestionnaireSession.** `Create`, `SaveAnswers` and `Review` are the methods,
chosen by `Apply` from a request's fingerprint. `Execute` runs one admissible request,
`Lose` runs it and loses its answer, `Replay` answers a known key with the stored response, `Fail` is a change whose
audit append throws. `Read`, `Send`, `Resend` and `GiveUp` are the clients, and
`network` is what they sent: a request once sent may be delivered late, again or never.

**ProfileLifecycle.** `Register`, `RequestApproval`, `Decide`, `Expire`, `Lock`,
`RequestBundle`, `ReportSignedBundle`, each with every row the code writes,
those of the operation store included.

**StatusProjection.** `Verdict` is the decision of `ingest` in the order of its checks,
`Ingest` applies what it admits, `MarkSourceUnavailable` is the method, and
`HarnessState`, `PlaneState`, `OverviewState` are `materialize` with the
derivations of `aggregation.ts`.

**ProfilePage.** `Open` is the click on "Verify & open". What `load` then awaits is one
step at the server and one at the page for each request (`OpeningServed`; `ProfileOpened`,
`ExplanationOpened`, `ApprovalOpened`, `BundleOpened`); the explanation and the bundle's
existence never change, so their server step is left out. `Press` is a click on one
of the five buttons, `ClickServed` the route and the store method, `ClickExpires` a
decision that comes too late, `ClickAnswered`, `RefreshServed` and `Refreshed` the
callback given to `mutate`; `OpeningFails` and `ClickFails` are refusals and lost
answers. Only the "Verify & open" button is disabled while a request runs, so `Press`
does not look at `opening`. A second click while one is under way would run a second `mutate`
beside the first; the model lets one click and one opening be under way at a time, which is a bound of the model
and not of the code (`ProfileWorkbench.tsx:207, 219-221, 248`). `OthersStep` is any step of the
store by anybody else.

**AuthSession.** `Begin` and `Complete` are `beginAuthorization` and `completeAuthorization`;
the latter is an action for each way it ends, because a refused token
(`CompleteRefused`) leaves the attempt consumed and a failing append
(`CompleteUnaudited`) leaves attempt and token spent. `shared` says whether the call was
given a replay store or made its own, which is the default. `Authenticate` lets a
request in, `AuthenticateLate` refuses it and tries to mark the session `EXPIRED`,
`Revoke` is `transition` by its owner. `IssueToken` is the identity provider, whose clock
may be ahead by more than the skew that is tolerated.

**TenantAuditChain** and **OperationStore.** `CommitAudit` appends a batch of facts to the
organization's chain and to the audit list, or refuses; `RequestCompilation`,
`CreateBundleOperation`, `CompleteBundleOperation` and `ApplyWorkerTransition` are the
methods, `Unaudited` any of them with its append failing. `DemandChange` and
`ResolverChange` are what the demand store and the resolver may answer next. An
event id is the position of its fact and a digest is a term, equal only to the digest of
the same content.

Every definition's lines are in `map` in `PROJECT.json`.

## Runs, bounds and what they show

| Run | Instance | Distinct states | Checks |
|---|---|---|---|
| `queue_safety` | 3 jobs with one binding, one of another tenant, the other two with different inputs, 2 workers, lease 3 s extended up to 1 s after its claim, 3 attempts, 1 lost lease | 807 k | rows and operations agree, exclusive leases, attempts explained, sequential events, results that resolve, fenced writes, refinement of the life cycle |
| `relay` | 2 jobs, one with a foreign wheel, lease 2 s, 2 attempts, calls at most 1 s late, 1 lost lease, relay crashes unbounded, fairness | 109 k | the consumer's inbox is a gap-free prefix, the head is never refused, every job settles, every event is delivered |
| `demand_approval` | 1 demand, 2 approvals, 3 people, 4 policies, 4 sources, clock 0..2, 6 revisions | 98 k | quorum, agreement of demand and approval, reachable quorum, findings, audit trail, triggers |
| `questionnaire` | 2 clients, 4 keys, 1 session, a required and an optional question in 2 stages, 4 revisions, 4 sends, 1 failing append | 1.09 M | at most once, stable answers, complete trail, current answers, findings, no blind write |
| `profile_page` | 2 profiles, 2 people of whom one has the page, 2 policies, 2 events, sequences 1..2, clock 0..1, 2 openings, 2 clicks | 2.11 M | informed clicks, lock by quorum, agreeing stores, sequential reports, nothing undone |
| `status_projection` | 2 organizations, 2 sources, 3 events, 2 harnesses and planes, 5 snapshots, sequences 1..2, clock 0..2 | 75 k | sequential events, earned health, only news counts |
| `auth_session` | 2 attempts, 2 tokens, 2 sessions, attempts and idle time of 2 s, sessions of 3 s, skew 1 s, token lifetimes 2 and 3 of which 3 is too long, a replay store for 1 token, clock 1..4, 1 failing append | 1.08 M | one session for each sign-in, complete trail, grants within life, ends final |
| `operation_store` | 2 operations, 2 organizations, 2 keys, 1 demand with 2 revisions, 1 failing append | 331 k | events and chain tell the row, tampering shows, jobs bound to what was approved |

The four further runs, `queue_attempts`, `demand_unique`, `status_replay` and
`page_mixup`, each end in a counterexample; see
[below](#where-code-and-documents-disagree).

Every bound is a constant. `MaxCreateTime`, `MaxLateness`, `MaxExtension` and
`MaxFaults` bound the queue's times and lost leases (how late a claim comes, and how long
after its claim a lease is extended); `MaxOpenings` and `MaxClicks` bound the page;
`MaxDemandRevision` the demands an operation is requested for; `MaxTime` stops a clock; `MaxRevision` stops
a row; `MaxSequence` bounds a source; `MaxSends` and `MaxAuditFailures` bound
the network and the failures. Why they are enough:

- Two workers and a lost lease produce the case the token exists for: one
  worker stalls, its lease ends, the other claims, both report. A third worker
  would repeat what one of the two does, and one lost lease already reaches
  attempt `MaxAttempts + 1`. A lease of three seconds ends after the report of
  an undisturbed worker and early enough to be overtaken. An extension one second after the claim
  moves that end, and one at the claim's own second leaves it where it was. Jobs of one binding
  and one tenant that compile to different profiles let the second to succeed find
  the first one's revision, and the third job lets another tenant do the same. The proofs cover
  every number of jobs, workers, attempts and faults.
- Two jobs give ties in the claim order and in event times; each can emit its
  two events interleaved with the other's.
- Six revisions let one demand be validated, requested, expire, be revalidated
  and be requested and settled again with a second approval: the longest story the
  store knows, twice round its only cycle. A quorum of two among three people
  has a requester, an eligible reviewer and another who may be ineligible.
- Four sends let two clients each send and repeat a request, with a delayed
  copy arriving after the other's change; four revisions hold a create,
  a save, a second save that empties an answer, and a review.
- Two openings and two clicks are what it takes for an answer to one profile's
  click to arrive among the answers of another's opening, and for a view to be
  made stale by the page's own earlier click or by the other person's. Two people
  leave no quorum above one in this instance; the theorem `LocksAreEarned` covers every quorum.
  Two events and two profiles with a bundle let the source's first and second envelope be accepted, each
  under either event id, a gap be refused and a number or an id come again.
- Two tokens and two attempts let a callback be repeated with the same token, with
  another token of the same attempt and with a token of the other attempt, before and
  after the attempt has ended. A clock of four values reaches the idle end, the
  absolute end and the token's end of a session one after the other, in either order
  of the last two.
- Two operations of either kind give two records of one organization, or one
  each of two, in a chain; a bundle's completion appends two at once. A chain of
  up to eight records is altered in every position by each kind of change.
- Three events at the status store allow one accepted,
  one repeated under its own id and one out of sequence or from the other source. A clock of three values separates before,
  at and after an expiry or the end of a window.

Symmetry is used on identities the code only compares for equality (approvals;
profiles and events; clients and keys; attempts, tokens and sessions; operations and
keys; organizations, sources and events, as the MC modules list), never in a run with a liveness property. Deadlock checking is off because the
instances really stop: when every job is settled, or when a clock or a row
has reached its bound.

## Fairness

Only `relay` assumes any. `CompilationStore!Fairness` is weak fairness
of *some* worker's claim and of each worker's finish: the scheduler keeps
invoking `run_once` (scheduling is left to the outside by the worker's own
docstring), compilation is a bounded in-process computation, and a worker that
has not died returns from it. `RelayFairSpec` adds
weak fairness of `DeliverNext`: the relay is called again and again, and since
each call either ends or dies, it does not die every time. Lost leases are
finite (`MaxFaults`). Nothing is assumed of `Extend`, `Create` or `Crash`. No liveness is
stated of the approval stores: their code schedules nothing, so an expired
approval waits until somebody calls (listed under `hazards`).

## Proofs

Eight modules hold theorems, each for all values of the constants that meet the
named assumptions of the module it is about. TLC evaluates those assumptions in
every run of that module.

### The compilation queue and its relay

`CompilationStoreProofs` proves, for all sets of jobs, workers and tenants and
all limits:

| Theorem | States |
|---|---|
| `TypeCorrect` | `Spec => []TypeOK` |
| `AgreementHolds` | `Spec => []JobOperationAgree` |
| `ExclusiveLeases` | `Spec => []LeaseExclusive` |
| `AttemptsBounded` | `Spec => []AttemptsExplained` |
| `WritesAreFenced` | `Spec => FencedWrites` |
| `LifecycleRefinement` | `Spec => ImplementsLifecycle` |
| `OutboxInSequence` | `Spec => []OutboxSequential` |
| `ResultsAlwaysResolve` | `Spec => []ResultsResolve` |
| `NeverBlocked` | `RelaySpec => []RelayNeverBlocked` |
| `InboxInOrder` | `RelaySpec => []InboxIsPrefix` |
| `ConsumerImplements` | `RelaySpec => ConsumerFollows` |
| `RelayKeepsQueue` | `RelaySpec => Spec` |

None of the first six is inductive alone. `JobOperationAgree` needs to know that a
claimed worker is refused once its lease was taken over; that needs tokens
never to repeat; that needs to relate a token to the row's attempt. The inductive
invariant `IInv` adds to the type invariant, the agreement and the row checks:

- `ClaimsAreRemembered`: the token a worker remembers is one of the attempts
  of its job, the token on a row is its present attempt, no two workers
  remember the same token of the same job, and the worker whose token is
  current is the owner the row names. A fresh token is `attempt + 1` and so differs
  from all of them, which gives `LeaseExclusive` and the fence.
- `AttemptBudget`: a waiting job has attempts to spare, and a leased job
  nobody works on has already cost a fault. Together they bound the attempts.
- `TimesAdvance`: the next write of an open operation cannot carry a time
  before its last, although the times come from different clocks; this and
  `ResultsAreFinal` are what the refinement needs.

The proof has one lemma for each action (`CreateKeeps`, `ClaimKeeps`, `ExtendKeeps`,
`ReleaseKeeps`, `FailKeeps`, `SucceedKeeps`, `RetryKeeps`, `ForgetKeeps`), joined in
`NextKeeps` and `Inductive`. A refused worker is not counted as a lost lease of
its own: it is refused only if its lease was taken over already, because a lease
outlasts the one second after which `run_once` reports (`RefusedLostLease`). That
argument uses `LeaseAssumption`, `LeaseSeconds > 1`: `run_once` leases for the
default 60 seconds. The other assumptions say that the constants
have the right types; TLC evaluates all of them in every run of the queue.
`FencedStep` and the refinement step follow from `IInv` without further
induction. `FencedStep` says in what ways a leased row may change at all: `ExtendedByHolder` (the
holder's token and owner stay, only the end moves, to where a time between claim
and end takes it), `ClosedByHolder` (the lease is gone from row and worker) and `TakenOver` (a token of
its own, the next attempt, a claim no earlier than the old end).

The outbox and the bindings have invariants of their own on top of `IInv`. `OutboxIInv` adds to
`OutboxSequential` what its next event is measured against (`EventsCovered`): an operation's version
is the one its state implies, and no event of it is later than its row. An operation's next write is
strictly later than its last event because `run_once` reports one second after a claim that
came no earlier than the row's time (`TimesAdvance`). `BindingsResolve` says that what is filed
under a binding is stored, of the binding's organization and the result of some succeeded job of the
binding, and that every succeeded job of it names that revision. Nothing is assumed of the compiler:
the binding leaves the compile input out, so a job's own result may differ from the one filed.

For the relay, `RelayIInv` says that the accepted events of an operation are exactly those up to its
last accepted sequence. It is kept by a delivery because the earliest unreceipted event is the next of
its operation: an operation's later events have later times (`AcceptKeepsRelay`). That the inbox has as many
events as sequences is then a bijection (`InboxCounted`). `ConsumerFollows` refines the
abstract life cycle a second time, for what the *consumer* knows: the last event it accepted of each operation.
Its step relates two states an unbounded number of steps apart, the row and the
consumer's view of it; it needs that an event's state and its sequence say the same (`EventsTellVersion`) and
that the consumer is exactly one version behind the event it accepts (`AcceptedNext`). `ConsumerFollows` is proved
and not part of the run `relay`, whose liveness properties already take it to the limit of its time.

### Sign-in and sessions

`AuthSessionProofs` proves `TypeCorrect`, `SignInsAreSingle` (`OneSessionPerSignIn`),
`TrailsAreComplete` (`TrailComplete`), `GrantsAreBounded` (`GrantsWithinLife`) and
`EndsAreFinal` (`EndedForGood`) for any number of attempts, tokens and sessions, any
limits and any clock. `IInv` is the type invariant with the three safety
invariants and `RowsInStep`: an absent session has had no grant, an active one is at its first
version, an ended one at its second, no row carries a time to come, and the limits on a
row are no later than those of its issue and its token. `TrailComplete` needs the
versions of `RowsInStep` to know that an ended row is never extended, `GrantsWithinLife`
needs its limits. That no second session comes of an attempt is inductive only with the
rest of `OneSessionPerSignIn`: a session's attempt is consumed, and `Complete` wants one that is open.

### Questionnaire sessions and the request protocol

`QuestionnaireSessionProofs` proves `TypeCorrect` and all that the run `questionnaire` checks: `TrailIsComplete`
(`TrailComplete`), `AppliedAtMostOnce` (`AppliedOnce`), `AcksStayTrue` (`AcksAreStable`),
`AnswersStayCurrent` (`AnswersAreCurrent`), `FindingsAreCurrent` (`FindingsExplain`) and `NoWriteIsBlind`
(`NoBlindWrite`), for any number of clients, keys and sessions, any questions and stages, and any bound on
sends and failures. `IInv` is the type invariant of store and clients with

- `TrailComplete` and `KeysMatchRevisions`: a remembered key names a session and a revision it went through, and
  every revision has its one key. `AppliedOnce` is that, counted;
- `SavesAreRecorded` and `HistoryTellsAnswers`: every remembered save is in the answer history at its revision,
  and the last value there, for each question, is the row's;
- `CompletedIsComplete`, `FindingsAreOld` and `FindingsExplain`: no finding is of a revision to come, so those a
  review adds are all there are at its revision;
- `AcksAreRecorded`: what a client was told is in the store's record under the same key and fingerprint, which
  `AcksAreStable` needs and which survives lost and repeated answers because a record is never overwritten.

`Apply` is one of three methods, and what all of them do to keys, revisions and audit is one lemma,
`CommitKeeps`. `NoBlindWrite` follows from the inductive invariant in one step (`StepIsNotBlind`).

### The operation store and the audit chain

`OperationStoreProofs` proves `TypeCorrect` and all that the run `operation_store` checks: `EventsGiveTheRow` (`OutboxTellsRow`),
`ChainsAreComplete` (`ChainTellsAll`), `JobsStayBound` (`JobsBound`) and `TamperingAlwaysShows` (`TamperingShows`),
for any operations, organizations, keys and demands. Two theorems are about the chain alone, whoever uses it:

- `AppendKeepsChain`: appending any batch of facts to any chain that verifies gives a chain that verifies, which
  is the old one with those facts at its end, each sealed at its place.
- `AlterationShows`: of any chain made by append, of any length, every change of a fact, with or without sealing
  its record again, every swap, removal and insertion gives a chain that does not verify. A last record
  that was sealed again or removed is the exception, in the code as in `Tampered`: nothing follows that would miss it.

`Appended` is a recursive function over the batch. What it computes is proved by induction on the number of facts
taken, in the form of a least counterexample (`Climb`, from `WFMin` of the library). `IInv` adds to the
type invariant and the three safety invariants `ChainsSealed` (every record is what append makes of
its fact at its place, which `AlterationShows` needs and verification alone does not
say) and `LogInPlace` (a fact's event id is its place in the log, so that it is new). `ChainTellsAll` speaks of
all operations of an organization's chain: a call that writes several facts is shown to
extend it for the operation they are about (`RowAudited`, `RowAuditedTwice` for a bundle's two transitions) and to
leave the others alone (`AuditKept`). A failed append leaves row, chain and log as they were (`QuietKeeps`).

### Demands and approvals

`DemandApprovalProofs` proves all that the run `demand_approval` checks: `TypeCorrect`,
`ApprovalsAreEarned` (`ApprovedByQuorum`), `PendingStaysAgreed` (`PendingAgrees`),
`QuorumStaysReachable` (`QuorumReachable`), `FindingsStayTrue` (`FindingsExplain`),
`GuardsAcceptAll` (`DatabaseGuards`) and `TrailsStayTrue` (`TrailMatches`), for any number of
demands, approvals and people, any policies and whatever the resolver answers. It assumes that
people are finitely many (`ActorAssumption`), that policies and sources have their fields
(`PolicyAssumption`, `SourceAssumption`) and that an empty column is no identity
(`NamesAssumption`). `IInv` is the type invariant with

- `SoundApproval`: the policy of an approval was one to be admitted, its decisions are by as many
  distinct eligible people as there are decisions, in time, in favour until one is not, and make
  up the quorum exactly when it is approved;
- `SoundDemand` and `Named`: a demand and the approval it names are about each other, at the
  validated revision and equally far. Neither direction is inductive alone: `Decide` settles
  the demand its approval is about, which must be the one that names it;
- `Explained` and `FindingsBehind`: no finding is ahead of its demand's revision, so what a
  validation adds at its new revision is all that is found there.

`TrailIInv` adds the two audit trails. `QuorumReachable` is no part of the invariant: it follows,
by cardinalities, from `SoundApproval` and the comparison of `admittedPolicy`.

### The profile store and its page

`ProfileLifecycleProofs` proves `TypeCorrect`, `LocksAreEarned` (`LockedByQuorum`),
`StoresStayInStep` (`StoresAgree`), `ReportsStaySequential` (`ReportsAreSequential`) and
`SettledStays` (`NothingUndone`) for any people, policies, quorum and source. `NothingUndone` covers each
kind of row: decisions and settled approvals (`ApprovalKept`), locks, rejections, bundles and their
operations (`ProfileKept`), and accepted envelopes with the source's number (`EnvelopesKept`). The invariant adds
`SoundApproval` (the decisions of an approval are by distinct eligible people other than the requester,
none of them a rejection while it is pending or approved, as many as its revision says, and enough once it is approved)
and `InStep` (which approval a profile's state allows). The quorum itself is a fact about
cardinalities: each decision adds a person who had not decided, so the people who decided
are as many as the decisions (`ActorAssumption` makes the people finite).

`ProfilePageProofs` proves `PageImplementsStore`, that the page with everybody else takes only steps of the store
or none, so that the theorems above hold under the page; `PageTypeCorrect`; and
`ClicksStayInformed` (`ClicksAreInformed`). The invariant `PageIInv` adds to the store's that a click under way
is on the profile that was shown (`ClickOnShown`). The argument for a decision is that an approval's ETag is equal only for the same approval at the same
revision, and that a pending approval's revision counts its decisions (`SoundApproval`).

### The status projection

`StatusProjectionProofs` proves `TypeCorrect`, `EventsStaySequential` (`EventsSequential`),
`OnlyNewsIsShown` (`OnlyNewsCounts`) and `HealthStaysEarned` (`HealthIsEarned`) for any
organizations, sources, events, snapshots, harnesses and planes. `EventsSequential` is inductive
once a cursor is known to name an event that was admitted of its source: `IInv` says that, and that
those events are finitely many. `HealthIsEarned` needs no induction: it is a fact about
`materialize` and any row of the right type, proved up the derivations, from one harness
(`AggregateReads`) over the worst of a set (`WorstReads`) and a plane (`PlaneReads`) to
the overview (`OverviewReads`). `SnapshotAssumption` and `TaxonomyAssumption` give snapshots and planes their shape.

### Only model-checked

The liveness properties of `relay`, `JobsSettle` and `EventsDelivered`: liveness under fairness
and ENABLED are outside what the prover handles. The four properties that have a counterexample have no proof, of course.
Every other property of a run is a theorem.

The library's induction theorems take an operator as a parameter, which the installed provers cannot
instantiate. Where an induction over data was needed (`Climb`, and `LeastExists` for the first
stage with something missing), it is made through the least counterexample of a set of numbers instead. No module declares a RECURSIVE operator.

## Where code and documents disagree

| Run | The code | The document |
|---|---|---|
| `queue_attempts` | `claim` raises `attempt` for every expired lease (`domain.py:216`); four claims of a job whose workers keep dying take it to 4 | migration 004, line 62: `CHECK (attempt BETWEEN 0 AND 3)` |
| `demand_unique` | after an expiry a demand is validated and reviewed again under a second approval row (`demands/service.ts:708`) | migration 003, line 79: `UNIQUE (organization_id, demand_id)` |
| `status_replay` | `ingest` checks the snapshot's freshness before it looks the event id up (`projection-store.ts:131`), so a late repeat is refused | `docs/harness-overview.md:97`: an identical event replay returns `REPLAYED` |
| `page_mixup` | the buttons of the profile shown stay enabled while `load` fetches another; the answer to a click puts the first one's approval, bundle or profile back among the other's (`ProfileWorkbench.tsx:133`, `147`, `164`) | the page, line 123: "The stored bytes and every immutable binding match this review projection." |

Three more were met and have no run of their own. `extend` writes `now + lease_seconds`
whatever the lease's end was (`domain.py:238`), where migration 004, lines 257-259,
admits such an update only if the end moves later. `requestBundle` writes a `LOCKED`
profile row again (`profiles/service.ts:677`), where `guard_profile_pointer` of migration 005
(lines 175-181) accepts no update of one. Two jobs of one binding may have different compile inputs, because the binding
leaves the input out (`domain.py:306-309`) and the resolver may answer with another input for the same
revision (`operations/service.ts:78-102`): the second to succeed keeps the first one's revision
(`domain.py:310-312`), while its operation's `result_refs` name the digest of its own output (line 325), of
which no revision is stored. No document says otherwise, so this is no finding; `ResultsResolve`
says what does hold.

`AttemptsExplained` and `FencedWrites` are stated as they are for the same reason:
they are what does hold of the code. `ClicksAreInformed` is what the page can be relied on for in spite
of the mix-up: what a click changes in the store is what was on the screen.

## Not modelled

- *Bytes and digests.* Canonical JSON, hashing, signatures and the parsing of tokens are
  abstracted to the values they identify; a stored profile always verifies. A chain
  whose last records were cut off verifies: nothing in the chain, code or model, says how long it was.
- *The request protocol* is modelled once, at the questionnaire store, and not
  repeated in the other stores, whose methods follow the same order; `OperationStore` keeps
  the records of `requestCompilation`, whose keys bind jobs.
- *Cookies, CSRF tokens and caller-identity headers*: comparisons of secrets and names, without state.
- *Portfolio pages, operator audit, evidence ranking and finding lists* of the
  status store: reads over what `StatusProjection` keeps. Its cursors are ordered values,
  where the code compares text. The windows of a snapshot's planes are taken to be well formed:
  `ingest` does not check the planes' own bindings (`projection-store.ts:133-146`), and a read of a snapshot
  with malformed ones would be refused.
- *Pack admission, archives, the compiler call*: sequential computations
  without state that changes; their outcomes are choices of the actions that use them.
- *The demand, catalogue and overview pages*: their forms and rendering. The demand page
  works as the profile page does, over `DemandApproval`.
- *Other HTTP routes, deployment, CI, row-level security*: stateless or declarative.

## Plan

Modules are written most important first, and each so that it can be proved
about: constants with named assumptions, one action per operation, invariants as
conjunctions, no RECURSIVE operator.

Done: (1) `OperationLifecycle`, `CompilationStore`; (2) `EventRelay`; (3) `DemandApproval`;
(4) `QuestionnaireSession` with the request protocol; (5) `ProfileLifecycle`; (6) `StatusProjection`;
(7) `AuthSession`; (8) `TenantAuditChain` and `OperationStore`; (9) `ProfilePage`; each with its proofs.

Next modules: the demand page over `DemandApproval`; portfolio pages and the operator
audit over `StatusProjection`.

Next theorems, in order of worth: the trigger `guard_profile_pointer` as an action property of
`ProfileLifecycle`, as far as the code respects it; `OperationStore` as a refinement of
`OperationLifecycle` step by step, where a bundle's completion takes two steps in one; the
questionnaire store as a refinement of an abstract register that answers each key once.

## Running it

    tlc -workers 2 -config CompilationStore_safety.cfg MCCompilationStore
    tlapm CompilationStoreProofs.tla

`runs` in `PROJECT.json` names the module and the configuration of each run.

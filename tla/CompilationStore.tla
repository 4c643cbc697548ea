-------------------------- MODULE CompilationStore --------------------------
(***************************************************************************)
(* The durable compilation queue of the profile compiler: operations,      *)
(* leased jobs, published profile revisions, the transactional outbox, and *)
(* the one-shot workers that call it.  Every store method is one atomic    *)
(* action.  CompilerWorker.run_once is two of them, the claim and the      *)
(* result write, because compilation runs between the two while other      *)
(* workers call the same store, and a worker may die or stall in between.  *)
(*                                                                         *)
(* `now' is a parameter of every store method, read by each caller from    *)
(* its own clock; no two callers' clocks are assumed to agree.             *)
(***************************************************************************)
EXTENDS Integers, Sequences, FiniteSets

CONSTANTS
    Job,            \* job identities, ordered as the claim query orders ids
    Worker,         \* worker identities
    Org,            \* organizations (tenants)
    OrgOf,          \* the organization a job belongs to
    BindingOf,      \* a job's (demand, revision, demand digest, wheel, catalog)
    ProfileOf,      \* digest of the profile a job's compile input compiles to;
                    \* the binding leaves the input out and does not fix it
    ForeignWheel,   \* jobs whose compiler wheel is not the installed one
    LeaseSeconds,   \* lease_seconds
    MaxAttempts,    \* MAX_ATTEMPTS
    RetryDelays,    \* RETRY_DELAYS, indexed by the attempt that failed
    None,           \* an empty column
    MaxCreateTime,  \* bound: creation times are 0..MaxCreateTime
    MaxLateness,    \* bound: how long after a job becomes claimable it is claimed
    MaxExtension,   \* bound: how long after its claim a lease is extended
    MaxFaults       \* bound: how many leases are lost by a dead or slow worker

Binding == {BindingOf[j] : j \in Job}
Digest  == {ProfileOf[j] : j \in Job}
Key     == [org : Org, binding : Binding, digest : Digest]

ASSUME JobAssumption     == Job \subseteq Nat
ASSUME NoneAssumption    == None \notin Worker /\ None \notin Key /\ None \notin Job
ASSUME OrgAssumption     == OrgOf \in [Job -> Org]
ASSUME LeaseAssumption   == LeaseSeconds \in Nat /\ LeaseSeconds > 1
ASSUME AttemptAssumption == MaxAttempts \in Nat \ {0}
ASSUME DelayAssumption   == RetryDelays \in [1..(MaxAttempts - 1) -> Nat]
ASSUME BoundAssumption   ==
    MaxCreateTime \in Nat /\ MaxLateness \in Nat /\ MaxExtension \in Nat /\ MaxFaults \in Nat

VARIABLES
    jobs,             \* compilation_job rows
    operations,       \* operation rows, named by the job they belong to
    profiles,         \* profile revisions, named by their content key
    profileBindings,  \* (org, binding) -> key of the revision made for it
    outbox,           \* events in commit order; an event's id is its position
    held,             \* what each worker's run_once remembers across compilation
    faults            \* leases lost so far

storeVars == <<jobs, operations, profiles, profileBindings, outbox>>
vars == <<jobs, operations, profiles, profileBindings, outbox, held, faults>>

-----------------------------------------------------------------------------
\* Rows.

NoLease == [owner |-> None, token |-> 0, claimedAt |-> 0, expiresAt |-> 0]

JobRow(state, attempt, availableAt, createdAt, lease, resultKey) ==
    [state |-> state, attempt |-> attempt, availableAt |-> availableAt,
     createdAt |-> createdAt, lease |-> lease, resultKey |-> resultKey]

NoJob == JobRow("ABSENT", 0, 0, 0, NoLease, None)

OperationRow(state, version, updatedAt, result) ==
    [state |-> state, version |-> version, updatedAt |-> updatedAt, result |-> result]

NoOperation == OperationRow("ABSENT", 0, 0, None)

Idle == [job |-> None, token |-> 0, at |-> 0]

\* _event: the operation's new version is the event's sequence and the
\* operation's updated_at its time.
Event(j, op) == [subject |-> j, sequence |-> op.version, time |-> op.updatedAt, state |-> op.state]

Settled == {"SUCCEEDED", "DEAD_LETTERED"}

-----------------------------------------------------------------------------
\* create_job: the operation and its queued job appear together.
CreateJob(j, now) ==
    /\ jobs[j].state = "ABSENT"
    /\ jobs' = [jobs EXCEPT ![j] = JobRow("QUEUED", 0, now, now, NoLease, None)]
    /\ operations' = [operations EXCEPT ![j] = OperationRow("PENDING", 1, now, None)]
    /\ UNCHANGED <<profiles, profileBindings, outbox, held, faults>>

-----------------------------------------------------------------------------
\* claim.

\* Variant: a leased job is offered without looking at the end of its lease.
ClaimableAtOnce(j) == jobs[j].availableAt

\* When a job becomes claimable: its availability, or the end of its lease.
ClaimableAt(j) ==
    IF jobs[j].state = "LEASED" THEN jobs[j].lease.expiresAt ELSE jobs[j].availableAt

\* Variant: an expired lease is never offered again.
EligibleWaiting(org, now) ==
    {j \in Job : /\ OrgOf[j] = org
                 /\ jobs[j].state \in {"QUEUED", "RETRY_WAIT"}
                 /\ ClaimableAt(j) <= now}

Eligible(org, now) ==
    {j \in Job : /\ OrgOf[j] = org
                 /\ jobs[j].state \in {"QUEUED", "RETRY_WAIT", "LEASED"}
                 /\ ClaimableAt(j) <= now}

\* The claim order: availability, then creation, then id.
ClaimedBefore(j, k) ==
    \/ jobs[j].availableAt < jobs[k].availableAt
    \/ /\ jobs[j].availableAt = jobs[k].availableAt
       /\ \/ jobs[j].createdAt < jobs[k].createdAt
          \/ jobs[j].createdAt = jobs[k].createdAt /\ j <= k

NextInQueue(j, org, now) ==
    /\ j \in Eligible(org, now)
    /\ \A k \in Eligible(org, now) : ClaimedBefore(j, k)

\* Variant: the token of the first lease is used again.
FreshTokenReused(row) == 1

\* A fresh lease token: each claim of a job raises its attempt by one, so the
\* attempt number names the claim as the random UUID does.
FreshToken(row) == row.attempt + 1

LeaseFor(w, row, now) ==
    [owner |-> w, token |-> FreshToken(row), claimedAt |-> now,
     expiresAt |-> now + LeaseSeconds]

Claimed(w, row, now) ==
    JobRow("LEASED", row.attempt + 1, row.availableAt, row.createdAt,
           LeaseFor(w, row, now), row.resultKey)

Started(op, now) == OperationRow("RUNNING", op.version + 1, now, op.result)

HoldsCurrentLease(w, j) ==
    /\ held[w].job = j
    /\ jobs[j].state = "LEASED"
    /\ held[w].token = jobs[j].lease.token

\* Taking over a lease whose holder is still compiling loses that lease.
StealsLease(j) == \E v \in Worker : HoldsCurrentLease(v, j)

\* The first half of run_once: the worker leases the head of the queue and
\* keeps the job, its token and its own reading of the clock.  An operation
\* that is neither PENDING nor RUNNING refuses the claim.
Claim(w, org, j, now) ==
    /\ held[w] = Idle
    /\ NextInQueue(j, org, now)
    /\ jobs' = [jobs EXCEPT ![j] = Claimed(w, jobs[j], now)]
    /\ \/ /\ operations[j].state = "PENDING"
          /\ operations' = [operations EXCEPT ![j] = Started(operations[j], now)]
          /\ outbox' = Append(outbox, Event(j, Started(operations[j], now)))
       \/ /\ operations[j].state = "RUNNING"
          /\ UNCHANGED <<operations, outbox>>
    /\ held' = [held EXCEPT ![w] = [job |-> j, token |-> FreshToken(jobs[j]), at |-> now]]
    /\ \/ StealsLease(j) /\ faults < MaxFaults /\ faults' = faults + 1
       \/ ~StealsLease(j) /\ UNCHANGED faults
    /\ UNCHANGED <<profiles, profileBindings>>

-----------------------------------------------------------------------------
\* The fence every result write passes.

\* Variant: the claim is believed without looking at the row's lease.
LeasedOnce(j, w, token, now) == jobs[j].attempt >= token

Leased(j, w, token, now) ==
    /\ jobs[j].state = "LEASED"
    /\ jobs[j].lease.owner = w
    /\ jobs[j].lease.token = token
    /\ jobs[j].lease.expiresAt > now

\* Variants: the result carries the time of the claim, or an earlier one.
FinishTimeOfClaim(w) == held[w].at

FinishTimeBefore(w) == held[w].at - 1

\* run_once reports its result one second after the time it was called with,
\* however long the compilation took.
FinishTime(w) == held[w].at + 1

CallAccepted(w) == Leased(held[w].job, w, held[w].token, FinishTime(w))

\* extend: the holder pushes the end of its lease out from its current clock.
Extended(row, now) ==
    JobRow(row.state, row.attempt, row.availableAt, row.createdAt,
           [row.lease EXCEPT !.expiresAt = now + LeaseSeconds], row.resultKey)

Extend(w, now) ==
    /\ held[w] # Idle
    /\ Leased(held[w].job, w, held[w].token, now)
    /\ jobs' = [jobs EXCEPT ![held[w].job] = Extended(jobs[held[w].job], now)]
    /\ UNCHANGED <<operations, profiles, profileBindings, outbox, held, faults>>

\* What is left of a job's row when its lease ends.
Release(row, state, availableAt, resultKey) ==
    JobRow(state, row.attempt, availableAt, row.createdAt, NoLease, resultKey)

\* Variant: the version is not raised.
CloseOperationUnversioned(j, state, result, now) ==
    LET closed == OperationRow(state, operations[j].version, now, result)
    IN /\ operations' = [operations EXCEPT ![j] = closed]
       /\ outbox' = Append(outbox, Event(j, closed))

\* The operation reaches its final state, with the event that announces it.
CloseOperation(j, state, result, now) ==
    LET closed == OperationRow(state, operations[j].version + 1, now, result)
    IN /\ operations' = [operations EXCEPT ![j] = closed]
       /\ outbox' = Append(outbox, Event(j, closed))

\* fail: the job is dead-lettered and the operation fails.
Fail(j, now) ==
    /\ operations[j].state = "RUNNING"
    /\ jobs' = [jobs EXCEPT ![j] =
            Release(jobs[j], "DEAD_LETTERED", jobs[j].availableAt, None)]
    /\ CloseOperation(j, "FAILED", None, now)
    /\ UNCHANGED <<profiles, profileBindings>>

\* Variant: retries are never exhausted.
RetryForever(j, now) ==
    /\ jobs' = [jobs EXCEPT ![j] = Release(jobs[j], "RETRY_WAIT", now + RetryDelays[1], None)]
    /\ UNCHANGED <<operations, profiles, profileBindings, outbox>>

\* retry: back to the queue after a delay, or fail once attempts are used up.
Retry(j, now) ==
    \/ /\ jobs[j].attempt >= MaxAttempts
       /\ Fail(j, now)
    \/ /\ jobs[j].attempt < MaxAttempts
       /\ jobs' = [jobs EXCEPT ![j] =
            Release(jobs[j], "RETRY_WAIT", now + RetryDelays[jobs[j].attempt], None)]
       /\ UNCHANGED <<operations, profiles, profileBindings, outbox>>

\* Variant: the binding is looked up without its organization.
BindingKeyShared(j) == <<CHOOSE org \in Org : TRUE, BindingOf[j]>>

BindingKey(j) == <<OrgOf[j], BindingOf[j]>>

\* The revision a result is filed under: the one its binding already has, or
\* a new one whose key digests the binding and the profile.
RevisionFor(j) ==
    IF profileBindings[BindingKey(j)] # None
      THEN profileBindings[BindingKey(j)]
      ELSE [org |-> OrgOf[j], binding |-> BindingOf[j], digest |-> ProfileOf[j]]

\* succeed: revision, binding, job, operation and event commit together.  The
\* reference the operation keeps is to the profile just produced.
Succeed(j, now) ==
    /\ operations[j].state = "RUNNING"
    /\ profiles' = profiles \union {RevisionFor(j)}
    /\ profileBindings' = [profileBindings EXCEPT ![BindingKey(j)] = RevisionFor(j)]
    /\ jobs' = [jobs EXCEPT ![j] =
            Release(jobs[j], "SUCCEEDED", jobs[j].availableAt, RevisionFor(j))]
    /\ CloseOperation(j, "SUCCEEDED", ProfileOf[j], now)

\* run_once ends: the worker forgets the job whatever the store answered.
Done(w) == held' = [held EXCEPT ![w] = Idle] /\ UNCHANGED faults

FinishSucceed(w) ==
    /\ held[w] # Idle
    /\ held[w].job \notin ForeignWheel
    /\ CallAccepted(w)
    /\ Succeed(held[w].job, FinishTime(w))
    /\ Done(w)

\* A retryable compiler error.
FinishRetry(w) ==
    /\ held[w] # Idle
    /\ held[w].job \notin ForeignWheel
    /\ CallAccepted(w)
    /\ Retry(held[w].job, FinishTime(w))
    /\ Done(w)

\* A foreign wheel, a final compiler error or outputs the store refused.
FinishFail(w) ==
    /\ held[w] # Idle
    /\ CallAccepted(w)
    /\ Fail(held[w].job, FinishTime(w))
    /\ Done(w)

\* The fence refuses the call (or succeed finds the job already succeeded and
\* answers with the stored revision): the store does not change.
FinishRefused(w) ==
    /\ held[w] # Idle
    /\ ~CallAccepted(w)
    /\ Done(w)
    /\ UNCHANGED storeVars

\* The worker dies, or its transaction aborts, before its result commits.
Crash(w) ==
    /\ held[w] # Idle
    /\ faults < MaxFaults
    /\ faults' = faults + 1
    /\ held' = [held EXCEPT ![w] = Idle]
    /\ UNCHANGED storeVars

-----------------------------------------------------------------------------
Init ==
    /\ jobs = [j \in Job |-> NoJob]
    /\ operations = [j \in Job |-> NoOperation]
    /\ profiles = {}
    /\ profileBindings = [k \in Org \X Binding |-> None]
    /\ outbox = <<>>
    /\ held = [w \in Worker |-> Idle]
    /\ faults = 0

Finish(w) == FinishSucceed(w) \/ FinishRetry(w) \/ FinishFail(w) \/ FinishRefused(w)

\* A claim falls at most MaxLateness after the job it takes became claimable.
ClaimNow(w) ==
    \E j \in Job : \E now \in ClaimableAt(j)..(ClaimableAt(j) + MaxLateness) :
        Claim(w, OrgOf[j], j, now)

ExtendNow(w) ==
    \E now \in held[w].at..(held[w].at + MaxExtension) : Extend(w, now)

Create == \E j \in Job, now \in 0..MaxCreateTime : CreateJob(j, now)

WorkerStep(w) == ClaimNow(w) \/ ExtendNow(w) \/ Finish(w) \/ Crash(w)

Next == Create \/ \E w \in Worker : WorkerStep(w)

Spec == Init /\ [][Next]_vars

\* The scheduler keeps invoking run_once on some worker, and a worker that has
\* not died returns from the compiler and reports.
Fairness ==
    /\ WF_vars(\E w \in Worker : ClaimNow(w))
    /\ \A w \in Worker : WF_vars(Finish(w))

-----------------------------------------------------------------------------
\* Properties.

JobStates == {"ABSENT", "QUEUED", "LEASED", "RETRY_WAIT", "SUCCEEDED", "DEAD_LETTERED"}

LeaseType == [owner : Worker \union {None}, token : Nat, claimedAt : Nat, expiresAt : Nat]

JobType == [state : JobStates, attempt : Nat, availableAt : Nat, createdAt : Nat,
            lease : LeaseType, resultKey : Key \union {None}]

OperationType == [state : {"ABSENT", "PENDING", "RUNNING", "SUCCEEDED", "FAILED"},
                  version : Nat, updatedAt : Nat, result : Digest \union {None}]

EventType == [subject : Job, sequence : Nat, time : Nat,
              state : {"RUNNING", "SUCCEEDED", "FAILED"}]

\* The shape of every row the store keeps and of what a worker remembers.
TypeOK ==
    /\ jobs \in [Job -> JobType]
    /\ operations \in [Job -> OperationType]
    /\ profiles \subseteq Key
    /\ profileBindings \in [Org \X Binding -> Key \union {None}]
    /\ outbox \in Seq(EventType)
    /\ held \in [Worker -> [job : Job, token : Nat, at : Nat] \union {Idle}]
    /\ faults \in Nat

\* The state of an operation that a job's state implies.
OperationStateFor ==
    [ABSENT |-> "ABSENT", QUEUED |-> "PENDING", LEASED |-> "RUNNING",
     RETRY_WAIT |-> "RUNNING", SUCCEEDED |-> "SUCCEEDED", DEAD_LETTERED |-> "FAILED"]

\* A job and its operation never disagree, whichever worker wrote last: what
\* clients poll is what the queue did, and the OPERATION_TERMINAL refusals of
\* claim, fail and succeed are never met.
JobOperationAgree ==
    \A j \in Job : operations[j].state = OperationStateFor[jobs[j].state]

\* The row checks of the compilation_job table: a lease is recorded exactly
\* while the job is LEASED and ends after it began, and a result key exactly
\* when it SUCCEEDED.
JobRowChecks ==
    \A j \in Job :
        /\ jobs[j].state = "LEASED" <=> jobs[j].lease # NoLease
        /\ jobs[j].state = "LEASED" =>
              /\ jobs[j].lease.owner # None
              /\ jobs[j].lease.expiresAt > jobs[j].lease.claimedAt
              /\ jobs[j].attempt >= 1
        /\ jobs[j].state = "SUCCEEDED" <=> jobs[j].resultKey # None

\* Of the workers that believe they are compiling a job, at most one holds the
\* token the store would accept.
LeaseExclusive ==
    \A v, w \in Worker, j \in Job :
        HoldsCurrentLease(v, j) /\ HoldsCurrentLease(w, j) => v = w

\* Each attempt past the retry limit was forced by a lost lease: retries alone
\* never run a job more than MAX_ATTEMPTS times.
AttemptsExplained == \A j \in Job : jobs[j].attempt <= MaxAttempts + faults

\* What a worker remembers was true when it claimed: its token is one of the
\* attempts of its job, a token is given to one worker only, and the worker
\* whose token is current is the owner the row names, since the time it kept.
\* A lease outlasts the second after which run_once reports, so a holder whose
\* lease was not taken over is never refused for being late.
ClaimsAreRemembered ==
    /\ \A j \in Job : jobs[j].state = "LEASED" =>
          /\ jobs[j].lease.token = jobs[j].attempt
          /\ jobs[j].lease.expiresAt > jobs[j].lease.claimedAt + 1
    /\ \A w \in Worker : held[w] # Idle =>
          /\ held[w].token \in 1..jobs[held[w].job].attempt
          /\ HoldsCurrentLease(w, held[w].job) =>
                /\ jobs[held[w].job].lease.owner = w
                /\ jobs[held[w].job].lease.claimedAt = held[w].at
    /\ \A v, w \in Worker :
          held[v] # Idle /\ held[w] # Idle /\ held[v].job = held[w].job
            /\ held[v].token = held[w].token => v = w

\* How many attempts a job can have used by where it stands: a waiting job is
\* below the limit, and a leased job nobody works on has lost a lease.
AttemptBudget ==
    \A j \in Job :
        /\ jobs[j].attempt <= MaxAttempts + faults
        /\ jobs[j].state \in {"ABSENT", "QUEUED"} => jobs[j].attempt = 0
        /\ jobs[j].state = "RETRY_WAIT" => jobs[j].attempt < MaxAttempts
        /\ jobs[j].state = "LEASED" /\ ~StealsLease(j) => jobs[j].attempt < MaxAttempts + faults

\* The next write of an open operation cannot carry a time before its last
\* one, although every time comes from some worker's own clock.
TimesAdvance ==
    \A j \in Job :
        /\ jobs[j].state \in {"QUEUED", "RETRY_WAIT"} =>
              jobs[j].availableAt >= operations[j].updatedAt
        /\ jobs[j].state = "LEASED" =>
              jobs[j].lease.claimedAt >= operations[j].updatedAt

\* Only a succeeded operation has a result.
ResultsAreFinal ==
    \A j \in Job : operations[j].state # "SUCCEEDED" => operations[j].result = None

\* The inductive invariant behind the proofs.
IInv ==
    /\ TypeOK
    /\ JobOperationAgree
    /\ JobRowChecks
    /\ ClaimsAreRemembered
    /\ AttemptBudget
    /\ TimesAdvance
    /\ ResultsAreFinal

\* Events of one operation are committed with consecutive sequences up to the
\* operation's version and strictly increasing times, which is what lets the
\* relay recover their order from the time alone.
OutboxSequential ==
    /\ \A m, n \in DOMAIN outbox :
          m < n /\ outbox[m].subject = outbox[n].subject =>
            /\ outbox[m].sequence < outbox[n].sequence
            /\ outbox[m].time < outbox[n].time
    /\ \A j \in Job :
          {outbox[n].sequence : n \in {m \in DOMAIN outbox : outbox[m].subject = j}}
            = 2..operations[j].version

\* Jobs that succeeded under one binding.
SharesBinding(j, k) == jobs[k].state = "SUCCEEDED" /\ BindingKey(k) = BindingKey(j)

\* A succeeded job's result key is the one revision stored for its binding, in
\* its own organization, and that revision is the result of a job of the same
\* binding.  The operation's result is what its own input compiled to: the
\* binding leaves the input out, so this may be another profile than the one
\* an earlier job of the binding has filed.
ResultsResolve ==
    \A j \in Job :
        jobs[j].state = "SUCCEEDED" =>
            /\ jobs[j].resultKey \in profiles
            /\ jobs[j].resultKey = profileBindings[BindingKey(j)]
            /\ jobs[j].resultKey.org = OrgOf[j]
            /\ operations[j].result = ProfileOf[j]
            /\ \E k \in Job : SharesBinding(j, k) /\ operations[k].result = jobs[j].resultKey.digest

\* The version of an operation that its state implies: one for its creation,
\* one more for each transition.
VersionFor == [ABSENT |-> 0, PENDING |-> 1, RUNNING |-> 2, SUCCEEDED |-> 3, FAILED |-> 3]

\* What the next event of an operation is measured against: no event of it has
\* a later time or a higher sequence than its row.
EventsCovered ==
    /\ \A j \in Job : operations[j].version = VersionFor[operations[j].state]
    /\ \A n \in DOMAIN outbox :
          outbox[n].time <= operations[outbox[n].subject].updatedAt

\* The outbox with what its next event is measured against.
OutboxIInv == OutboxSequential /\ EventsCovered

\* A revision filed under a binding is stored, belongs to the binding's
\* organization and holds what some succeeded job of the binding compiled to;
\* every succeeded job of the binding names it, and its operation its own result.
BindingsResolve ==
    /\ \A k \in Org \X Binding : profileBindings[k] # None =>
          /\ profileBindings[k] \in profiles
          /\ profileBindings[k].org = k[1]
          /\ \E j \in Job : /\ jobs[j].state = "SUCCEEDED" /\ BindingKey(j) = k
                            /\ profileBindings[k].digest = ProfileOf[j]
    /\ \A j \in Job : jobs[j].state = "SUCCEEDED" =>
          /\ jobs[j].resultKey = profileBindings[BindingKey(j)]
          /\ operations[j].result = ProfileOf[j]

\* The holder moves the end of its lease, counting from a time between its
\* claim and that end; it stays the holder, and nothing else of the row changes.
ExtendedByHolder(j) ==
    \E w \in Worker : LET end == jobs'[j].lease.expiresAt IN
        /\ HoldsCurrentLease(w, j)
        /\ held'[w] = held[w]
        /\ jobs'[j] = [jobs[j] EXCEPT !.lease = [@ EXCEPT !.expiresAt = end]]
        /\ jobs[j].lease.claimedAt + LeaseSeconds <= end
        /\ end < jobs[j].lease.expiresAt + LeaseSeconds

\* The holder reports: the lease is gone from the row and from its memory, and
\* the attempt is not counted again.
ClosedByHolder(j) ==
    \E w \in Worker :
        /\ HoldsCurrentLease(w, j)
        /\ held'[w] = Idle
        /\ jobs'[j].state \in {"RETRY_WAIT", "SUCCEEDED", "DEAD_LETTERED"}
        /\ jobs'[j].attempt = jobs[j].attempt

\* A new claim, no earlier than the lease's end, by a token of its own.
TakenOver(j) ==
    /\ jobs'[j].state = "LEASED"
    /\ jobs'[j].lease.token # jobs[j].lease.token
    /\ jobs'[j].lease.claimedAt >= jobs[j].lease.expiresAt
    /\ jobs'[j].attempt = jobs[j].attempt + 1

FencedStep ==
    \A j \in Job :
        jobs[j].state = "LEASED" /\ jobs'[j] # jobs[j] =>
            ExtendedByHolder(j) \/ ClosedByHolder(j) \/ TakenOver(j)

\* Owner and token of a lease stay until it ends: a leased job's row changes
\* only by the hand of the worker that holds the current token, which extends
\* the lease in time or gives it up, or by a claim no earlier than its end.
FencedWrites == [][FencedStep]_vars

Lifecycle == INSTANCE OperationLifecycle WITH Operation <- Job, NoResult <- None

\* The queue implements the operation life cycle promised to every client.
ImplementsLifecycle == Lifecycle!OpSpec

\* When only finitely many leases are lost, every job created is settled.
JobsSettle ==
    \A j \in Job : jobs[j].state # "ABSENT" ~> jobs[j].state \in Settled

\* CHECK (attempt BETWEEN 0 AND 3) of the compilation_job table.
AttemptLimit == \A j \in Job : jobs[j].attempt <= MaxAttempts
=============================================================================

--------------------------- MODULE OperationStore ---------------------------
(***************************************************************************)
(* The web control plane's store of long-running operations: a request to  *)
(* compile an approved demand makes an operation and a queued job, a       *)
(* bundle request of the profile store makes an operation that the store   *)
(* completes when the source reports, and workers move operations along.   *)
(* Every change of a row comes with its audit facts, chained per           *)
(* organization, and every transition with its outbox event.               *)
(*                                                                         *)
(* A call is one event-loop turn, so one action; a refused call is no      *)
(* step, and a call whose audit append fails changes nothing else.  The    *)
(* demand store and the compile-input resolver are asked in that turn and  *)
(* may answer differently from one call to the next.  Times are left out:  *)
(* every row, event and fact takes its time from the same server clock.    *)
(***************************************************************************)
EXTENDS TenantAuditChain, FiniteSets

CONSTANTS
    Operation,          \* operation ids
    Org,                \* organizations
    Key,                \* idempotency keys, as digests
    Demand,             \* demands
    OrgOf,              \* the organization of each demand
    None,
    MaxDemandRevision,  \* bound: revisions of a demand
    MaxAuditFailures    \* bound: audit appends that fail

ASSUME OrgAssumption == OrgOf \in [Demand -> Org]
ASSUME NameAssumption == None \notin Demand /\ None \notin Operation
ASSUME BoundAssumption ==
    MaxDemandRevision \in Nat /\ MaxAuditFailures \in Nat

VARIABLES
    demands,        \* what the demand store answers: revision, APPROVED or not
    inputs,         \* what the resolver answers: a demand revision, or why not
    operations,     \* operation rows
    jobs,           \* queued compilation jobs, in order
    remembered,     \* idempotency records: (organization, key) -> answer
    outbox,         \* events, in order
    audit,          \* audit facts, in order
    chains,         \* the chained audit records of each organization
    auditFailure,   \* the next audit append fails
    failures        \* how many appends were made to fail

vars == <<demands, inputs, operations, jobs, remembered, outbox, audit, chains,
          auditFailure, failures>>

-----------------------------------------------------------------------------
\* Rows.

Row(state, version, type, org, key, result) ==
    [state |-> state, version |-> version, type |-> type, org |-> org, key |-> key,
     result |-> result]
NoOperation == Row("ABSENT", 0, None, None, None, FALSE)

\* A job carries the demand's revision and the input it is to be compiled from,
\* of which all that matters is the revision it was registered for.
JobRow(o, d) == [operation |-> o, org |-> OrgOf[d], demand |-> d,
                 revision |-> demands[d].revision, input |-> inputs[d].revision]
Answer(o, d) == [operation |-> o, demand |-> d]
NoAnswer == Answer(None, None)
Input(available, revision) == [available |-> available, revision |-> revision]

\* The table of legal transitions and the operation table's row, as promised.
Promised(rows) ==
    [o \in Operation |-> [state |-> rows[o].state, version |-> rows[o].version,
                          updatedAt |-> 0, result |-> rows[o].result]]
Lifecycle == INSTANCE OperationLifecycle WITH NoResult <- FALSE, operations <- Promised(operations)

Event(o, row, from) ==
    [operation |-> o, sequence |-> row.version, from |-> from, to |-> row.state]

\* A fact names the row it was written for; its event id is fresh.
AuditFact(offset, o, row) ==
    Fact(Len(audit) + offset, row.org, <<o, row.version, row.state>>)

\* Variant: of several facts only the last reaches the chain.
CommitAuditLast(org, facts) ==
    /\ ~auditFailure
    /\ Appendable(org, chains[org], facts)
    /\ chains' = [chains EXCEPT ![org] = Extended(@, facts[Len(facts)])]
    /\ audit' = audit \o facts

CommitAudit(org, facts) ==
    /\ ~auditFailure
    /\ Appendable(org, chains[org], facts)
    /\ chains' = [chains EXCEPT ![org] = Appended(@, facts)]
    /\ audit' = audit \o facts

-----------------------------------------------------------------------------
\* requestCompilation.

\* Variant: the resolved input may be of another revision of the demand.
ResolvedAny(d) == inputs[d].available

\* resolve and assertResolved: an input is there, and made for this revision.
Resolved(d) == inputs[d] = Input(TRUE, demands[d].revision)

\* A key that was used is answered from memory, or refused: no step.
Requestable(org, key, d, ifMatch) ==
    /\ remembered[<<org, key>>] = NoAnswer
    /\ OrgOf[d] = org
    /\ demands[d].revision > 0
    /\ ifMatch = demands[d].revision
    /\ demands[d].approved
    /\ Resolved(d)

RequestCompilation(o, org, key, d, ifMatch) ==
    LET row == Row("PENDING", 1, "COMPILE_PROFILE", org, key, FALSE)
    IN /\ Requestable(org, key, d, ifMatch)
       /\ operations[o] = NoOperation
       /\ CommitAudit(org, <<AuditFact(1, o, row)>>)
       /\ operations' = [operations EXCEPT ![o] = row]
       /\ jobs' = Append(jobs, JobRow(o, d))
       /\ remembered' = [remembered EXCEPT ![<<org, key>>] = Answer(o, d)]
       /\ UNCHANGED <<demands, inputs, outbox, auditFailure, failures>>

\* createBundleOperation.  The key is the one of requestBundle's caller, which
\* the profile store answers from its own memory when it comes again; the keys
\* remembered here are not looked at.
Bundled(org, key) ==
    \E o \in Operation :
        operations[o].type = "BUILD_BUNDLE" /\ operations[o].org = org /\ operations[o].key = key

CreateBundleOperation(o, org, key) ==
    LET row == Row("PENDING", 1, "BUILD_BUNDLE", org, key, FALSE)
    IN /\ ~Bundled(org, key)
       /\ operations[o] = NoOperation
       /\ CommitAudit(org, <<AuditFact(1, o, row)>>)
       /\ operations' = [operations EXCEPT ![o] = row]
       /\ UNCHANGED <<demands, inputs, jobs, remembered, outbox, auditFailure, failures>>

-----------------------------------------------------------------------------
\* completeBundleOperation: two transitions, written together.

Moved(row, state, result) ==
    [row EXCEPT !.state = state, !.version = @ + 1, !.result = result]

Completable(o) == operations[o].type = "BUILD_BUNDLE" /\ operations[o].state = "PENDING"

\* Variant: both events are made from the row as it ends.
CompletionEventsOfEnd(o, running, succeeded) ==
    <<Event(o, succeeded, "PENDING"), Event(o, succeeded, "RUNNING")>>

CompletionEvents(o, running, succeeded) ==
    <<Event(o, running, "PENDING"), Event(o, succeeded, "RUNNING")>>

CompleteBundleOperation(o) ==
    LET running   == Moved(operations[o], "RUNNING", FALSE)
        succeeded == Moved(running, "SUCCEEDED", TRUE)
    IN /\ Completable(o)
       /\ CommitAudit(running.org, <<AuditFact(1, o, running), AuditFact(2, o, succeeded)>>)
       /\ operations' = [operations EXCEPT ![o] = succeeded]
       /\ outbox' = outbox \o CompletionEvents(o, running, succeeded)
       /\ UNCHANGED <<demands, inputs, jobs, remembered, auditFailure, failures>>

\* applyWorkerTransition; a failure is given exactly with FAILED, and results
\* only with SUCCEEDED.
Movable(o, next, result) ==
    /\ next \in Lifecycle!Legal[operations[o].state] \ {"PENDING"}
    /\ result => next = "SUCCEEDED"

ApplyWorkerTransition(o, next, result) ==
    LET changed == Moved(operations[o], next, result)
    IN /\ Movable(o, next, result)
       /\ CommitAudit(changed.org, <<AuditFact(1, o, changed)>>)
       /\ operations' = [operations EXCEPT ![o] = changed]
       /\ outbox' = Append(outbox, Event(o, changed, operations[o].state))
       /\ UNCHANGED <<demands, inputs, jobs, remembered, auditFailure, failures>>

\* Any of the calls above whose append fails: nothing of it remains.
Unaudited ==
    /\ auditFailure
    /\ \/ \E org \in Org, key \in Key, d \in Demand : Requestable(org, key, d, demands[d].revision)
       \/ \E org \in Org, key \in Key : ~Bundled(org, key)
       \/ \E o \in Operation, next \in Lifecycle!OperationStates :
             Completable(o) \/ Movable(o, next, FALSE)
    /\ auditFailure' = FALSE
    /\ UNCHANGED <<demands, inputs, operations, jobs, remembered, outbox, audit, chains,
                   failures>>

-----------------------------------------------------------------------------
\* The environment.

\* The demand store: a new demand, a change to it, or its approval, which ends it.
DemandChange(d, approved) ==
    /\ demands[d].revision < MaxDemandRevision
    /\ ~demands[d].approved
    /\ demands' = [demands EXCEPT ![d] = [revision |-> @.revision + 1, approved |-> approved]]
    /\ UNCHANGED <<inputs, operations, jobs, remembered, outbox, audit, chains, auditFailure,
                   failures>>

\* An input is registered for a revision, or the resolver cannot be reached.
ResolverChange(d, input) ==
    /\ inputs' = [inputs EXCEPT ![d] = input]
    /\ UNCHANGED <<demands, operations, jobs, remembered, outbox, audit, chains, auditFailure,
                   failures>>

FailNextAudit ==
    /\ failures < MaxAuditFailures
    /\ auditFailure' = TRUE
    /\ failures' = failures + 1
    /\ UNCHANGED <<demands, inputs, operations, jobs, remembered, outbox, audit, chains>>

Init ==
    /\ demands = [d \in Demand |-> [revision |-> 0, approved |-> FALSE]]
    /\ inputs = [d \in Demand |-> Input(FALSE, 0)]
    /\ operations = [o \in Operation |-> NoOperation]
    /\ jobs = <<>>
    /\ remembered = [pair \in Org \X Key |-> NoAnswer]
    /\ outbox = <<>>
    /\ audit = <<>>
    /\ chains = [org \in Org |-> <<>>]
    /\ auditFailure = FALSE
    /\ failures = 0

Next ==
    \/ \E o \in Operation, org \in Org, key \in Key :
          \/ \E d \in Demand, ifMatch \in 1..MaxDemandRevision :
                RequestCompilation(o, org, key, d, ifMatch)
          \/ CreateBundleOperation(o, org, key)
    \/ \E o \in Operation : CompleteBundleOperation(o)
    \/ \E o \in Operation, next \in Lifecycle!OperationStates, result \in BOOLEAN :
          ApplyWorkerTransition(o, next, result)
    \/ \E d \in Demand, approved \in BOOLEAN : DemandChange(d, approved)
    \/ \E d \in Demand, revision \in 0..MaxDemandRevision :
          ResolverChange(d, Input(revision > 0, revision))
    \/ Unaudited \/ FailNextAudit

Spec == Init /\ [][Next]_vars

-----------------------------------------------------------------------------
\* Properties.

RowType == [state : Lifecycle!OperationStates, version : Nat \ {0},
            type : {"COMPILE_PROFILE", "BUILD_BUNDLE"}, org : Org, key : Key, result : BOOLEAN]

EventType == [operation : Operation, sequence : Nat, from : Lifecycle!OperationStates,
              to : Lifecycle!OperationStates]

FactType == [event : Nat, org : Org, about : Operation \X Nat \X Lifecycle!OperationStates]

JobType == [operation : Operation, org : Org, demand : Demand, revision : Nat, input : Nat]

\* The shape of every row, event and fact; the links of a chain are terms over
\* the whole chain before them, so of a chain only that it is a sequence.
TypeOK ==
    /\ demands \in [Demand -> [revision : Nat, approved : BOOLEAN]]
    /\ inputs \in [Demand -> [available : BOOLEAN, revision : Nat]]
    /\ operations \in [Operation -> RowType \union {NoOperation}]
    /\ jobs \in Seq(JobType)
    /\ remembered \in
          [Org \X Key -> [operation : Operation, demand : Demand] \union {NoAnswer}]
    /\ outbox \in Seq(EventType)
    /\ audit \in Seq(FactType)
    /\ DOMAIN chains = Org
    /\ \A org \in Org : chains[org] \in Seq(Range(chains[org]))

EventsOf(events, o) == {n \in DOMAIN events : events[n].operation = o}

\* What the events of an operation tell of a row: one event per version from the
\* second on, in order, each starting in the state the one before ended in, along
\* legal transitions, the last one ending where the row stands.
EventsTell(events, o, version, state) ==
    /\ {events[n].sequence : n \in EventsOf(events, o)} = 2..version
    /\ \A m, n \in EventsOf(events, o) : m < n => events[m].sequence < events[n].sequence
    /\ \A n \in EventsOf(events, o) :
          /\ events[n].to \in Lifecycle!Legal[events[n].from]
          /\ events[n].sequence = 2 => events[n].from = "PENDING"
          /\ \A m \in EventsOf(events, o) :
                events[n].sequence = events[m].sequence + 1 => events[n].from = events[m].to
          /\ events[n].sequence = version => events[n].to = state

\* Reading an operation's events in the order they were committed gives its row.
\* A bundle's two transitions in one call and a failed append leave no gap.
OutboxTellsRow ==
    \A o \in Operation : EventsTell(outbox, o, operations[o].version, operations[o].state)

FactAt(records, i) == records[i].unsigned.fact
AboutOf(records, o) == {i \in DOMAIN records : FactAt(records, i).about[1] = o}

\* A chain verifies and holds the organization's facts of an audit log, all of
\* them, in the order they were written, and nobody else's.  A fact's event id
\* is its place in the log.
InStep(org, records, log) ==
    /\ Valid(org, records)
    /\ \A i \in DOMAIN records :
          /\ FactAt(records, i).event \in DOMAIN log
          /\ log[FactAt(records, i).event] = FactAt(records, i)
    /\ \A n \in DOMAIN log : log[n].org = org =>
          \E i \in DOMAIN records : FactAt(records, i) = log[n]
    /\ \A i, k \in DOMAIN records : i < k => FactAt(records, i).event < FactAt(records, k).event

\* What the facts about an operation tell of it: every version, in order and
\* once, and the state of the present one.
FactsTell(records, o, version, state) ==
    /\ {FactAt(records, i).about[2] : i \in AboutOf(records, o)} = 1..version
    /\ \A i, k \in AboutOf(records, o) :
          i < k => FactAt(records, i).about[2] < FactAt(records, k).about[2]
    /\ \A i \in AboutOf(records, o) :
          FactAt(records, i).about[2] = version => FactAt(records, i).about[3] = state

\* The version of an operation that a chain of an organization accounts for.
VersionIn(org, o) == IF operations[o].org = org THEN operations[o].version ELSE 0

\* An organization's chain verifies, holds its audit facts in the order they were
\* written and nobody else's, and every operation of it is there version by
\* version from its creation to its present state, exactly once, whatever failed
\* in between.
ChainTellsAll ==
    \A org \in Org :
        /\ InStep(org, chains[org], audit)
        /\ \A o \in Operation :
              FactsTell(chains[org], o, VersionIn(org, o), operations[o].state)

\* What could have been done to a stored chain: a fact changed, with or without
\* its record sealed again, two records swapped, one taken out, a well-sealed one
\* put in.
\* The last record is special: nothing follows it that would miss it.
Changed(records, i, fact) == [records EXCEPT ![i].unsigned.fact = fact]
Resealed(records, i, fact) ==
    [records EXCEPT ![i] = Sealed([@.unsigned EXCEPT !.fact = fact])]
Swapped(records, i, k) == [records EXCEPT ![i] = records[k], ![k] = records[i]]
Inserted(records, i, fact) ==
    InsertAt(records, i, Sealed(Unsigned(i, Before(records, i), fact)))

Tampered(records, fact) ==
    LET n == Len(records)
    IN {Changed(records, i, fact) : i \in 1..n}
       \union {Resealed(records, i, fact) : i \in 1..(n - 1)}
       \union (UNION {{Swapped(records, i, k) : k \in (i + 1)..n} : i \in 1..n})
       \union {RemoveAt(records, i) : i \in 1..(n - 1)}
       \union {Inserted(records, i, fact) : i \in 1..n}

\* A chain that was altered in the middle no longer verifies, whichever of its
\* records was changed, sealed again, moved or taken out, and whatever was put between them.
TamperingShows ==
    \A org \in Org :
        \A records \in Tampered(chains[org], Fact(0, org, <<None, 0, "FORGED">>)) :
            ~Valid(org, records)

Existing == {o \in Operation : operations[o] # NoOperation}
Compilations == {o \in Existing : operations[o].type = "COMPILE_PROFILE"}

\* Every operation to compile has exactly one job, for the very revision of the
\* organization's own demand that was approved and from the input registered for
\* that revision, and is what its key is answered
\* with ever after; no key is answered with anything else, and no job comes from
\* a repeated, refused or failed request.
JobsBound ==
    /\ \A i \in DOMAIN jobs :
          /\ jobs[i].operation \in Compilations
          /\ operations[jobs[i].operation].org = jobs[i].org
          /\ jobs[i].org = OrgOf[jobs[i].demand]
          /\ demands[jobs[i].demand] = [revision |-> jobs[i].revision, approved |-> TRUE]
          /\ jobs[i].input = jobs[i].revision
    /\ \A o \in Compilations :
          /\ Cardinality({i \in DOMAIN jobs : jobs[i].operation = o}) = 1
          /\ \E i \in DOMAIN jobs :
                /\ jobs[i].operation = o
                /\ remembered[<<operations[o].org, operations[o].key>>] = Answer(o, jobs[i].demand)
    /\ \A org \in Org, key \in Key :
          remembered[<<org, key>>] # NoAnswer => remembered[<<org, key>>].operation \in Compilations

\* What a new fact and a new event are measured against: a fact's event id is its
\* place in the log, and an operation at its first version is PENDING.
LogInPlace ==
    /\ \A n \in DOMAIN audit : audit[n].event = n
    /\ \A o \in Operation : operations[o].version = 1 => operations[o].state = "PENDING"

\* Every record is exactly what append makes of its fact at its place.
WellSealed(records) ==
    \A i \in DOMAIN records :
        records[i] = Sealed(Unsigned(i, Before(records, i), FactAt(records, i)))

ChainsSealed == \A org \in Org : WellSealed(chains[org])

\* The inductive invariant behind the proofs.
IInv ==
    TypeOK /\ LogInPlace /\ OutboxTellsRow /\ ChainTellsAll /\ ChainsSealed /\ JobsBound
=============================================================================

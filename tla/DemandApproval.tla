--------------------------- MODULE DemandApproval ---------------------------
(***************************************************************************)
(* Tenant demands and the N-of-M review that admits them to compilation:   *)
(* DemandApprovalStore with the source resolver and the approval policy    *)
(* hook it calls.  Every store method runs to completion in one event-loop *)
(* turn, so each is one atomic action; a refusal changes nothing and is no *)
(* step.  ETags, idempotency keys and failed audit appends, which every    *)
(* store shares, are modelled in QuestionnaireSession.                     *)
(*                                                                         *)
(* The tenant demand resource is fixed when a demand is created, so its    *)
(* validated digest is present exactly when its validated revision is, and *)
(* only the revision is kept.                                              *)
(***************************************************************************)
EXTENDS Integers, Sequences, FiniteSets

CONSTANTS
    Demand,       \* demand identities
    Approval,     \* approval identities
    Actor,        \* subject digests of the members of the organization
    Policy,       \* what the policy hook may answer
    Source,       \* what the source resolver may answer
    None,         \* an empty column
    MaxTime,      \* bound: the clock stops at MaxTime
    MaxRevision   \* bound: a demand is not revalidated past this revision

Dispositions == {"ADMITTED", "DENIED", "UNAVAILABLE"}

ASSUME PolicyAssumption ==
    Policy \subseteq [disposition : Dispositions, required : Nat,
                      reviewers : SUBSET Actor, expiresAt : Nat]
ASSUME SourceAssumption ==
    Source \subseteq [available : BOOLEAN, matches : BOOLEAN, ready : BOOLEAN, pass : BOOLEAN,
                      attested : BOOLEAN, readinessExpiresAt : Nat, ownerApproved : BOOLEAN,
                      ownerApprovalExpiresAt : Nat]
ASSUME NamesAssumption == None \notin Approval /\ None \notin Demand
ASSUME ActorAssumption == IsFiniteSet(Actor)
ASSUME LimitAssumption == MaxTime \in Nat /\ MaxRevision \in Nat

VARIABLES
    demands,        \* demand rows
    approvals,      \* approval rows
    findings,       \* the findings of every validation of a demand
    demandTrail,    \* the audit events about each demand
    approvalTrail,  \* the audit events about each approval
    policy,         \* what the policy hook answers at present
    now             \* the server's clock

vars == <<demands, approvals, findings, demandTrail, approvalTrail, policy, now>>

-----------------------------------------------------------------------------
\* Rows.  A validated revision of 0 is an empty column.

DemandRow(state, revision, validatedRevision, approvalId, rejects) ==
    [state |-> state, revision |-> revision, validatedRevision |-> validatedRevision,
     approvalId |-> approvalId, rejects |-> rejects]

NoDemand == DemandRow("ABSENT", 0, 0, None, FALSE)

ApprovalRow(state, revision, decisions, binding) ==
    [state |-> state, revision |-> revision, decisions |-> decisions, binding |-> binding]

\* What an approval is about and under which policy, fixed when it is asked for.
BindingRow(demand, demandRevision, requester, admitted, requestedAt) ==
    [demand |-> demand, demandRevision |-> demandRevision, requester |-> requester,
     policy |-> admitted, requestedAt |-> requestedAt]

NoBinding == [demand |-> None]

NoApproval == ApprovalRow("ABSENT", 0, <<>>, NoBinding)

Terminal == {"APPROVED", "REJECTED"}

\* DEMAND_TRANSITIONS, and the checks that use it.
Transitions ==
    [DRAFT |-> {"BLOCKED", "VALIDATED"},
     BLOCKED |-> {"VALIDATED", "SUPERSEDED"},
     VALIDATED |-> {"APPROVAL_PENDING", "SUPERSEDED"},
     APPROVAL_PENDING |-> {"APPROVED", "REJECTED", "BLOCKED", "SUPERSEDED"},
     APPROVED |-> {}, REJECTED |-> {}, SUPERSEDED |-> {}]

\* demandDigest and approvalDigest: what an audit event says of its aggregate.
DemandDigest(row) ==
    [state |-> row.state, revision |-> row.revision, approvalId |-> row.approvalId]

ApprovalDigest(row) ==
    [state |-> row.state, revision |-> row.revision, decided |-> Len(row.decisions)]

\* Writing a row with the audit event that reports it.
WriteDemand(d, row) ==
    /\ demands' = [demands EXCEPT ![d] = row]
    /\ demandTrail' = [demandTrail EXCEPT ![d] = Append(@, DemandDigest(row))]

WriteApproval(a, row) ==
    /\ approvals' = [approvals EXCEPT ![a] = row]
    /\ approvalTrail' = [approvalTrail EXCEPT ![a] = Append(@, ApprovalDigest(row))]

-----------------------------------------------------------------------------
\* create: a draft with the explicit decision on each prerequisite; `rejects'
\* says whether one of them is REJECT.
CreateDemand(d, rejects) ==
    /\ demands[d].state = "ABSENT"
    /\ WriteDemand(d, DemandRow("DRAFT", 1, 0, None, rejects))
    /\ UNCHANGED <<approvals, findings, approvalTrail, policy, now>>

-----------------------------------------------------------------------------
\* validate: the evidence behind a demand is looked up and judged afresh.

\* The blocking findings about the source the resolver answered with.
SourceFindings(source, time) ==
    LET wrong ==
          [SOURCE_REFERENCE_MISMATCH        |-> ~source.matches,
           QUESTIONNAIRE_NOT_READY          |-> ~source.ready,
           READINESS_NOT_PASS               |-> ~source.pass,
           READINESS_EXPIRED                |-> source.readinessExpiresAt <= time,
           OWNER_APPROVAL_MISSING           |-> ~source.ownerApproved,
           OWNER_APPROVAL_EXPIRED           |-> /\ source.ownerApproved
                                                /\ source.ownerApprovalExpiresAt <= time,
           ENVIRONMENT_ATTESTATION_MISMATCH |-> ~source.attested]
    IN IF source.available THEN {code \in DOMAIN wrong : wrong[code]}
                           ELSE {"SOURCE_UNAVAILABLE"}

BlockingFindings(d, source, time) ==
    SourceFindings(source, time)
      \union (IF demands[d].rejects THEN {"PREREQUISITE_REJECTED"} ELSE {})

Finding(revision, code) == [revision |-> revision, code |-> code]

\* Variant: a new validation keeps what an earlier one had bound.
ValidatedKeepingBinding(row, blocked) ==
    DemandRow(IF blocked THEN "BLOCKED" ELSE "VALIDATED", row.revision + 1,
              IF blocked THEN row.revision ELSE row.revision + 1, row.approvalId, row.rejects)

\* The row a validation writes: only a validation without blocking findings
\* binds the resource, to the revision it makes.
Validated(row, blocked) ==
    DemandRow(IF blocked THEN "BLOCKED" ELSE "VALIDATED", row.revision + 1,
              IF blocked THEN 0 ELSE row.revision + 1, row.approvalId, row.rejects)

Validate(d, source) ==
    /\ demands[d].state \in {"DRAFT", "BLOCKED"}
    /\ demands[d].revision < MaxRevision
    /\ LET blocking == BlockingFindings(d, source, now)
           row == Validated(demands[d], blocking # {})
           codes == IF blocking = {} THEN {"DEMAND_VALIDATED"} ELSE blocking
       IN /\ row.state = demands[d].state \/ row.state \in Transitions[demands[d].state]
          /\ WriteDemand(d, row)
          /\ findings' = [findings EXCEPT ![d] = @ \union {Finding(row.revision, c) : c \in codes}]
    /\ UNCHANGED <<approvals, approvalTrail, policy, now>>

-----------------------------------------------------------------------------
\* requestApproval: the policy in force is frozen into a new approval.

\* Variant: the quorum is not compared with the number of reviewers.
AdmittedUnreachable(p, requester, time) ==
    /\ p.disposition = "ADMITTED"
    /\ p.required >= 1
    /\ requester \notin p.reviewers
    /\ p.expiresAt > time

\* admittedPolicy: a quorum the reviewers can reach, the requester not among
\* them, and an expiry still ahead.
Admitted(p, requester, time) ==
    /\ p.disposition = "ADMITTED"
    /\ p.required \in 1..Cardinality(p.reviewers)
    /\ requester \notin p.reviewers
    /\ p.expiresAt > time

Pending(row, a) ==
    DemandRow("APPROVAL_PENDING", row.revision + 1, row.validatedRevision, a, row.rejects)

RequestApproval(d, a, actor) ==
    /\ approvals[a].state = "ABSENT"
    /\ demands[d].state = "VALIDATED"
    /\ demands[d].validatedRevision = demands[d].revision
    /\ Admitted(policy, actor, now)
    /\ WriteApproval(a, ApprovalRow("PENDING", 1, <<>>,
            BindingRow(d, demands[d].validatedRevision, actor, policy, now)))
    /\ WriteDemand(d, Pending(demands[d], a))
    /\ UNCHANGED <<findings, policy, now>>

-----------------------------------------------------------------------------
\* decide: one reviewer's decision on a pending approval.

\* Variant: a reviewer may decide again.
UndecidedNotAsked(row, actor) == TRUE

Undecided(row, actor) ==
    \A i \in DOMAIN row.decisions : row.decisions[i].actor # actor

MayReview(row, actor) ==
    /\ row.state = "PENDING"
    /\ actor # row.binding.requester
    /\ actor \in row.binding.policy.reviewers
    /\ Undecided(row, actor)

\* The approval is still about the demand as it stands.
SubjectCurrent(a) ==
    LET b == approvals[a].binding
    IN /\ demands[b.demand].state = "APPROVAL_PENDING"
       /\ demands[b.demand].validatedRevision = b.demandRevision
       /\ demands[b.demand].approvalId = a

\* The hook is asked again, as of the time of the request, and must answer
\* what it answered then.
PolicyCurrent(b) ==
    /\ Admitted(policy, b.requester, b.requestedAt)
    /\ policy = b.policy

Approvals(decisions) == {i \in DOMAIN decisions : decisions[i].decision = "APPROVE"}

\* The first rejection settles the approval; approvals settle it at the quorum.
Outcome(row, decisions, decision) ==
    IF decision = "REJECT" THEN "REJECTED"
    ELSE IF Cardinality(Approvals(decisions)) >= row.binding.policy.required
           THEN "APPROVED" ELSE "PENDING"

\* Variant: only the last decision is kept.
DecidedForgetting(row, decisions, decision) ==
    ApprovalRow(Outcome(row, decisions, decision), row.revision + 1,
                <<decisions[Len(decisions)]>>, row.binding)

Decided(row, decisions, decision) ==
    ApprovalRow(Outcome(row, decisions, decision), row.revision + 1, decisions, row.binding)

Closed(row, state) ==
    DemandRow(state, row.revision + 1, row.validatedRevision, row.approvalId, row.rejects)

Decide(a, actor, decision) ==
    /\ MayReview(approvals[a], actor)
    /\ SubjectCurrent(a)
    /\ PolicyCurrent(approvals[a].binding)
    /\ approvals[a].binding.policy.expiresAt > now
    /\ LET d == approvals[a].binding.demand
           entry == [actor |-> actor, decision |-> decision, at |-> now]
           row == Decided(approvals[a], Append(approvals[a].decisions, entry), decision)
       IN /\ WriteApproval(a, row)
          /\ \/ row.state \in Terminal /\ WriteDemand(d, Closed(demands[d], row.state))
             \/ row.state = "PENDING" /\ UNCHANGED <<demands, demandTrail>>
    /\ UNCHANGED <<findings, policy, now>>

Expired(row) == ApprovalRow("EXPIRED", row.revision + 1, row.decisions, row.binding)

\* Variants: the demand keeps its approval; the revision is not raised.
ReopenedKeepingApproval(row) ==
    DemandRow("BLOCKED", row.revision + 1, row.validatedRevision, row.approvalId, row.rejects)
ReopenedUnversioned(row) ==
    DemandRow("BLOCKED", row.revision, row.validatedRevision, None, row.rejects)

\* The demand goes back, without its approval; what was validated stays.
Reopened(row) ==
    DemandRow("BLOCKED", row.revision + 1, row.validatedRevision, None, row.rejects)

\* An expiry is only noticed when a reviewer who could still decide tries to.
Expire(a, actor) ==
    /\ MayReview(approvals[a], actor)
    /\ SubjectCurrent(a)
    /\ PolicyCurrent(approvals[a].binding)
    /\ approvals[a].binding.policy.expiresAt <= now
    /\ LET d == approvals[a].binding.demand
           row == Reopened(demands[d])
       IN /\ WriteApproval(a, Expired(approvals[a]))
          /\ WriteDemand(d, row)
          /\ findings' = [findings EXCEPT ![d] = @ \union {Finding(row.revision, "APPROVAL_EXPIRED")}]
    /\ UNCHANGED <<policy, now>>

-----------------------------------------------------------------------------
\* The environment: the hook's answer changes, or is missing for a while.
PolicyChange(p) ==
    /\ p # policy
    /\ policy' = p
    /\ UNCHANGED <<demands, approvals, findings, demandTrail, approvalTrail, now>>

Tick ==
    /\ now < MaxTime
    /\ now' = now + 1
    /\ UNCHANGED <<demands, approvals, findings, demandTrail, approvalTrail, policy>>

Init ==
    /\ demands = [d \in Demand |-> NoDemand]
    /\ approvals = [a \in Approval |-> NoApproval]
    /\ findings = [d \in Demand |-> {}]
    /\ demandTrail = [d \in Demand |-> <<>>]
    /\ approvalTrail = [a \in Approval |-> <<>>]
    /\ policy \in Policy
    /\ now = 0

Next ==
    \/ \E d \in Demand, rejects \in BOOLEAN : CreateDemand(d, rejects)
    \/ \E d \in Demand, source \in Source : Validate(d, source)
    \/ \E d \in Demand, a \in Approval, actor \in Actor : RequestApproval(d, a, actor)
    \/ \E a \in Approval, actor \in Actor, decision \in {"APPROVE", "REJECT"} :
          Decide(a, actor, decision)
    \/ \E a \in Approval, actor \in Actor : Expire(a, actor)
    \/ \E p \in Policy : PolicyChange(p)
    \/ Tick

Spec == Init /\ [][Next]_vars

-----------------------------------------------------------------------------
\* Properties.

DemandStates == {"ABSENT", "DRAFT", "BLOCKED", "VALIDATED", "APPROVAL_PENDING",
                 "APPROVED", "REJECTED"}
ApprovalStates == {"ABSENT", "PENDING", "APPROVED", "REJECTED", "EXPIRED"}

DecisionType == [actor : Actor, decision : {"APPROVE", "REJECT"}, at : Nat]

BindingType == [demand : Demand, demandRevision : Nat, requester : Actor,
                policy : Policy, requestedAt : Nat]

DemandType == [state : DemandStates, revision : Nat, validatedRevision : Nat,
               approvalId : Approval \union {None}, rejects : BOOLEAN]
ApprovalType == [state : ApprovalStates, revision : Nat, decisions : Seq(DecisionType),
                 binding : BindingType \union {NoBinding}]
SourceCodes ==
    {"SOURCE_UNAVAILABLE", "SOURCE_REFERENCE_MISMATCH", "QUESTIONNAIRE_NOT_READY",
     "READINESS_NOT_PASS", "READINESS_EXPIRED", "OWNER_APPROVAL_MISSING",
     "OWNER_APPROVAL_EXPIRED", "ENVIRONMENT_ATTESTATION_MISMATCH"}
BlockingCodes == SourceCodes \union {"PREREQUISITE_REJECTED", "APPROVAL_EXPIRED"}
FindingType == [revision : Nat, code : BlockingCodes \union {"DEMAND_VALIDATED"}]

\* The shape of every row and finding the store keeps.
TypeOK ==
    /\ demands \in [Demand -> DemandType]
    /\ approvals \in [Approval -> ApprovalType]
    /\ findings \in [Demand -> SUBSET FindingType]
    /\ policy \in Policy
    /\ now \in Nat

DecidedBy(decisions) == {decisions[i].actor : i \in DOMAIN decisions}

Reviewers(row) == DecidedBy(row.decisions)

\* An approved demand was approved, as last validated, by as many different
\* people as its policy asked for: each one eligible, none the requester, all
\* before the expiry, and nobody had rejected it.
ApprovedByQuorum ==
    \A d \in Demand : demands[d].state = "APPROVED" =>
        LET row == approvals[demands[d].approvalId]
            b == row.binding
        IN /\ row.state = "APPROVED"
           /\ b.demand = d /\ b.demandRevision = demands[d].validatedRevision
           /\ Cardinality(Reviewers(row)) >= b.policy.required
           /\ Reviewers(row) \subseteq b.policy.reviewers \ {b.requester}
           /\ \A i \in DOMAIN row.decisions :
                 /\ row.decisions[i].decision = "APPROVE"
                 /\ row.decisions[i].at < b.policy.expiresAt

\* An approval is pending exactly while its demand waits for it, and it is
\* about the very revision that was validated: the APPROVAL_SUBJECT_STALE
\* refusal of decide is never met, and no demand waits on two approvals.  A
\* demand names an approval only while it waits for it or was settled by it,
\* which is the CHECK constraint of the demand table.
PendingAgrees ==
    /\ \A a \in Approval : approvals[a].state = "PENDING" =>
          /\ SubjectCurrent(a)
          /\ approvals[a].binding.demandRevision = demands[approvals[a].binding.demand].revision - 1
    /\ \A d \in Demand : demands[d].state = "APPROVAL_PENDING" =>
          \E a \in Approval : approvals[a].state = "PENDING" /\ demands[d].approvalId = a
    /\ \A d \in Demand :
          demands[d].approvalId # None <=> demands[d].state \in Terminal \union {"APPROVAL_PENDING"}

\* A pending approval can still be granted: enough eligible reviewers have not
\* decided yet to make up the decisions it lacks.
QuorumReachable ==
    \A a \in Approval : approvals[a].state = "PENDING" =>
        LET row == approvals[a]
            p == row.binding.policy
        IN /\ Len(row.decisions) < p.required
           /\ Cardinality(p.reviewers \ Reviewers(row)) >= p.required - Len(row.decisions)

FindingsAt(d, revision) == {f.code : f \in {g \in findings[d] : g.revision = revision}}

Explained(d) ==
    /\ demands[d].state = "BLOCKED" =>
          FindingsAt(d, demands[d].revision) \notin {{}, {"DEMAND_VALIDATED"}}
    /\ demands[d].validatedRevision # 0 =>
          /\ FindingsAt(d, demands[d].validatedRevision) = {"DEMAND_VALIDATED"}
          /\ ~demands[d].rejects
    /\ demands[d].state \in Terminal \union {"VALIDATED", "APPROVAL_PENDING"} =>
          demands[d].validatedRevision # 0

\* The findings say why a demand stands where it does: a blocked one has a
\* blocking finding at its current revision, and a demand that was validated
\* has the pass and nothing else at its validated revision, so a demand with a
\* rejected prerequisite is never validated, let alone approved.
FindingsExplain == \A d \in Demand : Explained(d)

DemandTrailed(d) ==
    /\ \A i \in DOMAIN demandTrail[d] : demandTrail[d][i].revision = i
    /\ Len(demandTrail[d]) = demands[d].revision
    /\ demands[d].state # "ABSENT" =>
          demandTrail[d][demands[d].revision] = DemandDigest(demands[d])

ApprovalTrailed(a) ==
    /\ \A i \in DOMAIN approvalTrail[a] : approvalTrail[a][i].revision = i
    /\ Len(approvalTrail[a]) = approvals[a].revision
    /\ approvals[a].state # "ABSENT" =>
          approvalTrail[a][approvals[a].revision] = ApprovalDigest(approvals[a])

\* Every revision of a demand or an approval has its one audit event, in
\* order, and the last event's digest is that of the row as it stands.
TrailMatches ==
    /\ \A d \in Demand : DemandTrailed(d)
    /\ \A a \in Approval : ApprovalTrailed(a)

\* guard_demand_transition.
DemandGuard(old, new) ==
    /\ new.revision = old.revision + 1
    /\ new.rejects = old.rejects
    /\ old.state \notin Terminal
    /\ new.state \in Transitions[old.state] \/ (old.state = "BLOCKED" /\ new.state = "BLOCKED")

\* guard_approval_transition.
ApprovalGuard(old, new) ==
    /\ new.revision = old.revision + 1
    /\ new.binding = old.binding
    /\ old.state = "PENDING"
    /\ SubSeq(new.decisions, 1, Len(old.decisions)) = old.decisions
    /\ Len(new.decisions) = Len(old.decisions) + (IF new.state = "EXPIRED" THEN 0 ELSE 1)

GuardedStep ==
    /\ \A d \in Demand : demands[d].state # "ABSENT" /\ demands'[d] # demands[d] =>
          DemandGuard(demands[d], demands'[d])
    /\ \A a \in Approval : approvals[a].state # "ABSENT" /\ approvals'[a] # approvals[a] =>
          ApprovalGuard(approvals[a], approvals'[a])

\* guard_demand_transition and guard_approval_transition accept every step:
\* one revision at a time, no settled row touched, the decisions taken so far
\* kept and exactly one added unless the approval expires.
DatabaseGuards == [][GuardedStep]_vars

AllApprove(decisions) == \A i \in DOMAIN decisions : decisions[i].decision = "APPROVE"

\* What the row of an approval says: its policy was one to be admitted, every
\* decision is another eligible person's and came in time, all are in favour
\* until one is not, and they make up the quorum exactly when it is approved.
SoundApproval(row) ==
    LET p == row.binding.policy
    IN /\ row.state = "ABSENT" => row = NoApproval
       /\ row.state # "ABSENT" =>
             /\ row.binding \in BindingType
             /\ p.required \in 1..Cardinality(p.reviewers)
             /\ row.binding.requester \notin p.reviewers
             /\ Reviewers(row) \subseteq p.reviewers
             /\ IsFiniteSet(Reviewers(row))
             /\ Cardinality(Reviewers(row)) = Len(row.decisions)
             /\ \A i \in DOMAIN row.decisions : row.decisions[i].at < p.expiresAt
       /\ row.state = "PENDING" => Len(row.decisions) < p.required
       /\ row.state = "APPROVED" => Len(row.decisions) >= p.required
       /\ row.state \in {"PENDING", "APPROVED"} => AllApprove(row.decisions)

\* A demand and the approval it names are about each other and as far.
SoundDemand(d) ==
    LET row == demands[d]
        approval == approvals[row.approvalId]
    IN /\ row.state = "ABSENT" => row = NoDemand
       /\ row.approvalId # None <=> row.state \in Terminal \union {"APPROVAL_PENDING"}
       /\ row.approvalId # None =>
             /\ approval.binding.demand = d
             /\ approval.binding.demandRevision = row.validatedRevision
             /\ row.state = "APPROVAL_PENDING" => approval.state = "PENDING"
             /\ row.state \in Terminal => approval.state = row.state
       /\ row.state = "APPROVAL_PENDING" => row.validatedRevision = row.revision - 1

\* A pending approval is the one its demand names.
Named(a) == approvals[a].state = "PENDING" =>
               demands[approvals[a].binding.demand].approvalId = a

\* No finding is ahead of its demand.
FindingsBehind(d) == \A f \in findings[d] : f.revision <= demands[d].revision

\* The inductive invariant behind the proofs.
IInv ==
    /\ TypeOK
    /\ \A a \in Approval : SoundApproval(approvals[a]) /\ Named(a)
    /\ \A d \in Demand : SoundDemand(d) /\ Explained(d) /\ FindingsBehind(d)

DemandDigestType ==
    [state : DemandStates, revision : Nat, approvalId : Approval \union {None}]
ApprovalDigestType == [state : ApprovalStates, revision : Nat, decided : Nat]

\* With what the audit trails say.
TrailIInv ==
    /\ IInv
    /\ demandTrail \in [Demand -> Seq(DemandDigestType)]
    /\ approvalTrail \in [Approval -> Seq(ApprovalDigestType)]
    /\ TrailMatches

\* UNIQUE (organization_id, demand_id) of the approval table.
OneApprovalPerDemand ==
    \A a, b \in Approval :
        /\ approvals[a].state # "ABSENT" /\ approvals[b].state # "ABSENT"
        /\ approvals[a].binding.demand = approvals[b].binding.demand
        => a = b
=============================================================================

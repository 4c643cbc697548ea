-------------------------- MODULE ProfileLifecycle --------------------------
(***************************************************************************)
(* From a compiled profile to a signed bundle: ProfileLifecycleStore, the  *)
(* bundle operations it creates and completes in OperationStore, and the   *)
(* status envelopes of an authenticated distribution source.  A profile is *)
(* reviewed once, locked once, bundled once and reported signed once.      *)
(*                                                                         *)
(* Every store method is one atomic action, and a refusal is no step.  The *)
(* source is external: any well-formed envelope may arrive at any time,    *)
(* again, late or out of order, but an event id names one envelope.        *)
(* Bytes are abstracted: a stored profile always verifies, so the digests  *)
(* an approval, a lock or a bundle is bound to are those of its profile.   *)
(***************************************************************************)
EXTENDS Integers, Sequences, FiniteSets

CONSTANTS
    Profile,       \* profiles; an approval, lock or bundle is named by its profile
    Actor,         \* subject digests of the organization's members
    Policy,        \* what the approval policy hook may admit
    Event,         \* event ids of status envelopes
    MaxSequence,   \* bound: envelopes carry the sequences 1..MaxSequence
    PastWindow,    \* how old an observation may be: 3600 s in the code
    FutureWindow,  \* how far ahead it may be: 300 s in the code
    MaxTime,       \* bound: the clock stops at MaxTime
    None

ASSUME PolicyAssumption ==
    Policy \subseteq [required : Nat, reviewers : SUBSET Actor, expiresAt : Nat]
ASSUME ActorAssumption == IsFiniteSet(Actor) /\ None \notin Event \union Profile
ASSUME WindowAssumption ==
    /\ PastWindow \in Nat /\ FutureWindow \in Nat
    /\ MaxTime \in Nat /\ MaxSequence \in Nat

VARIABLES
    profiles,         \* profile rows
    approvals,        \* the approval of each profile, once asked for
    locks,            \* the lock of each profile
    bundles,          \* the bundle request of each profile
    operations,       \* the BUILD_BUNDLE operation of each bundle request
    inbox,            \* event id -> the envelope accepted under it
    sourceSequence,   \* sourceSequences: the last sequence accepted
    now               \* the server's clock

vars == <<profiles, approvals, locks, bundles, operations, inbox, sourceSequence, now>>

-----------------------------------------------------------------------------
\* Rows.

ProfileRow(state, revision, open) == [state |-> state, revision |-> revision, open |-> open]
ApprovalRow(state, revision, decisions, requester, policy) ==
    [state |-> state, revision |-> revision, decisions |-> decisions,
     requester |-> requester, policy |-> policy]
LockRow(approvalRevision, at) == [approvalRevision |-> approvalRevision, at |-> at]
BundleRow(state, event, sequence) == [state |-> state, event |-> event, sequence |-> sequence]
OperationRow(state, version, updatedAt) ==
    [state |-> state, version |-> version, updatedAt |-> updatedAt]
Envelope(p, sequence, observedAt) ==
    [profile |-> p, sequence |-> sequence, observedAt |-> observedAt]

NoPolicy    == [required |-> 0, reviewers |-> {}, expiresAt |-> 0]
NoProfile   == ProfileRow("ABSENT", 0, FALSE)
NoApproval  == ApprovalRow("ABSENT", 0, <<>>, None, NoPolicy)
NoLock      == LockRow(0, 0)
NoBundle    == BundleRow("ABSENT", None, 0)
NoOperation == OperationRow("ABSENT", 0, 0)
NoEnvelope  == [profile |-> None]

-----------------------------------------------------------------------------
\* registerCompiledProfile; `open' says whether the compiler left selectors
\* for somebody to resolve.
Register(p, open) ==
    /\ profiles[p] = NoProfile
    /\ profiles' = [profiles EXCEPT ![p] = ProfileRow("PROPOSED", 1, open)]
    /\ UNCHANGED <<approvals, locks, bundles, operations, inbox, sourceSequence, now>>

Advanced(row, state) == ProfileRow(state, row.revision + 1, row.open)

\* validatePolicy.
Admitted(policy, requester) ==
    /\ policy.required \in 1..Cardinality(policy.reviewers)
    /\ requester \notin policy.reviewers
    /\ policy.expiresAt > now

RequestApproval(p, actor, policy) ==
    /\ profiles[p].state = "PROPOSED"
    /\ ~profiles[p].open
    /\ Admitted(policy, actor)
    /\ approvals' = [approvals EXCEPT ![p] = ApprovalRow("PENDING", 1, <<>>, actor, policy)]
    /\ profiles' = [profiles EXCEPT ![p] = Advanced(@, "APPROVAL_PENDING")]
    /\ UNCHANGED <<locks, bundles, operations, inbox, sourceSequence, now>>

-----------------------------------------------------------------------------
\* decide.

UnderReview(p) ==
    profiles[p].state = "APPROVAL_PENDING" /\ approvals[p].state = "PENDING"

\* Anybody's call finds the approval expired, and is then refused.
Expire(p) ==
    /\ UnderReview(p)
    /\ approvals[p].policy.expiresAt <= now
    /\ approvals' = [approvals EXCEPT ![p] = ApprovalRow("EXPIRED", @.revision + 1, @.decisions,
                                                         @.requester, @.policy)]
    /\ UNCHANGED <<profiles, locks, bundles, operations, inbox, sourceSequence, now>>

MayReview(p, actor) ==
    /\ actor # approvals[p].requester
    /\ actor \in approvals[p].policy.reviewers
    /\ \A i \in DOMAIN approvals[p].decisions : approvals[p].decisions[i].actor # actor

Outcome(policy, decisions, decision) ==
    IF decision = "REJECT" THEN "REJECTED"
    ELSE IF Cardinality({i \in DOMAIN decisions : decisions[i].decision = "APPROVE"})
              >= policy.required
           THEN "APPROVED" ELSE "PENDING"

\* An approval leaves the profile pending until it is locked; a rejection is
\* the profile's end.
Decide(p, actor, decision) ==
    LET entry == [actor |-> actor, decision |-> decision, at |-> now]
        decisions == Append(approvals[p].decisions, entry)
        outcome == Outcome(approvals[p].policy, decisions, decision)
    IN /\ UnderReview(p)
       /\ approvals[p].policy.expiresAt > now
       /\ MayReview(p, actor)
       /\ approvals' = [approvals EXCEPT ![p] = ApprovalRow(outcome, @.revision + 1, decisions,
                                                            @.requester, @.policy)]
       /\ \/ outcome = "REJECTED" /\ profiles' = [profiles EXCEPT ![p] = Advanced(@, "REJECTED")]
          \/ outcome # "REJECTED" /\ UNCHANGED profiles
       /\ UNCHANGED <<locks, bundles, operations, inbox, sourceSequence, now>>

-----------------------------------------------------------------------------
\* lock.

\* Variant: an approval is good for ever.
LockableLate(p) ==
    /\ profiles[p].state = "APPROVAL_PENDING" /\ locks[p] = NoLock
    /\ approvals[p].state = "APPROVED"

Lockable(p) ==
    /\ profiles[p].state = "APPROVAL_PENDING" /\ locks[p] = NoLock
    /\ approvals[p].state = "APPROVED"
    /\ approvals[p].policy.expiresAt > now

Lock(p) ==
    /\ Lockable(p)
    /\ locks' = [locks EXCEPT ![p] = LockRow(approvals[p].revision, now)]
    /\ profiles' = [profiles EXCEPT ![p] = Advanced(@, "LOCKED")]
    /\ UNCHANGED <<approvals, bundles, operations, inbox, sourceSequence, now>>

-----------------------------------------------------------------------------
\* requestBundle, with createBundleOperation.

\* Variant: every call makes a request.
BundleableAgain(p) == profiles[p].state = "LOCKED"

Bundleable(p) == profiles[p].state = "LOCKED" /\ bundles[p] = NoBundle

RequestBundle(p) ==
    /\ Bundleable(p)
    /\ operations' = [operations EXCEPT ![p] = OperationRow("PENDING", 1, now)]
    /\ bundles' = [bundles EXCEPT ![p] = BundleRow("REQUESTED", None, 0)]
    /\ profiles' = [profiles EXCEPT ![p] = Advanced(@, "LOCKED")]
    /\ UNCHANGED <<approvals, locks, inbox, sourceSequence, now>>

-----------------------------------------------------------------------------
\* reportSignedBundle, with completeBundleOperation.

Timely(observedAt) == observedAt \in (now - PastWindow)..(now + FutureWindow)

\* Variant: a gap in the sequence is let through.
FollowsLoosely(sequence) == sequence > sourceSequence

Follows(sequence) == sequence = sourceSequence + 1

\* Variant: the operation's two transitions count as one.
CompletedInOne(row) == OperationRow("SUCCEEDED", row.version + 1, now)

\* PENDING to RUNNING to SUCCEEDED in one step of the store.
Completed(row) == OperationRow("SUCCEEDED", row.version + 2, now)

\* An event seen before is answered from the bundle as it stands, or refused
\* when its content differs: neither is a step.
ReportSignedBundle(event, p, sequence, observedAt) ==
    /\ Timely(observedAt)
    /\ inbox[event] = NoEnvelope
    /\ bundles[p].state = "REQUESTED"
    /\ profiles[p].state = "LOCKED"
    /\ Follows(sequence)
    /\ operations[p].state = "PENDING"
    /\ operations' = [operations EXCEPT ![p] = Completed(@)]
    /\ bundles' = [bundles EXCEPT ![p] = BundleRow("SOURCE_REPORTED_SIGNED", event, sequence)]
    /\ inbox' = [inbox EXCEPT ![event] = Envelope(p, sequence, observedAt)]
    /\ sourceSequence' = sequence
    /\ UNCHANGED <<profiles, approvals, locks, now>>

Tick ==
    /\ now < MaxTime
    /\ now' = now + 1
    /\ UNCHANGED <<profiles, approvals, locks, bundles, operations, inbox, sourceSequence>>

-----------------------------------------------------------------------------
Init ==
    /\ profiles = [p \in Profile |-> NoProfile]
    /\ approvals = [p \in Profile |-> NoApproval]
    /\ locks = [p \in Profile |-> NoLock]
    /\ bundles = [p \in Profile |-> NoBundle]
    /\ operations = [p \in Profile |-> NoOperation]
    /\ inbox = [e \in Event |-> NoEnvelope]
    /\ sourceSequence = 0
    /\ now = 0

\* A call refused for the row it finds is left out before its arguments are
\* enumerated.
Next ==
    \/ \E p \in Profile :
          \/ \E open \in BOOLEAN : Register(p, open)
          \/ /\ profiles[p].state = "PROPOSED"
             /\ \E actor \in Actor, policy \in Policy : RequestApproval(p, actor, policy)
          \/ /\ UnderReview(p)
             /\ \E actor \in Actor, decision \in {"APPROVE", "REJECT"} : Decide(p, actor, decision)
          \/ Expire(p) \/ Lock(p) \/ RequestBundle(p)
          \/ /\ bundles[p].state = "REQUESTED"
             /\ \E event \in Event, sequence \in 1..MaxSequence, observedAt \in 0..MaxTime :
                   ReportSignedBundle(event, p, sequence, observedAt)
    \/ Tick

Spec == Init /\ [][Next]_vars

-----------------------------------------------------------------------------
\* Properties.

ProfileStates == {"ABSENT", "PROPOSED", "APPROVAL_PENDING", "LOCKED", "REJECTED"}
ApprovalStates == {"ABSENT", "PENDING", "APPROVED", "REJECTED", "EXPIRED"}
BundleStates == {"ABSENT", "REQUESTED", "SOURCE_REPORTED_SIGNED"}

ProfileType == [state : ProfileStates, revision : Nat, open : BOOLEAN]
DecisionType == [actor : Actor, decision : {"APPROVE", "REJECT"}, at : Nat]
ApprovalType ==
    [state : ApprovalStates, revision : Nat,
     decisions : Seq(DecisionType), requester : Actor \union {None},
     policy : Policy \union {NoPolicy}]
LockType == [approvalRevision : Nat, at : Nat]
BundleType == [state : BundleStates, event : Event \union {None}, sequence : Nat]
OperationType == [state : {"ABSENT", "PENDING", "SUCCEEDED"}, version : Nat, updatedAt : Nat]
EnvelopeType == [profile : Profile, sequence : Nat, observedAt : Nat]

\* The shape of the rows.
TypeOK ==
    /\ profiles \in [Profile -> ProfileType]
    /\ approvals \in [Profile -> ApprovalType]
    /\ locks \in [Profile -> LockType]
    /\ bundles \in [Profile -> BundleType]
    /\ operations \in [Profile -> OperationType]
    /\ inbox \in [Event -> EnvelopeType \union {NoEnvelope}]
    /\ sourceSequence \in Nat /\ now \in Nat

DecidedBy(decisions) == {decisions[i].actor : i \in DOMAIN decisions}

AllApprove(decisions) == \A i \in DOMAIN decisions : decisions[i].decision = "APPROVE"

Quorate(p) == profiles[p].state = "LOCKED" =>
    LET approval == approvals[p]
        reviewers == DecidedBy(approval.decisions)
    IN /\ ~profiles[p].open
       /\ approval.state = "APPROVED"
       /\ Cardinality(reviewers) >= approval.policy.required
       /\ reviewers \subseteq approval.policy.reviewers \ {approval.requester}
       /\ AllApprove(approval.decisions)
       /\ locks[p].approvalRevision = approval.revision
       /\ locks[p].at < approval.policy.expiresAt

\* A locked profile had no open selector and was approved by a full quorum of
\* eligible people other than the requester, none of whom rejected it, and was
\* locked on that very revision of the approval before its policy ran out.
LockedByQuorum == \A p \in Profile : Quorate(p)

Agreeing(p) ==
    /\ profiles[p].state = "LOCKED" <=> locks[p] # NoLock
    /\ bundles[p] # NoBundle => profiles[p].state = "LOCKED"
    /\ bundles[p].state = "ABSENT" => operations[p].state = "ABSENT"
    /\ bundles[p].state = "REQUESTED" => operations[p].state = "PENDING"
    /\ bundles[p].state = "SOURCE_REPORTED_SIGNED" =>
          operations[p].state = "SUCCEEDED" /\ operations[p].version = 3

\* A profile, its lock, its bundle and the operation clients poll agree, across
\* the two stores they are kept in: a lock exactly when locked, a bundle only
\* then, the operation pending while the bundle is requested and at its third
\* version once it is signed.
StoresAgree == \A p \in Profile : Agreeing(p)

Accepted == {e \in Event : inbox[e] # NoEnvelope}

\* The accepted envelopes of the source are numbered without gap or repetition,
\* and each signed bundle is the work of its own one of them.
ReportsAreSequential ==
    /\ {inbox[e].sequence : e \in Accepted} = 1..sourceSequence
    /\ Cardinality(Accepted) = sourceSequence
    /\ \A e \in Accepted :
          bundles[inbox[e].profile] =
            BundleRow("SOURCE_REPORTED_SIGNED", e, inbox[e].sequence)

\* An approval keeps whom it was asked by and under which policy; every decision
\* stays where it is in the list, and once settled nothing changes any more.
ApprovalKept(p) ==
    LET before == approvals[p]
        after  == approvals'[p]
    IN /\ before.state # "ABSENT" =>
              after.requester = before.requester /\ after.policy = before.policy
       /\ \A i \in DOMAIN before.decisions :
              i \in DOMAIN after.decisions /\ after.decisions[i] = before.decisions[i]
       /\ before.state \in {"APPROVED", "REJECTED", "EXPIRED"} => after = before

\* A settled profile keeps its state and its lock, a bundle never falls back,
\* and a signed one stays as it is with its operation.
ProfileKept(p) ==
    /\ profiles[p].state \in {"LOCKED", "REJECTED"} =>
          profiles'[p].state = profiles[p].state /\ locks'[p] = locks[p]
    /\ bundles[p].state = "REQUESTED" => bundles'[p].state # "ABSENT"
    /\ bundles[p].state = "SOURCE_REPORTED_SIGNED" =>
          bundles'[p] = bundles[p] /\ operations'[p] = operations[p]

\* An envelope once accepted stays under its event id, and its source is never
\* set back to an earlier number.
EnvelopesKept ==
    /\ \A e \in Event : inbox[e] # NoEnvelope => inbox'[e] = inbox[e]
    /\ sourceSequence <= sourceSequence'

NothingUndoneStep == EnvelopesKept /\ \A p \in Profile : ApprovalKept(p) /\ ProfileKept(p)

\* What was decided, settled, locked, requested, signed or accepted is not undone.
NothingUndone == [][NothingUndoneStep]_vars

\* What the row of an approval says of its decisions: each by another eligible
\* person, all in favour until one is not, enough of them once it is approved.
SoundApproval(row) ==
    /\ row.state = "ABSENT" => row = NoApproval
    /\ row.state # "ABSENT" => row.revision >= 1
    /\ row.state = "PENDING" => row.revision = 1 + Len(row.decisions)
    /\ row.state \in {"PENDING", "APPROVED"} => AllApprove(row.decisions)
    /\ row.state = "APPROVED" => Len(row.decisions) >= row.policy.required
    /\ DecidedBy(row.decisions) \subseteq row.policy.reviewers \ {row.requester}
    /\ IsFiniteSet(DecidedBy(row.decisions))
    /\ Cardinality(DecidedBy(row.decisions)) = Len(row.decisions)

\* How far a profile and its approval, its bundle and its operation are.
InStep(p) ==
    /\ profiles[p].state \in {"ABSENT", "PROPOSED"} => approvals[p].state = "ABSENT"
    /\ profiles[p].state = "APPROVAL_PENDING" =>
          approvals[p].state \in {"PENDING", "APPROVED", "EXPIRED"} /\ ~profiles[p].open
    /\ profiles[p].state = "REJECTED" => approvals[p].state = "REJECTED"
    /\ bundles[p].state = "ABSENT" => bundles[p] = NoBundle
    /\ bundles[p].state = "REQUESTED" => operations[p].version = 1

Sound(p) == Quorate(p) /\ Agreeing(p) /\ SoundApproval(approvals[p]) /\ InStep(p)

\* The inductive invariant behind the proofs.
IInv ==
    /\ TypeOK
    /\ \A p \in Profile : Sound(p)
    /\ IsFiniteSet(Accepted)
    /\ ReportsAreSequential
=============================================================================

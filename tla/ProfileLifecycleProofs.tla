----------------------- MODULE ProfileLifecycleProofs -----------------------
(***************************************************************************)
(* Proofs about ProfileLifecycle, for any number of profiles, people and   *)
(* envelopes, any policies with any quorum, and any expiry.                *)
(***************************************************************************)
EXTENDS ProfileLifecycle, FiniteSetTheorems, TLAPS

\* The rows that stand for nothing have the shape of a row.
LEMMA EmptyRows ==
    /\ NoProfile \in ProfileType /\ NoApproval \in ApprovalType /\ NoLock \in LockType
    /\ NoBundle \in BundleType /\ NoOperation \in OperationType
<1>1. NoProfile \in ProfileType
  BY DEF NoProfile, ProfileRow, ProfileType, ProfileStates
<1>2. NoApproval \in ApprovalType
  BY DEF NoApproval, ApprovalRow, ApprovalType, ApprovalStates
<1>3. NoLock \in LockType /\ NoBundle \in BundleType /\ NoOperation \in OperationType
  BY DEF NoLock, LockRow, LockType, NoBundle, BundleRow, BundleType, BundleStates, NoOperation,
         OperationRow, OperationType
<1> QED
  BY <1>1, <1>2, <1>3

\* A policy's fields, and that an approval's policy is one that was admitted.
LEMMA PolicyFields ==
    \A policy \in Policy \union {NoPolicy} :
        policy.required \in Nat /\ policy.expiresAt \in Nat
BY PolicyAssumption DEF NoPolicy

\* No decision, nobody who decided.
LEMMA NobodyDecided ==
    /\ DecidedBy(<<>>) = {} /\ AllApprove(<<>>)
    /\ IsFiniteSet(DecidedBy(<<>>)) /\ Cardinality(DecidedBy(<<>>)) = 0
<1>1. DecidedBy(<<>>) = {} /\ AllApprove(<<>>)
  BY DEF DecidedBy, AllApprove
<1> QED
  BY <1>1, FS_EmptySet

\* A person who had not decided and now does is one person more.
LEMMA OneMoreDecided ==
    ASSUME NEW decisions \in Seq(DecisionType), NEW entry \in DecisionType,
           IsFiniteSet(DecidedBy(decisions)),
           Cardinality(DecidedBy(decisions)) = Len(decisions),
           entry.actor \notin DecidedBy(decisions)
    PROVE  LET more == Append(decisions, entry)
           IN /\ DecidedBy(more) = DecidedBy(decisions) \union {entry.actor}
              /\ IsFiniteSet(DecidedBy(more))
              /\ Cardinality(DecidedBy(more)) = Len(more)
              /\ Len(more) = Len(decisions) + 1
              /\ AllApprove(decisions) /\ entry.decision = "APPROVE" => AllApprove(more)
<1> DEFINE more == Append(decisions, entry)
<1>1. /\ Len(more) = Len(decisions) + 1 /\ Len(decisions) \in Nat
      /\ DOMAIN decisions = 1..Len(decisions) /\ DOMAIN more = 1..Len(more)
      /\ more[Len(more)] = entry
      /\ \A i \in 1..Len(decisions) : more[i] = decisions[i]
  OBVIOUS
<1> HIDE DEF more
<1>2. DecidedBy(more) = DecidedBy(decisions) \union {entry.actor}
  <2>1. ASSUME NEW i \in DOMAIN more
        PROVE  more[i].actor \in {decisions[k].actor : k \in DOMAIN decisions} \union {entry.actor}
    BY <1>1
  <2>2. ASSUME NEW i \in DOMAIN decisions
        PROVE  i \in DOMAIN more /\ more[i].actor = decisions[i].actor
    BY <1>1
  <2>3. Len(more) \in DOMAIN more /\ more[Len(more)].actor = entry.actor
    BY <1>1
  <2> QED
    BY <2>1, <2>2, <2>3 DEF DecidedBy
<1>3. IsFiniteSet(DecidedBy(more)) /\ Cardinality(DecidedBy(more)) = Len(decisions) + 1
  BY <1>2, FS_AddElement
<1>4. AllApprove(decisions) /\ entry.decision = "APPROVE" => AllApprove(more)
  BY <1>1 DEF AllApprove
<1> QED
  BY <1>1, <1>2, <1>3, <1>4 DEF more

\* Who is in favour is among those who decided.
LEMMA InFavour ==
    ASSUME NEW decisions \in Seq(DecisionType)
    PROVE  LET approving == {i \in DOMAIN decisions : decisions[i].decision = "APPROVE"}
           IN Cardinality(approving) \in Nat /\ Cardinality(approving) <= Len(decisions)
<1>1. DOMAIN decisions = 1..Len(decisions) /\ Len(decisions) \in Nat
  OBVIOUS
<1>2. IsFiniteSet(1..Len(decisions)) /\ Cardinality(1..Len(decisions)) = Len(decisions)
  BY <1>1, FS_Interval
<1>3. {i \in DOMAIN decisions : decisions[i].decision = "APPROVE"} \in SUBSET (1..Len(decisions))
  BY <1>1
<1> QED
  BY <1>2, <1>3, FS_Subset, FS_CardinalityType

-----------------------------------------------------------------------------
\* An empty store satisfies the inductive invariant.
LEMMA InitIInv == Init => IInv
<1> SUFFICES ASSUME Init PROVE IInv
  OBVIOUS
<1> USE DEF Init
<1>1. TypeOK
  <2>1. /\ profiles \in [Profile -> ProfileType] /\ approvals \in [Profile -> ApprovalType]
        /\ locks \in [Profile -> LockType] /\ bundles \in [Profile -> BundleType]
        /\ operations \in [Profile -> OperationType]
    BY EmptyRows
  <2> QED
    BY <2>1 DEF TypeOK
<1>2. \A p \in Profile : Sound(p)
  <2>1. SoundApproval(NoApproval)
    BY NobodyDecided DEF SoundApproval, NoApproval, ApprovalRow
  <2> QED
    BY <2>1 DEF Sound, Quorate, Agreeing, InStep, NoProfile, ProfileRow, NoApproval, ApprovalRow,
                NoOperation, OperationRow, NoBundle, BundleRow
<1>3. IsFiniteSet(Accepted) /\ ReportsAreSequential
  <2>1. Accepted = {}
    BY DEF Accepted
  <2> QED
    BY <2>1, FS_EmptySet DEF ReportsAreSequential
<1> QED
  BY <1>1, <1>2, <1>3 DEF IInv

-----------------------------------------------------------------------------
\* A step that concerns one profile, and takes back no bundle that was signed,
\* keeps the invariant if that profile is left sound.
LEMMA OneProfileKeeps ==
    ASSUME IInv, TypeOK', NEW p \in Profile, Sound(p)', UNCHANGED <<inbox, sourceSequence>>,
           \A q \in Profile \ {p} :
              /\ profiles'[q] = profiles[q] /\ approvals'[q] = approvals[q]
              /\ locks'[q] = locks[q] /\ bundles'[q] = bundles[q]
              /\ operations'[q] = operations[q],
           bundles[p].state = "SOURCE_REPORTED_SIGNED" => bundles'[p] = bundles[p]
    PROVE  IInv'
<1>1. \A q \in Profile : Sound(q)'
  <2>1. ASSUME NEW q \in Profile \ {p} PROVE Sound(q)'
    BY DEF IInv, Sound, Quorate, Agreeing, InStep
  <2> QED
    BY <2>1
<1>2. Accepted' = Accepted
  BY DEF Accepted
<1>3. \A e \in Accepted : inbox[e].profile \in Profile
                            /\ bundles[inbox[e].profile].state = "SOURCE_REPORTED_SIGNED"
  <2> SUFFICES ASSUME NEW e \in Accepted
               PROVE  /\ inbox[e].profile \in Profile
                      /\ bundles[inbox[e].profile].state = "SOURCE_REPORTED_SIGNED"
    OBVIOUS
  <2>1. inbox[e] \in EnvelopeType
    BY DEF IInv, Accepted, TypeOK
  <2>2. bundles[inbox[e].profile] = BundleRow("SOURCE_REPORTED_SIGNED", e, inbox[e].sequence)
    BY DEF IInv, ReportsAreSequential
  <2> QED
    BY <2>1, <2>2 DEF EnvelopeType, BundleRow
<1>4. \A e \in Accepted : bundles'[inbox[e].profile] = bundles[inbox[e].profile]
  BY <1>3
<1>5. IsFiniteSet(Accepted)' /\ ReportsAreSequential'
  BY <1>2, <1>4 DEF IInv, ReportsAreSequential
<1> QED
  BY <1>1, <1>5 DEF IInv

\* A step that changes no row, envelope or sequence.
LEMMA StutterKeeps ==
    ASSUME IInv, TypeOK',
           UNCHANGED <<profiles, approvals, locks, bundles, operations, inbox, sourceSequence>>
    PROVE  IInv'
BY DEF IInv, Sound, Quorate, Agreeing, InStep, Accepted, ReportsAreSequential

LEMMA RegisterKeeps ==
    ASSUME IInv, NEW p \in Profile, NEW open \in BOOLEAN, Register(p, open)
    PROVE  IInv'
<1> DEFINE row == ProfileRow("PROPOSED", 1, open)
<1>1. TypeOK /\ Sound(p) /\ profiles[p] = NoProfile
  BY DEF IInv, Register
<1>2. row \in ProfileType /\ row.state = "PROPOSED"
  BY DEF ProfileRow, ProfileType, ProfileStates
<1> HIDE DEF row
<1>3. /\ profiles' = [profiles EXCEPT ![p] = row]
      /\ UNCHANGED <<approvals, locks, bundles, operations, inbox, sourceSequence, now>>
  BY DEF Register, row
<1>4. TypeOK'
  BY <1>1, <1>2, <1>3 DEF TypeOK
<1>5. profiles'[p] = row /\ \A q \in Profile \ {p} : profiles'[q] = profiles[q]
  BY <1>1, <1>3 DEF TypeOK
<1>6. Sound(p)'
  BY <1>1, <1>2, <1>3, <1>5
     DEF Sound, Quorate, Agreeing, InStep, NoProfile, ProfileRow
<1> QED
  BY <1>3, <1>4, <1>5, <1>6, OneProfileKeeps

LEMMA RequestApprovalKeeps ==
    ASSUME IInv, NEW p \in Profile, NEW actor \in Actor, NEW policy \in Policy,
           RequestApproval(p, actor, policy)
    PROVE  IInv'
<1> DEFINE row == Advanced(profiles[p], "APPROVAL_PENDING")
           approval == ApprovalRow("PENDING", 1, <<>>, actor, policy)
<1>1. TypeOK /\ Sound(p) /\ profiles[p].state = "PROPOSED" /\ ~profiles[p].open
  BY DEF IInv, RequestApproval
<1>2. /\ row \in ProfileType /\ row.state = "APPROVAL_PENDING" /\ row.open = profiles[p].open
      /\ approval \in ApprovalType /\ SoundApproval(approval) /\ approval.state = "PENDING"
  <2>1. profiles[p] \in ProfileType
    BY <1>1 DEF TypeOK
  <2>2. row \in ProfileType /\ row.state = "APPROVAL_PENDING" /\ row.open = profiles[p].open
    BY <2>1 DEF Advanced, ProfileRow, ProfileType, ProfileStates
  <2>3. approval \in ApprovalType
    BY DEF ApprovalRow, ApprovalType, ApprovalStates
  <2>4. SoundApproval(approval) /\ approval.state = "PENDING"
    BY NobodyDecided DEF SoundApproval, ApprovalRow
  <2> QED
    BY <2>2, <2>3, <2>4
<1> HIDE DEF row, approval
<1>3. /\ profiles' = [profiles EXCEPT ![p] = row]
      /\ approvals' = [approvals EXCEPT ![p] = approval]
      /\ UNCHANGED <<locks, bundles, operations, inbox, sourceSequence, now>>
  BY DEF RequestApproval, row, approval
<1>4. TypeOK'
  BY <1>1, <1>2, <1>3 DEF TypeOK
<1>5. /\ profiles'[p] = row /\ approvals'[p] = approval
      /\ \A q \in Profile \ {p} : profiles'[q] = profiles[q] /\ approvals'[q] = approvals[q]
  BY <1>1, <1>3 DEF TypeOK
<1>6. Sound(p)'
  BY <1>1, <1>2, <1>3, <1>5 DEF Sound, Quorate, Agreeing, InStep
<1> QED
  BY <1>3, <1>4, <1>5, <1>6, OneProfileKeeps

\* Expiring takes nothing back that was decided, and nothing was locked on it.
LEMMA ExpireKeeps ==
    ASSUME IInv, NEW p \in Profile, Expire(p)
    PROVE  IInv'
<1>1. /\ TypeOK /\ Sound(p) /\ profiles[p].state = "APPROVAL_PENDING"
      /\ approvals[p].state = "PENDING" /\ approvals[p] \in ApprovalType
  BY DEF IInv, Expire, UnderReview, TypeOK
<1>2. PICK row \in ApprovalType :
         /\ approvals' = [approvals EXCEPT ![p] = row]
         /\ row.state = "EXPIRED" /\ row.revision = approvals[p].revision + 1
         /\ row.decisions = approvals[p].decisions /\ row.policy = approvals[p].policy
         /\ row.requester = approvals[p].requester
  <2> DEFINE row == ApprovalRow("EXPIRED", approvals[p].revision + 1, approvals[p].decisions,
                                approvals[p].requester, approvals[p].policy)
  <2>1. row \in ApprovalType
    BY <1>1 DEF ApprovalRow, ApprovalType, ApprovalStates
  <2>2. approvals' = [approvals EXCEPT ![p] = row]
    BY DEF Expire
  <2> QED
    BY <2>1, <2>2 DEF ApprovalRow
<1>3. UNCHANGED <<profiles, locks, bundles, operations, inbox, sourceSequence, now>>
  BY DEF Expire
<1>4. TypeOK'
  BY <1>1, <1>2, <1>3 DEF TypeOK
<1>5. approvals'[p] = row /\ \A q \in Profile \ {p} : approvals'[q] = approvals[q]
  BY <1>1, <1>2 DEF TypeOK
<1>6. SoundApproval(row)
  BY <1>1, <1>2 DEF Sound, SoundApproval, ApprovalType, ApprovalStates
<1>7. Sound(p)'
  BY <1>1, <1>2, <1>3, <1>5, <1>6 DEF Sound, Quorate, Agreeing, InStep
<1> QED
  BY <1>3, <1>4, <1>5, <1>7, OneProfileKeeps

\* A decision is one more person's, and settles the approval only with a quorum.
LEMMA DecideKeeps ==
    ASSUME IInv, NEW p \in Profile, NEW actor \in Actor,
           NEW decision \in {"APPROVE", "REJECT"}, Decide(p, actor, decision)
    PROVE  IInv'
<1> DEFINE old == approvals[p]
           entry == [actor |-> actor, decision |-> decision, at |-> now]
           more == Append(old.decisions, entry)
           outcome == Outcome(old.policy, more, decision)
           row == ApprovalRow(outcome, old.revision + 1, more, old.requester, old.policy)
<1>1. /\ TypeOK /\ Sound(p) /\ profiles[p].state = "APPROVAL_PENDING" /\ old.state = "PENDING"
      /\ old \in ApprovalType /\ old.decisions \in Seq(DecisionType)
      /\ old.policy \in Policy \union {NoPolicy} /\ now \in Nat /\ profiles[p] \in ProfileType
  BY DEF IInv, Decide, UnderReview, TypeOK, ApprovalType, ApprovalStates
<1>2. /\ SoundApproval(old) /\ actor # old.requester /\ actor \in old.policy.reviewers
      /\ actor \notin DecidedBy(old.decisions)
  BY <1>1 DEF Decide, MayReview, DecidedBy, Sound
<1>3. entry \in DecisionType /\ entry.actor = actor /\ entry.decision = decision
  BY <1>1 DEF DecisionType
<1>4. more \in Seq(DecisionType)
  BY <1>1, <1>3
<1>5. /\ DecidedBy(more) = DecidedBy(old.decisions) \union {actor}
      /\ IsFiniteSet(DecidedBy(more)) /\ Cardinality(DecidedBy(more)) = Len(more)
      /\ Len(more) = Len(old.decisions) + 1
      /\ AllApprove(old.decisions) /\ decision = "APPROVE" => AllApprove(more)
  BY <1>1, <1>2, <1>3, OneMoreDecided DEF SoundApproval
<1>6. /\ outcome \in {"REJECTED", "APPROVED", "PENDING"}
      /\ outcome = "REJECTED" <=> decision = "REJECT"
      /\ outcome = "APPROVED" =>
           Cardinality({i \in DOMAIN more : more[i].decision = "APPROVE"}) >= old.policy.required
  BY DEF Outcome
<1>7. /\ Cardinality({i \in DOMAIN more : more[i].decision = "APPROVE"}) \in Nat
      /\ Cardinality({i \in DOMAIN more : more[i].decision = "APPROVE"}) <= Len(more)
  BY <1>4, InFavour
<1>8. /\ approvals' = [approvals EXCEPT ![p] = row]
      /\ \/ outcome = "REJECTED" /\ profiles' = [profiles EXCEPT ![p] = Advanced(@, "REJECTED")]
         \/ outcome # "REJECTED" /\ profiles' = profiles
      /\ UNCHANGED <<locks, bundles, operations, inbox, sourceSequence, now>>
  BY DEF Decide
<1> HIDE DEF entry, more, outcome
<1>9. /\ row.state = outcome /\ row.revision = old.revision + 1 /\ row.decisions = more
       /\ row.requester = old.requester /\ row.policy = old.policy
       /\ old.revision \in Nat /\ old.policy.required \in Nat /\ Len(more) \in Nat
  BY <1>1, <1>4, PolicyFields DEF ApprovalRow, ApprovalType, ApprovalStates
<1>10. row \in ApprovalType
  BY <1>1, <1>4, <1>6 DEF ApprovalRow, ApprovalType, ApprovalStates
<1> HIDE DEF row
<1>11. SoundApproval(row)
  <2>1. row.state \in {"PENDING", "APPROVED"} => AllApprove(more)
    BY <1>1, <1>2, <1>5, <1>6, <1>9 DEF SoundApproval
  <2>2. row.state = "APPROVED" => Len(more) >= row.policy.required
    BY <1>6, <1>7, <1>9
  <2>3. row.state = "PENDING" => row.revision = 1 + Len(more)
    BY <1>1, <1>2, <1>5, <1>9 DEF SoundApproval
  <2>4. DecidedBy(more) \subseteq row.policy.reviewers \ {row.requester}
    BY <1>2, <1>5, <1>9 DEF SoundApproval
  <2>5. row.state # "ABSENT" /\ row.revision >= 1
    BY <1>6, <1>9
  <2> QED
    BY <1>5, <1>9, <2>1, <2>2, <2>3, <2>4, <2>5 DEF SoundApproval
<1>12. /\ approvals'[p] = row
       /\ \A q \in Profile \ {p} : approvals'[q] = approvals[q] /\ profiles'[q] = profiles[q]
  BY <1>1, <1>8 DEF TypeOK
<1>13. Advanced(profiles[p], "REJECTED") \in ProfileType
    /\ Advanced(profiles[p], "REJECTED").state = "REJECTED"
  BY <1>1 DEF Advanced, ProfileRow, ProfileType, ProfileStates
<1>14. \/ outcome = "REJECTED" /\ profiles'[p].state = "REJECTED"
       \/ outcome # "REJECTED" /\ profiles'[p] = profiles[p]
  BY <1>1, <1>8, <1>13 DEF TypeOK
<1>15. TypeOK'
  BY <1>1, <1>8, <1>10, <1>13 DEF TypeOK
<1>16. Sound(p)'
  BY <1>1, <1>6, <1>8, <1>9, <1>11, <1>12, <1>14 DEF Sound, Quorate, Agreeing, InStep
<1> QED
  BY <1>8, <1>12, <1>15, <1>16, OneProfileKeeps

\* What is locked has its quorum at that moment, and keeps it.
LEMMA LockKeeps ==
    ASSUME IInv, NEW p \in Profile, Lock(p)
    PROVE  IInv'
<1> DEFINE row == Advanced(profiles[p], "LOCKED")
           lock == LockRow(approvals[p].revision, now)
<1>1. /\ TypeOK /\ Sound(p) /\ profiles[p].state = "APPROVAL_PENDING"
      /\ approvals[p].state = "APPROVED" /\ approvals[p].policy.expiresAt > now
      /\ profiles[p] \in ProfileType /\ approvals[p] \in ApprovalType
      /\ approvals[p].revision \in Nat /\ now \in Nat
  BY DEF IInv, Lock, Lockable, TypeOK, ApprovalType, ApprovalStates
<1>2. /\ row \in ProfileType /\ row.state = "LOCKED" /\ row.open = profiles[p].open
      /\ lock \in LockType /\ lock.approvalRevision = approvals[p].revision /\ lock.at = now
  BY <1>1 DEF Advanced, ProfileRow, ProfileType, ProfileStates, LockRow, LockType
<1>3. lock # NoLock
  BY <1>1, <1>2 DEF Sound, SoundApproval, NoLock, LockRow
<1> HIDE DEF row, lock
<1>4. /\ locks' = [locks EXCEPT ![p] = lock] /\ profiles' = [profiles EXCEPT ![p] = row]
      /\ UNCHANGED <<approvals, bundles, operations, inbox, sourceSequence, now>>
  BY DEF Lock, row, lock
<1>5. TypeOK'
  BY <1>1, <1>2, <1>4 DEF TypeOK
<1>6. /\ profiles'[p] = row /\ locks'[p] = lock
      /\ \A q \in Profile \ {p} : profiles'[q] = profiles[q] /\ locks'[q] = locks[q]
  BY <1>1, <1>4 DEF TypeOK
<1>7. Quorate(p)'
  BY <1>1, <1>2, <1>4, <1>6 DEF Sound, SoundApproval, InStep, Quorate
<1>8. Sound(p)'
  BY <1>1, <1>2, <1>3, <1>4, <1>6, <1>7 DEF Sound, Agreeing, InStep
<1> QED
  BY <1>4, <1>5, <1>6, <1>8, OneProfileKeeps

LEMMA RequestBundleKeeps ==
    ASSUME IInv, NEW p \in Profile, RequestBundle(p)
    PROVE  IInv'
<1> DEFINE row == Advanced(profiles[p], "LOCKED")
           bundle == BundleRow("REQUESTED", None, 0)
           operation == OperationRow("PENDING", 1, now)
<1>1. /\ TypeOK /\ Sound(p) /\ profiles[p].state = "LOCKED" /\ bundles[p] = NoBundle
      /\ profiles[p] \in ProfileType /\ now \in Nat
  BY DEF IInv, RequestBundle, Bundleable, TypeOK
<1>2. /\ row \in ProfileType /\ row.state = "LOCKED" /\ row.open = profiles[p].open
      /\ bundle \in BundleType /\ bundle.state = "REQUESTED"
      /\ operation \in OperationType /\ operation.state = "PENDING" /\ operation.version = 1
  BY <1>1
     DEF Advanced, ProfileRow, ProfileType, ProfileStates, BundleRow, BundleType, BundleStates,
         OperationRow, OperationType
<1> HIDE DEF row, bundle, operation
<1>3. /\ operations' = [operations EXCEPT ![p] = operation]
      /\ bundles' = [bundles EXCEPT ![p] = bundle] /\ profiles' = [profiles EXCEPT ![p] = row]
      /\ UNCHANGED <<approvals, locks, inbox, sourceSequence, now>>
  BY DEF RequestBundle, row, bundle, operation
<1>4. TypeOK'
  BY <1>1, <1>2, <1>3 DEF TypeOK
<1>5. /\ profiles'[p] = row /\ bundles'[p] = bundle /\ operations'[p] = operation
      /\ \A q \in Profile \ {p} : /\ profiles'[q] = profiles[q] /\ bundles'[q] = bundles[q]
                                  /\ operations'[q] = operations[q]
  BY <1>1, <1>3 DEF TypeOK
<1>6. Sound(p)'
  BY <1>1, <1>2, <1>3, <1>5 DEF Sound, Quorate, Agreeing, InStep
<1>7. bundles[p].state # "SOURCE_REPORTED_SIGNED"
  BY <1>1 DEF NoBundle, BundleRow
<1> QED
  BY <1>3, <1>4, <1>5, <1>6, <1>7, OneProfileKeeps

\* The envelope that signs a bundle is the next of the source, and the first to
\* speak of that bundle.
LEMMA ReportKeeps ==
    ASSUME IInv, NEW event \in Event, NEW p \in Profile, NEW sequence \in Nat,
           NEW observedAt \in Nat, ReportSignedBundle(event, p, sequence, observedAt)
    PROVE  IInv'
<1> DEFINE bundle == BundleRow("SOURCE_REPORTED_SIGNED", event, sequence)
           operation == Completed(operations[p])
           envelope == Envelope(p, sequence, observedAt)
<1>1. /\ TypeOK /\ Sound(p) /\ profiles[p].state = "LOCKED" /\ bundles[p].state = "REQUESTED"
      /\ inbox[event] = NoEnvelope /\ sequence = sourceSequence + 1 /\ sourceSequence \in Nat
      /\ operations[p] \in OperationType /\ now \in Nat /\ operations[p].version = 1
      /\ ReportsAreSequential /\ IsFiniteSet(Accepted)
  BY DEF IInv, ReportSignedBundle, Follows, TypeOK, Sound, InStep
<1>2. /\ bundle \in BundleType /\ bundle.state = "SOURCE_REPORTED_SIGNED"
      /\ operation \in OperationType /\ operation.state = "SUCCEEDED" /\ operation.version = 3
      /\ envelope \in EnvelopeType /\ envelope.profile = p /\ envelope.sequence = sequence
  BY <1>1
     DEF BundleRow, BundleType, BundleStates, Completed, OperationRow, OperationType, Envelope,
         EnvelopeType
<1>3. envelope # NoEnvelope
  BY <1>2, ActorAssumption DEF NoEnvelope
<1>4. bundle = BundleRow("SOURCE_REPORTED_SIGNED", event, envelope.sequence)
  BY <1>2
<1> HIDE DEF bundle, operation, envelope
<1>5. /\ operations' = [operations EXCEPT ![p] = operation]
      /\ bundles' = [bundles EXCEPT ![p] = bundle] /\ inbox' = [inbox EXCEPT ![event] = envelope]
      /\ sourceSequence' = sequence /\ UNCHANGED <<profiles, approvals, locks, now>>
  BY DEF ReportSignedBundle, bundle, operation, envelope
<1>6. TypeOK'
  BY <1>1, <1>2, <1>5 DEF TypeOK
<1>7. /\ bundles'[p] = bundle /\ operations'[p] = operation /\ inbox'[event] = envelope
      /\ \A q \in Profile \ {p} : bundles'[q] = bundles[q] /\ operations'[q] = operations[q]
      /\ \A e \in Event \ {event} : inbox'[e] = inbox[e]
  BY <1>1, <1>5 DEF TypeOK
<1>8. \A q \in Profile : Sound(q)'
  <2>1. Sound(p)'
    BY <1>1, <1>2, <1>5, <1>7 DEF Sound, Quorate, Agreeing, InStep
  <2>2. ASSUME NEW q \in Profile \ {p} PROVE Sound(q)'
    <3>1. /\ bundles'[q] = bundles[q] /\ operations'[q] = operations[q]
          /\ profiles' = profiles /\ approvals' = approvals /\ locks' = locks
      BY <1>5, <1>7
    <3>2. Quorate(q) /\ Agreeing(q) /\ SoundApproval(approvals[q]) /\ InStep(q)
      BY DEF IInv, Sound
    <3>3. Quorate(q)' /\ SoundApproval(approvals[q])'
      BY <3>1, <3>2 DEF Quorate, SoundApproval
    <3>4. Agreeing(q)' /\ InStep(q)'
      BY <3>1, <3>2 DEF Agreeing, InStep
    <3> QED
      BY <3>3, <3>4 DEF Sound
  <2> QED
    BY <2>1, <2>2
<1>9. Accepted' = Accepted \union {event} /\ event \notin Accepted /\ Accepted \subseteq Event
  BY <1>1, <1>3, <1>7 DEF Accepted
<1>10. IsFiniteSet(Accepted') /\ Cardinality(Accepted') = sequence
  BY <1>1, <1>9, FS_AddElement DEF ReportsAreSequential
<1>11. {inbox'[e].sequence : e \in Accepted'} = 1..sequence
  <2>1. {inbox'[e].sequence : e \in Accepted'} =
           {inbox[e].sequence : e \in Accepted} \union {sequence}
    BY <1>2, <1>7, <1>9
  <2>2. 1..sequence = (1..sourceSequence) \union {sequence}
    BY <1>1
  <2> QED
    BY <1>1, <2>1, <2>2 DEF ReportsAreSequential
<1>12. \A e \in Accepted' :
          bundles'[inbox'[e].profile] = BundleRow("SOURCE_REPORTED_SIGNED", e, inbox'[e].sequence)
  <2>1. ASSUME NEW e \in Accepted
        PROVE  bundles'[inbox'[e].profile] =
                  BundleRow("SOURCE_REPORTED_SIGNED", e, inbox'[e].sequence)
    <3>1. inbox[e] \in EnvelopeType /\ inbox'[e] = inbox[e]
      BY <1>1, <1>7, <1>9 DEF Accepted, TypeOK
    <3>2. bundles[inbox[e].profile] = BundleRow("SOURCE_REPORTED_SIGNED", e, inbox[e].sequence)
      BY <1>1 DEF ReportsAreSequential
    <3>3. inbox[e].profile \in Profile \ {p}
      BY <1>1, <3>1, <3>2 DEF EnvelopeType, BundleRow
    <3> QED
      BY <1>7, <3>1, <3>2, <3>3
  <2> QED
    BY <1>2, <1>4, <1>7, <1>9, <2>1
<1>13. ReportsAreSequential'
  BY <1>5, <1>10, <1>11, <1>12 DEF ReportsAreSequential
<1> QED
  BY <1>6, <1>8, <1>10, <1>13 DEF IInv

-----------------------------------------------------------------------------
\* Every step of the store keeps the inductive invariant.
LEMMA NextKeeps == IInv /\ [Next]_vars => IInv'
<1> SUFFICES ASSUME IInv, [Next]_vars PROVE IInv'
  OBVIOUS
<1>1. ASSUME NEW p \in Profile, NEW open \in BOOLEAN, Register(p, open) PROVE IInv'
  BY <1>1, RegisterKeeps
<1>2. ASSUME NEW p \in Profile, NEW actor \in Actor, NEW policy \in Policy,
             RequestApproval(p, actor, policy)
      PROVE  IInv'
  BY <1>2, RequestApprovalKeeps
<1>3. ASSUME NEW p \in Profile, NEW actor \in Actor, NEW decision \in {"APPROVE", "REJECT"},
             Decide(p, actor, decision)
      PROVE  IInv'
  BY <1>3, DecideKeeps
<1>4. ASSUME NEW p \in Profile, Expire(p) \/ Lock(p) \/ RequestBundle(p) PROVE IInv'
  BY <1>4, ExpireKeeps, LockKeeps, RequestBundleKeeps
<1>5. ASSUME NEW p \in Profile, NEW event \in Event, NEW sequence \in 1..MaxSequence,
             NEW observedAt \in 0..MaxTime, ReportSignedBundle(event, p, sequence, observedAt)
      PROVE  IInv'
  <2>1. sequence \in Nat /\ observedAt \in Nat
    BY WindowAssumption
  <2> QED
    BY <1>5, <2>1, ReportKeeps
<1>6. CASE Tick \/ UNCHANGED vars
  <2>1. UNCHANGED <<profiles, approvals, locks, bundles, operations, inbox, sourceSequence>>
    BY <1>6 DEF Tick, vars
  <2>2. now' \in Nat
    BY <1>6 DEF Tick, vars, IInv, TypeOK
  <2>3. TypeOK'
    BY <2>1, <2>2 DEF IInv, TypeOK
  <2> QED
    BY <2>1, <2>3, StutterKeeps
<1> QED
  BY <1>1, <1>2, <1>3, <1>4, <1>5, <1>6 DEF Next

\* So the inductive invariant holds always.
LEMMA Inductive == Spec => []IInv
BY InitIInv, NextKeeps, PTL DEF Spec

\* Every row of the two stores and every envelope keeps its shape.
THEOREM TypeCorrect == Spec => []TypeOK
<1>1. IInv => TypeOK
  BY DEF IInv
<1> QED
  BY <1>1, Inductive, PTL

\* For any policies and any quorum: a locked profile was approved by as many
\* eligible people as its policy asks for, none against, before it ran out.
THEOREM LocksAreEarned == Spec => []LockedByQuorum
<1>1. IInv => LockedByQuorum
  BY DEF IInv, Sound, LockedByQuorum
<1> QED
  BY <1>1, Inductive, PTL

\* Profile, lock, bundle and operation agree across the two stores.
THEOREM StoresStayInStep == Spec => []StoresAgree
<1>1. IInv => StoresAgree
  BY DEF IInv, Sound, StoresAgree
<1> QED
  BY <1>1, Inductive, PTL

\* The accepted envelopes are numbered without gap, each signing its own bundle.
THEOREM ReportsStaySequential == Spec => []ReportsAreSequential
<1>1. IInv => ReportsAreSequential
  BY DEF IInv
<1> QED
  BY <1>1, Inductive, PTL

-----------------------------------------------------------------------------
\* Nobody has asked for the review of a profile that is not yet pending.
LEMMA NotYetAsked ==
    ASSUME IInv, NEW p \in Profile, profiles[p].state \in {"ABSENT", "PROPOSED"}
    PROVE  approvals[p].state = "ABSENT" /\ DOMAIN approvals[p].decisions = {}
<1>1. approvals[p].state = "ABSENT" /\ approvals[p] = NoApproval
  BY DEF IInv, Sound, InStep, SoundApproval
<1>2. DOMAIN NoApproval.decisions = {}
  BY DEF NoApproval, ApprovalRow
<1> QED
  BY <1>1, <1>2

\* Changing the approval of one profile that is still to be settled, in a way
\* that keeps what it says, undoes nothing.
LEMMA OneApprovalKept ==
    ASSUME IInv, NEW p \in Profile, NEW row,
           approvals' = [approvals EXCEPT ![p] = row],
           approvals[p].state \in {"ABSENT", "PENDING"},
           approvals[p].state = "PENDING" =>
              row.requester = approvals[p].requester /\ row.policy = approvals[p].policy,
           \A i \in DOMAIN approvals[p].decisions :
              i \in DOMAIN row.decisions /\ row.decisions[i] = approvals[p].decisions[i]
    PROVE  \A q \in Profile : ApprovalKept(q)
<1>1. TypeOK
  BY DEF IInv
<1>2. approvals'[p] = row /\ \A q \in Profile \ {p} : approvals'[q] = approvals[q]
  BY <1>1 DEF TypeOK
<1>3. ApprovalKept(p)
  BY <1>2 DEF ApprovalKept
<1>4. ASSUME NEW q \in Profile, q # p PROVE ApprovalKept(q)
  BY <1>2, <1>4 DEF ApprovalKept
<1> QED
  BY <1>3, <1>4

\* A decision is added after those made before.
LEMMA DecisionAdded ==
    ASSUME NEW decisions \in Seq(DecisionType), NEW entry \in DecisionType
    PROVE  \A i \in DOMAIN decisions : /\ i \in DOMAIN Append(decisions, entry)
                                       /\ Append(decisions, entry)[i] = decisions[i]
OBVIOUS

\* No step takes back what was decided, settled, locked, requested, signed or
\* accepted.
LEMMA StepUndoesNothing == IInv /\ [Next]_vars => [NothingUndoneStep]_vars
<1> SUFFICES ASSUME IInv, Next PROVE NothingUndoneStep
  OBVIOUS
<1>1. /\ TypeOK /\ \A p \in Profile : bundles[p] # NoBundle => profiles[p].state = "LOCKED"
      /\ NoBundle.state = "ABSENT" /\ sourceSequence \in Nat
  BY DEF IInv, Sound, Agreeing, NoBundle, BundleRow, TypeOK
<1>2. ASSUME UNCHANGED approvals PROVE \A p \in Profile : ApprovalKept(p)
  BY <1>2 DEF ApprovalKept
<1>3. ASSUME UNCHANGED <<inbox, sourceSequence>> PROVE EnvelopesKept
  BY <1>1, <1>3 DEF EnvelopesKept
<1>4. ASSUME NEW q \in Profile, NEW open, Register(q, open) PROVE NothingUndoneStep
  <2>1. \A p \in Profile : ProfileKept(p)
    BY <1>1, <1>4 DEF Register, NoProfile, ProfileRow, ProfileKept, TypeOK
  <2> QED
    BY <1>2, <1>3, <1>4, <2>1 DEF Register, NothingUndoneStep
<1>5. ASSUME NEW q \in Profile, NEW actor, NEW policy, RequestApproval(q, actor, policy)
      PROVE  NothingUndoneStep
  <2>1. \A p \in Profile : ProfileKept(p)
    BY <1>1, <1>5 DEF RequestApproval, ProfileKept, TypeOK
  <2>2. approvals[q].state = "ABSENT" /\ DOMAIN approvals[q].decisions = {}
    BY <1>5, NotYetAsked DEF RequestApproval
  <2>3. \A p \in Profile : ApprovalKept(p)
    BY <1>5, <2>2, OneApprovalKept DEF RequestApproval
  <2> QED
    BY <1>3, <1>5, <2>1, <2>3 DEF RequestApproval, NothingUndoneStep
<1>6. ASSUME NEW q \in Profile, NEW actor \in Actor, NEW decision \in {"APPROVE", "REJECT"},
             Decide(q, actor, decision)
      PROVE  NothingUndoneStep
  <2>1. \A p \in Profile : ProfileKept(p)
    BY <1>1, <1>6 DEF Decide, UnderReview, ProfileKept, TypeOK
  <2> DEFINE entry == [actor |-> actor, decision |-> decision, at |-> now]
             decisions == Append(approvals[q].decisions, entry)
  <2>2. approvals[q].decisions \in Seq(DecisionType) /\ entry \in DecisionType
    BY <1>1 DEF TypeOK, ApprovalType, DecisionType
  <2>3. \A i \in DOMAIN approvals[q].decisions :
            i \in DOMAIN decisions /\ decisions[i] = approvals[q].decisions[i]
    BY <2>2, DecisionAdded
  <2> HIDE DEF decisions
  <2>4. PICK outcome : approvals' = [approvals EXCEPT ![q] =
            ApprovalRow(outcome, approvals[q].revision + 1, decisions,
                        approvals[q].requester, approvals[q].policy)]
    BY <1>6 DEF Decide, decisions
  <2>5. approvals[q].state = "PENDING" /\ UNCHANGED <<inbox, sourceSequence>>
    BY <1>6 DEF Decide, UnderReview
  <2>6. \A p \in Profile : ApprovalKept(p)
    <3> DEFINE row == ApprovalRow(outcome, approvals[q].revision + 1, decisions,
                                  approvals[q].requester, approvals[q].policy)
    <3>1. /\ row.requester = approvals[q].requester /\ row.policy = approvals[q].policy
          /\ row.decisions = decisions
      BY DEF ApprovalRow
    <3>2. approvals' = [approvals EXCEPT ![q] = row]
      BY <2>4
    <3> HIDE DEF row
    <3> QED
      BY <2>3, <2>5, <3>1, <3>2, OneApprovalKept
  <2> QED
    BY <1>3, <2>1, <2>5, <2>6 DEF NothingUndoneStep
<1>7. ASSUME NEW q \in Profile, Expire(q) PROVE NothingUndoneStep
  <2>1. \A p \in Profile : ProfileKept(p)
    BY <1>1, <1>7 DEF Expire, UnderReview, ProfileKept, TypeOK
  <2> DEFINE row == ApprovalRow("EXPIRED", approvals[q].revision + 1, approvals[q].decisions,
                                approvals[q].requester, approvals[q].policy)
  <2>2. /\ row.requester = approvals[q].requester /\ row.policy = approvals[q].policy
        /\ row.decisions = approvals[q].decisions
    BY DEF ApprovalRow
  <2>3. /\ approvals' = [approvals EXCEPT ![q] = row]
        /\ approvals[q].state = "PENDING" /\ UNCHANGED <<inbox, sourceSequence>>
    BY <1>7 DEF Expire, UnderReview
  <2> HIDE DEF row
  <2>4. \A p \in Profile : ApprovalKept(p)
    BY <2>2, <2>3, OneApprovalKept
  <2> QED
    BY <1>3, <2>1, <2>3, <2>4 DEF NothingUndoneStep
<1>8. ASSUME NEW q \in Profile, Lock(q) PROVE NothingUndoneStep
  <2>1. \A p \in Profile : ProfileKept(p)
    BY <1>1, <1>8 DEF Lock, Lockable, ProfileKept, TypeOK
  <2> QED
    BY <1>2, <1>3, <1>8, <2>1 DEF Lock, NothingUndoneStep
<1>9. ASSUME NEW q \in Profile, RequestBundle(q) PROVE NothingUndoneStep
  <2>1. \A p \in Profile : ProfileKept(p)
    BY <1>1, <1>9 DEF RequestBundle, Bundleable, Advanced, ProfileRow, BundleRow, ProfileKept, TypeOK
  <2> QED
    BY <1>2, <1>3, <1>9, <2>1 DEF RequestBundle, NothingUndoneStep
<1>10. ASSUME NEW q \in Profile, NEW event, NEW sequence, NEW observedAt,
              ReportSignedBundle(event, q, sequence, observedAt)
       PROVE  NothingUndoneStep
  <2>1. \A p \in Profile : ProfileKept(p)
    BY <1>1, <1>10 DEF ReportSignedBundle, BundleRow, ProfileKept, TypeOK
  <2>2. EnvelopesKept
    <3>1. \A e \in Event : inbox[e] # NoEnvelope => inbox'[e] = inbox[e]
      BY <1>1, <1>10 DEF ReportSignedBundle, TypeOK
    <3>2. sourceSequence <= sourceSequence'
      BY <1>1, <1>10 DEF ReportSignedBundle, Follows
    <3> QED
      BY <3>1, <3>2 DEF EnvelopesKept
  <2> QED
    BY <1>2, <1>10, <2>1, <2>2 DEF ReportSignedBundle, NothingUndoneStep
<1>11. CASE Tick
  BY <1>2, <1>3, <1>11 DEF Tick, ProfileKept, NothingUndoneStep
<1> QED
  BY <1>4, <1>5, <1>6, <1>7, <1>8, <1>9, <1>10, <1>11 DEF Next

\* Decisions, settled approvals, locks, requests, signed bundles and accepted
\* envelopes stay.
THEOREM SettledStays == Spec => NothingUndone
BY Inductive, StepUndoesNothing, PTL DEF Spec, NothingUndone
=============================================================================

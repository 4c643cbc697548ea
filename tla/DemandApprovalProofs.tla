------------------------ MODULE DemandApprovalProofs ------------------------
(***************************************************************************)
(* Proofs about DemandApproval, for any number of demands, approvals and   *)
(* people, any policies with any quorum, and whatever the source resolver  *)
(* and the policy hook answer.                                             *)
(***************************************************************************)
EXTENDS DemandApproval, FiniteSetTheorems, TLAPS

\* The rows that stand for nothing have the shape of a row.
LEMMA EmptyRows == NoDemand \in DemandType /\ NoApproval \in ApprovalType
<1>1. NoDemand \in DemandType
  BY DEF NoDemand, DemandRow, DemandType, DemandStates
<1>2. NoApproval \in ApprovalType
  BY DEF NoApproval, ApprovalRow, ApprovalType, ApprovalStates
<1> QED
  BY <1>1, <1>2

\* What the fields of a row, a binding and a policy are.
LEMMA RowFields ==
    ASSUME TypeOK
    PROVE  /\ \A d \in Demand : demands[d] \in DemandType
           /\ \A a \in Approval : approvals[a] \in ApprovalType
           /\ \A a \in Approval : approvals[a].binding \in BindingType =>
                 /\ approvals[a].binding.demand \in Demand
                 /\ approvals[a].binding.policy \in Policy
BY DEF TypeOK, BindingType

LEMMA PolicyFields ==
    \A p \in Policy :
        /\ p.required \in Nat /\ p.expiresAt \in Nat
        /\ p.reviewers \subseteq Actor /\ IsFiniteSet(p.reviewers)
        /\ Cardinality(p.reviewers) \in Nat
<1> SUFFICES ASSUME NEW p \in Policy
             PROVE  /\ p.required \in Nat /\ p.expiresAt \in Nat
                    /\ p.reviewers \subseteq Actor /\ IsFiniteSet(p.reviewers)
                    /\ Cardinality(p.reviewers) \in Nat
  OBVIOUS
<1>1. p.required \in Nat /\ p.expiresAt \in Nat /\ p.reviewers \in SUBSET Actor
  BY PolicyAssumption
<1>2. IsFiniteSet(p.reviewers)
  BY <1>1, ActorAssumption, FS_Subset
<1> QED
  BY <1>1, <1>2, FS_CardinalityType

\* A person who had not decided and now does is one person more.
LEMMA OneMoreDecided ==
    ASSUME NEW decisions \in Seq(DecisionType), NEW entry \in DecisionType,
           IsFiniteSet(DecidedBy(decisions)),
           Cardinality(DecidedBy(decisions)) = Len(decisions),
           entry.actor \notin DecidedBy(decisions)
    PROVE  LET more == Append(decisions, entry)
           IN /\ DecidedBy(more) = DecidedBy(decisions) \union {entry.actor}
              /\ IsFiniteSet(DecidedBy(more))
              /\ Cardinality(DecidedBy(more)) = Len(more)
              /\ Len(more) = Len(decisions) + 1
              /\ \A i \in DOMAIN more :
                    more[i] = entry \/ \E k \in DOMAIN decisions : more[i] = decisions[k]
              /\ AllApprove(decisions) /\ entry.decision = "APPROVE" => AllApprove(more)
<1> DEFINE more == Append(decisions, entry)
<1>1. /\ Len(more) = Len(decisions) + 1 /\ Len(decisions) \in Nat
      /\ DOMAIN decisions = 1..Len(decisions) /\ DOMAIN more = 1..Len(more)
      /\ more[Len(more)] = entry
      /\ \A i \in 1..Len(decisions) : more[i] = decisions[i]
  OBVIOUS
<1> HIDE DEF more
<1>2. DecidedBy(more) = DecidedBy(decisions) \union {entry.actor}
  <2>1. ASSUME NEW i \in DOMAIN more
        PROVE  more[i].actor \in {decisions[k].actor : k \in DOMAIN decisions} \union {entry.actor}
    BY <1>1
  <2>2. ASSUME NEW i \in DOMAIN decisions
        PROVE  i \in DOMAIN more /\ more[i].actor = decisions[i].actor
    BY <1>1
  <2>3. Len(more) \in DOMAIN more /\ more[Len(more)].actor = entry.actor
    BY <1>1
  <2> QED
    BY <2>1, <2>2, <2>3 DEF DecidedBy
<1>3. IsFiniteSet(DecidedBy(more)) /\ Cardinality(DecidedBy(more)) = Len(decisions) + 1
  BY <1>2, FS_AddElement
<1>4. AllApprove(decisions) /\ entry.decision = "APPROVE" => AllApprove(more)
  BY <1>1 DEF AllApprove
<1>5. \A i \in DOMAIN more : more[i] = entry \/ \E k \in DOMAIN decisions : more[i] = decisions[k]
  BY <1>1
<1> QED
  BY <1>1, <1>2, <1>3, <1>4, <1>5 DEF more

\* When all are in favour, as many approve as have decided; never more do.
LEMMA InFavour ==
    ASSUME NEW decisions \in Seq(DecisionType)
    PROVE  /\ Cardinality(Approvals(decisions)) \in Nat
           /\ Cardinality(Approvals(decisions)) <= Len(decisions)
           /\ AllApprove(decisions) => Cardinality(Approvals(decisions)) = Len(decisions)
<1>1. DOMAIN decisions = 1..Len(decisions) /\ Len(decisions) \in Nat
  OBVIOUS
<1>2. IsFiniteSet(1..Len(decisions)) /\ Cardinality(1..Len(decisions)) = Len(decisions)
  BY <1>1, FS_Interval
<1>3. Approvals(decisions) \in SUBSET (1..Len(decisions))
  BY <1>1 DEF Approvals
<1>4. AllApprove(decisions) => Approvals(decisions) = 1..Len(decisions)
  BY <1>1 DEF Approvals, AllApprove
<1> QED
  BY <1>2, <1>3, <1>4, FS_Subset, FS_CardinalityType

\* What is wrong with a source has a code of its own, and is never that all is well.
LEMMA SourceCodesOnly ==
    ASSUME NEW source, NEW time
    PROVE  SourceFindings(source, time) \subseteq SourceCodes
<1>1. ASSUME NEW a, NEW b, NEW c, NEW e, NEW f, NEW g, NEW h
      PROVE  DOMAIN [SOURCE_REFERENCE_MISMATCH |-> a, QUESTIONNAIRE_NOT_READY |-> b,
                     READINESS_NOT_PASS |-> c, READINESS_EXPIRED |-> e,
                     OWNER_APPROVAL_MISSING |-> f, OWNER_APPROVAL_EXPIRED |-> g,
                     ENVIRONMENT_ATTESTATION_MISMATCH |-> h] \subseteq SourceCodes
  BY DEF SourceCodes
<1>2. "SOURCE_UNAVAILABLE" \in SourceCodes
  BY DEF SourceCodes
<1> QED
  BY <1>1, <1>2, Zenon DEF SourceFindings

LEMMA BlockingIsNoPass ==
    ASSUME NEW d, NEW source, NEW time
    PROVE  /\ BlockingFindings(d, source, time) \subseteq BlockingCodes
           /\ demands[d].rejects => BlockingFindings(d, source, time) # {}
           /\ "DEMAND_VALIDATED" \notin BlockingCodes
<1>1. "DEMAND_VALIDATED" \notin BlockingCodes
  BY DEF BlockingCodes, SourceCodes
<1> QED
  BY <1>1, SourceCodesOnly DEF BlockingFindings, BlockingCodes

-----------------------------------------------------------------------------
\* An empty store satisfies the inductive invariant.
LEMMA InitIInv == Init => IInv
<1> SUFFICES ASSUME Init PROVE IInv
  OBVIOUS
<1> USE DEF Init
<1>1. TypeOK
  BY EmptyRows DEF TypeOK
<1>2. \A a \in Approval : SoundApproval(approvals[a]) /\ Named(a)
  BY DEF SoundApproval, Named, NoApproval, ApprovalRow
<1>3. \A d \in Demand : SoundDemand(d) /\ Explained(d) /\ FindingsBehind(d)
  BY DEF SoundDemand, Explained, FindingsBehind, NoDemand, DemandRow, Terminal
<1> QED
  BY <1>1, <1>2, <1>3 DEF IInv

-----------------------------------------------------------------------------
\* A step about one demand, in which the approvals that change are new ones or
\* were that demand's, keeps the invariant if what it changes is left sound.
LEMMA OneDemandKeeps ==
    ASSUME IInv, TypeOK', NEW d \in Demand,
           SoundDemand(d)', Explained(d)', FindingsBehind(d)',
           \A e \in Demand \ {d} : demands'[e] = demands[e] /\ findings'[e] = findings[e],
           \A b \in Approval : approvals'[b] = approvals[b] \/
              /\ approvals[b].state = "ABSENT" \/ approvals[b].binding.demand = d
              /\ SoundApproval(approvals'[b]) /\ Named(b)',
           \A b \in Approval :
              approvals[b].state = "PENDING" /\ approvals[b].binding.demand = d
                 /\ approvals'[b] = approvals[b] => demands'[d].approvalId = b
    PROVE  IInv'
<1>1. ASSUME NEW e \in Demand \ {d} PROVE SoundDemand(e)' /\ Explained(e)' /\ FindingsBehind(e)'
  <2>1. SoundDemand(e) /\ Explained(e) /\ FindingsBehind(e) /\ demands[e] \in DemandType
    BY RowFields DEF IInv
  <2>2. Explained(e)' /\ FindingsBehind(e)'
    BY <2>1 DEF Explained, FindingsBehind, FindingsAt
  <2>3. demands[e].approvalId # None =>
          LET b == demands[e].approvalId
          IN b \in Approval /\ approvals'[b] = approvals[b]
    <3> SUFFICES ASSUME NEW b \in Approval, b = demands[e].approvalId
                 PROVE  approvals'[b] = approvals[b]
      BY <2>1 DEF DemandType
    <3>1. approvals[b].binding.demand = e
      BY <2>1, NamesAssumption DEF SoundDemand
    <3>2. approvals[b].state # "ABSENT"
      BY <3>1, NamesAssumption DEF IInv, SoundApproval, NoApproval, ApprovalRow, NoBinding
    <3> QED
      BY <3>1, <3>2
  <2>4. SoundDemand(e)'
    BY <2>1, <2>3 DEF SoundDemand
  <2> QED
    BY <2>2, <2>4
<1>2. ASSUME NEW b \in Approval PROVE SoundApproval(approvals[b])' /\ Named(b)'
  <2>1. CASE approvals'[b] = approvals[b]
    <3>1. SoundApproval(approvals[b])'
      BY <2>1 DEF IInv
    <3>2. CASE approvals[b].state = "PENDING" /\ approvals[b].binding.demand # d
      <4>1. approvals[b].binding.demand \in Demand
        BY <3>2, RowFields DEF IInv, SoundApproval
      <4>2. Named(b)
        BY DEF IInv
      <4>3. demands'[approvals[b].binding.demand] = demands[approvals[b].binding.demand]
        BY <3>2, <4>1
      <4> QED
        BY <2>1, <3>1, <3>2, <4>2, <4>3 DEF Named
    <3>3. CASE approvals[b].state = "PENDING" /\ approvals[b].binding.demand = d
      BY <2>1, <3>1, <3>3 DEF Named
    <3> QED
      BY <2>1, <3>1, <3>2, <3>3 DEF Named
  <2> QED
    BY <2>1
<1> QED
  BY <1>1, <1>2 DEF IInv

-----------------------------------------------------------------------------
\* Findings of the next revision are the only ones of it, and leave those of
\* every earlier revision as they were.
LEMMA FindingsGrow ==
    ASSUME TypeOK, NEW d \in Demand, FindingsBehind(d), NEW codes,
           findings'[d] = findings[d] \union {Finding(demands[d].revision + 1, c) : c \in codes}
    PROVE  LET r == demands[d].revision
           IN /\ {f.code : f \in {g \in findings'[d] : g.revision = r + 1}} = codes
              /\ \A k \in 0..r :
                    {f.code : f \in {g \in findings'[d] : g.revision = k}} = FindingsAt(d, k)
              /\ \A f \in findings'[d] : f.revision <= r + 1
<1> DEFINE r == demands[d].revision
           new == {Finding(r + 1, c) : c \in codes}
<1>1. r \in Nat /\ \A g \in findings[d] : g.revision \in Nat /\ g.revision <= r
  BY DEF TypeOK, DemandType, FindingType, FindingsBehind
<1>2. \A g \in new : g.revision = r + 1 /\ g.code \in codes
  BY DEF Finding
<1>3. \A c \in codes : Finding(r + 1, c) \in new /\ Finding(r + 1, c).code = c
  BY DEF Finding
<1>4. findings'[d] = findings[d] \union new
  OBVIOUS
<1> HIDE DEF r, new
<1>5. {g \in findings'[d] : g.revision = r + 1} = new
  BY <1>1, <1>2, <1>4
<1>6. {f.code : f \in new} = codes
  BY <1>2, <1>3
<1>7. \A k \in 0..r : {g \in findings'[d] : g.revision = k} = {g \in findings[d] : g.revision = k}
  BY <1>1, <1>2, <1>4
<1>8. \A f \in findings'[d] : f.revision <= r + 1
  BY <1>1, <1>2, <1>4
<1> QED
  BY <1>5, <1>6, <1>7, <1>8 DEF FindingsAt, r

\* What was found at a demand's validated revision was not found later.
LEMMA ValidatedBefore ==
    ASSUME TypeOK, NEW d \in Demand, Explained(d), FindingsBehind(d)
    PROVE  demands[d].validatedRevision \in 0..demands[d].revision
<1>1. demands[d].validatedRevision \in Nat /\ demands[d].revision \in Nat
  BY DEF TypeOK, DemandType
<1>2. CASE demands[d].validatedRevision # 0
  <2>1. FindingsAt(d, demands[d].validatedRevision) # {}
    BY <1>2 DEF Explained
  <2>2. PICK f \in findings[d] : f.revision = demands[d].validatedRevision
    BY <2>1 DEF FindingsAt
  <2> QED
    BY <1>1, <2>2 DEF FindingsBehind
<1> QED
  BY <1>1, <1>2

\* Writing the row of a demand, or of an approval.
LEMMA DemandWritten ==
    ASSUME TypeOK, NEW d \in Demand, NEW row, WriteDemand(d, row)
    PROVE  demands'[d] = row /\ \A e \in Demand \ {d} : demands'[e] = demands[e]
BY DEF TypeOK, WriteDemand

LEMMA ApprovalWritten ==
    ASSUME TypeOK, NEW a \in Approval, NEW row, WriteApproval(a, row)
    PROVE  approvals'[a] = row /\ \A b \in Approval \ {a} : approvals'[b] = approvals[b]
BY DEF TypeOK, WriteApproval

\* An approval is pending for a demand only if that demand waits for it.
LEMMA PendingIsNamed ==
    ASSUME IInv, NEW b \in Approval, approvals[b].state = "PENDING"
    PROVE  LET d == approvals[b].binding.demand
           IN /\ d \in Demand /\ demands[d].approvalId = b
              /\ demands[d].state = "APPROVAL_PENDING"
<1>1. /\ approvals[b].binding.demand \in Demand
      /\ demands[approvals[b].binding.demand].approvalId = b
  BY RowFields DEF IInv, SoundApproval, Named
<1>2. SoundDemand(approvals[b].binding.demand)
  BY <1>1 DEF IInv
<1> QED
  BY <1>1, <1>2, NamesAssumption DEF SoundDemand, Terminal

-----------------------------------------------------------------------------
LEMMA CreateKeeps ==
    ASSUME IInv, NEW d \in Demand, NEW rejects \in BOOLEAN, CreateDemand(d, rejects)
    PROVE  IInv'
<1> DEFINE row == DemandRow("DRAFT", 1, 0, None, rejects)
<1>1. TypeOK /\ SoundDemand(d) /\ FindingsBehind(d) /\ demands[d].state = "ABSENT"
  BY DEF IInv, CreateDemand
<1>2. /\ row \in DemandType /\ row.state = "DRAFT" /\ row.revision = 1
      /\ row.validatedRevision = 0 /\ row.approvalId = None
  BY DEF DemandRow, DemandType, DemandStates
<1> HIDE DEF row
<1>3. WriteDemand(d, row) /\ UNCHANGED <<approvals, findings, policy, now>>
  BY DEF CreateDemand, row
<1>4. demands'[d] = row /\ \A e \in Demand \ {d} : demands'[e] = demands[e]
  BY <1>1, <1>3, DemandWritten
<1>5. TypeOK'
  BY <1>1, <1>2, <1>3 DEF TypeOK, WriteDemand
<1>6. SoundDemand(d)' /\ Explained(d)'
  BY <1>2, <1>4 DEF SoundDemand, Explained, Terminal
<1>7. FindingsBehind(d)'
  <2>1. demands[d].revision = 0
    BY <1>1 DEF SoundDemand, NoDemand, DemandRow
  <2> QED
    BY <1>1, <1>2, <1>3, <1>4, <2>1 DEF TypeOK, FindingType, FindingsBehind
<1>8. \A b \in Approval : approvals[b].state = "PENDING" => approvals[b].binding.demand # d
  BY <1>1, PendingIsNamed
<1> QED
  BY <1>3, <1>4, <1>5, <1>6, <1>7, <1>8, OneDemandKeeps

\* A validation binds the resource exactly when it finds nothing.
LEMMA ValidateKeeps ==
    ASSUME IInv, NEW d \in Demand, NEW source \in Source, Validate(d, source)
    PROVE  IInv'
<1> DEFINE blocking == BlockingFindings(d, source, now)
           row == Validated(demands[d], blocking # {})
           codes == IF blocking = {} THEN {"DEMAND_VALIDATED"} ELSE blocking
           r == demands[d].revision
<1>1. /\ TypeOK /\ SoundDemand(d) /\ FindingsBehind(d) /\ r \in Nat
      /\ demands[d] \in DemandType /\ demands[d].state \in {"DRAFT", "BLOCKED"}
  BY DEF IInv, Validate, TypeOK, DemandType
<1>2. demands[d].approvalId = None
  BY <1>1 DEF SoundDemand, Terminal
<1>3. /\ codes \subseteq BlockingCodes \union {"DEMAND_VALIDATED"}
      /\ codes # {} /\ (blocking # {} => codes = blocking /\ codes # {"DEMAND_VALIDATED"})
      /\ (blocking = {} => codes = {"DEMAND_VALIDATED"} /\ ~demands[d].rejects)
  BY BlockingIsNoPass
<1>4. /\ row.revision = r + 1 /\ row.approvalId = None /\ row.rejects = demands[d].rejects
      /\ blocking # {} => row.state = "BLOCKED" /\ row.validatedRevision = 0
      /\ blocking = {} => row.state = "VALIDATED" /\ row.validatedRevision = r + 1
      /\ row \in DemandType
  <2>1. CASE blocking = {}
    BY <1>1, <1>2, <2>1 DEF Validated, DemandRow, DemandType, DemandStates
  <2>2. CASE blocking # {}
    BY <1>1, <1>2, <2>2 DEF Validated, DemandRow, DemandType, DemandStates
  <2> QED
    BY <2>1, <2>2
<1>5. /\ WriteDemand(d, row) /\ UNCHANGED <<approvals, policy, now>>
      /\ findings' = [findings EXCEPT ![d] = @ \union {Finding(row.revision, c) : c \in codes}]
  BY DEF Validate
<1> HIDE DEF blocking, row, codes, r
<1>6. /\ demands'[d] = row
      /\ findings'[d] = findings[d] \union {Finding(r + 1, c) : c \in codes}
      /\ \A e \in Demand \ {d} : demands'[e] = demands[e] /\ findings'[e] = findings[e]
  BY <1>1, <1>4, <1>5, DemandWritten DEF TypeOK
<1>7. \A c \in codes : Finding(r + 1, c) \in FindingType
  BY <1>1, <1>3 DEF Finding, FindingType
<1>8. TypeOK'
  <2>1. findings' \in [Demand -> SUBSET FindingType]
    BY <1>1, <1>4, <1>5, <1>7 DEF TypeOK
  <2> QED
    BY <1>1, <1>4, <1>5, <2>1 DEF TypeOK, WriteDemand
<1>9. /\ {f.code : f \in {g \in findings'[d] : g.revision = r + 1}} = codes
      /\ \A f \in findings'[d] : f.revision <= r + 1
  BY <1>1, <1>6, FindingsGrow DEF r
<1>10. FindingsBehind(d)'
  BY <1>4, <1>6, <1>9 DEF FindingsBehind
<1>11. SoundDemand(d)'
  BY <1>4, <1>6 DEF SoundDemand, Terminal
<1>12. Explained(d)'
  <2>1. CASE blocking = {}
    <3>1. /\ demands'[d].state = "VALIDATED" /\ demands'[d].validatedRevision = r + 1
          /\ ~demands'[d].rejects
      BY <1>3, <1>4, <1>6, <2>1
    <3>2. codes = {"DEMAND_VALIDATED"}
      BY <1>3, <2>1
    <3>3. {g \in findings'[d] : g.revision = demands'[d].validatedRevision} =
            {g \in findings'[d] : g.revision = r + 1}
      BY <3>1
    <3>4. FindingsAt(d, demands[d].validatedRevision)' = {"DEMAND_VALIDATED"}
      BY <1>9, <3>2, <3>3 DEF FindingsAt
    <3> QED
      BY <1>1, <3>1, <3>4 DEF Explained
  <2>2. CASE blocking # {}
    BY <1>1, <1>3, <1>4, <1>6, <1>9, <2>2 DEF Explained, FindingsAt, Terminal
  <2> QED
    BY <2>1, <2>2
<1>13. \A b \in Approval : approvals[b].state = "PENDING" => approvals[b].binding.demand # d
  BY <1>1, PendingIsNamed
<1> QED
  BY <1>5, <1>6, <1>8, <1>10, <1>11, <1>12, <1>13, OneDemandKeeps

\* A row that moves a demand on without touching what was validated keeps what
\* its findings explain.
LEMMA ExplanationStays ==
    ASSUME TypeOK, NEW d \in Demand, Explained(d), FindingsBehind(d),
           findings'[d] = findings[d], demands'[d].revision >= demands[d].revision,
           demands'[d].revision \in Nat,
           demands'[d].validatedRevision = demands[d].validatedRevision,
           demands'[d].rejects = demands[d].rejects, demands'[d].state # "BLOCKED",
           demands[d].state \in {"VALIDATED", "APPROVAL_PENDING"}
    PROVE  Explained(d)' /\ FindingsBehind(d)'
<1>1. demands[d].revision \in Nat /\ \A f \in findings[d] : f.revision \in Nat
  BY DEF TypeOK, DemandType, FindingType
<1>2. FindingsBehind(d)'
  BY <1>1 DEF FindingsBehind
<1>3. Explained(d)'
  BY DEF Explained, FindingsAt
<1> QED
  BY <1>2, <1>3

\* The approval that is asked for is about the revision just validated, under a
\* policy whose quorum can be reached.
LEMMA RequestApprovalKeeps ==
    ASSUME IInv, NEW d \in Demand, NEW a \in Approval, NEW actor \in Actor,
           RequestApproval(d, a, actor)
    PROVE  IInv'
<1> DEFINE binding == BindingRow(d, demands[d].validatedRevision, actor, policy, now)
           approval == ApprovalRow("PENDING", 1, <<>>, binding)
           row == Pending(demands[d], a)
           r == demands[d].revision
<1>1. /\ TypeOK /\ SoundDemand(d) /\ Explained(d) /\ FindingsBehind(d) /\ r \in Nat
      /\ demands[d] \in DemandType /\ demands[d].state = "VALIDATED"
      /\ demands[d].validatedRevision = r /\ approvals[a].state = "ABSENT"
      /\ policy \in Policy /\ now \in Nat /\ Admitted(policy, actor, now)
  BY DEF IInv, RequestApproval, TypeOK, DemandType
<1>2. /\ row \in DemandType /\ row.state = "APPROVAL_PENDING" /\ row.revision = r + 1
      /\ row.validatedRevision = r /\ row.approvalId = a /\ row.rejects = demands[d].rejects
  BY <1>1 DEF Pending, DemandRow, DemandType, DemandStates
<1>3. /\ binding \in BindingType /\ binding.demand = d /\ binding.demandRevision = r
      /\ binding.requester = actor /\ binding.policy = policy
  BY <1>1 DEF BindingRow, BindingType
<1>4. /\ approval.state = "PENDING" /\ approval.decisions = <<>> /\ approval.binding = binding
      /\ approval \in ApprovalType
  BY <1>3 DEF ApprovalRow, ApprovalType, ApprovalStates
<1>5. WriteApproval(a, approval) /\ WriteDemand(d, row) /\ UNCHANGED <<findings, policy, now>>
  BY DEF RequestApproval
<1> HIDE DEF binding, approval, row, r
<1>6. SoundApproval(approval)
  <2>1. Reviewers(approval) = {} /\ AllApprove(<<>>) /\ Len(<<>>) = 0
    BY <1>4 DEF Reviewers, DecidedBy, AllApprove
  <2>2. IsFiniteSet(Reviewers(approval)) /\ Cardinality(Reviewers(approval)) = 0
    BY <2>1, FS_EmptySet
  <2>3. policy.required \in 1..Cardinality(policy.reviewers) /\ actor \notin policy.reviewers
    BY <1>1 DEF Admitted
  <2>4. policy.required \in Nat /\ policy.required >= 1
    BY <1>1, <2>3, PolicyFields
  <2> QED
    BY <1>3, <1>4, <2>1, <2>2, <2>3, <2>4 DEF SoundApproval
<1>7. /\ demands'[d] = row /\ approvals'[a] = approval
      /\ \A e \in Demand \ {d} : demands'[e] = demands[e] /\ findings'[e] = findings[e]
      /\ \A b \in Approval \ {a} : approvals'[b] = approvals[b]
  BY <1>1, <1>5, DemandWritten, ApprovalWritten
<1>8. TypeOK'
  BY <1>1, <1>2, <1>4, <1>5 DEF TypeOK, WriteDemand, WriteApproval
<1>9. Named(a)'
  BY <1>2, <1>3, <1>4, <1>7 DEF Named
<1>10. SoundDemand(d)'
  BY <1>1, <1>2, <1>3, <1>4, <1>7, NamesAssumption DEF SoundDemand, Terminal
<1>11. Explained(d)' /\ FindingsBehind(d)'
  BY <1>1, <1>2, <1>5, <1>7, ExplanationStays DEF r
<1>12. \A b \in Approval : approvals[b].state = "PENDING" => approvals[b].binding.demand # d
  BY <1>1, PendingIsNamed
<1> QED
  BY <1>1, <1>6, <1>7, <1>8, <1>9, <1>10, <1>11, <1>12, OneDemandKeeps

\* A decision is one more person's, in time, and settles the approval only with
\* a quorum; the demand is settled with it.
LEMMA DecideKeeps ==
    ASSUME IInv, NEW a \in Approval, NEW actor \in Actor,
           NEW decision \in {"APPROVE", "REJECT"}, Decide(a, actor, decision)
    PROVE  IInv'
<1>d. PICK d \in Demand : d = approvals[a].binding.demand
  BY PendingIsNamed DEF Decide, MayReview
<1> DEFINE old == approvals[a]
           entry == [actor |-> actor, decision |-> decision, at |-> now]
           more == Append(old.decisions, entry)
           outcome == Outcome(old, more, decision)
           row == Decided(old, more, decision)
           closed == Closed(demands[d], outcome)
           p == old.binding.policy
<1>1. /\ TypeOK /\ old.state = "PENDING" /\ old \in ApprovalType
      /\ old.decisions \in Seq(DecisionType) /\ old.revision \in Nat /\ now \in Nat
      /\ SoundApproval(old) /\ p.expiresAt > now
  BY DEF IInv, Decide, MayReview, TypeOK, ApprovalType
<1>2. /\ actor # old.binding.requester /\ actor \in p.reviewers
      /\ actor \notin DecidedBy(old.decisions)
  BY DEF Decide, MayReview, Undecided, DecidedBy
<1>3. /\ demands[d].approvalId = a /\ demands[d].state = "APPROVAL_PENDING"
      /\ old.binding \in BindingType /\ p \in Policy /\ p.required \in Nat /\ p.expiresAt \in Nat
  BY <1>d, <1>1, PendingIsNamed, PolicyFields DEF SoundApproval, BindingType
<1>4. entry \in DecisionType /\ entry.actor = actor /\ entry.decision = decision /\ entry.at = now
  BY <1>1 DEF DecisionType
<1>5. more \in Seq(DecisionType)
  BY <1>1, <1>4
<1>6. /\ DecidedBy(more) = DecidedBy(old.decisions) \union {actor}
      /\ IsFiniteSet(DecidedBy(more)) /\ Cardinality(DecidedBy(more)) = Len(more)
      /\ Len(more) = Len(old.decisions) + 1
      /\ \A i \in DOMAIN more :
            more[i] = entry \/ \E k \in DOMAIN old.decisions : more[i] = old.decisions[k]
      /\ AllApprove(old.decisions) /\ decision = "APPROVE" => AllApprove(more)
  BY <1>1, <1>2, <1>4, OneMoreDecided DEF SoundApproval, Reviewers
<1>7. /\ outcome \in {"REJECTED", "APPROVED", "PENDING"}
      /\ outcome = "REJECTED" <=> decision = "REJECT"
      /\ outcome = "APPROVED" => Cardinality(Approvals(more)) >= p.required
      /\ outcome = "PENDING" => ~(Cardinality(Approvals(more)) >= p.required)
  BY DEF Outcome
<1>8. /\ Cardinality(Approvals(more)) \in Nat /\ Cardinality(Approvals(more)) <= Len(more)
      /\ AllApprove(more) => Cardinality(Approvals(more)) = Len(more)
  BY <1>5, InFavour
<1>9. /\ row.state = outcome /\ row.revision = old.revision + 1 /\ row.decisions = more
      /\ row.binding = old.binding
  BY DEF Decided, ApprovalRow
<1>10. /\ WriteApproval(a, row) /\ UNCHANGED <<findings, policy, now>>
       /\ \/ outcome \in Terminal /\ WriteDemand(d, closed)
          \/ outcome = "PENDING" /\ UNCHANGED demands
  BY <1>d, <1>9 DEF Decide
<1>11. row \in ApprovalType
  BY <1>1, <1>5, <1>7 DEF Decided, ApprovalRow, ApprovalType, ApprovalStates
<1> HIDE DEF entry, more, outcome, row
<1>12. SoundApproval(row)
  <2>1. row.state \in {"PENDING", "APPROVED"} => AllApprove(more)
    BY <1>1, <1>6, <1>7, <1>9 DEF SoundApproval
  <2>2. row.state = "APPROVED" => Len(more) >= p.required
    BY <1>3, <1>5, <1>7, <1>8, <1>9
  <2>3. row.state = "PENDING" => Len(more) < p.required
    BY <1>3, <1>5, <1>7, <1>8, <1>9, <2>1
  <2>4. Reviewers(row) = DecidedBy(more) /\ Reviewers(row) \subseteq p.reviewers
    BY <1>1, <1>2, <1>6, <1>9 DEF SoundApproval, Reviewers
  <2>5. \A i \in DOMAIN more : more[i].at < p.expiresAt
    BY <1>1, <1>3, <1>4, <1>6 DEF SoundApproval
  <2>6. /\ p.required \in 1..Cardinality(p.reviewers) /\ old.binding.requester \notin p.reviewers
    BY <1>1 DEF SoundApproval
  <2>7. row.state # "ABSENT"
    BY <1>7, <1>9
  <2> QED
    BY <1>3, <1>6, <1>9, <2>1, <2>2, <2>3, <2>4, <2>5, <2>6, <2>7 DEF SoundApproval
<1>13. /\ approvals'[a] = row /\ \A b \in Approval \ {a} : approvals'[b] = approvals[b]
  BY <1>1, <1>10, ApprovalWritten
<1>14. SoundDemand(d) /\ Explained(d) /\ FindingsBehind(d) /\ demands[d] \in DemandType
  BY <1>1, <1>3 DEF IInv, TypeOK
<1>15. outcome \in Terminal =>
         /\ closed \in DemandType /\ closed.state = outcome
         /\ closed.revision = demands[d].revision + 1 /\ closed.approvalId = a
         /\ closed.validatedRevision = demands[d].validatedRevision
         /\ closed.rejects = demands[d].rejects /\ demands[d].revision \in Nat
  BY <1>3, <1>14 DEF Closed, DemandRow, DemandType, DemandStates, Terminal
<1> HIDE DEF closed, p
<1>16. TypeOK'
  <2>1. approvals' \in [Approval -> ApprovalType]
    BY <1>1, <1>10, <1>11 DEF TypeOK, WriteApproval
  <2>2. demands' \in [Demand -> DemandType]
    BY <1>1, <1>10, <1>15 DEF TypeOK, WriteDemand
  <2> QED
    BY <1>1, <1>10, <2>1, <2>2 DEF TypeOK
<1>17. /\ \A e \in Demand \ {d} : demands'[e] = demands[e] /\ findings'[e] = findings[e]
       /\ outcome \in Terminal => demands'[d] = closed
       /\ outcome \notin Terminal => demands'[d] = demands[d]
  BY <1>1, <1>3, <1>10, DemandWritten DEF Terminal
<1>18. demands'[d].approvalId = a
  BY <1>3, <1>15, <1>17
<1>19. Named(a)'
  BY <1>d, <1>9, <1>13, <1>18 DEF Named
<1>20. SoundDemand(d)'
  <2>1. CASE outcome \in Terminal
    <3>1. /\ demands'[d].approvalId = a /\ demands'[d].state = outcome
          /\ demands'[d].validatedRevision = demands[d].validatedRevision
      BY <1>15, <1>17, <2>1
    <3>2. /\ approvals'[a].state = outcome /\ approvals'[a].binding = old.binding
          /\ old.binding.demand = d /\ a # None
          /\ old.binding.demandRevision = demands[d].validatedRevision
      BY <1>d, <1>3, <1>9, <1>13, <1>14, NamesAssumption DEF SoundDemand
    <3>3. outcome \notin {"ABSENT", "APPROVAL_PENDING"}
      BY <2>1 DEF Terminal
    <3> QED
      BY <2>1, <3>1, <3>2, <3>3 DEF SoundDemand
  <2>2. CASE outcome = "PENDING"
    BY <1>d, <1>3, <1>9, <1>13, <1>14, <1>17, <2>2, NamesAssumption
       DEF SoundDemand, Terminal, NoDemand, DemandRow
  <2> QED
    BY <1>7, <2>1, <2>2 DEF Terminal
<1>21. Explained(d)' /\ FindingsBehind(d)'
  <2>1. CASE outcome \in Terminal
    BY <1>1, <1>3, <1>10, <1>14, <1>15, <1>17, <2>1, ExplanationStays DEF Terminal
  <2>2. CASE outcome = "PENDING"
    BY <1>10, <1>14, <1>17, <2>2 DEF Explained, FindingsBehind, FindingsAt, Terminal
  <2> QED
    BY <1>7, <2>1, <2>2 DEF Terminal
<1>22. \A b \in Approval \ {a} :
          approvals[b].state = "PENDING" => approvals[b].binding.demand # d
  BY <1>3, PendingIsNamed
<1>23. \A b \in Approval : approvals'[b] = approvals[b] \/
          /\ approvals[b].state = "ABSENT" \/ approvals[b].binding.demand = d
          /\ SoundApproval(approvals'[b]) /\ Named(b)'
  BY <1>d, <1>12, <1>13, <1>19
<1>24. \A b \in Approval :
          approvals[b].state = "PENDING" /\ approvals[b].binding.demand = d
             /\ approvals'[b] = approvals[b] => demands'[d].approvalId = b
  BY <1>18, <1>22
<1> QED
  BY <1>3, <1>16, <1>17, <1>20, <1>21, <1>23, <1>24, OneDemandKeeps

\* An expired approval leaves its demand, which goes back with the finding that
\* says so; what was validated stays validated.
LEMMA ExpireKeeps ==
    ASSUME IInv, NEW a \in Approval, NEW actor \in Actor, Expire(a, actor)
    PROVE  IInv'
<1>d. PICK d \in Demand : d = approvals[a].binding.demand
  BY PendingIsNamed DEF Expire, MayReview
<1> DEFINE old == approvals[a]
           r == demands[d].revision
           row == Expired(old)
           reopened == Reopened(demands[d])
<1>1. /\ TypeOK /\ old.state = "PENDING" /\ old \in ApprovalType /\ SoundApproval(old)
  BY DEF IInv, Expire, MayReview, TypeOK
<1>2. demands[d].approvalId = a /\ demands[d].state = "APPROVAL_PENDING"
  BY <1>d, <1>1, PendingIsNamed
<1>3. /\ SoundDemand(d) /\ Explained(d) /\ FindingsBehind(d) /\ demands[d] \in DemandType
      /\ r \in Nat
  BY <1>1, <1>2 DEF IInv, TypeOK, DemandType
<1>4. /\ row \in ApprovalType /\ row.state = "EXPIRED" /\ row.binding = old.binding
      /\ row.decisions = old.decisions
  BY <1>1 DEF Expired, ApprovalRow, ApprovalType, ApprovalStates
<1>5. /\ reopened \in DemandType /\ reopened.state = "BLOCKED" /\ reopened.revision = r + 1
      /\ reopened.validatedRevision = demands[d].validatedRevision /\ reopened.approvalId = None
      /\ reopened.rejects = demands[d].rejects
  BY <1>3 DEF Reopened, DemandRow, DemandType, DemandStates
<1>6. /\ WriteApproval(a, row) /\ WriteDemand(d, reopened) /\ UNCHANGED <<policy, now>>
      /\ findings' = [findings EXCEPT ![d] =
                        @ \union {Finding(reopened.revision, "APPROVAL_EXPIRED")}]
  BY <1>d DEF Expire
<1> HIDE DEF row, reopened, r
<1>7. /\ demands'[d] = reopened /\ approvals'[a] = row
      /\ \A e \in Demand \ {d} : demands'[e] = demands[e] /\ findings'[e] = findings[e]
      /\ \A b \in Approval \ {a} : approvals'[b] = approvals[b]
      /\ findings'[d] = findings[d] \union {Finding(r + 1, c) : c \in {"APPROVAL_EXPIRED"}}
  <2>1. {Finding(r + 1, c) : c \in {"APPROVAL_EXPIRED"}} = {Finding(r + 1, "APPROVAL_EXPIRED")}
    OBVIOUS
  <2>2. findings'[d] = findings[d] \union {Finding(r + 1, "APPROVAL_EXPIRED")}
    BY <1>1, <1>2, <1>5, <1>6 DEF TypeOK
  <2>3. \A e \in Demand \ {d} : findings'[e] = findings[e]
    BY <1>1, <1>2, <1>6 DEF TypeOK
  <2> QED
    BY <1>1, <1>2, <1>6, <2>1, <2>2, <2>3, DemandWritten, ApprovalWritten
<1>8. TypeOK'
  <2>1. Finding(r + 1, "APPROVAL_EXPIRED") \in FindingType
    BY <1>3 DEF Finding, FindingType, BlockingCodes
  <2>2. findings' \in [Demand -> SUBSET FindingType]
    BY <1>1, <1>5, <1>6, <2>1 DEF TypeOK
  <2> QED
    BY <1>1, <1>4, <1>5, <1>6, <2>2 DEF TypeOK, WriteDemand, WriteApproval
<1>9. SoundApproval(row)
  BY <1>1, <1>4 DEF SoundApproval, Reviewers
<1>10. /\ {f.code : f \in {g \in findings'[d] : g.revision = r + 1}} = {"APPROVAL_EXPIRED"}
       /\ \A k \in 0..r : {f.code : f \in {g \in findings'[d] : g.revision = k}} = FindingsAt(d, k)
       /\ \A f \in findings'[d] : f.revision <= r + 1
  BY <1>1, <1>2, <1>3, <1>7, FindingsGrow DEF r
<1>11. FindingsBehind(d)'
  BY <1>5, <1>7, <1>10 DEF FindingsBehind
<1>12. Explained(d)'
  <2>1. FindingsAt(d, demands[d].revision)' = {"APPROVAL_EXPIRED"}
    BY <1>5, <1>7, <1>10 DEF FindingsAt
  <2>2. demands[d].validatedRevision \in 0..r
    BY <1>1, <1>2, <1>3, ValidatedBefore DEF r
  <2>3. FindingsAt(d, demands[d].validatedRevision)' = FindingsAt(d, demands[d].validatedRevision)
    <3>1. {g \in findings'[d] : g.revision = demands'[d].validatedRevision} =
            {g \in findings'[d] : g.revision = demands[d].validatedRevision}
      BY <1>5, <1>7
    <3> QED
      BY <1>10, <2>2, <3>1 DEF FindingsAt
  <2> QED
    BY <1>3, <1>5, <1>7, <2>1, <2>3 DEF Explained, Terminal
<1>13. SoundDemand(d)'
  BY <1>5, <1>7 DEF SoundDemand, Terminal
<1>14. Named(a)'
  BY <1>d, <1>4, <1>7 DEF Named
<1>15. \A b \in Approval \ {a} :
          approvals[b].state = "PENDING" => approvals[b].binding.demand # d
  BY <1>2, PendingIsNamed
<1>16. \A b \in Approval : approvals'[b] = approvals[b] \/
          /\ approvals[b].state = "ABSENT" \/ approvals[b].binding.demand = d
          /\ SoundApproval(approvals'[b]) /\ Named(b)'
  BY <1>d, <1>7, <1>9, <1>14
<1>17. approvals'[a] # approvals[a]
  BY <1>1, <1>4, <1>7
<1>18. \A b \in Approval :
          approvals[b].state = "PENDING" /\ approvals[b].binding.demand = d
             /\ approvals'[b] = approvals[b] => demands'[d].approvalId = b
  BY <1>15, <1>17
<1> QED
  BY <1>2, <1>7, <1>8, <1>11, <1>12, <1>13, <1>16, <1>18, OneDemandKeeps

-----------------------------------------------------------------------------
\* Every step of the store keeps the inductive invariant.
LEMMA NextKeeps == IInv /\ [Next]_vars => IInv'
<1> SUFFICES ASSUME IInv, [Next]_vars PROVE IInv'
  OBVIOUS
<1>1. ASSUME NEW d \in Demand, NEW rejects \in BOOLEAN, CreateDemand(d, rejects) PROVE IInv'
  BY <1>1, CreateKeeps
<1>2. ASSUME NEW d \in Demand, NEW source \in Source, Validate(d, source) PROVE IInv'
  BY <1>2, ValidateKeeps
<1>3. ASSUME NEW d \in Demand, NEW a \in Approval, NEW actor \in Actor,
             RequestApproval(d, a, actor)
      PROVE  IInv'
  BY <1>3, RequestApprovalKeeps
<1>4. ASSUME NEW a \in Approval, NEW actor \in Actor, NEW decision \in {"APPROVE", "REJECT"},
             Decide(a, actor, decision)
      PROVE  IInv'
  BY <1>4, DecideKeeps
<1>5. ASSUME NEW a \in Approval, NEW actor \in Actor, Expire(a, actor) PROVE IInv'
  BY <1>5, ExpireKeeps
<1>6. CASE (\E p \in Policy : PolicyChange(p)) \/ Tick \/ UNCHANGED vars
  <2>1. UNCHANGED <<demands, approvals, findings>>
    BY <1>6 DEF PolicyChange, Tick, vars
  <2>2. policy' \in Policy /\ now' \in Nat
    BY <1>6 DEF PolicyChange, Tick, vars, IInv, TypeOK
  <2>3. TypeOK'
    BY <2>1, <2>2 DEF IInv, TypeOK
  <2>4. \A a \in Approval : SoundApproval(approvals[a])' /\ Named(a)'
    BY <2>1 DEF IInv, Named
  <2>5. \A d \in Demand : SoundDemand(d)' /\ Explained(d)' /\ FindingsBehind(d)'
    BY <2>1 DEF IInv, SoundDemand, Explained, FindingsAt, FindingsBehind
  <2> QED
    BY <2>3, <2>4, <2>5 DEF IInv
<1> QED
  BY <1>1, <1>2, <1>3, <1>4, <1>5, <1>6 DEF Next

\* So the inductive invariant holds always.
LEMMA Inductive == Spec => []IInv
BY InitIInv, NextKeeps, PTL DEF Spec

\* Every row and every finding keeps its shape.
THEOREM TypeCorrect == Spec => []TypeOK
<1>1. IInv => TypeOK
  BY DEF IInv
<1> QED
  BY <1>1, Inductive, PTL

\* For any policies and any quorum: an approved demand was approved, as last
\* validated, by as many eligible people as its policy asks for, none against
\* and none too late.
THEOREM ApprovalsAreEarned == Spec => []ApprovedByQuorum
<1>1. ASSUME IInv, NEW d \in Demand, demands[d].state = "APPROVED"
      PROVE  LET row == approvals[demands[d].approvalId]
                 b == row.binding
             IN /\ row.state = "APPROVED"
                /\ b.demand = d /\ b.demandRevision = demands[d].validatedRevision
                /\ Cardinality(Reviewers(row)) >= b.policy.required
                /\ Reviewers(row) \subseteq b.policy.reviewers \ {b.requester}
                /\ \A i \in DOMAIN row.decisions :
                      /\ row.decisions[i].decision = "APPROVE"
                      /\ row.decisions[i].at < b.policy.expiresAt
  <2>1. SoundDemand(d) /\ demands[d] \in DemandType
    BY <1>1, RowFields DEF IInv
  <2>2. demands[d].approvalId # None /\ demands[d].approvalId \in Approval
    BY <1>1, <2>1 DEF SoundDemand, Terminal, DemandType
  <2>3. PICK a \in Approval : a = demands[d].approvalId
    BY <2>2
  <2>4. /\ approvals[a].state = "APPROVED" /\ approvals[a].binding.demand = d
        /\ approvals[a].binding.demandRevision = demands[d].validatedRevision
    BY <1>1, <2>1, <2>2, <2>3 DEF SoundDemand, Terminal
  <2>5. SoundApproval(approvals[a])
    BY <1>1 DEF IInv
  <2> QED
    BY <2>3, <2>4, <2>5 DEF SoundApproval, AllApprove
<1>2. IInv => ApprovedByQuorum
  BY <1>1 DEF ApprovedByQuorum
<1> QED
  BY <1>2, Inductive, PTL

\* A pending approval and its demand wait for each other, on the validated
\* revision: no decision is ever refused because its subject is stale.
THEOREM PendingStaysAgreed == Spec => []PendingAgrees
<1>1. ASSUME IInv, NEW a \in Approval, approvals[a].state = "PENDING"
      PROVE  /\ SubjectCurrent(a)
             /\ approvals[a].binding.demandRevision =
                   demands[approvals[a].binding.demand].revision - 1
  <2>1. PICK d \in Demand : d = approvals[a].binding.demand
    BY <1>1, PendingIsNamed
  <2>2. demands[d].approvalId = a /\ demands[d].state = "APPROVAL_PENDING" /\ a # None
    BY <1>1, <2>1, PendingIsNamed, NamesAssumption
  <2>3. SoundDemand(d)
    BY <1>1 DEF IInv
  <2> QED
    BY <2>1, <2>2, <2>3 DEF SoundDemand, SubjectCurrent
<1>2. ASSUME IInv, NEW d \in Demand
      PROVE  /\ demands[d].state = "APPROVAL_PENDING" =>
                  \E a \in Approval : approvals[a].state = "PENDING" /\ demands[d].approvalId = a
             /\ demands[d].approvalId # None <=>
                  demands[d].state \in Terminal \union {"APPROVAL_PENDING"}
  <2>1. SoundDemand(d) /\ demands[d] \in DemandType
    BY <1>2, RowFields DEF IInv
  <2> QED
    BY <2>1 DEF SoundDemand, DemandType
<1>3. IInv => PendingAgrees
  BY <1>1, <1>2 DEF PendingAgrees
<1> QED
  BY <1>3, Inductive, PTL

\* Whatever the quorum: those who have not decided yet are enough to reach it.
THEOREM QuorumStaysReachable == Spec => []QuorumReachable
<1>1. ASSUME IInv, NEW a \in Approval, approvals[a].state = "PENDING"
      PROVE  LET row == approvals[a]
                 p == row.binding.policy
             IN /\ Len(row.decisions) < p.required
                /\ Cardinality(p.reviewers \ Reviewers(row)) >= p.required - Len(row.decisions)
  <2> DEFINE row == approvals[a]
             p == row.binding.policy
  <2>1. SoundApproval(row) /\ p \in Policy
    BY <1>1, RowFields DEF IInv, SoundApproval
  <2>2. /\ p.required \in 1..Cardinality(p.reviewers) /\ Reviewers(row) \subseteq p.reviewers
        /\ IsFiniteSet(Reviewers(row)) /\ Cardinality(Reviewers(row)) = Len(row.decisions)
        /\ Len(row.decisions) < p.required
    BY <1>1, <2>1 DEF SoundApproval
  <2>3. /\ IsFiniteSet(p.reviewers) /\ Cardinality(p.reviewers) \in Nat /\ p.required \in Nat
    BY <2>1, PolicyFields
  <2>4. Cardinality(Reviewers(row)) \in Nat
    BY <2>2, FS_CardinalityType
  <2>5. p.reviewers \intersect Reviewers(row) = Reviewers(row)
    BY <2>2
  <2>6. Cardinality(p.reviewers \ Reviewers(row)) =
           Cardinality(p.reviewers) - Cardinality(Reviewers(row))
    BY <2>3, <2>5, FS_Difference
  <2> HIDE DEF row, p
  <2>7. Cardinality(p.reviewers \ Reviewers(row)) >= p.required - Len(row.decisions)
    BY <2>2, <2>3, <2>4, <2>6
  <2> QED
    BY <2>2, <2>7 DEF row, p
<1>2. IInv => QuorumReachable
  BY <1>1 DEF QuorumReachable
<1> QED
  BY <1>2, Inductive, PTL

\* The findings say why a demand stands where it does.
THEOREM FindingsStayTrue == Spec => []FindingsExplain
<1>1. IInv => FindingsExplain
  BY DEF IInv, FindingsExplain
<1> QED
  BY <1>1, Inductive, PTL

-----------------------------------------------------------------------------
\* The two triggers accept every step.
LEMMA DemandTransitions ==
    /\ Transitions["DRAFT"] = {"BLOCKED", "VALIDATED"}
    /\ Transitions["BLOCKED"] = {"VALIDATED", "SUPERSEDED"}
    /\ Transitions["VALIDATED"] = {"APPROVAL_PENDING", "SUPERSEDED"}
    /\ Transitions["APPROVAL_PENDING"] = {"APPROVED", "REJECTED", "BLOCKED", "SUPERSEDED"}
BY DEF Transitions

LEMMA StepIsGuarded == IInv /\ [Next]_vars => [GuardedStep]_vars
<1> SUFFICES ASSUME IInv, Next PROVE GuardedStep
  OBVIOUS
<1>t. TypeOK
  BY DEF IInv
<1>1. ASSUME NEW d \in Demand, NEW rejects \in BOOLEAN, CreateDemand(d, rejects)
      PROVE  GuardedStep
  BY <1>t, <1>1, DemandWritten DEF CreateDemand, GuardedStep
<1>2. ASSUME NEW d \in Demand, NEW source \in Source, Validate(d, source) PROVE GuardedStep
  <2>1. PICK row : /\ WriteDemand(d, row) /\ row.revision = demands[d].revision + 1
                   /\ row.rejects = demands[d].rejects /\ row.state \in {"BLOCKED", "VALIDATED"}
                   /\ demands[d].state \in {"DRAFT", "BLOCKED"} /\ UNCHANGED approvals
    BY <1>2 DEF Validate, Validated, DemandRow
  <2>2. DemandGuard(demands[d], row)
    BY <2>1, DemandTransitions DEF DemandGuard, Terminal
  <2> QED
    BY <1>t, <2>1, <2>2, DemandWritten DEF GuardedStep
<1>3. ASSUME NEW d \in Demand, NEW a \in Approval, NEW actor \in Actor,
             RequestApproval(d, a, actor)
      PROVE  GuardedStep
  <2>1. PICK row, approval :
            /\ WriteDemand(d, row) /\ row.revision = demands[d].revision + 1
            /\ row.rejects = demands[d].rejects /\ row.state = "APPROVAL_PENDING"
            /\ demands[d].state = "VALIDATED"
            /\ WriteApproval(a, approval) /\ approvals[a].state = "ABSENT"
    BY <1>3 DEF RequestApproval, Pending, DemandRow
  <2>2. DemandGuard(demands[d], row)
    BY <2>1, DemandTransitions DEF DemandGuard, Terminal
  <2> QED
    BY <1>t, <2>1, <2>2, DemandWritten, ApprovalWritten DEF GuardedStep
<1>4. ASSUME NEW a \in Approval, NEW actor \in Actor, NEW decision \in {"APPROVE", "REJECT"},
             Decide(a, actor, decision)
      PROVE  GuardedStep
  <2>1. PICK d \in Demand : d = approvals[a].binding.demand
    BY <1>4, PendingIsNamed DEF Decide, MayReview
  <2> DEFINE old == approvals[a]
             entry == [actor |-> actor, decision |-> decision, at |-> now]
             more == Append(old.decisions, entry)
             row == Decided(old, more, decision)
             closed == Closed(demands[d], row.state)
  <2>2. /\ old.state = "PENDING" /\ old.decisions \in Seq(DecisionType)
        /\ demands[d].state = "APPROVAL_PENDING" /\ now \in Nat
    BY <1>t, <1>4, <2>1, PendingIsNamed DEF Decide, MayReview, TypeOK, ApprovalType
  <2>3. entry \in DecisionType
    BY <2>2 DEF DecisionType
  <2>4. /\ SubSeq(more, 1, Len(old.decisions)) = old.decisions
        /\ Len(more) = Len(old.decisions) + 1
    BY <2>2, <2>3
  <2>5. /\ row.revision = old.revision + 1 /\ row.decisions = more /\ row.binding = old.binding
        /\ row.state \in {"REJECTED", "APPROVED", "PENDING"}
    BY DEF Decided, ApprovalRow, Outcome
  <2>6. /\ WriteApproval(a, row)
        /\ \/ row.state \in Terminal /\ WriteDemand(d, closed)
           \/ UNCHANGED demands
    BY <1>4, <2>1 DEF Decide
  <2>7. /\ closed.revision = demands[d].revision + 1 /\ closed.state = row.state
        /\ closed.rejects = demands[d].rejects
    BY DEF Closed, DemandRow
  <2> HIDE DEF entry, more, row, closed
  <2>8. ApprovalGuard(old, row)
    BY <2>2, <2>4, <2>5 DEF ApprovalGuard
  <2>9. row.state \in Terminal => DemandGuard(demands[d], closed)
    BY <2>2, <2>7, DemandTransitions DEF DemandGuard, Terminal
  <2>10. \A b \in Approval : approvals'[b] # approvals[b] => ApprovalGuard(approvals[b], approvals'[b])
    BY <1>t, <2>6, <2>8, ApprovalWritten
  <2>11. \A e \in Demand : demands'[e] # demands[e] => DemandGuard(demands[e], demands'[e])
    BY <1>t, <2>6, <2>9, DemandWritten
  <2> QED
    BY <2>10, <2>11 DEF GuardedStep
<1>5. ASSUME NEW a \in Approval, NEW actor \in Actor, Expire(a, actor) PROVE GuardedStep
  <2>1. PICK d \in Demand : d = approvals[a].binding.demand
    BY <1>5, PendingIsNamed DEF Expire, MayReview
  <2> DEFINE old == approvals[a]
             row == Expired(old)
             reopened == Reopened(demands[d])
  <2>2. /\ old.state = "PENDING" /\ old.decisions \in Seq(DecisionType)
        /\ demands[d].state = "APPROVAL_PENDING"
    BY <1>t, <1>5, <2>1, PendingIsNamed DEF Expire, MayReview, TypeOK, ApprovalType
  <2>3. /\ SubSeq(old.decisions, 1, Len(old.decisions)) = old.decisions
        /\ Len(old.decisions) \in Nat
    BY <2>2
  <2>4. /\ row.revision = old.revision + 1 /\ row.decisions = old.decisions
        /\ row.binding = old.binding /\ row.state = "EXPIRED"
    BY DEF Expired, ApprovalRow
  <2>5. WriteApproval(a, row) /\ WriteDemand(d, reopened)
    BY <1>5, <2>1 DEF Expire
  <2>6. /\ reopened.revision = demands[d].revision + 1 /\ reopened.state = "BLOCKED"
        /\ reopened.rejects = demands[d].rejects
    BY DEF Reopened, DemandRow
  <2> HIDE DEF row, reopened
  <2>7. ApprovalGuard(old, row)
    BY <2>2, <2>3, <2>4 DEF ApprovalGuard
  <2>8. DemandGuard(demands[d], reopened)
    BY <2>2, <2>6, DemandTransitions DEF DemandGuard, Terminal
  <2> QED
    BY <1>t, <2>5, <2>7, <2>8, DemandWritten, ApprovalWritten DEF GuardedStep
<1>6. ASSUME (\E p \in Policy : PolicyChange(p)) \/ Tick PROVE GuardedStep
  BY <1>6 DEF PolicyChange, Tick, GuardedStep
<1> QED
  BY <1>1, <1>2, <1>3, <1>4, <1>5, <1>6 DEF Next

\* guard_demand_transition and guard_approval_transition accept every step.
THEOREM GuardsAcceptAll == Spec => DatabaseGuards
BY Inductive, StepIsGuarded, PTL DEF Spec, DatabaseGuards

-----------------------------------------------------------------------------
\* The audit trails.

LEMMA DemandTrailKeeps ==
    ASSUME TypeOK, demandTrail \in [Demand -> Seq(DemandDigestType)],
           NEW d \in Demand, DemandTrailed(d), NEW row \in DemandType, WriteDemand(d, row),
           row.revision = demands[d].revision + 1
    PROVE  /\ demandTrail' \in [Demand -> Seq(DemandDigestType)] /\ DemandTrailed(d)'
           /\ \A e \in Demand \ {d} :
                 demands'[e] = demands[e] /\ demandTrail'[e] = demandTrail[e]
<1> DEFINE event == DemandDigest(row)
           old == demandTrail[d]
           new == Append(old, event)
<1>1. event \in DemandDigestType /\ event.revision = demands[d].revision + 1
  BY DEF DemandDigest, DemandType, DemandDigestType
<1>2. old \in Seq(DemandDigestType) /\ Len(old) = demands[d].revision
  BY DEF DemandTrailed
<1>3. demandTrail' = [demandTrail EXCEPT ![d] = new] /\ demands' = [demands EXCEPT ![d] = row]
  BY DEF WriteDemand
<1> HIDE DEF event
<1>4. /\ new \in Seq(DemandDigestType) /\ Len(new) = Len(old) + 1 /\ new[Len(old) + 1] = event
      /\ DOMAIN new = 1..(Len(old) + 1) /\ DOMAIN old = 1..Len(old) /\ Len(old) \in Nat
      /\ \A i \in 1..Len(old) : new[i] = old[i]
  BY <1>1, <1>2
<1> HIDE DEF new
<1>5. demandTrail'[d] = new /\ demands'[d] = row
  BY <1>3 DEF TypeOK
<1>6. \A i \in DOMAIN new : new[i].revision = i
  BY <1>1, <1>2, <1>4 DEF DemandTrailed
<1>7. DemandTrailed(d)'
  BY <1>1, <1>2, <1>4, <1>5, <1>6 DEF DemandTrailed, event
<1> QED
  BY <1>3, <1>4, <1>7 DEF TypeOK

LEMMA ApprovalTrailKeeps ==
    ASSUME TypeOK, approvalTrail \in [Approval -> Seq(ApprovalDigestType)],
           NEW a \in Approval, ApprovalTrailed(a), NEW row \in ApprovalType,
           WriteApproval(a, row), row.revision = approvals[a].revision + 1
    PROVE  /\ approvalTrail' \in [Approval -> Seq(ApprovalDigestType)] /\ ApprovalTrailed(a)'
           /\ \A b \in Approval \ {a} :
                 approvals'[b] = approvals[b] /\ approvalTrail'[b] = approvalTrail[b]
<1> DEFINE event == ApprovalDigest(row)
           old == approvalTrail[a]
           new == Append(old, event)
<1>1. event \in ApprovalDigestType /\ event.revision = approvals[a].revision + 1
  BY DEF ApprovalDigest, ApprovalType, ApprovalDigestType
<1>2. old \in Seq(ApprovalDigestType) /\ Len(old) = approvals[a].revision
  BY DEF ApprovalTrailed
<1>3. /\ approvalTrail' = [approvalTrail EXCEPT ![a] = new]
      /\ approvals' = [approvals EXCEPT ![a] = row]
  BY DEF WriteApproval
<1> HIDE DEF event
<1>4. /\ new \in Seq(ApprovalDigestType) /\ Len(new) = Len(old) + 1 /\ new[Len(old) + 1] = event
      /\ DOMAIN new = 1..(Len(old) + 1) /\ DOMAIN old = 1..Len(old) /\ Len(old) \in Nat
      /\ \A i \in 1..Len(old) : new[i] = old[i]
  BY <1>1, <1>2
<1> HIDE DEF new
<1>5. approvalTrail'[a] = new /\ approvals'[a] = row
  BY <1>3 DEF TypeOK
<1>6. \A i \in DOMAIN new : new[i].revision = i
  BY <1>1, <1>2, <1>4 DEF ApprovalTrailed
<1>7. ApprovalTrailed(a)'
  BY <1>1, <1>2, <1>4, <1>5, <1>6 DEF ApprovalTrailed, event
<1> QED
  BY <1>3, <1>4, <1>7 DEF TypeOK

LEMMA NextKeepsTrails == TrailIInv /\ [Next]_vars => TrailIInv'
<1> DEFINE Typed == /\ demandTrail \in [Demand -> Seq(DemandDigestType)]
                    /\ approvalTrail \in [Approval -> Seq(ApprovalDigestType)]
           DemandSide == demandTrail' \in [Demand -> Seq(DemandDigestType)]
                            /\ \A d \in Demand : DemandTrailed(d)'
           ApprovalSide == approvalTrail' \in [Approval -> Seq(ApprovalDigestType)]
                            /\ \A a \in Approval : ApprovalTrailed(a)'
<1> SUFFICES ASSUME TrailIInv, [Next]_vars PROVE DemandSide /\ ApprovalSide
  BY NextKeeps DEF TrailIInv, TrailMatches
<1>1. IInv /\ TypeOK /\ Typed
  BY DEF TrailIInv, IInv
<1>2. ASSUME UNCHANGED <<demands, demandTrail>> PROVE DemandSide
  BY <1>1, <1>2 DEF TrailIInv, TrailMatches, DemandTrailed
<1>3. ASSUME UNCHANGED <<approvals, approvalTrail>> PROVE ApprovalSide
  BY <1>1, <1>3 DEF TrailIInv, TrailMatches, ApprovalTrailed
<1>4. ASSUME NEW d \in Demand, NEW row \in DemandType, WriteDemand(d, row),
             row.revision = demands[d].revision + 1
      PROVE  DemandSide
  <2>1. DemandTrailed(d)
    BY DEF TrailIInv, TrailMatches
  <2>2. /\ demandTrail' \in [Demand -> Seq(DemandDigestType)] /\ DemandTrailed(d)'
        /\ \A e \in Demand \ {d} :
              demands'[e] = demands[e] /\ demandTrail'[e] = demandTrail[e]
    BY <1>1, <1>4, <2>1, DemandTrailKeeps
  <2> QED
    BY <2>2 DEF TrailIInv, TrailMatches, DemandTrailed
<1>5. ASSUME NEW a \in Approval, NEW row \in ApprovalType, WriteApproval(a, row),
             row.revision = approvals[a].revision + 1
      PROVE  ApprovalSide
  <2>1. ApprovalTrailed(a)
    BY DEF TrailIInv, TrailMatches
  <2>2. /\ approvalTrail' \in [Approval -> Seq(ApprovalDigestType)] /\ ApprovalTrailed(a)'
        /\ \A b \in Approval \ {a} :
              approvals'[b] = approvals[b] /\ approvalTrail'[b] = approvalTrail[b]
    BY <1>1, <1>5, <2>1, ApprovalTrailKeeps
  <2> QED
    BY <2>2 DEF TrailIInv, TrailMatches, ApprovalTrailed
\* A row that is written has the shape of a row, since it does afterwards.
<1>t. demands' \in [Demand -> DemandType] /\ approvals' \in [Approval -> ApprovalType]
  BY <1>1, NextKeeps DEF IInv, TypeOK
<1>6. ASSUME NEW d \in Demand, NEW row, WriteDemand(d, row) PROVE row \in DemandType
  BY <1>1, <1>6, <1>t, DemandWritten
<1>7. ASSUME NEW a \in Approval, NEW row, WriteApproval(a, row) PROVE row \in ApprovalType
  BY <1>1, <1>7, <1>t, ApprovalWritten
<1>8. ASSUME NEW d \in Demand, NEW rejects \in BOOLEAN, CreateDemand(d, rejects)
      PROVE  DemandSide /\ ApprovalSide
  <2>1. demands[d].revision = 0
    BY <1>1, <1>8 DEF IInv, SoundDemand, CreateDemand, NoDemand, DemandRow
  <2>2. PICK row : WriteDemand(d, row) /\ row.revision = demands[d].revision + 1
    BY <1>8, <2>1 DEF CreateDemand, DemandRow
  <2> QED
    BY <1>3, <1>4, <1>6, <1>8, <2>2 DEF CreateDemand
<1>9. ASSUME NEW d \in Demand, NEW source \in Source, Validate(d, source)
      PROVE  DemandSide /\ ApprovalSide
  <2>1. PICK row : WriteDemand(d, row) /\ row.revision = demands[d].revision + 1
    BY <1>9 DEF Validate, Validated, DemandRow
  <2> QED
    BY <1>3, <1>4, <1>6, <1>9, <2>1 DEF Validate
<1>10. ASSUME NEW d \in Demand, NEW a \in Approval, NEW actor \in Actor,
              RequestApproval(d, a, actor)
       PROVE  DemandSide /\ ApprovalSide
  <2>1. approvals[a].revision = 0
    BY <1>1, <1>10 DEF IInv, SoundApproval, RequestApproval, NoApproval, ApprovalRow
  <2>2. PICK row, approval :
            /\ WriteDemand(d, row) /\ row.revision = demands[d].revision + 1
            /\ WriteApproval(a, approval) /\ approval.revision = approvals[a].revision + 1
    BY <1>10, <2>1 DEF RequestApproval, Pending, DemandRow, ApprovalRow
  <2> QED
    BY <1>4, <1>5, <1>6, <1>7, <2>2
<1>11. ASSUME NEW a \in Approval, NEW actor \in Actor, NEW decision \in {"APPROVE", "REJECT"},
              Decide(a, actor, decision)
       PROVE  DemandSide /\ ApprovalSide
  <2>1. PICK d \in Demand : d = approvals[a].binding.demand
    BY <1>1, <1>11, PendingIsNamed DEF Decide, MayReview
  <2>2. PICK approval : /\ WriteApproval(a, approval)
                        /\ approval.revision = approvals[a].revision + 1
    BY <1>11 DEF Decide, Decided, ApprovalRow
  <2>3. \/ \E row : WriteDemand(d, row) /\ row.revision = demands[d].revision + 1
        \/ UNCHANGED <<demands, demandTrail>>
    BY <1>11, <2>1 DEF Decide, Closed, DemandRow
  <2> QED
    BY <1>2, <1>4, <1>5, <1>6, <1>7, <2>2, <2>3
<1>12. ASSUME NEW a \in Approval, NEW actor \in Actor, Expire(a, actor)
       PROVE  DemandSide /\ ApprovalSide
  <2>1. PICK d \in Demand : d = approvals[a].binding.demand
    BY <1>1, <1>12, PendingIsNamed DEF Expire, MayReview
  <2>2. PICK row, approval :
            /\ WriteDemand(d, row) /\ row.revision = demands[d].revision + 1
            /\ WriteApproval(a, approval) /\ approval.revision = approvals[a].revision + 1
    BY <1>12, <2>1 DEF Expire, Expired, Reopened, DemandRow, ApprovalRow
  <2> QED
    BY <1>4, <1>5, <1>6, <1>7, <2>2
<1>13. CASE (\E p \in Policy : PolicyChange(p)) \/ Tick \/ UNCHANGED vars
  BY <1>2, <1>3, <1>13 DEF PolicyChange, Tick, vars
<1> QED
  BY <1>8, <1>9, <1>10, <1>11, <1>12, <1>13 DEF Next

\* Every revision of a demand or an approval has its one audit event, in order,
\* and the last one describes the row as it stands.
THEOREM TrailsStayTrue == Spec => []TrailMatches
<1>1. Init => TrailIInv
  <2> SUFFICES ASSUME Init PROVE TrailIInv
    OBVIOUS
  <2>1. /\ demandTrail \in [Demand -> Seq(DemandDigestType)]
        /\ approvalTrail \in [Approval -> Seq(ApprovalDigestType)]
    BY DEF Init
  <2>2. TrailMatches
    BY DEF Init, TrailMatches, DemandTrailed, ApprovalTrailed, NoDemand, DemandRow, NoApproval,
           ApprovalRow
  <2> QED
    BY InitIInv, <2>1, <2>2 DEF TrailIInv
<1>2. TrailIInv => TrailMatches
  BY DEF TrailIInv
<1> QED
  BY <1>1, <1>2, NextKeepsTrails, PTL DEF Spec
=============================================================================

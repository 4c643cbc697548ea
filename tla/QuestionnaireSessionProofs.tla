---------------------- MODULE QuestionnaireSessionProofs ----------------------
(***************************************************************************)
(* Proofs about QuestionnaireSession, for any number of clients, sessions, *)
(* keys, questions and stages, and any requests lost, repeated or late.    *)
(***************************************************************************)
EXTENDS QuestionnaireSession, FiniteSetTheorems, WellFoundedInduction, TLAPS

\* A set of natural numbers with a member has a least one.
LEMMA LeastExists ==
    ASSUME NEW S \in SUBSET Nat, S # {}
    PROVE  \E m \in S : \A n \in S : m <= n
<1> DEFINE Less == {pair \in Nat \X Nat : pair[1] < pair[2]}
<1>1. IsWellFoundedOn(Less, Nat)
  BY NatLessThanWellFounded DEF OpToRel
<1> HIDE DEF Less
<1>2. PICK m \in S : \A n \in S : ~(<<n, m>> \in Less)
  BY <1>1, WFMin
<1>3. ASSUME NEW n \in S PROVE m <= n
  <2>1. m \in Nat /\ n \in Nat
    OBVIOUS
  <2>2. n < m => <<n, m>> \in Less
    BY <2>1 DEF Less
  <2> QED
    BY <2>1, <2>2, <1>2
<1> QED
  BY <1>3

\* The first of some stages is one of them.
LEMMA FirstOrStage ==
    ASSUME NEW S \in SUBSET Stages
    PROVE  FirstOr(S, LastStage) \in Stages
<1>1. LastStage \in Stages /\ Stages \subseteq Nat
  BY StageAssumption DEF Stages
<1>2. CASE S = {}
  BY <1>1, <1>2 DEF FirstOr
<1>3. CASE S # {}
  <2>1. PICK m \in S : \A n \in S : m <= n
    BY <1>1, <1>3, LeastExists
  <2>2. (CHOOSE s \in S : \A t \in S : s <= t) \in S
    BY <2>1
  <2> QED
    BY <1>3, <2>2 DEF FirstOr
<1> QED
  BY <1>2, <1>3

\* A request that reaches the store is one that was put together by a client.
LEMMA RequestType ==
    ASSUME ClientTypeOK, NEW r \in network
    PROVE  /\ r.client \in Client /\ r.key \in Key /\ r.fingerprint \in Fingerprints
           /\ r.fingerprint.op = "create" \/ r.fingerprint.session \in Session
           /\ r.fingerprint.op = "save" => r.fingerprint.body \in AnswerSet
BY DEF ClientTypeOK, Fingerprints

\* A new session: nothing answered, all stages open.
LEMMA NoRowType == NoRow \in RowType /\ NoRow.revision = 0
<1>1. 1 \in Stages
  BY StageAssumption DEF Stages
<1> QED
  BY <1>1, QuestionAssumption, LimitAssumption DEF NoRow, Row, RowType, States

\* An empty store satisfies the inductive invariant.
LEMMA InitIInv == Init => IInv
<1> SUFFICES ASSUME Init PROVE IInv
  OBVIOUS
<1> USE DEF Init
<1>1. StoreTypeOK
  <2>1. \A T : <<>> \in Seq(T)
    OBVIOUS
  <2>2. failures \in 0..MaxAuditFailures
    BY LimitAssumption
  <2> QED
    BY <2>1, <2>2, NoRowType DEF StoreTypeOK
<1>2. ClientTypeOK /\ AcksAreRecorded
  <2>1. \A c \in Client : clients[c] \in
          [request : [fingerprint : Fingerprints, key : Key] \union {NoRequest},
           etag : [Session -> 0..MaxRevision]]
    BY LimitAssumption
  <2> QED
    BY <2>1 DEF ClientTypeOK, AcksAreRecorded
<1>3. TrailComplete
  BY NoRowType DEF TrailComplete
<1>4. KeysMatchRevisions /\ SavesAreRecorded
  BY NoRowType DEF KeysMatchRevisions, SavesAreRecorded
<1>5. \A s \in Session : rows[s] = NoRow /\ answerHistory[s] = <<>>
  OBVIOUS
<1>6. HistoryTellsAnswers
  BY <1>5 DEF HistoryTellsAnswers, NoRow, Row
<1>7. CompletedIsComplete /\ FindingsAreOld /\ FindingsExplain
  BY <1>5 DEF CompletedIsComplete, FindingsAreOld, FindingsExplain, NoRow, Row
<1> QED
  BY <1>1, <1>2, <1>3, <1>4, <1>6, <1>7 DEF IInv, StoreIInv

-----------------------------------------------------------------------------
\* Every change is one new revision of one session, with its event, under a key
\* not seen before.
LEMMA CommitKeeps ==
    ASSUME StoreIInv, NEW r, r.key \in Key, r.fingerprint \in Fingerprints, ~Known(r),
           NEW s \in Session, NEW row \in RowType,
           NEW event \in {"created", "answers.saved", "reviewed"},
           row.revision = rows[s].revision + 1,
           Commit(s, row, event, r)
    PROVE  /\ rows' \in [Session -> RowType] /\ audit' \in [Session -> Seq(EventType)]
           /\ idempotency' \in
                [Key -> [fingerprint : Fingerprints, response : ResponseType] \union {NoRecord}]
           /\ rows'[s] = row /\ \A t \in Session : t # s => rows'[t] = rows[t]
           /\ TrailComplete' /\ KeysMatchRevisions'
<1> DEFINE answer == [session |-> s, revision |-> row.revision, state |-> row.state]
           record == [fingerprint |-> r.fingerprint, response |-> answer]
           happened == [type |-> event, revision |-> row.revision]
           key == r.key
<1>1. /\ audit' = [audit EXCEPT ![s] = Append(audit[s], happened)]
      /\ rows' = [rows EXCEPT ![s] = row]
      /\ idempotency' = [idempotency EXCEPT ![key] = record]
  BY DEF Commit
<1>2. /\ rows \in [Session -> RowType] /\ audit \in [Session -> Seq(EventType)]
      /\ idempotency \in
           [Key -> [fingerprint : Fingerprints, response : ResponseType] \union {NoRecord}]
      /\ idempotency[key] = NoRecord /\ key \in Key
  BY DEF StoreIInv, StoreTypeOK, Known
<1>3. /\ rows[s].revision \in Nat /\ row.revision \in 1..MaxRevision /\ row.state \in States
      /\ \A t \in Session : rows[t].revision \in Nat
  BY <1>2, LimitAssumption DEF RowType
<1>4. answer \in ResponseType /\ happened \in EventType
  BY <1>3 DEF ResponseType, EventType
<1>5. record # NoRecord
  BY NoneAssumption DEF NoRecord
<1>6. record.response.session = s /\ record.response.revision = rows[s].revision + 1
      /\ happened.revision = rows[s].revision + 1
  OBVIOUS
<1>7. record \in [fingerprint : Fingerprints, response : ResponseType]
  BY <1>4
<1> HIDE DEF answer, record, happened, key
<1>8. /\ rows'[s] = row /\ \A t \in Session : t # s => rows'[t] = rows[t]
      /\ idempotency'[key] = record /\ \A k \in Key : k # key => idempotency'[k] = idempotency[k]
  BY <1>1, <1>2
<1>9. /\ rows' \in [Session -> RowType] /\ audit' \in [Session -> Seq(EventType)]
      /\ idempotency' \in
           [Key -> [fingerprint : Fingerprints, response : ResponseType] \union {NoRecord}]
  <2>1. Append(audit[s], happened) \in Seq(EventType)
    BY <1>2, <1>4
  <2> QED
    BY <2>1, <1>1, <1>2, <1>7
<1>10. TrailComplete'
  <2>1. /\ audit[s] \in Seq(EventType) /\ Len(audit[s]) = rows[s].revision
        /\ \A i \in DOMAIN audit[s] : audit[s][i].revision = i
    BY <1>2 DEF StoreIInv, TrailComplete
  <2>2. audit'[s] = Append(audit[s], happened)
    BY <1>1, <1>2
  <2>3. /\ Len(audit'[s]) = rows'[s].revision
        /\ \A i \in DOMAIN audit'[s] : audit'[s][i].revision = i
    BY <2>1, <2>2, <1>6, <1>8
  <2>4. \A t \in Session : t # s => audit'[t] = audit[t]
    BY <1>1, <1>2
  <2> QED
    BY <2>3, <2>4, <1>8 DEF StoreIInv, TrailComplete
<1>11. KeysMatchRevisions'
  <2>1. ASSUME NEW k \in Key, idempotency[k] # NoRecord
        PROVE  /\ idempotency[k].response.session \in Session
               /\ idempotency[k].response.revision \in Nat
               /\ idempotency[k].response.revision
                     \in 1..rows[idempotency[k].response.session].revision
    BY <2>1, <1>2 DEF StoreIInv, KeysMatchRevisions, ResponseType
  <2>2. ASSUME NEW k \in Key, idempotency'[k] # NoRecord
        PROVE  idempotency'[k].response.revision
                  \in 1..rows'[idempotency'[k].response.session].revision
    BY <2>1, <2>2, <1>3, <1>6, <1>8
  <2>3. ASSUME NEW t \in Session, NEW n \in 1..rows'[t].revision
        PROVE  \E k \in Key : /\ idempotency'[k] # NoRecord
                              /\ idempotency'[k].response.session = t
                              /\ idempotency'[k].response.revision = n
    <3>1. CASE t = s /\ n = row.revision
      BY <3>1, <1>2, <1>5, <1>6, <1>8
    <3>2. CASE ~(t = s /\ n = row.revision)
      <4>1. n \in 1..rows[t].revision
        BY <3>2, <2>3, <1>3, <1>8
      <4>2. PICK k \in Key : /\ idempotency[k] # NoRecord
                             /\ idempotency[k].response.session = t
                             /\ idempotency[k].response.revision = n
        BY <4>1 DEF StoreIInv, KeysMatchRevisions
      <4>3. k # key
        BY <4>2, <1>2
      <4> QED
        BY <4>2, <4>3, <1>8
    <3> QED
      BY <3>1, <3>2
  <2>4. ASSUME NEW k \in Key, NEW l \in Key,
               idempotency'[k] # NoRecord, idempotency'[l] # NoRecord,
               idempotency'[k].response.session = idempotency'[l].response.session,
               idempotency'[k].response.revision = idempotency'[l].response.revision
        PROVE  k = l
    <3>1. CASE k # key /\ l # key
      BY <3>1, <2>4, <1>8 DEF StoreIInv, KeysMatchRevisions
    <3>2. CASE k = key /\ l # key
      BY <3>2, <2>1, <2>4, <1>3, <1>6, <1>8
    <3>3. CASE k # key /\ l = key
      BY <3>3, <2>1, <2>4, <1>3, <1>6, <1>8
    <3> QED
      BY <3>1, <3>2, <3>3
  <2> QED
    BY <2>2, <2>3, <2>4 DEF KeysMatchRevisions
<1> QED
  BY <1>8, <1>9, <1>10, <1>11

\* What a change leaves in the record of answered requests.
LEMMA CommitAnswers ==
    ASSUME StoreTypeOK, NEW r, r.key \in Key, NEW s, NEW row, NEW event, Commit(s, row, event, r)
    PROVE  /\ idempotency'[r.key].fingerprint = r.fingerprint
           /\ idempotency'[r.key].response =
                [session |-> s, revision |-> row.revision, state |-> row.state]
           /\ idempotency'[r.key].response.revision = row.revision
           /\ \A k \in Key : k # r.key => idempotency'[k] = idempotency[k]
<1> DEFINE answer == [session |-> s, revision |-> row.revision, state |-> row.state]
<1>1. /\ idempotency'[r.key] = [fingerprint |-> r.fingerprint, response |-> answer]
      /\ \A k \in Key : k # r.key => idempotency'[k] = idempotency[k]
  BY DEF Commit, StoreTypeOK
<1>2. answer.revision = row.revision
  OBVIOUS
<1> HIDE DEF answer
<1>3. idempotency'[r.key].fingerprint = r.fingerprint /\ idempotency'[r.key].response = answer
  BY <1>1
<1> QED
  BY <1>1, <1>2, <1>3 DEF answer

\* The saves on record stay in the history; a new one must be put there.
LEMMA SavesStayRecorded ==
    ASSUME StoreIInv, NEW r, r.key \in Key, ~Known(r),
           \A k \in Key : k # r.key => idempotency'[k] = idempotency[k],
           \A t \in Session : \A i \in DOMAIN answerHistory[t] :
              i \in DOMAIN answerHistory'[t] /\ answerHistory'[t][i] = answerHistory[t][i],
           idempotency'[r.key].fingerprint.op = "save" =>
              \E i \in DOMAIN answerHistory'[idempotency'[r.key].fingerprint.session] :
                  answerHistory'[idempotency'[r.key].fingerprint.session][i] =
                      [revision |-> idempotency'[r.key].response.revision,
                       answers |-> idempotency'[r.key].fingerprint.body.answers]
    PROVE  SavesAreRecorded'
<1>1. ASSUME NEW k \in Key, k # r.key, idempotency'[k] # NoRecord,
             idempotency'[k].fingerprint.op = "save"
      PROVE  \E i \in DOMAIN answerHistory'[idempotency'[k].fingerprint.session] :
                answerHistory'[idempotency'[k].fingerprint.session][i] =
                    [revision |-> idempotency'[k].response.revision,
                     answers |-> idempotency'[k].fingerprint.body.answers]
  <2>1. idempotency'[k] = idempotency[k] /\ idempotency[k].fingerprint.session \in Session
    <3>1. idempotency'[k] = idempotency[k] /\ idempotency[k].fingerprint \in Fingerprints
      BY <1>1 DEF StoreIInv, StoreTypeOK
    <3> QED
      BY <3>1, <1>1 DEF Fingerprints
  <2>2. PICK i \in DOMAIN answerHistory[idempotency[k].fingerprint.session] :
            answerHistory[idempotency[k].fingerprint.session][i] =
                [revision |-> idempotency[k].response.revision,
                 answers |-> idempotency[k].fingerprint.body.answers]
    BY <2>1, <1>1 DEF StoreIInv, SavesAreRecorded
  <2> QED
    BY <2>1, <2>2
<1> QED
  BY <1>1 DEF SavesAreRecorded

\* A session that leaves its reviewed states needs no findings.
LEMMA UnreviewedExplained ==
    ASSUME FindingsExplain, findings' = findings, NEW s \in Session,
           rows'[s].state \notin {"BLOCKED", "READY_FOR_COMPILATION"},
           \A t \in Session : t # s => rows'[t] = rows[t]
    PROVE  FindingsExplain'
<1>1. ASSUME NEW t \in Session
      PROVE  /\ rows'[t].state = "BLOCKED" =>
                   {f.question : f \in {g \in findings[t] : g.revision = rows'[t].revision}}
                     = {q \in Required : rows'[t].answers[q] = Empty}
             /\ rows'[t].state = "READY_FOR_COMPILATION" =>
                   [revision |-> rows'[t].revision, question |-> None] \in findings[t]
  <2>1. CASE t = s
    BY <2>1
  <2>2. CASE t # s
    <3>1. rows'[t] = rows[t]
      BY <2>2
    <3> QED
      BY <3>1 DEF FindingsExplain
  <2> QED
    BY <2>1, <2>2
<1> QED
  BY <1>1 DEF FindingsExplain

-----------------------------------------------------------------------------
\* Creating a session.
LEMMA CreateKeeps ==
    ASSUME StoreIInv, ClientTypeOK, NEW r \in network, NEW s \in Session, Create(r, s)
    PROVE  StoreIInv'
<1> DEFINE row == Row("DRAFT", 1, NoRow.answers, 1, {})
<1>1. /\ r.fingerprint.op = "create" /\ ~Known(r) /\ rows[s] = NoRow
      /\ Commit(s, row, "created", r) /\ UNCHANGED <<answerHistory, findings>>
  BY DEF Create
<1>2. r.key \in Key /\ r.fingerprint \in Fingerprints
  BY RequestType
<1>3. row \in RowType /\ row.revision = rows[s].revision + 1
  <2>1. 1 \in Stages /\ NoRow.answers \in [Question -> Value]
    BY StageAssumption, QuestionAssumption DEF Stages, NoRow, Row
  <2> QED
    BY <2>1, <1>1, NoRowType, LimitAssumption DEF Row, RowType, States
<1>4. row.state = "DRAFT" /\ row.answers = NoRow.answers /\ row.completed = {}
  BY DEF Row
<1> HIDE DEF row
<1>5. /\ rows' \in [Session -> RowType] /\ audit' \in [Session -> Seq(EventType)]
      /\ idempotency' \in
           [Key -> [fingerprint : Fingerprints, response : ResponseType] \union {NoRecord}]
      /\ rows'[s] = row /\ \A t \in Session : t # s => rows'[t] = rows[t]
      /\ TrailComplete' /\ KeysMatchRevisions'
  BY <1>1, <1>2, <1>3, CommitKeeps
<1>6. StoreTypeOK'
  BY <1>1, <1>5 DEF StoreIInv, StoreTypeOK, Commit
<1>7. SavesAreRecorded'
  <2>1. StoreTypeOK
    BY DEF StoreIInv
  <2>2. /\ idempotency'[r.key].fingerprint = r.fingerprint
        /\ \A k \in Key : k # r.key => idempotency'[k] = idempotency[k]
    BY <2>1, <1>1, <1>2, CommitAnswers
  <2> QED
    BY <2>2, <1>1, <1>2, SavesStayRecorded
<1>8. HistoryTellsAnswers'
  <2>1. \A t \in Session : rows'[t].answers = rows[t].answers
    BY <1>1, <1>4, <1>5
  <2> QED
    BY <2>1, <1>1 DEF StoreIInv, HistoryTellsAnswers
<1>9. CompletedIsComplete'
  BY <1>4, <1>5 DEF StoreIInv, CompletedIsComplete, Missing
<1>10. FindingsAreOld'
  <2>1. ASSUME NEW t \in Session, NEW f \in findings[t] PROVE f.revision <= rows'[t].revision
    <3>1. f.revision \in Nat /\ rows[t].revision \in Nat /\ f.revision <= rows[t].revision
      BY LimitAssumption DEF StoreIInv, StoreTypeOK, FindingType, RowType, FindingsAreOld
    <3>2. rows'[t].revision = rows[t].revision \/ rows'[t].revision = rows[t].revision + 1
      BY <1>3, <1>5
    <3> QED
      BY <3>1, <3>2
  <2> QED
    BY <2>1, <1>1 DEF FindingsAreOld
<1>11. FindingsExplain'
  BY <1>1, <1>4, <1>5, UnreviewedExplained DEF StoreIInv
<1> QED
  BY <1>5, <1>6, <1>7, <1>8, <1>9, <1>10, <1>11 DEF StoreIInv

\* Saving answers: the newest save is the last word on the questions it gives.
LEMMA SaveKeeps ==
    ASSUME StoreIInv, ClientTypeOK, NEW r \in network, SaveAnswers(r)
    PROVE  StoreIInv'
<1>1. PICK s \in Session : s = r.fingerprint.session
  BY RequestType DEF SaveAnswers
<1>2. PICK given : given = r.fingerprint.body.answers
  OBVIOUS
<1>3. PICK answers : answers = Merged(rows[s].answers, given)
  OBVIOUS
<1>4. PICK row : row = Row("IN_PROGRESS", rows[s].revision + 1, answers,
                           FirstOr(Stages \ Completed(answers), LastStage), Completed(answers))
  OBVIOUS
<1>5. PICK saved : saved = [revision |-> row.revision, answers |-> given]
  OBVIOUS
<1>6. /\ r.fingerprint.op = "save" /\ ~Known(r) /\ rows[s].revision > 0
      /\ rows[s].revision < MaxRevision
      /\ Commit(s, row, "answers.saved", r)
      /\ answerHistory' = [answerHistory EXCEPT ![s] = Append(answerHistory[s], saved)]
      /\ findings' = findings
  BY <1>1, <1>2, <1>3, <1>4, <1>5 DEF SaveAnswers, Admissible
<1>7. r.key \in Key /\ r.fingerprint \in Fingerprints /\ r.fingerprint.body \in AnswerSet
  BY <1>6, RequestType
<1>8. rows \in [Session -> RowType] /\ answerHistory \in [Session -> Seq(SavedType)]
  BY DEF StoreIInv, StoreTypeOK
<1>9. rows[s].revision \in Nat /\ rows[s].answers \in [Question -> Value]
  BY <1>8, LimitAssumption DEF RowType
<1>10. answers \in [Question -> Value]
  BY <1>2, <1>3, <1>7, <1>9, AnswerAssumption DEF Merged
<1>11. row \in RowType /\ row.revision = rows[s].revision + 1
  <2>1. Completed(answers) \in SUBSET Stages /\ (Stages \ Completed(answers)) \in SUBSET Stages
    BY DEF Completed
  <2>2. FirstOr(Stages \ Completed(answers), LastStage) \in Stages
    BY <2>1, FirstOrStage
  <2> QED
    BY <2>1, <2>2, <1>4, <1>6, <1>9, <1>10, LimitAssumption DEF Row, RowType, States
<1>12. row.state = "IN_PROGRESS" /\ row.answers = answers /\ row.completed = Completed(answers)
  BY <1>4 DEF Row
<1>13. saved \in SavedType /\ saved.answers = given /\ saved.revision = row.revision
  BY <1>2, <1>5, <1>6, <1>7, <1>9, <1>11, LimitAssumption DEF SavedType
<1>14. /\ rows' \in [Session -> RowType] /\ audit' \in [Session -> Seq(EventType)]
       /\ idempotency' \in
            [Key -> [fingerprint : Fingerprints, response : ResponseType] \union {NoRecord}]
       /\ rows'[s] = row /\ \A t \in Session : t # s => rows'[t] = rows[t]
       /\ TrailComplete' /\ KeysMatchRevisions'
  BY <1>6, <1>7, <1>11, CommitKeeps
<1>15. PICK n \in Nat : n = Len(answerHistory[s])
  BY <1>8
<1>16. /\ DOMAIN answerHistory[s] = 1..n /\ DOMAIN answerHistory'[s] = 1..(n + 1)
       /\ \A i \in 1..n : answerHistory'[s][i] = answerHistory[s][i]
       /\ answerHistory'[s][n + 1] = saved
       /\ \A t \in Session : t # s => answerHistory'[t] = answerHistory[t]
  BY <1>6, <1>8, <1>15
<1>17. StoreTypeOK'
  <2>1. Append(answerHistory[s], saved) \in Seq(SavedType)
    BY <1>8, <1>13
  <2>2. answerHistory' \in [Session -> Seq(SavedType)]
    BY <2>1, <1>6, <1>8
  <2> QED
    BY <2>2, <1>6, <1>14 DEF StoreIInv, StoreTypeOK, Commit
<1>18. SavesAreRecorded'
  <2>1. StoreTypeOK
    BY DEF StoreIInv
  <2>2. /\ idempotency'[r.key].fingerprint = r.fingerprint
        /\ idempotency'[r.key].response =
             [session |-> s, revision |-> row.revision, state |-> row.state]
        /\ idempotency'[r.key].response.revision = row.revision
        /\ \A k \in Key : k # r.key => idempotency'[k] = idempotency[k]
    <3>1. Commit(s, row, "answers.saved", r) /\ r.key \in Key
      BY <1>6, <1>7
    <3> QED
      BY <3>1, <2>1, CommitAnswers
  <2>3. answerHistory'[s][n + 1] = [revision |-> idempotency'[r.key].response.revision,
                                    answers |-> idempotency'[r.key].fingerprint.body.answers]
    BY <2>2, <1>2, <1>5, <1>16
  <2>4. \A t \in Session : \A i \in DOMAIN answerHistory[t] :
           i \in DOMAIN answerHistory'[t] /\ answerHistory'[t][i] = answerHistory[t][i]
    BY <1>16
  <2>5. n + 1 \in DOMAIN answerHistory'[s]
    BY <1>16
  <2> QED
    BY <2>2, <2>3, <2>4, <2>5, <1>1, <1>6, <1>7, SavesStayRecorded
<1>19. HistoryTellsAnswers'
  <2>1. ASSUME NEW q \in Question
        PROVE  LET saves == {i \in 1..(n + 1) : q \in DOMAIN answerHistory'[s][i].answers}
               IN \/ saves = {} /\ answers[q] = Empty
                  \/ \E i \in saves :
                        /\ \A j \in saves : j <= i
                        /\ answers[q] = answerHistory'[s][i].answers[q]
    <3>1. CASE q \in DOMAIN given
      BY <3>1, <1>3, <1>13, <1>16 DEF Merged
    <3>2. CASE q \notin DOMAIN given
      <4>1. answers[q] = rows[s].answers[q]
        BY <3>2, <1>3 DEF Merged
      <4>2. {i \in 1..(n + 1) : q \in DOMAIN answerHistory'[s][i].answers}
              = {i \in 1..n : q \in DOMAIN answerHistory[s][i].answers}
        BY <3>2, <1>13, <1>16
      <4>3. LET saves == {i \in 1..n : q \in DOMAIN answerHistory[s][i].answers}
            IN \/ saves = {} /\ rows[s].answers[q] = Empty
               \/ \E i \in saves :
                     /\ \A j \in saves : j <= i
                     /\ rows[s].answers[q] = answerHistory[s][i].answers[q]
        BY <1>16 DEF StoreIInv, HistoryTellsAnswers
      <4> QED
        BY <4>1, <4>2, <4>3, <1>16
    <3> QED
      BY <3>1, <3>2
  <2>2. \A t \in Session : t # s => rows'[t] = rows[t] /\ answerHistory'[t] = answerHistory[t]
    BY <1>14, <1>16
  <2>3. rows'[s].answers = answers
    BY <1>12, <1>14
  <2>4. ASSUME NEW t \in Session, NEW q \in Question
        PROVE  LET saves == {i \in DOMAIN answerHistory'[t] : q \in DOMAIN answerHistory'[t][i].answers}
               IN \/ saves = {} /\ rows'[t].answers[q] = Empty
                  \/ \E i \in saves :
                        /\ \A j \in saves : j <= i
                        /\ rows'[t].answers[q] = answerHistory'[t][i].answers[q]
    <3>1. CASE t = s
      BY <3>1, <2>1, <2>3, <1>16
    <3>2. CASE t # s
      BY <3>2, <2>2 DEF StoreIInv, HistoryTellsAnswers
    <3> QED
      BY <3>1, <3>2
  <2> QED
    BY <2>4 DEF HistoryTellsAnswers
<1>20. CompletedIsComplete'
  BY <1>12, <1>14 DEF StoreIInv, CompletedIsComplete, Completed
<1>21. FindingsAreOld'
  <2>1. ASSUME NEW t \in Session, NEW f \in findings[t] PROVE f.revision <= rows'[t].revision
    <3>1. f.revision \in Nat /\ rows[t].revision \in Nat /\ f.revision <= rows[t].revision
      BY LimitAssumption DEF StoreIInv, StoreTypeOK, FindingType, RowType, FindingsAreOld
    <3>2. rows'[t].revision = rows[t].revision \/ rows'[t].revision = rows[t].revision + 1
      BY <1>11, <1>14
    <3> QED
      BY <3>1, <3>2
  <2> QED
    BY <2>1, <1>6 DEF FindingsAreOld
<1>22. FindingsExplain'
  BY <1>6, <1>12, <1>14, UnreviewedExplained DEF StoreIInv
<1> QED
  BY <1>14, <1>17, <1>18, <1>19, <1>20, <1>21, <1>22 DEF StoreIInv

\* Reviewing a session: its findings are new, those before are of earlier revisions.
LEMMA ReviewKeeps ==
    ASSUME StoreIInv, ClientTypeOK, NEW r \in network, Review(r)
    PROVE  StoreIInv'
<1>1. PICK s \in Session : s = r.fingerprint.session
  BY RequestType DEF Review
<1>2. PICK row : row = Reviewed(rows[s])
  OBVIOUS
<1>3. PICK unanswered : unanswered = {q \in Required : rows[s].answers[q] = Empty}
  OBVIOUS
<1>4. PICK subjects : subjects = IF unanswered = {} THEN {None} ELSE unanswered
  OBVIOUS
<1>5. PICK found : found = {[revision |-> row.revision, question |-> q] : q \in subjects}
  OBVIOUS
<1>6. /\ r.fingerprint.op = "review" /\ ~Known(r) /\ rows[s].revision > 0
      /\ rows[s].revision < MaxRevision
      /\ Commit(s, row, "reviewed", r)
      /\ findings' = [findings EXCEPT ![s] = findings[s] \union found]
      /\ answerHistory' = answerHistory
  BY <1>1, <1>2, <1>3, <1>4, <1>5 DEF Review, Admissible
<1>7. r.key \in Key /\ r.fingerprint \in Fingerprints
  BY RequestType
<1>8. rows \in [Session -> RowType] /\ findings \in [Session -> SUBSET FindingType]
  BY DEF StoreIInv, StoreTypeOK
<1>9. /\ rows[s].revision \in Nat /\ rows[s].answers \in [Question -> Value]
      /\ rows[s].completed \in SUBSET Stages
  BY <1>8, LimitAssumption DEF RowType
<1>10. /\ row.state = IF unanswered = {} THEN "READY_FOR_COMPILATION" ELSE "BLOCKED"
       /\ row.revision = rows[s].revision + 1
       /\ row.answers = rows[s].answers
       /\ row.completed = IF unanswered = {} THEN Stages ELSE rows[s].completed
       /\ row.current = FirstOr({StageOf[q] : q \in unanswered}, LastStage)
       /\ row = Row(row.state, row.revision, row.answers, row.current, row.completed)
  BY <1>2, <1>3 DEF Reviewed, Row
<1>11. row \in RowType
  <2>1. {StageOf[q] : q \in unanswered} \in SUBSET Stages
    BY <1>3, StageAssumption, QuestionAssumption DEF Stages
  <2>2. row.current \in Stages
    BY <2>1, <1>10, FirstOrStage
  <2>3. row.state \in States /\ row.revision \in 0..MaxRevision
    BY <1>6, <1>9, <1>10, LimitAssumption DEF States
  <2>4. row.answers \in [Question -> Value] /\ row.completed \in SUBSET Stages
    BY <1>9, <1>10
  <2>5. Row(row.state, row.revision, row.answers, row.current, row.completed) \in RowType
    BY <2>2, <2>3, <2>4 DEF Row, RowType
  <2> QED
    BY <2>5, <1>10
<1>12. found \in SUBSET FindingType
  <2>1. unanswered \subseteq Question
    BY <1>3, QuestionAssumption
  <2>2. subjects \subseteq Question \union {None}
    BY <2>1, <1>4
  <2>3. row.revision \in 2..MaxRevision
    BY <1>6, <1>9, <1>10, LimitAssumption
  <2> QED
    BY <2>2, <2>3, <1>5 DEF FindingType
<1>13. /\ rows' \in [Session -> RowType] /\ audit' \in [Session -> Seq(EventType)]
       /\ idempotency' \in
            [Key -> [fingerprint : Fingerprints, response : ResponseType] \union {NoRecord}]
       /\ rows'[s] = row /\ \A t \in Session : t # s => rows'[t] = rows[t]
       /\ TrailComplete' /\ KeysMatchRevisions'
  BY <1>6, <1>7, <1>10, <1>11, CommitKeeps
<1>14. findings'[s] = findings[s] \union found
       /\ \A t \in Session : t # s => findings'[t] = findings[t]
  BY <1>6, <1>8
<1>15. StoreTypeOK'
  <2>1. findings' \in [Session -> SUBSET FindingType]
    BY <1>6, <1>8, <1>12
  <2> QED
    BY <2>1, <1>6, <1>13 DEF StoreIInv, StoreTypeOK, Commit
<1>16. SavesAreRecorded'
  <2>1. StoreTypeOK
    BY DEF StoreIInv
  <2>2. /\ idempotency'[r.key].fingerprint = r.fingerprint
        /\ \A k \in Key : k # r.key => idempotency'[k] = idempotency[k]
    BY <2>1, <1>6, <1>7, CommitAnswers
  <2> QED
    BY <2>2, <1>6, <1>7, SavesStayRecorded
<1>17. HistoryTellsAnswers'
  <2>1. \A t \in Session : rows'[t].answers = rows[t].answers
    BY <1>10, <1>13
  <2> QED
    BY <2>1, <1>6 DEF StoreIInv, HistoryTellsAnswers
<1>18. CompletedIsComplete'
  <2>1. \A stage \in row.completed : Missing(row.answers, stage) = {}
    <3>1. CASE unanswered = {}
      BY <3>1, <1>3, <1>10 DEF Missing
    <3>2. CASE unanswered # {}
      BY <3>2, <1>10 DEF StoreIInv, CompletedIsComplete
    <3> QED
      BY <3>1, <3>2
  <2>2. row.state = "READY_FOR_COMPILATION" => \A q \in Required : row.answers[q] # Empty
    BY <1>3, <1>10
  <2> QED
    BY <2>1, <2>2, <1>13 DEF StoreIInv, CompletedIsComplete
<1>19. ASSUME NEW t \in Session, NEW f \in findings[t]
       PROVE  f.revision \in Nat /\ rows[t].revision \in Nat /\ f.revision <= rows[t].revision
  BY LimitAssumption DEF StoreIInv, StoreTypeOK, FindingType, RowType, FindingsAreOld
<1>20. FindingsAreOld'
  <2>1. ASSUME NEW t \in Session, NEW f \in findings'[t] PROVE f.revision <= rows'[t].revision
    <3>1. CASE t # s
      BY <3>1, <1>13, <1>14, <1>19, <2>1
    <3>2. CASE t = s /\ f \in findings[s]
      BY <3>2, <1>10, <1>13, <1>19
    <3>3. CASE t = s /\ f \in found
      BY <3>3, <1>5, <1>9, <1>10, <1>13
    <3> QED
      BY <3>1, <3>2, <3>3, <1>14, <2>1
  <2> QED
    BY <2>1 DEF FindingsAreOld
<1>21. FindingsExplain'
  <2>1. {g \in findings'[s] : g.revision = row.revision} = found
    <3>1. \A g \in found : g.revision = row.revision
      BY <1>5
    <3>2. \A g \in findings[s] : g.revision # row.revision
      BY <1>9, <1>10, <1>19
    <3>3. ASSUME NEW g PROVE g \in findings'[s] /\ g.revision = row.revision <=> g \in found
      BY <3>1, <3>2, <1>14
    <3> QED
      BY <3>3
  <2>2. {f.question : f \in found} = subjects
    <3>1. \A f \in found : f.question \in subjects
      BY <1>5
    <3>2. \A q \in subjects : \E f \in found : f.question = q
      <4>1. ASSUME NEW q \in subjects PROVE \E f \in found : f.question = q
        <5>1. [revision |-> row.revision, question |-> q] \in found
          BY <1>5
        <5> QED
          BY <5>1
      <4> QED
        BY <4>1
    <3> QED
      BY <3>1, <3>2
  <2>3. row.state = "BLOCKED" =>
           {f.question : f \in {g \in findings'[s] : g.revision = row.revision}} = unanswered
    <3>1. {f.question : f \in {g \in findings'[s] : g.revision = row.revision}} = subjects
      BY <2>1, <2>2
    <3> QED
      BY <3>1, <1>4, <1>10
  <2>4. row.state = "READY_FOR_COMPILATION" =>
           [revision |-> row.revision, question |-> None] \in findings'[s]
    BY <1>4, <1>5, <1>10, <1>14
  <2>5. unanswered = {q \in Required : row.answers[q] = Empty}
    BY <1>3, <1>10
  <2>6. ASSUME NEW t \in Session
        PROVE  /\ rows'[t].state = "BLOCKED" =>
                    {f.question : f \in {g \in findings'[t] : g.revision = rows'[t].revision}}
                      = {q \in Required : rows'[t].answers[q] = Empty}
               /\ rows'[t].state = "READY_FOR_COMPILATION" =>
                    [revision |-> rows'[t].revision, question |-> None] \in findings'[t]
    <3>1. CASE t = s
      BY <3>1, <2>3, <2>4, <2>5, <1>13
    <3>2. CASE t # s
      <4>1. rows'[t] = rows[t] /\ findings'[t] = findings[t]
        BY <3>2, <1>13, <1>14
      <4> QED
        BY <4>1 DEF StoreIInv, FindingsExplain
    <3> QED
      BY <3>1, <3>2
  <2> QED
    BY <2>6 DEF FindingsExplain
<1> QED
  BY <1>13, <1>15, <1>16, <1>17, <1>18, <1>20, <1>21 DEF StoreIInv

-----------------------------------------------------------------------------
\* Applying a request remembers an answer under its key, which had none.
LEMMA ApplyRemembers ==
    ASSUME StoreTypeOK, ClientTypeOK, NEW r \in network, Apply(r)
    PROVE  /\ ~Known(r) /\ r.key \in Key
           /\ idempotency'[r.key].fingerprint = r.fingerprint
           /\ \A k \in Key : k # r.key => idempotency'[k] = idempotency[k]
<1>1. r.key \in Key
  BY RequestType
<1>2. PICK s, row, event : Commit(s, row, event, r) /\ ~Known(r)
  BY DEF Apply, Create, SaveAnswers, Review
<1>3. /\ idempotency'[r.key].fingerprint = r.fingerprint
      /\ idempotency'[r.key].response =
           [session |-> s, revision |-> row.revision, state |-> row.state]
      /\ idempotency'[r.key].response.revision = row.revision
      /\ \A k \in Key : k # r.key => idempotency'[k] = idempotency[k]
  BY <1>1, <1>2, CommitAnswers
<1> QED
  BY <1>1, <1>2, <1>3

\* Whatever a request does to the store keeps the store's part of the invariant.
LEMMA ApplyKeeps ==
    ASSUME StoreIInv, ClientTypeOK, NEW r \in network, Apply(r)
    PROVE  StoreIInv'
BY CreateKeeps, SaveKeeps, ReviewKeeps DEF Apply

\* The store's part of the invariant is about the store alone.
LEMMA StoreUntouched ==
    ASSUME StoreIInv, failures' \in 0..MaxAuditFailures,
           UNCHANGED <<rows, answerHistory, findings, audit, idempotency>>
    PROVE  StoreIInv'
<1>1. StoreTypeOK'
  BY DEF StoreIInv, StoreTypeOK
<1>2. TrailComplete' /\ KeysMatchRevisions' /\ SavesAreRecorded'
  BY DEF StoreIInv, TrailComplete, KeysMatchRevisions, SavesAreRecorded
<1>3. HistoryTellsAnswers' /\ CompletedIsComplete' /\ FindingsAreOld' /\ FindingsExplain'
  BY DEF StoreIInv, HistoryTellsAnswers, CompletedIsComplete, Missing, FindingsAreOld, FindingsExplain
<1> QED
  BY <1>1, <1>2, <1>3 DEF StoreIInv

\* What is remembered for a key is never replaced.
LEMMA AcksStayRecorded ==
    ASSUME IInv, NEW r \in network, Apply(r), NEW x \in acks
    PROVE  idempotency'[x.key] = [fingerprint |-> x.fingerprint, response |-> x.response]
<1>1. x.key \in Key /\ x.fingerprint \in Fingerprints
  BY DEF IInv, ClientTypeOK
<1>2. idempotency[x.key] = [fingerprint |-> x.fingerprint, response |-> x.response]
  BY DEF IInv, AcksAreRecorded
<1>3. idempotency[x.key] # NoRecord
  BY <1>1, <1>2, NoneAssumption DEF NoRecord
<1>4. StoreTypeOK /\ ClientTypeOK
  BY DEF IInv, StoreIInv
<1>5. idempotency[r.key] = NoRecord /\ \A k \in Key : k # r.key => idempotency'[k] = idempotency[k]
  BY <1>4, ApplyRemembers DEF Known
<1> QED
  BY <1>1, <1>2, <1>3, <1>5

\* A client hears the answer the store remembers.
LEMMA HearsKeeps ==
    ASSUME ClientTypeOK, NEW r \in network, NEW response \in ResponseType, Hears(r, response),
           idempotency'[r.key] = [fingerprint |-> r.fingerprint, response |-> response],
           \A x \in acks :
              idempotency'[x.key] = [fingerprint |-> x.fingerprint, response |-> x.response]
    PROVE  ClientTypeOK' /\ AcksAreRecorded'
<1> DEFINE heard == [fingerprint |-> r.fingerprint, key |-> r.key, response |-> response]
<1>1. PICK c \in Client : c = r.client
  BY RequestType
<1>2. r.fingerprint \in Fingerprints /\ r.key \in Key
  BY RequestType
<1>3. /\ clients' = [clients EXCEPT ![c].request = NoRequest,
                                    ![c].etag[response.session] = response.revision]
      /\ acks' = acks \union {heard} /\ network' = network
  BY <1>1 DEF Hears
<1>4. heard \in [fingerprint : Fingerprints, key : Key, response : ResponseType]
  BY <1>2
<1>5. idempotency'[heard.key] = [fingerprint |-> heard.fingerprint, response |-> heard.response]
  OBVIOUS
<1> HIDE DEF heard
<1>6. clients' \in [Client ->
        [request : [fingerprint : Fingerprints, key : Key] \union {NoRequest},
         etag : [Session -> 0..MaxRevision]]]
  <2>1. response.session \in Session /\ response.revision \in 0..MaxRevision
    BY LimitAssumption DEF ResponseType
  <2>2. clients \in [Client ->
          [request : [fingerprint : Fingerprints, key : Key] \union {NoRequest},
           etag : [Session -> 0..MaxRevision]]]
    BY DEF ClientTypeOK
  <2>3. clients[c].etag \in [Session -> 0..MaxRevision]
    BY <2>2
  <2>4. PICK seen \in [Session -> 0..MaxRevision] :
           seen = [clients[c].etag EXCEPT ![response.session] = response.revision]
    BY <2>1, <2>3
  <2>5. PICK freed : freed = [clients EXCEPT ![c] = [clients[c] EXCEPT !.request = NoRequest]]
    OBVIOUS
  <2>6. /\ freed[c] = [request |-> NoRequest, etag |-> clients[c].etag]
        /\ DOMAIN freed = Client /\ \A d \in Client : d # c => freed[d] = clients[d]
    BY <2>2, <2>5
  <2>7. clients' = [freed EXCEPT ![c].etag = [freed[c].etag EXCEPT ![response.session] = response.revision]]
    BY <1>3, <2>5
  <2>8. freed[c].etag = clients[c].etag
    BY <2>6
  <2>9. clients' = [freed EXCEPT ![c].etag = seen]
    BY <2>4, <2>7, <2>8
  <2>10. [freed[c] EXCEPT !.etag = seen] = [request |-> NoRequest, etag |-> seen]
    BY <2>6
  <2>11. /\ DOMAIN clients' = Client /\ clients' = [d \in Client |-> clients'[d]]
         /\ clients'[c] = [request |-> NoRequest, etag |-> seen]
         /\ \A d \in Client : d # c => clients'[d] = clients[d]
    BY <2>6, <2>9, <2>10
  <2>12. [request |-> NoRequest, etag |-> seen] \in
           [request : [fingerprint : Fingerprints, key : Key] \union {NoRequest},
            etag : [Session -> 0..MaxRevision]]
    OBVIOUS
  <2> QED
    BY <2>2, <2>11, <2>12
<1>7. ClientTypeOK'
  BY <1>3, <1>4, <1>6 DEF ClientTypeOK
<1>8. AcksAreRecorded'
  BY <1>3, <1>5 DEF AcksAreRecorded
<1> QED
  BY <1>7, <1>8

\* A client puts a request on the network with the ETag it last saw.
LEMMA TransmitKeeps ==
    ASSUME ClientTypeOK, AcksAreRecorded, NEW c \in Client, NEW f \in Fingerprints, NEW k \in Key,
           Transmit(c, f, k),
           clients' = clients
             \/ clients' = [clients EXCEPT ![c].request = [fingerprint |-> f, key |-> k]]
    PROVE  ClientTypeOK' /\ AcksAreRecorded'
<1> DEFINE r == [client |-> c, fingerprint |-> f, key |-> k,
                 ifMatch |-> IF f.session = None THEN 0 ELSE clients[c].etag[f.session]]
<1>1. /\ network' = network \union {r}
      /\ UNCHANGED <<idempotency, acks>>
  BY DEF Transmit
<1>2. clients \in [Client ->
        [request : [fingerprint : Fingerprints, key : Key] \union {NoRequest},
         etag : [Session -> 0..MaxRevision]]]
  BY DEF ClientTypeOK
<1>3. (IF f.session = None THEN 0 ELSE clients[c].etag[f.session]) \in 0..MaxRevision
  <2>1. f.session = None \/ f.session \in Session
    BY DEF Fingerprints
  <2> QED
    BY <2>1, <1>2, LimitAssumption
<1>4. r \in [client : Client, fingerprint : Fingerprints, key : Key, ifMatch : 0..MaxRevision]
  BY <1>3
<1> HIDE DEF r
<1>5. clients' \in [Client ->
        [request : [fingerprint : Fingerprints, key : Key] \union {NoRequest},
         etag : [Session -> 0..MaxRevision]]]
  <2>1. [fingerprint |-> f, key |-> k] \in [fingerprint : Fingerprints, key : Key]
    OBVIOUS
  <2>2. PICK asked : asked = [fingerprint |-> f, key |-> k]
    OBVIOUS
  <2>3. CASE clients' = clients
    BY <2>3, <1>2
  <2>4. CASE clients' = [clients EXCEPT ![c].request = asked]
    BY <2>1, <2>2, <2>4, <1>2
  <2> QED
    BY <2>2, <2>3, <2>4
<1>6. ClientTypeOK'
  BY <1>1, <1>4, <1>5 DEF ClientTypeOK
<1> QED
  BY <1>1, <1>6 DEF AcksAreRecorded

\* Every step keeps the inductive invariant.
LEMMA NextKeeps == IInv /\ [Next]_vars => IInv'
<1> SUFFICES ASSUME IInv, [Next]_vars PROVE IInv'
  OBVIOUS
<1>1. StoreIInv /\ StoreTypeOK /\ ClientTypeOK /\ AcksAreRecorded
      /\ failures \in 0..MaxAuditFailures
  BY DEF IInv, StoreIInv, StoreTypeOK
<1>2. ASSUME UNCHANGED <<rows, answerHistory, findings, audit, idempotency, failures>>
      PROVE  StoreIInv'
  BY <1>1, <1>2, StoreUntouched
<1>3. ASSUME NEW c \in Client, NEW s \in Session, Read(c, s) PROVE IInv'
  <2>1. /\ clients' = [clients EXCEPT ![c].etag[s] = rows[s].revision]
        /\ UNCHANGED <<idempotency, network, acks>>
    BY <1>3 DEF Read, Etag
  <2>2. clients \in [Client ->
          [request : [fingerprint : Fingerprints, key : Key] \union {NoRequest},
           etag : [Session -> 0..MaxRevision]]]
        /\ rows[s].revision \in 0..MaxRevision
    BY <1>1 DEF ClientTypeOK, StoreTypeOK, RowType
  <2>3. clients' \in [Client ->
          [request : [fingerprint : Fingerprints, key : Key] \union {NoRequest},
           etag : [Session -> 0..MaxRevision]]]
    BY <2>1, <2>2
  <2>4. ClientTypeOK' /\ AcksAreRecorded'
    BY <1>1, <2>1, <2>3 DEF ClientTypeOK, AcksAreRecorded
  <2> QED
    BY <1>2, <1>3, <2>4 DEF Read, IInv
<1>4. ASSUME NEW c \in Client, NEW f \in Fingerprints, NEW k \in Key, Send(c, f, k) PROVE IInv'
  BY <1>1, <1>2, <1>4, TransmitKeeps DEF Send, Transmit, IInv
<1>5. ASSUME NEW c \in Client, Resend(c) PROVE IInv'
  <2>1. clients[c].request # NoRequest /\ clients' = clients
        /\ Transmit(c, clients[c].request.fingerprint, clients[c].request.key)
    BY <1>5 DEF Resend, Waiting
  <2>2. PICK f \in Fingerprints, k \in Key :
           f = clients[c].request.fingerprint /\ k = clients[c].request.key
    BY <1>1, <2>1 DEF ClientTypeOK
  <2>3. Transmit(c, f, k)
    BY <2>1, <2>2
  <2>4. ClientTypeOK' /\ AcksAreRecorded'
    BY <1>1, <2>1, <2>3, TransmitKeeps
  <2> QED
    BY <1>2, <2>3, <2>4 DEF Transmit, IInv
<1>6. ASSUME NEW c \in Client, GiveUp(c) PROVE IInv'
  <2>1. clients' = [clients EXCEPT ![c].request = NoRequest]
        /\ UNCHANGED <<idempotency, network, acks>>
    BY <1>6 DEF GiveUp
  <2>2. clients \in [Client ->
          [request : [fingerprint : Fingerprints, key : Key] \union {NoRequest},
           etag : [Session -> 0..MaxRevision]]]
    BY <1>1 DEF ClientTypeOK
  <2>3. clients' \in [Client ->
          [request : [fingerprint : Fingerprints, key : Key] \union {NoRequest},
           etag : [Session -> 0..MaxRevision]]]
    BY <2>1, <2>2
  <2>4. ClientTypeOK' /\ AcksAreRecorded'
    BY <1>1, <2>1, <2>3 DEF ClientTypeOK, AcksAreRecorded
  <2> QED
    BY <1>2, <1>6, <2>4 DEF GiveUp, IInv
<1>7. ASSUME NEW r \in network, Execute(r) PROVE IInv'
  <2>1. PICK response : response = idempotency'[r.key].response
    OBVIOUS
  <2>2. Apply(r) /\ Hears(r, response)
    BY <1>7, <2>1 DEF Execute
  <2>3. StoreIInv'
    BY <1>1, <2>2, ApplyKeeps
  <2>4. r.key \in Key /\ idempotency'[r.key].fingerprint = r.fingerprint
        /\ r.fingerprint \in Fingerprints
    BY <1>1, <2>2, ApplyRemembers, RequestType
  <2>5. idempotency'[r.key] \in [fingerprint : Fingerprints, response : ResponseType]
    <3>1. idempotency'[r.key] \in
             [fingerprint : Fingerprints, response : ResponseType] \union {NoRecord}
      BY <2>3, <2>4 DEF StoreIInv, StoreTypeOK
    <3> QED
      BY <3>1, <2>4, NoneAssumption DEF NoRecord
  <2>6. response \in ResponseType
        /\ idempotency'[r.key] = [fingerprint |-> r.fingerprint, response |-> response]
    BY <2>1, <2>4, <2>5
  <2>7. \A x \in acks :
           idempotency'[x.key] = [fingerprint |-> x.fingerprint, response |-> x.response]
    BY <2>2, AcksStayRecorded
  <2>8. ClientTypeOK' /\ AcksAreRecorded'
    BY <1>1, <2>2, <2>6, <2>7, HearsKeeps
  <2> QED
    BY <2>3, <2>8 DEF IInv
<1>8. ASSUME NEW r \in network, Lose(r) PROVE IInv'
  <2>1. Apply(r) /\ UNCHANGED <<network, clients, acks>>
    BY <1>8 DEF Lose, clientVars
  <2>2. StoreIInv'
    BY <1>1, <2>1, ApplyKeeps
  <2>3. \A x \in acks :
           idempotency'[x.key] = [fingerprint |-> x.fingerprint, response |-> x.response]
    BY <2>1, AcksStayRecorded
  <2>4. ClientTypeOK' /\ AcksAreRecorded'
    BY <1>1, <2>1, <2>3 DEF ClientTypeOK, AcksAreRecorded
  <2> QED
    BY <2>2, <2>4 DEF IInv
<1>9. ASSUME NEW r \in network, Replay(r) PROVE IInv'
  <2>1. PICK response : response = idempotency[r.key].response
    OBVIOUS
  <2>2. /\ idempotency[r.key] # NoRecord /\ idempotency[r.key].fingerprint = r.fingerprint
        /\ Hears(r, response) /\ r.key \in Key
        /\ UNCHANGED <<rows, answerHistory, findings, audit, idempotency, failures>>
    BY <1>1, <1>9, <2>1, RequestType DEF Replay, Replays, Known, storeVars
  <2>3. idempotency[r.key] \in [fingerprint : Fingerprints, response : ResponseType]
    BY <1>1, <2>2 DEF StoreTypeOK
  <2>4. response \in ResponseType
        /\ idempotency'[r.key] = [fingerprint |-> r.fingerprint, response |-> response]
    BY <2>1, <2>2, <2>3
  <2>5. \A x \in acks :
           idempotency'[x.key] = [fingerprint |-> x.fingerprint, response |-> x.response]
    BY <1>1, <2>2 DEF AcksAreRecorded
  <2>6. ClientTypeOK' /\ AcksAreRecorded'
    BY <1>1, <2>2, <2>4, <2>5, HearsKeeps
  <2> QED
    BY <1>2, <2>2, <2>6 DEF IInv
<1>10. ASSUME NEW r \in network, Fail(r) PROVE IInv'
  <2>1. /\ failures < MaxAuditFailures /\ failures' = failures + 1
        /\ UNCHANGED <<rows, answerHistory, findings, audit, idempotency>>
        /\ UNCHANGED <<network, clients, acks>>
    BY <1>10 DEF Fail, AuditFails, clientVars
  <2>2. StoreIInv'
    BY <1>1, <2>1, LimitAssumption, StoreUntouched
  <2>3. ClientTypeOK' /\ AcksAreRecorded'
    BY <1>1, <2>1 DEF ClientTypeOK, AcksAreRecorded
  <2> QED
    BY <2>2, <2>3 DEF IInv
<1>11. CASE UNCHANGED vars
  <2>1. ClientTypeOK' /\ AcksAreRecorded'
    BY <1>1, <1>11 DEF vars, ClientTypeOK, AcksAreRecorded
  <2> QED
    BY <1>2, <1>11, <2>1 DEF vars, IInv
<1> QED
  BY <1>3, <1>4, <1>5, <1>6, <1>7, <1>8, <1>9, <1>10, <1>11 DEF Next

\* So the inductive invariant holds always.
LEMMA Inductive == Spec => []IInv
BY InitIInv, NextKeeps, PTL DEF Spec

-----------------------------------------------------------------------------
\* Everything the store keeps, every request under way and everything a client
\* was told has its shape.
THEOREM TypeCorrect == Spec => []TypeOK
<1>1. IInv => TypeOK
  BY DEF IInv, StoreIInv, TypeOK
<1> QED
  BY <1>1, Inductive, PTL

\* The audit trail of a session has exactly one event for each of its
\* revisions, however many requests were lost, repeated or failed.
THEOREM TrailIsComplete == Spec => []TrailComplete
<1>1. IInv => TrailComplete
  BY DEF IInv, StoreIInv
<1> QED
  BY <1>1, Inductive, PTL

\* Every revision of a session was made under exactly one key: a request is
\* applied at most once, however often and however late it is delivered.
THEOREM AppliedAtMostOnce == Spec => []AppliedOnce
<1>1. ASSUME IInv PROVE AppliedOnce
  <2> SUFFICES ASSUME NEW s \in Session, NEW n \in 1..rows[s].revision
               PROVE  Cardinality({k \in Key : /\ Known([key |-> k])
                                               /\ idempotency[k].response.session = s
                                               /\ idempotency[k].response.revision = n}) = 1
    BY DEF AppliedOnce
  <2>1. PICK k \in Key : /\ idempotency[k] # NoRecord
                         /\ idempotency[k].response.session = s
                         /\ idempotency[k].response.revision = n
    BY <1>1 DEF IInv, StoreIInv, KeysMatchRevisions
  <2>2. ASSUME NEW l \in Key, idempotency[l] # NoRecord,
               idempotency[l].response.session = s, idempotency[l].response.revision = n
        PROVE  l = k
    BY <1>1, <2>1, <2>2 DEF IInv, StoreIInv, KeysMatchRevisions
  <2>3. \A l \in Key : Known([key |-> l]) <=> idempotency[l] # NoRecord
    BY DEF Known
  <2>4. {l \in Key : /\ Known([key |-> l])
                     /\ idempotency[l].response.session = s
                     /\ idempotency[l].response.revision = n} = {k}
    BY <2>1, <2>2, <2>3
  <2> QED
    BY <2>4, FS_Singleton
<1> QED
  BY <1>1, Inductive, PTL

\* What a client was told stays true: one answer per key, for a revision the
\* session went through, and saved answers are in its history for good.
THEOREM AcksStayTrue == Spec => []AcksAreStable
<1>1. ASSUME IInv PROVE AcksAreStable
  <2>1. ASSUME NEW x \in acks
        PROVE  /\ x = [fingerprint |-> x.fingerprint, key |-> x.key, response |-> x.response]
               /\ x.key \in Key /\ x.fingerprint \in Fingerprints
               /\ idempotency[x.key] # NoRecord
               /\ idempotency[x.key].fingerprint = x.fingerprint
               /\ idempotency[x.key].response = x.response
    <3>1. /\ x = [fingerprint |-> x.fingerprint, key |-> x.key, response |-> x.response]
          /\ x.key \in Key /\ x.fingerprint \in Fingerprints
      BY <1>1 DEF IInv, ClientTypeOK
    <3>2. idempotency[x.key] = [fingerprint |-> x.fingerprint, response |-> x.response]
      BY <1>1 DEF IInv, AcksAreRecorded
    <3>3. x.fingerprint # None
      BY <3>1, NoneAssumption
    <3> QED
      BY <3>1, <3>2, <3>3 DEF NoRecord
  <2>2. ASSUME NEW x \in acks, NEW y \in acks, x.key = y.key PROVE x = y
    BY <2>1, <2>2
  <2>3. ASSUME NEW x \in acks
        PROVE  x.response.revision \in 1..rows[x.response.session].revision
    BY <1>1, <2>1 DEF IInv, StoreIInv, KeysMatchRevisions
  <2>4. ASSUME NEW x \in acks, x.fingerprint.op = "save"
        PROVE  \E i \in DOMAIN answerHistory[x.fingerprint.session] :
                  answerHistory[x.fingerprint.session][i] =
                    [revision |-> x.response.revision, answers |-> x.fingerprint.body.answers]
    BY <1>1, <2>1, <2>4 DEF IInv, StoreIInv, SavesAreRecorded
  <2> QED
    BY <2>2, <2>3, <2>4 DEF AcksAreStable
<1> QED
  BY <1>1, Inductive, PTL

\* No update is lost: the answers shown are the last ones saved, over any number
\* of saves by any number of clients, and a session is ready only when complete.
THEOREM AnswersStayCurrent == Spec => []AnswersAreCurrent
<1>1. ASSUME IInv PROVE AnswersAreCurrent
  <2>1. ASSUME NEW s \in Session, NEW q \in Question PROVE rows[s].answers[q] = LastSaved(s, q)
    <3> DEFINE saves == {i \in DOMAIN answerHistory[s] : q \in DOMAIN answerHistory[s][i].answers}
    <3>1. CASE saves = {} /\ rows[s].answers[q] = Empty
      BY <3>1 DEF LastSaved
    <3>2. CASE \E i \in saves :
                  /\ \A j \in saves : j <= i
                  /\ rows[s].answers[q] = answerHistory[s][i].answers[q]
      <4>1. PICK i \in saves : /\ \A j \in saves : j <= i
                               /\ rows[s].answers[q] = answerHistory[s][i].answers[q]
        BY <3>2
      <4>2. saves \subseteq Nat
        BY <1>1 DEF IInv, StoreIInv, StoreTypeOK
      <4> HIDE DEF saves
      <4>3. \A k \in saves : (\A j \in saves : j <= k) => k = i
        BY <4>1, <4>2
      <4>4. (CHOOSE k \in saves : \A j \in saves : j <= k) = i
        BY <4>1, <4>3
      <4>5. LastSaved(s, q) = answerHistory[s][CHOOSE k \in saves : \A j \in saves : j <= k].answers[q]
        BY <4>1 DEF LastSaved, saves
      <4> QED
        BY <4>1, <4>4, <4>5
    <3> QED
      BY <1>1, <3>1, <3>2 DEF IInv, StoreIInv, HistoryTellsAnswers
  <2> QED
    BY <1>1, <2>1 DEF IInv, StoreIInv, CompletedIsComplete, AnswersAreCurrent
<1> QED
  BY <1>1, Inductive, PTL

\* The findings of the latest review are those of the answers as they stand.
THEOREM FindingsAreCurrent == Spec => []FindingsExplain
<1>1. IInv => FindingsExplain
  BY DEF IInv, StoreIInv
<1> QED
  BY <1>1, Inductive, PTL

\* A change to a session that exists is the work of one request whose ETag is
\* that of the revision replaced and whose key was new.
LEMMA StepIsNotBlind ==
    ASSUME IInv, [Next]_vars, NEW s \in Session, rows'[s] # rows[s], rows[s] # NoRow
    PROVE  \E r \in network :
              /\ idempotency[r.key] = NoRecord
              /\ idempotency'[r.key].fingerprint = r.fingerprint
              /\ r.fingerprint.session = s
              /\ r.ifMatch = rows[s].revision
<1>1. StoreTypeOK /\ ClientTypeOK
  BY DEF IInv, StoreIInv
<1>2. PICK r \in network : Apply(r)
  <2>1. rows' # rows
    OBVIOUS
  <2> QED
    BY <2>1 DEF Next, Read, Send, Resend, Transmit, GiveUp, Execute, Lose, Replay, Fail, AuditFails,
                storeVars, vars
<1>3. /\ idempotency[r.key] = NoRecord
      /\ idempotency'[r.key].fingerprint = r.fingerprint
  BY <1>1, <1>2, ApplyRemembers DEF Known
<1>4. ASSUME NEW t \in Session, NEW row, NEW event, Commit(t, row, event, r)
      PROVE  t = s
  BY <1>1, <1>4 DEF Commit, StoreTypeOK
<1>5. ~\E t \in Session : Create(r, t)
  BY <1>4 DEF Create
<1>6. CASE SaveAnswers(r)
  <2>1. r.fingerprint.session \in Session
    BY <1>1, <1>6, RequestType DEF SaveAnswers
  <2> QED
    BY <1>3, <1>4, <1>6, <2>1 DEF SaveAnswers, Admissible, Etag
<1>7. CASE Review(r)
  <2>1. r.fingerprint.session \in Session
    BY <1>1, <1>7, RequestType DEF Review
  <2> QED
    BY <1>3, <1>4, <1>7, <2>1 DEF Review, Admissible, Etag
<1> QED
  BY <1>2, <1>5, <1>6, <1>7 DEF Apply

\* No blind write: however late a request is delivered, it replaces only the
\* revision its client had seen.
THEOREM NoWriteIsBlind == Spec => NoBlindWrite
<1>1. IInv /\ [Next]_vars =>
        [\A s \in Session :
           rows'[s] # rows[s] /\ rows[s] # NoRow =>
              \E r \in network :
                  /\ idempotency[r.key] = NoRecord
                  /\ idempotency'[r.key].fingerprint = r.fingerprint
                  /\ r.fingerprint.session = s
                  /\ r.ifMatch = rows[s].revision]_vars
  BY StepIsNotBlind
<1> QED
  BY <1>1, Inductive, PTL DEF Spec, NoBlindWrite
=============================================================================

------------------------ MODULE QuestionnaireSession ------------------------
(***************************************************************************)
(* One tenant's questionnaire sessions behind the request protocol that    *)
(* all the control plane's stores share: an idempotency key with the       *)
(* fingerprint of the request, a strong ETag, and an audit append that     *)
(* must succeed before anything is stored.                                 *)
(*                                                                         *)
(* Clients and the network are external.  A request, once sent, may be     *)
(* delivered late, several times or never, its answer may be lost, and the *)
(* client that hears nothing may send it again with the same key, after    *)
(* reading the session anew or not.                                        *)
(***************************************************************************)
EXTENDS Integers, Sequences, FiniteSets

CONSTANTS
    Client,            \* callers of one organization
    Key,               \* idempotency keys
    Session,           \* session identities
    Question,          \* the questions of the admitted pack
    StageOf,           \* the journey stage a question belongs to
    Required,          \* the questions that must be answered
    LastStage,         \* JOURNEY_STAGES are 1..LastStage
    Value,             \* answer values, the empty one included
    Empty,             \* the value that counts as missing
    AnswerSet,         \* the answer sets clients submit, each of one stage
    None,
    MaxRevision,       \* bound: a session is not changed past this revision
    MaxSends,          \* bound: requests the clients put on the network
    MaxAuditFailures   \* bound: how often the audit append fails

ASSUME StageAssumption    == LastStage \in Nat \ {0} /\ StageOf \in [Question -> 1..LastStage]
ASSUME QuestionAssumption == Required \subseteq Question /\ Empty \in Value
ASSUME AnswerAssumption   ==
    \A b \in AnswerSet :
        /\ DOMAIN b.answers \subseteq {q \in Question : StageOf[q] = b.stage}
        /\ \A q \in DOMAIN b.answers : b.answers[q] \in Value
ASSUME LimitAssumption    ==
    MaxRevision \in Nat \ {0} /\ MaxSends \in Nat /\ MaxAuditFailures \in Nat

VARIABLES
    rows,           \* session rows
    answerHistory,  \* the accepted answer sets of each session, in order
    findings,       \* the findings of each review of a session
    audit,          \* the audit events about each session, in order
    idempotency,    \* what was answered to each key
    failures,       \* audit appends that failed so far
    network,        \* requests that were sent
    sends,          \* how many
    clients,        \* what each client waits for and the ETag it last saw
    acks            \* answers that reached the client that asked

storeVars  == <<rows, answerHistory, findings, audit, idempotency, failures>>
clientVars == <<network, sends, clients, acks>>
vars == <<rows, answerHistory, findings, audit, idempotency, failures,
          network, sends, clients, acks>>

Stages == 1..LastStage

-----------------------------------------------------------------------------
\* Rows.  A revision of 0 is a session that does not exist.

Row(state, revision, answers, current, completed) ==
    [state |-> state, revision |-> revision, answers |-> answers,
     current |-> current, completed |-> completed]

NoRow == Row("ABSENT", 0, [q \in Question |-> Empty], 1, {})

\* A row's ETag is a digest of its id, revision and pack.
Etag(s) == rows[s].revision

\* The required questions of a stage that have no answer.
Missing(answers, stage) == {q \in Required : StageOf[q] = stage /\ answers[q] = Empty}

Completed(answers) == {stage \in Stages : Missing(answers, stage) = {}}

FirstOr(stages, default) ==
    IF stages = {} THEN default ELSE CHOOSE s \in stages : \A t \in stages : s <= t

-----------------------------------------------------------------------------
\* Requests.  The operation, the session and the body make the fingerprint;
\* the ETag does not.

Fingerprints ==
    [op : {"create"}, session : {None}, body : {<<>>}]
      \union [op : {"review"}, session : Session, body : {<<>>}]
      \union [op : {"save"}, session : Session, body : AnswerSet]

ASSUME NoneAssumption == None \notin Session \union Question \union Fingerprints

NoRecord == [fingerprint |-> None, response |-> None]

-----------------------------------------------------------------------------
\* The store.

\* Variants: no event for the change; an answer that shows the row before it.
CommitUnaudited(s, row, event, r) ==
    /\ rows' = [rows EXCEPT ![s] = row]
    /\ idempotency' = [idempotency EXCEPT ![r.key] =
            [fingerprint |-> r.fingerprint,
             response |-> [session |-> s, revision |-> row.revision, state |-> row.state]]]
    /\ UNCHANGED <<audit, failures>>
CommitStaleAnswer(s, row, event, r) ==
    /\ audit' = [audit EXCEPT ![s] = Append(@, [type |-> event, revision |-> row.revision])]
    /\ rows' = [rows EXCEPT ![s] = row]
    /\ idempotency' = [idempotency EXCEPT ![r.key] =
            [fingerprint |-> r.fingerprint,
             response |-> [session |-> s, revision |-> Etag(s), state |-> rows[s].state]]]
    /\ UNCHANGED failures

\* commitAudit, the row and the remembered response: all or nothing.
Commit(s, row, event, r) ==
    /\ audit' = [audit EXCEPT ![s] = Append(@, [type |-> event, revision |-> row.revision])]
    /\ rows' = [rows EXCEPT ![s] = row]
    /\ idempotency' = [idempotency EXCEPT ![r.key] =
            [fingerprint |-> r.fingerprint,
             response |-> [session |-> s, revision |-> row.revision, state |-> row.state]]]
    /\ UNCHANGED failures

\* Variant: no key is ever recognised.
KnownNever(r) == FALSE

\* replay: a known key answers as it did, or refuses another request.
Known(r) == idempotency[r.key] # NoRecord

Replays(r) == Known(r) /\ idempotency[r.key].fingerprint = r.fingerprint

\* Variant: any ETag will do.
AdmissibleUnchecked(r, s) == rows[s].revision > 0

\* requireRow and requireEtag.
Admissible(r, s) == rows[s].revision > 0 /\ r.ifMatch = Etag(s)

Create(r, s) ==
    /\ r.fingerprint.op = "create" /\ ~Known(r)
    /\ rows[s] = NoRow
    /\ Commit(s, Row("DRAFT", 1, NoRow.answers, 1, {}), "created", r)
    /\ UNCHANGED <<answerHistory, findings>>

\* Variant: an emptied answer is taken for one not given.
MergedKeepingAnswered(answers, given) ==
    [q \in Question |-> IF q \in DOMAIN given /\ given[q] # Empty THEN given[q] ELSE answers[q]]

\* The answers given replace those of the same questions; the rest stay.
Merged(answers, given) ==
    [q \in Question |-> IF q \in DOMAIN given THEN given[q] ELSE answers[q]]

SaveAnswers(r) ==
    LET s == r.fingerprint.session
        given == r.fingerprint.body.answers
        answers == Merged(rows[s].answers, given)
        row == Row("IN_PROGRESS", rows[s].revision + 1, answers,
                   FirstOr(Stages \ Completed(answers), LastStage), Completed(answers))
    IN /\ r.fingerprint.op = "save" /\ ~Known(r) /\ Admissible(r, s)
       /\ rows[s].revision < MaxRevision
       /\ Commit(s, row, "answers.saved", r)
       /\ answerHistory' = [answerHistory EXCEPT ![s] =
                Append(@, [revision |-> row.revision, answers |-> given])]
       /\ UNCHANGED findings

\* Variant: one completed stage is enough.
ReviewedLeniently(row) ==
    Row(IF row.completed # {} THEN "READY_FOR_COMPILATION" ELSE "BLOCKED",
        row.revision + 1, row.answers, LastStage, row.completed)

\* A blocked session goes back to the first stage with something missing, a
\* ready one to the last.
Reviewed(row) ==
    LET unanswered == {q \in Required : row.answers[q] = Empty}
    IN Row(IF unanswered = {} THEN "READY_FOR_COMPILATION" ELSE "BLOCKED",
           row.revision + 1, row.answers,
           FirstOr({StageOf[q] : q \in unanswered}, LastStage),
           IF unanswered = {} THEN Stages ELSE row.completed)

\* A finding names the question that is missing, or none when all is there.
Review(r) ==
    LET s == r.fingerprint.session
        row == Reviewed(rows[s])
        unanswered == {q \in Required : rows[s].answers[q] = Empty}
        subjects == IF unanswered = {} THEN {None} ELSE unanswered
    IN /\ r.fingerprint.op = "review" /\ ~Known(r) /\ Admissible(r, s)
       /\ rows[s].revision < MaxRevision
       /\ Commit(s, row, "reviewed", r)
       /\ findings' = [findings EXCEPT ![s] =
                @ \union {[revision |-> row.revision, question |-> q] : q \in subjects}]
       /\ UNCHANGED answerHistory

Apply(r) == (\E s \in Session : Create(r, s)) \/ SaveAnswers(r) \/ Review(r)

\* The audit append throws before anything was stored: 503.
AuditFails(r) ==
    /\ ~Known(r)
    /\ r.fingerprint.op # "create" => Admissible(r, r.fingerprint.session)
    /\ failures < MaxAuditFailures
    /\ failures' = failures + 1
    /\ UNCHANGED <<rows, answerHistory, findings, audit, idempotency>>

-----------------------------------------------------------------------------
\* Clients and the network (external).

NoRequest == [fingerprint |-> None, key |-> None]

Waiting(c) == clients[c].request # NoRequest

\* The client that waits for the answer hears it, with the ETag it carries.
Hears(r, response) ==
    LET c == r.client
    IN /\ clients[c].request = [fingerprint |-> r.fingerprint, key |-> r.key]
       /\ clients' = [clients EXCEPT ![c].request = NoRequest,
                                     ![c].etag[response.session] = response.revision]
       /\ acks' = acks \union
            {[fingerprint |-> r.fingerprint, key |-> r.key, response |-> response]}
       /\ UNCHANGED <<network, sends>>

\* A GET: the client learns the current ETag.
Read(c, s) ==
    /\ rows[s].revision > 0 /\ clients[c].etag[s] # Etag(s)
    /\ clients' = [clients EXCEPT ![c].etag[s] = Etag(s)]
    /\ UNCHANGED <<rows, answerHistory, findings, audit, idempotency, failures,
                   network, sends, acks>>

Transmit(c, fingerprint, key) ==
    /\ sends < MaxSends
    /\ sends' = sends + 1
    /\ network' = network \union
          {[client |-> c, fingerprint |-> fingerprint, key |-> key,
            ifMatch |-> IF fingerprint.session = None THEN 0
                        ELSE clients[c].etag[fingerprint.session]]}
    /\ UNCHANGED <<rows, answerHistory, findings, audit, idempotency, failures, acks>>

Send(c, fingerprint, key) ==
    /\ ~Waiting(c)
    /\ fingerprint.session # None => clients[c].etag[fingerprint.session] > 0
    /\ Transmit(c, fingerprint, key)
    /\ clients' = [clients EXCEPT ![c].request = [fingerprint |-> fingerprint, key |-> key]]

Resend(c) ==
    /\ Waiting(c)
    /\ Transmit(c, clients[c].request.fingerprint, clients[c].request.key)
    /\ UNCHANGED clients

GiveUp(c) ==
    /\ Waiting(c)
    /\ clients' = [clients EXCEPT ![c].request = NoRequest]
    /\ UNCHANGED <<rows, answerHistory, findings, audit, idempotency, failures,
                   network, sends, acks>>

\* A request arrives.  A refusal changes neither side, so the steps are a
\* fresh execution whose answer arrives or is lost, a replay that is heard, and
\* an audit append that fails.
Execute(r) == Apply(r) /\ Hears(r, idempotency'[r.key].response)
Lose(r)    == Apply(r) /\ UNCHANGED clientVars
Replay(r)  == Replays(r) /\ Hears(r, idempotency[r.key].response) /\ UNCHANGED storeVars
Fail(r)    == AuditFails(r) /\ UNCHANGED clientVars

-----------------------------------------------------------------------------
Init ==
    /\ rows = [s \in Session |-> NoRow]
    /\ answerHistory = [s \in Session |-> <<>>]
    /\ findings = [s \in Session |-> {}]
    /\ audit = [s \in Session |-> <<>>]
    /\ idempotency = [k \in Key |-> NoRecord]
    /\ failures = 0
    /\ network = {}
    /\ sends = 0
    /\ clients = [c \in Client |-> [request |-> NoRequest, etag |-> [s \in Session |-> 0]]]
    /\ acks = {}

Next ==
    \/ \E c \in Client, s \in Session : Read(c, s)
    \/ \E c \in Client, f \in Fingerprints, k \in Key : Send(c, f, k)
    \/ \E c \in Client : Resend(c) \/ GiveUp(c)
    \/ \E r \in network : Execute(r) \/ Lose(r) \/ Replay(r) \/ Fail(r)

Spec == Init /\ [][Next]_vars

-----------------------------------------------------------------------------
\* Properties.

States == {"ABSENT", "DRAFT", "IN_PROGRESS", "BLOCKED", "READY_FOR_COMPILATION"}

RowType == [state : States, revision : 0..MaxRevision, answers : [Question -> Value],
            current : Stages, completed : SUBSET Stages]

ResponseType == [session : Session, revision : 1..MaxRevision, state : States]

EventType == [type : {"created", "answers.saved", "reviewed"}, revision : 1..MaxRevision]

SavedType == [revision : 2..MaxRevision, answers : {b.answers : b \in AnswerSet}]

FindingType == [revision : 2..MaxRevision, question : Question \union {None}]

\* The shape of what the store keeps.
StoreTypeOK ==
    /\ rows \in [Session -> RowType]
    /\ answerHistory \in [Session -> Seq(SavedType)]
    /\ findings \in [Session -> SUBSET FindingType]
    /\ audit \in [Session -> Seq(EventType)]
    /\ idempotency \in
          [Key -> [fingerprint : Fingerprints, response : ResponseType] \union {NoRecord}]
    /\ failures \in 0..MaxAuditFailures

\* The shape of what is under way and of what the clients know.
ClientTypeOK ==
    /\ network \subseteq [client : Client, fingerprint : Fingerprints, key : Key,
                          ifMatch : 0..MaxRevision]
    /\ clients \in [Client ->
          [request : [fingerprint : Fingerprints, key : Key] \union {NoRequest},
           etag : [Session -> 0..MaxRevision]]]
    /\ acks \subseteq [fingerprint : Fingerprints, key : Key, response : ResponseType]

TypeOK == StoreTypeOK /\ ClientTypeOK

\* The audit trail and the row tell one story: one event for each revision, so
\* no request was applied twice, none half, and none without its event.
TrailComplete ==
    \A s \in Session :
        /\ Len(audit[s]) = rows[s].revision
        /\ \A i \in DOMAIN audit[s] : audit[s][i].revision = i

\* However often a request was delivered, it was applied at most once: the
\* keys in the record and the revisions of the sessions are one to one.
AppliedOnce ==
    \A s \in Session : \A n \in 1..rows[s].revision :
        Cardinality({k \in Key : /\ Known([key |-> k])
                                 /\ idempotency[k].response.session = s
                                 /\ idempotency[k].response.revision = n}) = 1

\* What a client was told stays true: every answer to one key and request is
\* the same answer, and the session really went through the revision it names.
AcksAreStable ==
    /\ \A x, y \in acks : x.key = y.key => x = y
    /\ \A x \in acks :
          /\ x.response.revision \in 1..rows[x.response.session].revision
          /\ x.fingerprint.op = "save" =>
                \E i \in DOMAIN answerHistory[x.fingerprint.session] :
                    answerHistory[x.fingerprint.session][i] =
                      [revision |-> x.response.revision, answers |-> x.fingerprint.body.answers]

\* The last value saved for a question, over the whole history.
LastSaved(s, q) ==
    LET saves == {i \in DOMAIN answerHistory[s] : q \in DOMAIN answerHistory[s][i].answers}
    IN IF saves = {} THEN Empty
       ELSE answerHistory[s][CHOOSE i \in saves : \A j \in saves : j <= i].answers[q]

\* No lost update: the answers are those of the history, the stages shown as
\* completed have nothing missing, and a session is ready only when complete,
\* although saves may empty an answer after a review had passed.
AnswersAreCurrent ==
    \A s \in Session :
        /\ \A q \in Question : rows[s].answers[q] = LastSaved(s, q)
        /\ \A stage \in rows[s].completed : Missing(rows[s].answers, stage) = {}
        /\ rows[s].state = "READY_FOR_COMPILATION" =>
              \A q \in Required : rows[s].answers[q] # Empty

\* No blind write: the request that a change answers carried the ETag of the
\* very revision it replaces, however late it was delivered.
NoBlindWrite ==
    [][\A s \in Session :
         rows'[s] # rows[s] /\ rows[s] # NoRow =>
            \E r \in network :
                /\ idempotency[r.key] = NoRecord
                /\ idempotency'[r.key].fingerprint = r.fingerprint
                /\ r.fingerprint.session = s
                /\ r.ifMatch = rows[s].revision]_vars

\* The findings of the latest review name exactly the required questions that
\* are still unanswered, or say that nothing is.
FindingsExplain ==
    \A s \in Session :
        /\ rows[s].state = "BLOCKED" =>
              {f.question : f \in {g \in findings[s] : g.revision = rows[s].revision}}
                = {q \in Required : rows[s].answers[q] = Empty}
        /\ rows[s].state = "READY_FOR_COMPILATION" =>
              [revision |-> rows[s].revision, question |-> None] \in findings[s]

\* The keys in the record and the revisions of the sessions, one to one.
KeysMatchRevisions ==
    /\ \A k \in Key : idempotency[k] # NoRecord =>
          idempotency[k].response.revision \in 1..rows[idempotency[k].response.session].revision
    /\ \A s \in Session : \A n \in 1..rows[s].revision : \E k \in Key :
          /\ idempotency[k] # NoRecord
          /\ idempotency[k].response.session = s
          /\ idempotency[k].response.revision = n
    /\ \A k, l \in Key :
          /\ idempotency[k] # NoRecord /\ idempotency[l] # NoRecord
          /\ idempotency[k].response.session = idempotency[l].response.session
          /\ idempotency[k].response.revision = idempotency[l].response.revision
          => k = l

\* What a key that saved answers stands for is in the history.
SavesAreRecorded ==
    \A k \in Key : idempotency[k] # NoRecord /\ idempotency[k].fingerprint.op = "save" =>
        \E i \in DOMAIN answerHistory[idempotency[k].fingerprint.session] :
            answerHistory[idempotency[k].fingerprint.session][i] =
                [revision |-> idempotency[k].response.revision,
                 answers |-> idempotency[k].fingerprint.body.answers]

\* Each answer is the one of the last save that gave it, or was never given.
HistoryTellsAnswers ==
    \A s \in Session, q \in Question :
        LET saves == {i \in DOMAIN answerHistory[s] : q \in DOMAIN answerHistory[s][i].answers}
        IN \/ saves = {} /\ rows[s].answers[q] = Empty
           \/ \E i \in saves :
                 /\ \A j \in saves : j <= i
                 /\ rows[s].answers[q] = answerHistory[s][i].answers[q]

\* What is shown as completed is, and a ready session has nothing missing.
CompletedIsComplete ==
    \A s \in Session :
        /\ \A stage \in rows[s].completed : Missing(rows[s].answers, stage) = {}
        /\ rows[s].state = "READY_FOR_COMPILATION" =>
              \A q \in Required : rows[s].answers[q] # Empty

\* No finding is of a revision still to come.
FindingsAreOld == \A s \in Session : \A f \in findings[s] : f.revision <= rows[s].revision

\* What a client heard is what the store remembers for the key.
AcksAreRecorded ==
    \A x \in acks : idempotency[x.key] = [fingerprint |-> x.fingerprint, response |-> x.response]

\* The inductive invariant behind the proofs: the store's part, then the clients'.
StoreIInv ==
    /\ StoreTypeOK
    /\ TrailComplete
    /\ KeysMatchRevisions
    /\ SavesAreRecorded
    /\ HistoryTellsAnswers
    /\ CompletedIsComplete
    /\ FindingsAreOld
    /\ FindingsExplain

IInv == StoreIInv /\ ClientTypeOK /\ AcksAreRecorded
=============================================================================

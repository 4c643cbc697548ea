----------------------- MODULE StatusProjectionProofs -----------------------
(***************************************************************************)
(* Proofs about StatusProjection, for any organizations, sources, events,  *)
(* harnesses and planes, and whatever the sources report.                  *)
(***************************************************************************)
EXTENDS StatusProjection, FiniteSetTheorems, TLAPS

-----------------------------------------------------------------------------
\* Events are admitted in sequence.

\* The event of an applied summary is a new one and takes the next number.
LEMMA AppliedIsNext ==
    ASSUME TypeOK, NEW s \in Summary, Ingest(s)
    PROVE  /\ s.org \in Org /\ s.source \in Source /\ s.event \in Event
           /\ s.snapshot \in Snapshot /\ s.cursor \in Nat
           /\ events[s.event] = None /\ Content(s) \in ContentType /\ Content(s) # None
           /\ s.sequence = cursors[s.org][s.source].sequence + 1
           /\ s.cursor > cursors[s.org][s.source].cursor
           /\ cursors[s.org][s.source] \in CursorType
           /\ projections[s.org] # None => s.snapshot.binding = projections[s.org].binding
<1>1. /\ s.org \in Org /\ s.source \in Source /\ s.event \in Event
      /\ s.snapshot \in Snapshot /\ s.cursor \in Nat /\ s.sequence \in 1..MaxSequence
  BY BoundAssumption DEF Summary
<1>2. Content(s) \in ContentType /\ Content(s) # None
  BY <1>1, NamesAssumption DEF Content, ContentType
<1>3. events[s.event] = None /\ Follows(s) /\ SameBinding(s)
  BY DEF Ingest, Verdict
<1>4. cursors[s.org][s.source] \in CursorType
  BY <1>1 DEF TypeOK
<1> QED
  BY <1>1, <1>2, <1>3, <1>4 DEF Follows, SameBinding

\* What it does to the store's maps.
LEMMA AppliedWrites ==
    ASSUME TypeOK, NEW s \in Summary, Ingest(s)
    PROVE  /\ projections'[s.org] = s.snapshot
           /\ cursors'[s.org][s.source] = Applied(s)
           /\ events'[s.event] = Content(s)
           /\ \A e \in Event \ {s.event} : events'[e] = events[e]
           /\ \A org \in Org \ {s.org} :
                 projections'[org] = projections[org] /\ cursors'[org] = cursors[org]
           /\ \A source \in Source \ {s.source} :
                 cursors'[s.org][source] = cursors[s.org][source]
           /\ TypeOK'
<1>1. /\ s.org \in Org /\ s.source \in Source /\ s.event \in Event
      /\ s.snapshot \in Snapshot /\ Content(s) \in ContentType
  BY AppliedIsNext
<1>2. Applied(s) \in CursorType
  <2>1. s.sequence \in Nat /\ s.cursor \in Nat /\ s.event \in Event
    BY BoundAssumption DEF Summary
  <2> QED
    BY <2>1 DEF Applied, CursorRow, CursorType
<1>3. /\ projections' = [projections EXCEPT ![s.org] = s.snapshot]
      /\ cursors' = [cursors EXCEPT ![s.org][s.source] = Applied(s)]
      /\ events' = [events EXCEPT ![s.event] = Content(s)]
      /\ unavailable' = [unavailable EXCEPT ![s.org] = @ \ {s.source}]
      /\ now' = now
  BY DEF Ingest
<1>4. /\ projections \in [Org -> Snapshot \union {None}]
      /\ cursors \in [Org -> [Source -> CursorType]]
      /\ events \in [Event -> ContentType \union {None}]
      /\ unavailable \in [Org -> SUBSET Source]
      /\ now \in Nat
  BY DEF TypeOK
<1>5. /\ projections' \in [Org -> Snapshot \union {None}]
      /\ cursors' \in [Org -> [Source -> CursorType]]
      /\ events' \in [Event -> ContentType \union {None}]
      /\ unavailable' \in [Org -> SUBSET Source]
      /\ now' \in Nat
  BY <1>1, <1>2, <1>3, <1>4
<1>6. TypeOK'
  BY <1>5 DEF TypeOK
<1> QED
  BY <1>1, <1>3, <1>4, <1>6

\* The admitted events of its source grow by it, those of all others stay.
LEMMA AdmittedGrows ==
    ASSUME TypeOK, NEW s \in Summary, Ingest(s), NEW org \in Org, NEW source \in Source
    PROVE  /\ s.event \notin Admitted(org, source)
           /\ Admitted(org, source)' =
                IF org = s.org /\ source = s.source
                  THEN Admitted(org, source) \union {s.event} ELSE Admitted(org, source)
           /\ \A e \in Admitted(org, source) : events'[e] = events[e]
<1>1. /\ s.event \in Event /\ events[s.event] = None /\ Content(s) # None
      /\ events'[s.event] = Content(s)
      /\ \A e \in Event \ {s.event} : events'[e] = events[e]
  BY AppliedIsNext, AppliedWrites
<1>2. Content(s).org = s.org /\ Content(s).source = s.source
  BY DEF Content
<1> QED
  BY <1>1, <1>2 DEF Admitted

LEMMA IngestKeeps ==
    ASSUME IInv, NEW s \in Summary, Ingest(s)
    PROVE  IInv'
<1>t. TypeOK
  BY DEF IInv
<1>1. /\ s.org \in Org /\ s.source \in Source /\ s.event \in Event
      /\ events[s.event] = None /\ Content(s) # None
      /\ s.sequence = cursors[s.org][s.source].sequence + 1
      /\ cursors[s.org][s.source].sequence \in Nat
  BY <1>t, AppliedIsNext DEF CursorType
<1>2. /\ Content(s).sequence = s.sequence /\ Content(s).snapshot = s.snapshot
      /\ Applied(s).sequence = s.sequence /\ Applied(s).event = s.event
  BY DEF Content, Applied, CursorRow
<1>3. /\ s.event # None /\ s.snapshot # None
      /\ None \notin Event
  BY <1>1, <1>t, AppliedIsNext, NamesAssumption
<1>4. ASSUME NEW org \in Org, NEW source \in Source
      PROVE  /\ Numbered(org, source)'
             /\ IsFiniteSet(Admitted(org, source))'
             /\ (cursors[org][source].event # None =>
                    cursors[org][source].event \in Admitted(org, source))'
  <2>1. /\ Numbered(org, source)
        /\ IsFiniteSet(Admitted(org, source))
        /\ cursors[org][source].event # None => cursors[org][source].event \in Admitted(org, source)
    BY <1>4 DEF IInv, EventsSequential
  <2> DEFINE admitted == Admitted(org, source)
             last == cursors[org][source]
  <2>2. /\ s.event \notin admitted
        /\ admitted' = IF org = s.org /\ source = s.source
                         THEN admitted \union {s.event} ELSE admitted
        /\ \A e \in admitted : events'[e] = events[e]
    BY <1>t, AdmittedGrows
  <2>3. CASE org = s.org /\ source = s.source
    <3>1. /\ last' = Applied(s) /\ events'[s.event] = Content(s)
          /\ admitted' = admitted \union {s.event}
      BY <1>t, <2>2, <2>3, AppliedWrites
    <3>2. /\ {events[e].sequence : e \in admitted} = 1..last.sequence
          /\ Cardinality(admitted) = last.sequence
      BY <2>1 DEF Numbered
    <3>3. {events'[e].sequence : e \in admitted'} =
             {events[e].sequence : e \in admitted} \union {s.sequence}
      <4>1. /\ \A e \in admitted : events'[e].sequence = events[e].sequence
            /\ events'[s.event].sequence = s.sequence
        BY <1>2, <2>2, <3>1
      <4>2. {events'[e].sequence : e \in admitted'} =
               {events'[e].sequence : e \in admitted \union {s.event}}
        BY <3>1
      <4>3. {events'[e].sequence : e \in admitted \union {s.event}} =
               {events[e].sequence : e \in admitted} \union {s.sequence}
        <5> HIDE DEF admitted
        <5> QED
          BY <4>1
      <4> HIDE DEF admitted
      <4> QED
        BY <4>2, <4>3, Zenon
    <3>4. {events'[e].sequence : e \in admitted'} = 1..last'.sequence
      <4>1. last'.sequence = last.sequence + 1 /\ s.sequence = last.sequence + 1
        BY <1>1, <1>2, <2>3, <3>1
      <4>2. 1..last.sequence \union {last.sequence + 1} = 1..(last.sequence + 1)
        BY <1>1, <2>3
      <4> HIDE DEF admitted, last
      <4> QED
        BY <3>2, <3>3, <4>1, <4>2, Zenon
    <3>5. IsFiniteSet(admitted') /\ Cardinality(admitted') = last'.sequence
      BY <1>1, <1>2, <2>1, <2>2, <2>3, <3>1, <3>2, FS_AddElement
    <3>6. last'.event \in admitted' /\ events'[last'.event].sequence = last'.sequence
      BY <1>2, <3>1
    <3> HIDE DEF admitted, last
    <3> QED
      BY <3>4, <3>5, <3>6 DEF Numbered, admitted, last
  <2>4. CASE ~(org = s.org /\ source = s.source)
    <3>1. last' = last /\ admitted' = admitted
      BY <1>t, <1>1, <2>2, <2>4, AppliedWrites
    <3>2. {events'[e].sequence : e \in admitted'} = {events[e].sequence : e \in admitted}
      BY <2>2, <3>1
    <3>3. /\ {events[e].sequence : e \in admitted} = 1..last.sequence
          /\ Cardinality(admitted) = last.sequence
          /\ admitted # {} => last.event \in admitted /\ events[last.event].sequence = last.sequence
      BY <2>1 DEF Numbered
    <3>4. admitted' # {} => /\ last'.event \in admitted'
                            /\ events'[last'.event].sequence = last'.sequence
      BY <2>2, <3>1, <3>3
    <3> HIDE DEF admitted, last
    <3> QED
      BY <2>1, <3>1, <3>2, <3>3, <3>4 DEF Numbered, admitted, last
  <2> QED
    BY <2>3, <2>4
<1>5. ASSUME NEW org \in Org
      PROVE  Projected(org)'
  <2>1. CASE org = s.org
    <3>1. /\ projections'[org] = s.snapshot /\ cursors'[org][s.source] = Applied(s)
          /\ events'[s.event] = Content(s)
      BY <1>t, <2>1, AppliedWrites
    <3> QED
      BY <1>1, <1>2, <1>3, <3>1 DEF Projected
  <2>2. CASE org # s.org
    <3>1. projections'[org] = projections[org] /\ cursors'[org] = cursors[org]
      BY <1>t, <2>2, AppliedWrites
    <3>2. SUFFICES ASSUME projections[org] # None
                   PROVE  \E source \in Source :
                            /\ cursors[org][source].event # None
                            /\ projections[org] = events'[cursors[org][source].event].snapshot
      BY <3>1 DEF Projected
    <3>3. PICK source \in Source :
             /\ cursors[org][source].event # None
             /\ projections[org] = events[cursors[org][source].event].snapshot
      BY <3>2 DEF IInv, EventsSequential, Projected
    <3>4. cursors[org][source].event \in Admitted(org, source)
      BY <3>3 DEF IInv
    <3>5. events'[cursors[org][source].event] = events[cursors[org][source].event]
      BY <1>t, <3>4, AdmittedGrows
    <3> QED
      BY <3>3, <3>5
  <2> QED
    BY <2>1, <2>2
<1>6. TypeOK'
  BY <1>t, AppliedWrites
<1> QED
  BY <1>4, <1>5, <1>6 DEF IInv, EventsSequential

LEMMA InitIInv == Init => IInv
<1> SUFFICES ASSUME Init PROVE IInv
  OBVIOUS
<1>1. NoCursor \in CursorType /\ NoCursor.sequence = 0 /\ NoCursor.event = None
  BY DEF NoCursor, CursorRow, CursorType
<1>2. TypeOK
  BY <1>1 DEF Init, TypeOK
<1>3. ASSUME NEW org \in Org, NEW source \in Source
      PROVE  Admitted(org, source) = {} /\ cursors[org][source] = NoCursor
  BY DEF Init, Admitted
<1>4. ASSUME NEW org \in Org, NEW source \in Source
      PROVE  Numbered(org, source)
  <2>1. {events[e].sequence : e \in {}} = {}
    OBVIOUS
  <2>2. 1..0 = {}
    OBVIOUS
  <2> QED
    BY <1>1, <1>3, <2>1, <2>2, FS_EmptySet DEF Numbered
<1>5. \A org \in Org : Projected(org)
  BY DEF Init, Projected
<1> QED
  BY <1>1, <1>2, <1>3, <1>4, <1>5, FS_EmptySet DEF IInv, EventsSequential

LEMMA NextKeeps == IInv /\ [Next]_vars => IInv'
<1> SUFFICES ASSUME IInv, [Next]_vars PROVE IInv'
  OBVIOUS
<1>1. CASE \E s \in Summary : Ingest(s)
  BY <1>1, IngestKeeps
<1>2. ASSUME UNCHANGED <<projections, cursors, events>>, TypeOK'
      PROVE  IInv'
  <2>1. \A org \in Org, source \in Source : Admitted(org, source)' = Admitted(org, source)
    BY <1>2 DEF Admitted
  <2>2. \A org \in Org, source \in Source : Numbered(org, source)' = Numbered(org, source)
    BY <1>2, <2>1 DEF Numbered
  <2>3. \A org \in Org : Projected(org)' = Projected(org)
    BY <1>2 DEF Projected
  <2> QED
    BY <1>2, <2>1, <2>2, <2>3 DEF IInv, EventsSequential
<1>3. CASE \E org \in Org, source \in Source : MarkSourceUnavailable(org, source)
  BY <1>2, <1>3 DEF MarkSourceUnavailable, IInv, TypeOK
<1>4. CASE Tick
  BY <1>2, <1>4 DEF Tick, IInv, TypeOK
<1>5. CASE UNCHANGED vars
  BY <1>2, <1>5 DEF vars, IInv, TypeOK
<1> QED
  BY <1>1, <1>3, <1>4, <1>5 DEF Next

LEMMA Inductive == Spec => []IInv
BY InitIInv, NextKeeps, PTL DEF Spec

\* The four maps of the store keep their shape.
THEOREM TypeCorrect == Spec => []TypeOK
<1>1. IInv => TypeOK
  BY DEF IInv
<1> QED
  BY <1>1, Inductive, PTL

\* However summaries of any number of sources are interleaved, repeated and
\* reordered, those admitted are numbered without gap or repetition, and what
\* is projected is the last one of some source.
THEOREM EventsStaySequential == Spec => []EventsSequential
<1>1. IInv => EventsSequential
  BY DEF IInv
<1> QED
  BY <1>1, Inductive, PTL

\* What is shown changes only by news, and only news brings a source back.
THEOREM OnlyNewsIsShown == Spec => OnlyNewsCounts
<1>1. ASSUME IInv, [Next]_vars PROVE NewsStep \/ UNCHANGED vars
  <2>t. TypeOK
    BY <1>1 DEF IInv
  <2>1. ASSUME NEW s \in Summary, Ingest(s), NEW org \in Org
        PROVE  \/ /\ projections'[org] = projections[org]
                  /\ cursors'[org] = cursors[org]
                  /\ unavailable[org] \subseteq unavailable'[org]
               \/ \E e \in Event, source \in Source : News(org, e, source)
    <3>1. unavailable' = [unavailable EXCEPT ![s.org] = @ \ {s.source}]
      BY <2>1 DEF Ingest
    <3>2. CASE org # s.org
      BY <2>t, <2>1, <3>1, <3>2, AppliedWrites DEF TypeOK
    <3>3. CASE org = s.org
      <4>1. /\ s.event \in Event /\ s.source \in Source
            /\ events[s.event] = None /\ events'[s.event] = Content(s) /\ Content(s) # None
            /\ projections'[org] = s.snapshot /\ cursors'[org][s.source] = Applied(s)
            /\ s.sequence = cursors[org][s.source].sequence + 1
            /\ s.cursor > cursors[org][s.source].cursor
            /\ projections[org] # None => s.snapshot.binding = projections[org].binding
            /\ \A source \in Source \ {s.source} : cursors'[org][source] = cursors[org][source]
        BY <2>t, <2>1, <3>3, AppliedIsNext, AppliedWrites
      <4>2. unavailable'[org] = unavailable[org] \ {s.source}
        BY <2>t, <3>1, <3>3 DEF TypeOK
      <4>3. News(org, s.event, s.source)
        BY <3>3, <4>1, <4>2 DEF News, Content, Applied, CursorRow
      <4> QED
        BY <4>1, <4>3
    <3> QED
      BY <3>2, <3>3
  <2>2. ASSUME NEW org \in Org, NEW source \in Source, MarkSourceUnavailable(org, source)
        PROVE  NewsStep
    BY <2>t, <2>2 DEF MarkSourceUnavailable, NewsStep, TypeOK
  <2> QED
    BY <1>1, <2>1, <2>2 DEF Next, NewsStep, Tick
<1> QED
  BY <1>1, Inductive, PTL DEF Spec, OnlyNewsCounts

-----------------------------------------------------------------------------
\* What the derivations make of an admitted snapshot.

\* The worst of some states is one of them, and each reading that matters is
\* decided by which states are there.
LEMMA WorstReads ==
    ASSUME NEW states \in SUBSET AggregateState
    PROVE  /\ Worst(states) \in AggregateState
           /\ Worst(states) = "EMPTY" <=> states \subseteq {"EMPTY"}
           /\ Worst(states) = "READY" <=> "READY" \in states /\ states \subseteq {"EMPTY", "READY"}
           /\ Worst(states) = "REVOKED" <=> "REVOKED" \in states
           /\ Worst(states) = "FAILED" <=> "FAILED" \in states /\ "REVOKED" \notin states
<1>1. CASE states = {}
  BY <1>1 DEF Worst, AggregateState
<1>2. CASE states # {}
  <2> DEFINE Highest(state) == \A other \in states : Rank[other] <= Rank[state]
  <2>1. /\ Rank["EMPTY"] = 0 /\ Rank["READY"] = 1 /\ Rank["DEGRADED"] = 2
        /\ Rank["BLOCKED"] = 3 /\ Rank["FAILED"] = 4 /\ Rank["REVOKED"] = 5
    BY DEF Rank
  <2>2. \E state \in states : Highest(state)
    <3>1. CASE "REVOKED" \in states
      BY <2>1, <3>1 DEF AggregateState
    <3>2. CASE "FAILED" \in states /\ "REVOKED" \notin states
      BY <2>1, <3>2 DEF AggregateState
    <3>3. CASE "BLOCKED" \in states /\ states \intersect {"FAILED", "REVOKED"} = {}
      BY <2>1, <3>3 DEF AggregateState
    <3>4. CASE "DEGRADED" \in states /\ states \intersect {"BLOCKED", "FAILED", "REVOKED"} = {}
      BY <2>1, <3>4 DEF AggregateState
    <3>5. CASE states \subseteq {"EMPTY", "READY"}
      <4>1. CASE "READY" \in states
        BY <2>1, <3>5, <4>1
      <4>2. CASE "READY" \notin states
        <5>1. states = {"EMPTY"}
          BY <1>2, <3>5, <4>2
        <5>2. Highest("EMPTY")
          BY <2>1, <5>1
        <5> QED
          BY <5>1, <5>2
      <4> QED
        BY <4>1, <4>2
    <3> QED
      BY <3>1, <3>2, <3>3, <3>4, <3>5 DEF AggregateState
  <2>3. PICK worst \in states : Worst(states) = worst /\ Highest(worst)
    BY <1>2, <2>2 DEF Worst
  <2> QED
    BY <2>1, <2>3 DEF AggregateState
<1> QED
  BY <1>1, <1>2

\* A selected harness is shown ready, revoked or failed for its facts and its
\* freshness alone.
LEMMA AggregateReads ==
    ASSUME NEW facts \in Facts, facts.selection \in {"SELECTED", "BLOCKED"},
           NEW freshness
    PROVE  LET state == Aggregate(facts, freshness)
           IN /\ state \in AggregateState \ {"EMPTY"}
              /\ state = "READY" <=> Fine(facts) /\ freshness = "CURRENT"
              /\ state = "REVOKED" <=> facts.installation = "REVOKED"
              /\ state = "FAILED" <=> /\ facts.installation # "REVOKED"
                                      /\ facts.installation = "FAILED" \/ "FAIL" \in facts.required
<1>1. /\ facts.required \subseteq EvidenceState /\ facts.other \subseteq EvidenceState
      /\ facts.installation \in {"READY", "DEGRADED", "FAILED", "REVOKED", "APPLYING"}
  BY DEF Facts
<1>2. Aggregate(facts, freshness) \in AggregateState \ {"EMPTY"}
  BY DEF Aggregate, AggregateState
<1>3. Aggregate(facts, freshness) = "REVOKED" <=> facts.installation = "REVOKED"
  BY DEF Aggregate
<1>4. Aggregate(facts, freshness) = "FAILED" <=>
         /\ facts.installation # "REVOKED"
         /\ facts.installation = "FAILED" \/ "FAIL" \in facts.required
  BY DEF Aggregate
<1>5. ASSUME Aggregate(facts, freshness) = "READY"
      PROVE  Fine(facts) /\ freshness = "CURRENT"
  BY <1>1, <1>5 DEF Aggregate, Fine, EvidenceState
<1>6. ASSUME Fine(facts), freshness = "CURRENT"
      PROVE  Aggregate(facts, freshness) = "READY"
  BY <1>6 DEF Aggregate, Fine
<1> QED
  BY <1>2, <1>3, <1>4, <1>5, <1>6

\* A part is shown current while no source is lost and its window has not ended.
LEMMA ShownReads ==
    ASSUME TypeOK, NEW org \in Org, projections[org] # None,
           NEW part \in Harness \union Plane \union {Overview}
    PROVE  Shown(org, part) = "CURRENT" <=>
              unavailable[org] = {} /\ Fresh(projections[org], part)
<1>1. projections[org] \in Snapshot
  BY DEF TypeOK
<1>2. projections[org].window[part] \in Window
  BY <1>1, SnapshotAssumption
<1>3. now \in Nat /\ projections[org].window[part].until \in Nat
  BY <1>2 DEF TypeOK, Window
<1> QED
  BY <1>3 DEF Shown, Fresh, FreshnessAt

\* What is seen of the harnesses of a plane.
LEMMA PlaneReads ==
    ASSUME TypeOK, NEW org \in Org, projections[org] # None, NEW p \in Plane
    PROVE  LET shot == projections[org]
               members == {h \in Selected(shot) : PlaneOf[h] = p}
               state == PlaneState(org, p)
           IN /\ state \in AggregateState
              /\ state = "EMPTY" <=> members = {}
              /\ state = "READY" <=>
                    /\ members # {} /\ unavailable[org] = {} /\ Fresh(shot, p)
                    /\ \A h \in members : Fine(shot.facts[h]) /\ Fresh(shot, h)
              /\ state = "REVOKED" <=> \E h \in members : shot.facts[h].installation = "REVOKED"
              /\ state = "FAILED" <=>
                    /\ \A h \in members : shot.facts[h].installation # "REVOKED"
                    /\ \E h \in members : \/ shot.facts[h].installation = "FAILED"
                                          \/ "FAIL" \in shot.facts[h].required
<1> DEFINE shot == projections[org]
           members == {h \in Selected(shot) : PlaneOf[h] = p}
           states == {HarnessState(org, h) : h \in members}
<1>1. shot \in Snapshot
  BY DEF TypeOK
<1>2. ASSUME NEW h \in members
      PROVE  /\ h \in Harness /\ shot.facts[h] \in Facts
             /\ shot.facts[h].selection \in {"SELECTED", "BLOCKED"}
  <2>1. h \in Harness /\ shot.facts[h].selection \in {"SELECTED", "BLOCKED"}
    BY DEF Selected
  <2>2. shot.facts \in [Harness -> Facts]
    BY <1>1, SnapshotAssumption
  <2> QED
    BY <2>1, <2>2
<1>3. ASSUME NEW h \in members
      PROVE  LET state == HarnessState(org, h)
             IN /\ state \in AggregateState \ {"EMPTY"}
                /\ state = "READY" <=> /\ Fine(shot.facts[h]) /\ unavailable[org] = {}
                                       /\ Fresh(shot, h)
                /\ state = "REVOKED" <=> shot.facts[h].installation = "REVOKED"
                /\ state = "FAILED" <=> /\ shot.facts[h].installation # "REVOKED"
                                        /\ \/ shot.facts[h].installation = "FAILED"
                                           \/ "FAIL" \in shot.facts[h].required
  BY <1>2, AggregateReads, ShownReads DEF HarnessState
<1> HIDE DEF shot, members
<1>4. states \in SUBSET AggregateState
  BY <1>3
<1>5. /\ states \subseteq {"EMPTY"} <=> members = {}
      /\ "READY" \in states /\ states \subseteq {"EMPTY", "READY"} <=>
            members # {} /\ \A h \in members : HarnessState(org, h) = "READY"
      /\ "REVOKED" \in states <=> \E h \in members : HarnessState(org, h) = "REVOKED"
      /\ "FAILED" \in states <=> \E h \in members : HarnessState(org, h) = "FAILED"
  BY <1>3
<1>6. PlaneState(org, p) = WithFreshness(Worst(states), Shown(org, p))
  BY DEF PlaneState, members, shot
<1> HIDE DEF states
<1>7. /\ Worst(states) \in AggregateState
      /\ Worst(states) = "EMPTY" <=> states \subseteq {"EMPTY"}
      /\ Worst(states) = "READY" <=> "READY" \in states /\ states \subseteq {"EMPTY", "READY"}
      /\ Worst(states) = "REVOKED" <=> "REVOKED" \in states
      /\ Worst(states) = "FAILED" <=> "FAILED" \in states /\ "REVOKED" \notin states
  BY <1>4, WorstReads
<1>8. Shown(org, p) = "CURRENT" <=> unavailable[org] = {} /\ Fresh(shot, p)
  BY ShownReads DEF shot
<1>9. /\ PlaneState(org, p) \in AggregateState
      /\ PlaneState(org, p) = "EMPTY" <=> Worst(states) = "EMPTY"
      /\ PlaneState(org, p) = "READY" <=> Worst(states) = "READY" /\ Shown(org, p) = "CURRENT"
      /\ PlaneState(org, p) = "REVOKED" <=> Worst(states) = "REVOKED"
      /\ PlaneState(org, p) = "FAILED" <=> Worst(states) = "FAILED"
  BY <1>6, <1>7 DEF WithFreshness, AggregateState
<1>10. PlaneState(org, p) = "READY" <=>
          /\ members # {} /\ unavailable[org] = {} /\ Fresh(shot, p)
          /\ \A h \in members : Fine(shot.facts[h]) /\ Fresh(shot, h)
  BY <1>3, <1>5, <1>7, <1>8, <1>9
<1>11. /\ PlaneState(org, p) = "REVOKED" <=>
             \E h \in members : shot.facts[h].installation = "REVOKED"
       /\ PlaneState(org, p) = "FAILED" <=>
             /\ \A h \in members : shot.facts[h].installation # "REVOKED"
             /\ \E h \in members : \/ shot.facts[h].installation = "FAILED"
                                   \/ "FAIL" \in shot.facts[h].required
  BY <1>3, <1>5, <1>7, <1>9
<1> QED
  BY <1>5, <1>7, <1>9, <1>10, <1>11 DEF members, shot

\* What is seen of all planes together.
LEMMA OverviewReads ==
    ASSUME TypeOK, NEW org \in Org, projections[org] # None
    PROVE  LET shot == projections[org]
               selected == Selected(shot)
               state == OverviewState(org)
           IN /\ state = "READY" <=>
                    /\ selected # {} /\ unavailable[org] = {} /\ Fresh(shot, Overview)
                    /\ \A h \in selected : /\ Fine(shot.facts[h]) /\ Fresh(shot, h)
                                           /\ Fresh(shot, PlaneOf[h])
              /\ state = "REVOKED" <=> \E h \in selected : shot.facts[h].installation = "REVOKED"
              /\ state = "FAILED" <=>
                    /\ \A h \in selected : shot.facts[h].installation # "REVOKED"
                    /\ \E h \in selected : \/ shot.facts[h].installation = "FAILED"
                                           \/ "FAIL" \in shot.facts[h].required
<1> DEFINE shot == projections[org]
           selected == Selected(shot)
           Members(p) == {h \in selected : PlaneOf[h] = p}
           states == {PlaneState(org, p) : p \in Plane}
<1>1. \A h \in selected : PlaneOf[h] \in Plane /\ h \in Members(PlaneOf[h])
  BY TaxonomyAssumption DEF Selected
<1>2. ASSUME NEW p \in Plane
      PROVE  /\ PlaneState(org, p) \in AggregateState
             /\ PlaneState(org, p) = "EMPTY" <=> Members(p) = {}
             /\ PlaneState(org, p) = "READY" <=>
                   /\ Members(p) # {} /\ unavailable[org] = {} /\ Fresh(shot, p)
                   /\ \A h \in Members(p) : Fine(shot.facts[h]) /\ Fresh(shot, h)
             /\ PlaneState(org, p) = "REVOKED" <=>
                   \E h \in Members(p) : shot.facts[h].installation = "REVOKED"
             /\ PlaneState(org, p) = "FAILED" <=>
                   /\ \A h \in Members(p) : shot.facts[h].installation # "REVOKED"
                   /\ \E h \in Members(p) : \/ shot.facts[h].installation = "FAILED"
                                            \/ "FAIL" \in shot.facts[h].required
  BY PlaneReads
<1>3. \A p \in Plane : Members(p) \subseteq selected /\ \A h \in Members(p) : PlaneOf[h] = p
  OBVIOUS
<1>4. states \in SUBSET AggregateState
  BY <1>2
<1>5. OverviewState(org) = WithFreshness(Worst(states), Shown(org, Overview))
  BY DEF OverviewState
<1>6. Shown(org, Overview) = "CURRENT" <=> unavailable[org] = {} /\ Fresh(shot, Overview)
  BY ShownReads
<1> HIDE DEF shot, selected, Members
<1>7. /\ "READY" \in states <=> \E p \in Plane : PlaneState(org, p) = "READY"
      /\ states \subseteq {"EMPTY", "READY"} <=>
            \A p \in Plane : PlaneState(org, p) \in {"EMPTY", "READY"}
      /\ "REVOKED" \in states <=> \E p \in Plane : PlaneState(org, p) = "REVOKED"
      /\ "FAILED" \in states <=> \E p \in Plane : PlaneState(org, p) = "FAILED"
  OBVIOUS
<1> HIDE DEF states
<1>8. /\ OverviewState(org) = "READY" <=>
            /\ "READY" \in states /\ states \subseteq {"EMPTY", "READY"}
            /\ Shown(org, Overview) = "CURRENT"
      /\ OverviewState(org) = "REVOKED" <=> "REVOKED" \in states
      /\ OverviewState(org) = "FAILED" <=> "FAILED" \in states /\ "REVOKED" \notin states
  <2>1. /\ Worst(states) \in AggregateState
        /\ Worst(states) = "READY" <=> "READY" \in states /\ states \subseteq {"EMPTY", "READY"}
        /\ Worst(states) = "REVOKED" <=> "REVOKED" \in states
        /\ Worst(states) = "FAILED" <=> "FAILED" \in states /\ "REVOKED" \notin states
    BY <1>4, WorstReads
  <2> QED
    BY <1>5, <2>1 DEF WithFreshness, AggregateState
<1>9. "REVOKED" \in states <=> \E h \in selected : shot.facts[h].installation = "REVOKED"
  BY <1>1, <1>2, <1>3, <1>7
<1>10. ASSUME \A h \in selected : shot.facts[h].installation # "REVOKED"
       PROVE  "FAILED" \in states <=>
                 \E h \in selected : \/ shot.facts[h].installation = "FAILED"
                                     \/ "FAIL" \in shot.facts[h].required
  BY <1>1, <1>2, <1>3, <1>7, <1>10
<1>11. ASSUME unavailable[org] = {}
       PROVE  "READY" \in states /\ states \subseteq {"EMPTY", "READY"} <=>
                 /\ selected # {}
                 /\ \A h \in selected : /\ Fine(shot.facts[h]) /\ Fresh(shot, h)
                                        /\ Fresh(shot, PlaneOf[h])
  <2>1. ASSUME "READY" \in states, states \subseteq {"EMPTY", "READY"}
        PROVE  /\ selected # {}
               /\ \A h \in selected : /\ Fine(shot.facts[h]) /\ Fresh(shot, h)
                                      /\ Fresh(shot, PlaneOf[h])
    <3>1. selected # {}
      BY <1>2, <1>3, <1>7, <2>1
    <3>2. ASSUME NEW h \in selected
          PROVE  Fine(shot.facts[h]) /\ Fresh(shot, h) /\ Fresh(shot, PlaneOf[h])
      <4>1. PlaneOf[h] \in Plane /\ h \in Members(PlaneOf[h])
        BY <1>1
      <4>2. PlaneState(org, PlaneOf[h]) = "READY"
        BY <1>2, <1>7, <2>1, <4>1
      <4> QED
        BY <1>2, <4>1, <4>2
    <3> QED
      BY <3>1, <3>2
  <2>2. ASSUME selected # {},
               \A h \in selected : /\ Fine(shot.facts[h]) /\ Fresh(shot, h)
                                   /\ Fresh(shot, PlaneOf[h])
        PROVE  "READY" \in states /\ states \subseteq {"EMPTY", "READY"}
    <3>1. ASSUME NEW p \in Plane, Members(p) # {}
          PROVE  PlaneState(org, p) = "READY"
      BY <1>2, <1>3, <1>11, <2>2, <3>1
    <3> QED
      BY <1>1, <1>2, <1>7, <2>2, <3>1
  <2> QED
    BY <2>1, <2>2
<1> QED
  BY <1>6, <1>8, <1>9, <1>10, <1>11 DEF shot, selected

\* Health is earned: whatever sources reported, in whatever order, and however
\* long ago, an overview is shown ready only of what is fine, fresh and in
\* touch, and shows every failure.
THEOREM HealthStaysEarned == Spec => []HealthIsEarned
<1>1. ASSUME TypeOK PROVE HealthIsEarned
  <2>1. ASSUME NEW org \in Org, Readable(org)
        PROVE  projections[org] # None
    BY <2>1 DEF Readable
  <2> QED
    BY <1>1, <2>1, OverviewReads DEF HealthIsEarned
<1> QED
  BY <1>1, TypeCorrect, PTL
=============================================================================

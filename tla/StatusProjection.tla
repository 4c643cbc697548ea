-------------------------- MODULE StatusProjection --------------------------
(***************************************************************************)
(* The status projection store of lib/harness-status: external sources     *)
(* report snapshots of an organization's harnesses (ingest), a source may  *)
(* be marked lost (markSourceUnavailable), and every read derives the      *)
(* state to show from the admitted facts, the lost sources and the clock   *)
(* (materialize, with the derivations of aggregation.ts).                  *)
(*                                                                         *)
(* Sources are external: any summary may arrive at any time, again, late   *)
(* or out of order.  A snapshot carries, for the overview, each plane and  *)
(* each harness, its own binding: the window in which its facts are fresh  *)
(* and whether it names a source it had already lost.  A harness's axes    *)
(* are the sets of evidence states of its required and its other axes.     *)
(***************************************************************************)
EXTENDS Integers, FiniteSets

CONSTANTS
    Org, Source,
    Event,         \* event ids; the store keeps one name space for all
    Harness, Plane,
    PlaneOf,       \* the plane of each harness
    Binding,       \* profile, bundle and release digests, and the generation
    Snapshot,      \* what sources may report
    MaxSequence,   \* bound: summaries carry the sequences 1..MaxSequence
    MaxTime,       \* bound: the clock stops at MaxTime
    None

Overview == "overview"

EvidenceState == {"NOT_APPLICABLE", "MISSING", "COLLECTING", "PASS", "WARN", "FAIL", "STALE",
                  "WAIVED", "NOT_RUN_ENV_UNAVAILABLE"}
\* APPLYING stands for every installation that is neither working nor ended.
Facts == [selection : {"NOT_SELECTED", "PROPOSED", "SELECTED", "BLOCKED"},
          installation : {"READY", "DEGRADED", "FAILED", "REVOKED", "APPLYING"},
          required : SUBSET EvidenceState, other : SUBSET EvidenceState]
Window == [from : Nat, until : Nat, lost : BOOLEAN]
Freshness == {"CURRENT", "STALE", "SOURCE_UNAVAILABLE"}
AggregateState == {"EMPTY", "READY", "DEGRADED", "BLOCKED", "FAILED", "REVOKED"}

ASSUME TaxonomyAssumption ==
    /\ PlaneOf \in [Harness -> Plane]
    /\ IsFiniteSet(Harness)
    /\ Overview \notin Harness \union Plane
    /\ Harness \intersect Plane = {}
ASSUME SnapshotAssumption ==
    \A shot \in Snapshot :
        /\ shot.binding \in Binding
        /\ shot.facts \in [Harness -> Facts]
        /\ \A h \in Harness : shot.facts[h].required \union shot.facts[h].other # {}
        /\ shot.window \in [Harness \union Plane \union {Overview} -> Window]
        /\ shot.claimed \in [Harness \union {Overview} -> Freshness]
        /\ \A part \in DOMAIN shot.window : shot.window[part].from < shot.window[part].until
ASSUME BoundAssumption == MaxSequence \in Nat /\ MaxTime \in Nat
ASSUME NamesAssumption ==
    /\ None \notin Event /\ None \notin Snapshot
    /\ None \notin [org : Org, source : Source, sequence : 1..MaxSequence, snapshot : Snapshot]

VARIABLES
    projections,   \* organization -> the snapshot last admitted, or None
    cursors,       \* organization, source -> the last summary admitted
    events,        \* event id -> the content admitted under it, or None
    unavailable,   \* organization -> the sources marked lost
    now            \* the server's clock

vars == <<projections, cursors, events, unavailable, now>>

\* An observation is only compared with the clock: one is as early and one as
\* late as the bound allows.
Summary == [org : Org, source : Source, event : Event, sequence : 1..MaxSequence,
            cursor : 1..MaxSequence, observedAt : {0, MaxTime}, snapshot : Snapshot]

\* expectedSourceDigest: what an event id stands for.  Neither the cursor nor
\* the time of the observation is part of it.
ContentType == [org : Org, source : Source, sequence : 1..MaxSequence, snapshot : Snapshot]
Content(s) == [org |-> s.org, source |-> s.source, sequence |-> s.sequence,
               snapshot |-> s.snapshot]

CursorRow(sequence, cursor, event) ==
    [sequence |-> sequence, cursor |-> cursor, event |-> event]
NoCursor == CursorRow(0, 0, None)

-----------------------------------------------------------------------------
\* aggregation.ts: what facts and freshness make of a harness.

\* deriveFreshness.
FreshnessAt(window, time) ==
    IF window.lost THEN "SOURCE_UNAVAILABLE"
    ELSE IF window.until <= time THEN "STALE" ELSE "CURRENT"

\* deriveHarnessAggregate.
Aggregate(facts, freshness) ==
    IF facts.selection \in {"NOT_SELECTED", "PROPOSED"} THEN "EMPTY"
    ELSE IF facts.installation = "REVOKED" THEN "REVOKED"
    ELSE IF facts.installation = "FAILED" \/ "FAIL" \in facts.required THEN "FAILED"
    ELSE IF \/ facts.selection = "BLOCKED"
            \/ facts.installation \notin {"READY", "DEGRADED"}
            \/ freshness # "CURRENT"
            \/ facts.required \intersect
                  {"MISSING", "COLLECTING", "STALE", "NOT_RUN_ENV_UNAVAILABLE"} # {}
           THEN "BLOCKED"
    ELSE IF \/ facts.installation = "DEGRADED"
            \/ (facts.required \union facts.other) \intersect {"WARN", "WAIVED"} # {}
            \/ ~(facts.other \subseteq {"PASS", "NOT_APPLICABLE"})
           THEN "DEGRADED"
    ELSE "READY"

Rank == [EMPTY |-> 0, READY |-> 1, DEGRADED |-> 2, BLOCKED |-> 3, FAILED |-> 4, REVOKED |-> 5]

\* worstAggregate.
Worst(states) ==
    IF states = {} THEN "EMPTY"
    ELSE CHOOSE state \in states : \A other \in states : Rank[other] <= Rank[state]

\* withFreshness.
WithFreshness(state, freshness) ==
    IF freshness # "CURRENT" /\ state \in {"READY", "DEGRADED"} THEN "BLOCKED" ELSE state

-----------------------------------------------------------------------------
\* materialize: what a read shows of an organization.

\* Variant: a snapshot's own cursors tell which sources are lost.
ShownOfSnapshot(org, part) == FreshnessAt(projections[org].window[part], now)

Shown(org, part) ==
    IF unavailable[org] # {} THEN "SOURCE_UNAVAILABLE"
    ELSE FreshnessAt(projections[org].window[part], now)

HarnessState(org, h) == Aggregate(projections[org].facts[h], Shown(org, h))

Selected(shot) == {h \in Harness : shot.facts[h].selection \in {"SELECTED", "BLOCKED"}}

\* planeSummary, of a plane of the organization.
PlaneState(org, p) ==
    WithFreshness(Worst({HarnessState(org, h) : h \in {h \in Selected(projections[org]) :
                                                         PlaneOf[h] = p}}),
                  Shown(org, p))

OverviewState(org) ==
    WithFreshness(Worst({PlaneState(org, p) : p \in Plane}), Shown(org, Overview))

\* A binding from the future refuses the read: STATUS_CLOCK_INVALID.
Readable(org) ==
    /\ projections[org] # None
    /\ \A part \in DOMAIN projections[org].window : projections[org].window[part].from <= now

-----------------------------------------------------------------------------
\* ingest.

\* validateOverview: the freshness a snapshot claims for the overview and each
\* harness is what the server's clock makes of it.  A plane's binding is not
\* looked at.
Truthful(shot) ==
    \A part \in Harness \union {Overview} :
        /\ shot.window[part].from <= now
        /\ shot.claimed[part] = FreshnessAt(shot.window[part], now)

\* Variant: any later sequence will do.
FollowsLoosely(s) ==
    /\ s.sequence > cursors[s.org][s.source].sequence
    /\ s.cursor > cursors[s.org][s.source].cursor

Follows(s) ==
    /\ s.sequence = cursors[s.org][s.source].sequence + 1
    /\ s.cursor > cursors[s.org][s.source].cursor

\* Variant: a new release replaces the old one.
SameBindingOrNewer(s) == TRUE

SameBinding(s) ==
    projections[s.org] # None => s.snapshot.binding = projections[s.org].binding

\* What ingest answers, in the order of its checks.
Verdict(s) ==
    IF s.observedAt > now \/ ~Truthful(s.snapshot) THEN "REFUSED"
    ELSE IF events[s.event] # None
           THEN IF events[s.event] = Content(s) THEN "REPLAYED" ELSE "CONFLICT"
    ELSE IF Follows(s) /\ SameBinding(s) THEN "APPLIED" ELSE "REFUSED"

Applied(s) == CursorRow(s.sequence, s.cursor, s.event)

Ingest(s) ==
    /\ Verdict(s) = "APPLIED"
    /\ projections' = [projections EXCEPT ![s.org] = s.snapshot]
    /\ cursors' = [cursors EXCEPT ![s.org][s.source] = Applied(s)]
    /\ events' = [events EXCEPT ![s.event] = Content(s)]
    /\ unavailable' = [unavailable EXCEPT ![s.org] = @ \ {s.source}]
    /\ UNCHANGED now

MarkSourceUnavailable(org, source) ==
    /\ projections[org] # None
    /\ unavailable' = [unavailable EXCEPT ![org] = @ \union {source}]
    /\ UNCHANGED <<projections, cursors, events, now>>

Tick ==
    /\ now < MaxTime
    /\ now' = now + 1
    /\ UNCHANGED <<projections, cursors, events, unavailable>>

Init ==
    /\ projections = [org \in Org |-> None]
    /\ cursors = [org \in Org |-> [source \in Source |-> NoCursor]]
    /\ events = [e \in Event |-> None]
    /\ unavailable = [org \in Org |-> {}]
    /\ now = 0

Next ==
    \/ \E s \in Summary : Ingest(s)
    \/ \E org \in Org, source \in Source : MarkSourceUnavailable(org, source)
    \/ Tick

Spec == Init /\ [][Next]_vars

-----------------------------------------------------------------------------
\* Properties.

CursorType == [sequence : Nat, cursor : Nat, event : Event \union {None}]

\* The shape of the store's four maps.
TypeOK ==
    /\ projections \in [Org -> Snapshot \union {None}]
    /\ cursors \in [Org -> [Source -> CursorType]]
    /\ events \in [Event -> ContentType \union {None}]
    /\ unavailable \in [Org -> SUBSET Source]
    /\ now \in Nat

Admitted(org, source) ==
    {e \in Event : events[e] # None /\ events[e].org = org /\ events[e].source = source}

Numbered(org, source) ==
    LET admitted == Admitted(org, source)
        last == cursors[org][source]
    IN /\ {events[e].sequence : e \in admitted} = 1..last.sequence
       /\ Cardinality(admitted) = last.sequence
       /\ admitted # {} => last.event \in admitted /\ events[last.event].sequence = last.sequence

Projected(org) ==
    projections[org] # None =>
        \E source \in Source :
            /\ cursors[org][source].event # None
            /\ projections[org] = events[cursors[org][source].event].snapshot

\* The events admitted of a source, for an organization, are numbered 1, 2, 3
\* and so on with none missing and none twice, the cursor names the last, and
\* what is projected is the snapshot of some source's last one.
EventsSequential ==
    \A org \in Org : Projected(org) /\ \A source \in Source : Numbered(org, source)

\* The inductive invariant behind the proofs: a cursor names an event that was
\* admitted of its source, and those are finitely many.
IInv ==
    /\ TypeOK
    /\ EventsSequential
    /\ \A org \in Org, source \in Source :
          /\ IsFiniteSet(Admitted(org, source))
          /\ cursors[org][source].event # None =>
                cursors[org][source].event \in Admitted(org, source)

Fine(facts) ==
    /\ facts.selection = "SELECTED" /\ facts.installation = "READY"
    /\ facts.required \union facts.other \subseteq {"PASS", "NOT_APPLICABLE"}

Fresh(shot, part) == ~shot.window[part].lost /\ now < shot.window[part].until

\* An overview is shown ready exactly when something is selected, everything
\* selected is fine, every binding involved is fresh now and no source has been
\* lost since; lost sources and age never hide a failure or a revocation.
HealthIsEarned ==
    \A org \in Org : Readable(org) =>
        LET shot == projections[org]
            selected == Selected(shot)
            failed == {h \in selected : shot.facts[h].installation = "FAILED"
                                          \/ "FAIL" \in shot.facts[h].required}
            revoked == {h \in selected : shot.facts[h].installation = "REVOKED"}
        IN /\ OverviewState(org) = "READY" <=>
                /\ selected # {}
                /\ \A h \in selected : Fine(shot.facts[h])
                /\ \A part \in selected \union {PlaneOf[h] : h \in selected} \union {Overview} :
                      Fresh(shot, part)
                /\ unavailable[org] = {}
           /\ OverviewState(org) = "REVOKED" <=> revoked # {}
           /\ revoked = {} => (OverviewState(org) = "FAILED" <=> failed # {})

News(org, e, source) ==
    /\ events[e] = None /\ events'[e] # None
    /\ events'[e].org = org /\ events'[e].source = source
    /\ events'[e].snapshot = projections'[org]
    /\ cursors'[org][source].sequence = cursors[org][source].sequence + 1
    /\ cursors'[org][source].cursor > cursors[org][source].cursor
    /\ \A another \in Source \ {source} : cursors'[org][another] = cursors[org][another]
    /\ unavailable'[org] = unavailable[org] \ {source}
    /\ projections[org] # None => projections'[org].binding = projections[org].binding

NewsStep ==
    \A org \in Org :
        \/ /\ projections'[org] = projections[org]
           /\ cursors'[org] = cursors[org]
           /\ unavailable[org] \subseteq unavailable'[org]
        \/ \E e \in Event, source \in Source : News(org, e, source)

\* What is shown of an organization changes only by news: an event never seen
\* before, the next of its source, about the same profile, bundle, release and
\* generation; and nothing else brings a lost source back.
OnlyNewsCounts == [][NewsStep]_vars

\* docs/harness-overview.md: an identical event, sent again, is answered
\* REPLAYED.  The code checks the snapshot against its clock first.
ReplaysAreAnswered ==
    \A s \in Summary :
        events[s.event] = Content(s) /\ s.observedAt <= now => Verdict(s) = "REPLAYED"
=============================================================================

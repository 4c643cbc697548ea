-------------------------- MODULE TenantAuditChain --------------------------
(***************************************************************************)
(* The audit chain every store appends its audit facts to: per             *)
(* organization a sequence of records, each sealed by a digest over its    *)
(* content and the digest before it.  Digests are free terms: two are      *)
(* equal only when what they were computed from is equal.  Facts are       *)
(* records with an event id, their organization and what they are about.   *)
(***************************************************************************)
EXTENDS Integers, Sequences, SequencesExt

CONSTANT MaxBatch   \* facts one append may carry: 32 in the code

ASSUME BatchAssumption == MaxBatch \in Nat \ {0}

Genesis == <<>>
Digest(unsigned) == <<unsigned>>

Fact(event, org, about) == [event |-> event, org |-> org, about |-> about]

Unsigned(sequence, previous, fact) ==
    [sequence |-> sequence, previous |-> previous, fact |-> fact]
Sealed(unsigned) == [unsigned |-> unsigned, digest |-> Digest(unsigned)]

-----------------------------------------------------------------------------
\* verifyAuditChain.

Before(records, i) == IF i = 1 THEN Genesis ELSE records[i - 1].digest

\* Variant: the link to the record before is not looked at.
IntactUnlinked(org, records, i) ==
    LET record == records[i]
    IN /\ record.unsigned.fact.org = org
       /\ record.unsigned.sequence = i
       /\ record.digest = Digest(record.unsigned)

\* A record is of this organization, in its place, linked to the one before,
\* sealed over its own content, and about an event not seen earlier.
Intact(org, records, i) ==
    LET record == records[i]
    IN /\ record.unsigned.fact.org = org
       /\ record.unsigned.sequence = i
       /\ record.unsigned.previous = Before(records, i)
       /\ record.digest = Digest(record.unsigned)
       /\ \A k \in 1..(i - 1) : records[k].unsigned.fact.event # record.unsigned.fact.event

Valid(org, records) == \A i \in DOMAIN records : Intact(org, records, i)

-----------------------------------------------------------------------------
\* append: the whole batch or nothing.

HeadDigest(records) == Before(records, Len(records) + 1)

Extended(records, fact) ==
    Append(records, Sealed(Unsigned(Len(records) + 1, HeadDigest(records), fact)))

Appended(records, facts) ==
    LET after[n \in 0..Len(facts)] ==
            IF n = 0 THEN records ELSE Extended(after[n - 1], facts[n])
    IN after[Len(facts)]

Events(records) == {records[i].unsigned.fact.event : i \in DOMAIN records}

Appendable(org, records, facts) ==
    /\ Len(facts) \in 1..MaxBatch
    /\ Valid(org, records)
    /\ \A i \in DOMAIN facts :
          /\ facts[i].org = org
          /\ facts[i].event \notin Events(records)
          /\ \A k \in 1..(i - 1) : facts[k].event # facts[i].event
=============================================================================

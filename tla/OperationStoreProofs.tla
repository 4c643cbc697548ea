------------------------ MODULE OperationStoreProofs ------------------------
(***************************************************************************)
(* Proofs about TenantAuditChain and OperationStore, for any operations,   *)
(* organizations, keys and demands, and any appends that fail.             *)
(***************************************************************************)
EXTENDS OperationStore, FiniteSetTheorems, WellFoundedInduction, TLAPS

\* A set of natural numbers that holds 0 up to n's successors holds all of 0..n.
LEMMA Climb ==
    ASSUME NEW n \in Nat, NEW S, 0 \in S, \A i \in 0..(n - 1) : i \in S => i + 1 \in S
    PROVE  \A i \in 0..n : i \in S
<1> DEFINE Less == {pair \in Nat \X Nat : pair[1] < pair[2]}
           Left == {i \in 0..n : i \notin S}
<1>1. IsWellFoundedOn(Less, Nat)
  BY NatLessThanWellFounded DEF OpToRel
<1>2. \A i, k \in Nat : i < k => <<i, k>> \in Less
  OBVIOUS
<1>3. Left \subseteq Nat
  OBVIOUS
<1> HIDE DEF Less
<1>4. ASSUME Left # {} PROVE FALSE
  <2>1. PICK m \in Left : \A i \in Left : ~(<<i, m>> \in Less)
    BY <1>1, <1>3, <1>4, WFMin
  <2>2. m \in 1..n /\ m \notin S
    BY <2>1
  <2>3. m - 1 \in 0..(n - 1) /\ m - 1 \in Nat /\ m - 1 < m /\ (m - 1) + 1 = m
    BY <2>2
  <2>4. m - 1 \notin S
    <3>1. m - 1 \in S => (m - 1) + 1 \in S
      BY <2>3
    <3> QED
      BY <3>1, <2>2, <2>3
  <2>5. m - 1 \in Left
    BY <2>3, <2>4
  <2>6. m \in Nat /\ <<m - 1, m>> \in Less
    BY <2>2, <2>3, <1>2
  <2> QED
    BY <2>1, <2>5, <2>6
<1> QED
  BY <1>4

-----------------------------------------------------------------------------
\* The chain.

\* A batch appends its facts one after the other: the function Appended reads its
\* result from exists for every batch.
LEMMA AppendedSteps ==
    ASSUME NEW records, NEW facts, NEW n \in Nat, Len(facts) = n
    PROVE  \E g : /\ g = [m \in 0..n |-> IF m = 0 THEN records
                                        ELSE Extended(g[m - 1], facts[m])]
                  /\ Appended(records, facts) = g[n]
<1> DEFINE Good(i, g) == g = [m \in 0..i |-> IF m = 0 THEN records
                                            ELSE Extended(g[m - 1], facts[m])]
           After(g) == Good(n, g)
           after == CHOOSE g : After(g)
           S == {i \in 0..n : \E g : Good(i, g)}
<1>1. 0 \in S
  <2> DEFINE g == [m \in 0..0 |-> records]
  <2>1. Good(0, g)
    OBVIOUS
  <2> HIDE DEF g
  <2> QED
    BY <2>1
<1>2. ASSUME NEW i \in 0..(n - 1), i \in S PROVE i + 1 \in S
  <2>1. PICK g : Good(i, g)
    BY <1>2
  <2> DEFINE h == [m \in 0..(i + 1) |-> IF m = i + 1 THEN Extended(g[i], facts[i + 1]) ELSE g[m]]
             k == [m \in 0..(i + 1) |-> IF m = 0 THEN records ELSE Extended(h[m - 1], facts[m])]
  <2>2. \A m \in 0..i : g[m] = IF m = 0 THEN records ELSE Extended(g[m - 1], facts[m])
    BY <2>1
  <2> HIDE DEF Good
  <2>3. ASSUME NEW m \in 0..(i + 1) PROVE h[m] = k[m]
    <3>1. CASE m = i + 1
      <4>1. m # 0 /\ m - 1 = i /\ i \in 0..i /\ i # i + 1 /\ i \in 0..(i + 1)
        BY <3>1
      <4>2. h[m - 1] = g[i]
        BY <4>1
      <4> QED
        BY <3>1, <4>1, <4>2
    <3>2. CASE m \in 1..i
      <4>1. m # 0 /\ m # i + 1 /\ m - 1 \in 0..(i + 1) /\ m - 1 # i + 1 /\ m \in 0..i
        BY <3>2
      <4>2. h[m - 1] = g[m - 1] /\ h[m] = g[m]
        BY <4>1
      <4> QED
        BY <4>1, <4>2, <2>2
    <3>3. CASE m = 0
      BY <3>3, <2>2
    <3> QED
      BY <3>1, <3>2, <3>3
  <2>4. h = k
    BY <2>3
  <2>5. Good(i + 1, h)
    BY <2>4 DEF Good
  <2> HIDE DEF h
  <2> QED
    BY <2>5
<1>3. n \in 0..n
  OBVIOUS
<1>4. n \in S
  <2> HIDE DEF S
  <2> QED
    BY <1>1, <1>2, <1>3, Climb
<1>5. \E g : After(g)
  BY <1>4
<1>6. After(after)
  <2> HIDE DEF After
  <2> QED
    BY <1>5
<1>7. Appended(records, facts) = after[n]
  BY DEF Appended
<1> HIDE DEF after
<1> QED
  BY <1>6, <1>7

\* One fact more at the end: the records before it stay, and the new one is in its
\* place, linked to the last of them.
LEMMA Extending ==
    ASSUME NEW records, records \in Seq(Range(records)), NEW fact
    PROVE  LET n   == Len(records)
               new == Extended(records, fact)
           IN /\ n \in Nat /\ DOMAIN records = 1..n
              /\ Len(new) = n + 1 /\ DOMAIN new = 1..(n + 1)
              /\ \A i \in 1..n : new[i] = records[i]
              /\ new[n + 1] = Sealed(Unsigned(n + 1, Before(new, n + 1), fact))
              /\ FactAt(new, n + 1) = fact
              /\ new \in Seq(Range(new))
<1> DEFINE n == Len(records)
           S == Range(records)
           last == Sealed(Unsigned(n + 1, HeadDigest(records), fact))
           new == Extended(records, fact)
<1>1. new = Append(records, last)
  BY DEF Extended
<1>2. n \in Nat /\ DOMAIN records = 1..n
  OBVIOUS
<1>3. /\ Len(new) = n + 1 /\ DOMAIN new = 1..(n + 1)
      /\ \A i \in 1..n : new[i] = records[i]
      /\ new[n + 1] = last
  <2> HIDE DEF last, new
  <2> QED
    BY <1>1, <1>2
<1>4. Before(new, n + 1) = HeadDigest(records)
  <2>1. CASE n = 0
    BY <2>1 DEF HeadDigest, Before
  <2>2. CASE n # 0
    <3>1. n + 1 # 1 /\ (n + 1) - 1 = n /\ n \in 1..n
      BY <1>2, <2>2
    <3> HIDE DEF n, new
    <3>2. Before(new, n + 1) = new[n].digest
      BY <3>1 DEF Before
    <3>3. HeadDigest(records) = records[n].digest
      BY <3>1 DEF HeadDigest, Before, n
    <3> QED
      BY <3>1, <3>2, <3>3, <1>3
  <2> QED
    BY <2>1, <2>2
<1>5. FactAt(new, n + 1) = fact
  BY <1>3 DEF FactAt, Sealed, Unsigned
<1>6. new \in Seq(Range(new))
  <2> DEFINE T == Range(new)
  <2>1. new \in Seq(S \union {last})
    BY <1>1
  <2> HIDE DEF new, S, last, n, T
  <2>2. \A i \in 1..(n + 1) : new[i] \in T
    BY <1>3 DEF T, Range
    <2>3. new \in Seq(T)
    BY <1>2, <1>3, <2>1, <2>2
  <2> QED
    BY <2>3 DEF T
<1> QED
  BY <1>2, <1>3, <1>4, <1>5, <1>6

\* It is still a valid chain when the fact is one of the organization about a new
\* event.
LEMMA ExtendedValid ==
    ASSUME NEW records, records \in Seq(Range(records)),
           NEW org, Valid(org, records), NEW fact, fact.org = org,
           fact.event \notin Events(records)
    PROVE  Valid(org, Extended(records, fact))
<1> DEFINE n == Len(records)
           new == Extended(records, fact)
<1>1. /\ n \in Nat /\ DOMAIN records = 1..n
      /\ DOMAIN new = 1..(n + 1)
      /\ \A i \in 1..n : new[i] = records[i]
      /\ new[n + 1] = Sealed(Unsigned(n + 1, Before(new, n + 1), fact))
  BY Extending
<1> HIDE DEF new, n
<1>2. ASSUME NEW i \in 1..n PROVE Intact(org, new, i)
  <2>1. Before(new, i) = Before(records, i)
    BY <1>1 DEF Before
  <2>2. Intact(org, records, i) /\ new[i] = records[i]
    BY <1>1 DEF Valid
  <2>3. \A k \in 1..(i - 1) : new[k] = records[k]
    BY <1>1
  <2> QED
    BY <2>1, <2>2, <2>3 DEF Intact
<1>3. Intact(org, new, n + 1)
  <2> DEFINE last == new[n + 1]
  <2>1. /\ last.unsigned.sequence = n + 1 /\ last.unsigned.previous = Before(new, n + 1)
        /\ last.unsigned.fact = fact /\ last.digest = Digest(last.unsigned)
    BY <1>1 DEF Sealed, Unsigned
  <2>2. \A k \in 1..n : new[k].unsigned.fact.event # fact.event
    BY <1>1 DEF Events
  <2>3. (n + 1) - 1 = n
    BY <1>1
  <2> QED
    BY <2>1, <2>2, <2>3 DEF Intact
<1> QED
  BY <1>1, <1>2, <1>3 DEF Valid, new

\* And its records are sealed as append seals them.
LEMMA ExtendedSealed ==
    ASSUME NEW records, records \in Seq(Range(records)), WellSealed(records), NEW fact
    PROVE  WellSealed(Extended(records, fact))
<1> DEFINE n == Len(records)
           new == Extended(records, fact)
<1>1. /\ n \in Nat /\ DOMAIN records = 1..n
      /\ DOMAIN new = 1..(n + 1)
      /\ \A i \in 1..n : new[i] = records[i]
      /\ new[n + 1] = Sealed(Unsigned(n + 1, Before(new, n + 1), fact))
      /\ FactAt(new, n + 1) = fact
  BY Extending
<1> HIDE DEF new, n
<1>2. ASSUME NEW i \in 1..n
      PROVE  new[i] = Sealed(Unsigned(i, Before(new, i), FactAt(new, i)))
  <2>1. Before(new, i) = Before(records, i)
    BY <1>1 DEF Before
  <2>2. FactAt(new, i) = FactAt(records, i)
    BY <1>1 DEF FactAt
  <2> QED
    BY <2>1, <2>2, <1>1 DEF WellSealed
<1> QED
  BY <1>1, <1>2 DEF WellSealed, new

\* What append does to a chain: the records stay and the facts of the batch follow
\* them, in their order, each in a record of its own.
Grown(records, new, facts) ==
    LET n == Len(records) m == Len(facts)
    IN /\ new \in Seq(Range(new))
       /\ Len(new) = n + m
       /\ \A i \in 1..n : new[i] = records[i]
       /\ \A k \in 1..m : FactAt(new, n + k) = facts[k]

\* A batch that is admitted to a valid chain is appended whole, in its order, and
\* leaves a valid chain, of whatever length chain and batch are.
THEOREM AppendKeepsChain ==
    ASSUME NEW records, records \in Seq(Range(records)),
           NEW facts, facts \in Seq(Range(facts)),
           NEW org, Appendable(org, records, facts)
    PROVE  /\ Valid(org, Appended(records, facts))
           /\ Grown(records, Appended(records, facts), facts)
           /\ WellSealed(records) => WellSealed(Appended(records, facts))
<1> DEFINE n == Len(records)
           m == Len(facts)
<1>1. n \in Nat /\ DOMAIN records = 1..n /\ m \in Nat /\ DOMAIN facts = 1..m
  OBVIOUS
<1>2. /\ Valid(org, records)
      /\ \A i \in 1..m : /\ facts[i].org = org
                         /\ facts[i].event \notin Events(records)
                         /\ \A k \in 1..(i - 1) : facts[k].event # facts[i].event
  BY <1>1 DEF Appendable
<1>3. PICK g : /\ g = [i \in 0..m |-> IF i = 0 THEN records ELSE Extended(g[i - 1], facts[i])]
               /\ Appended(records, facts) = g[m]
  BY <1>1, AppendedSteps
<1>4. g[0] = records /\ \A i \in 0..(m - 1) : g[i + 1] = Extended(g[i], facts[i + 1])
  <2>1. 0 \in 0..m
    BY <1>1
  <2>2. \A i \in 0..(m - 1) : i + 1 \in 0..m /\ i + 1 # 0 /\ (i + 1) - 1 = i
    BY <1>1
  <2>3. \A i \in 0..m : g[i] = IF i = 0 THEN records ELSE Extended(g[i - 1], facts[i])
    BY <1>3
  <2> QED
    BY <2>1, <2>2, <2>3
<1> HIDE DEF n, m
<1> DEFINE Good(i) == /\ g[i] \in Seq(Range(g[i]))
                      /\ Valid(org, g[i])
                      /\ Len(g[i]) = n + i
                      /\ \A k \in 1..n : g[i][k] = records[k]
                      /\ \A k \in 1..i : FactAt(g[i], n + k) = facts[k]
                      /\ WellSealed(records) => WellSealed(g[i])
           S == {i \in 0..m : Good(i)}
<1>5. 0 \in S
  <2>1. /\ records \in Seq(Range(records))
        /\ Len(records) = n + 0 /\ 0 \in 0..m
    BY <1>1 DEF n
  <2>2. \A k \in 1..0 : FactAt(records, n + k) = facts[k]
    OBVIOUS
  <2>3. Good(0)
    BY <1>2, <1>4, <2>1, <2>2
  <2> QED
    BY <2>1, <2>3
<1>6. ASSUME NEW i \in 0..(m - 1), i \in S PROVE i + 1 \in S
  <2> DEFINE old == g[i] new == g[i + 1] fact == facts[i + 1]
  <2>1. /\ old \in Seq(Range(old)) /\ Valid(org, old) /\ Len(old) = n + i
        /\ \A k \in 1..n : old[k] = records[k]
        /\ \A k \in 1..i : FactAt(old, n + k) = facts[k]
        /\ WellSealed(records) => WellSealed(old)
    BY <1>6
  <2>2. new = Extended(old, fact)
    BY <1>4
  <2>3. i + 1 \in 1..m /\ i + 1 \in 0..m /\ i \in Nat
    BY <1>1
  <2>4. fact.org = org /\ fact.event \notin Events(records)
        /\ \A k \in 1..i : facts[k].event # fact.event
    BY <1>2, <2>3
  <2> HIDE DEF old, new, fact
  <2>5. DOMAIN old = 1..(n + i)
    BY <2>1
  <2>6. fact.event \notin Events(old)
    <3> SUFFICES ASSUME NEW k \in 1..(n + i), FactAt(old, k).event = fact.event PROVE FALSE
      BY <2>5 DEF Events, FactAt
    <3>1. CASE k \in 1..n
      BY <3>1, <1>1, <2>1, <2>4 DEF Events, FactAt
    <3>2. CASE k \notin 1..n
      <4>1. k - n \in 1..i /\ k = n + (k - n)
        BY <3>2, <1>1, <2>3
      <4>2. FactAt(old, k) = facts[k - n]
        BY <4>1, <2>1
      <4> QED
        BY <4>1, <4>2, <2>4
    <3> QED
      BY <3>1, <3>2
  <2>7. Valid(org, new)
    BY <2>1, <2>2, <2>4, <2>6, ExtendedValid
  <2>8. /\ Len(new) = n + i + 1 /\ DOMAIN new = 1..(n + i + 1)
        /\ \A k \in 1..(n + i) : new[k] = old[k]
        /\ FactAt(new, n + i + 1) = fact
        /\ new \in Seq(Range(new))
    <3>1. /\ Len(new) = Len(old) + 1 /\ DOMAIN new = 1..(Len(old) + 1)
          /\ \A k \in 1..Len(old) : new[k] = old[k]
          /\ FactAt(new, Len(old) + 1) = fact
          /\ new \in Seq(Range(new))
      BY <2>1, <2>2, Extending
    <3>2. Len(old) = n + i
      BY <2>1
    <3> QED
      BY <3>1, <3>2
  <2>9. \A k \in 1..n : new[k] = records[k]
    BY <1>1, <2>1, <2>3, <2>8
  <2>10. ASSUME NEW k \in 1..(i + 1) PROVE FactAt(new, n + k) = facts[k]
    <3>1. CASE k = i + 1
      BY <3>1, <2>8, <1>1, <2>3 DEF fact
    <3>2. CASE k \in 1..i
      <4>1. n + k \in 1..(n + i)
        BY <3>2, <1>1, <2>3
      <4> QED
        BY <3>2, <4>1, <2>1, <2>8 DEF FactAt
    <3> QED
      BY <3>1, <3>2, <2>3
  <2>11. Len(new) = n + (i + 1)
    BY <2>8, <1>1, <2>3
  <2>12. WellSealed(records) => WellSealed(new)
    BY <2>1, <2>2, ExtendedSealed
  <2>13. Good(i + 1)
    BY <2>7, <2>8, <2>9, <2>10, <2>11, <2>12 DEF new
  <2> QED
    BY <2>3, <2>13
<1>7. m \in S
  <2>1. m \in 0..m
    BY <1>1
  <2> HIDE DEF S
  <2> QED
    BY <1>1, <1>5, <1>6, <2>1, Climb
<1>8. Good(m)
  BY <1>7
<1> QED
  BY <1>3, <1>8 DEF Grown, n, m

-----------------------------------------------------------------------------
\* The chain and the log.

\* Where the entries of a log are when a batch follows it.
LEMMA Concatenated ==
    ASSUME NEW T, NEW log \in Seq(T), NEW facts \in Seq(T)
    PROVE  LET n == Len(log) m == Len(facts) all == log \o facts
           IN /\ n \in Nat /\ m \in Nat /\ DOMAIN log = 1..n /\ DOMAIN facts = 1..m
              /\ all \in Seq(T) /\ Len(all) = n + m /\ DOMAIN all = 1..(n + m)
              /\ \A i \in 1..n : all[i] = log[i]
              /\ \A k \in 1..m : all[n + k] = facts[k]
              /\ \A i \in 1..(n + m) : i \in 1..n \/ \E k \in 1..m : i = n + k
<1> DEFINE n == Len(log) m == Len(facts) all == log \o facts
<1>1. n \in Nat /\ m \in Nat /\ DOMAIN log = 1..n /\ DOMAIN facts = 1..m
  OBVIOUS
<1>2. all \in Seq(T) /\ Len(all) = n + m /\ DOMAIN all = 1..(n + m)
  BY <1>1
<1>3. \A i \in 1..n : all[i] = log[i]
  BY <1>1
<1>4. ASSUME NEW k \in 1..m PROVE all[n + k] = facts[k]
  BY <1>1
<1>5. ASSUME NEW i \in 1..(n + m), i \notin 1..n PROVE \E k \in 1..m : i = n + k
  <2>1. i - n \in 1..m /\ i = n + (i - n)
    BY <1>1, <1>5
  <2> QED
    BY <2>1
<1> QED
  BY <1>1, <1>2, <1>3, <1>4, <1>5

\* A chain that is in step with the log still is when both take the same batch of
\* the organization's facts.
LEMMA GrownInStep ==
    ASSUME NEW T, NEW log \in Seq(T), NEW facts \in Seq(T),
           NEW records, records \in Seq(Range(records)), NEW new, Grown(records, new, facts),
           NEW org, Valid(org, new), InStep(org, records, log),
           \A k \in 1..Len(facts) : facts[k].event = Len(log) + k /\ facts[k].org = org
    PROVE  InStep(org, new, log \o facts)
<1> DEFINE n == Len(log) m == Len(facts) r == Len(records) all == log \o facts
<1>1. /\ n \in Nat /\ m \in Nat /\ DOMAIN log = 1..n
      /\ DOMAIN all = 1..(n + m)
      /\ \A i \in 1..n : all[i] = log[i]
      /\ \A k \in 1..m : all[n + k] = facts[k]
      /\ \A i \in 1..(n + m) : i \in 1..n \/ \E k \in 1..m : i = n + k
  BY Concatenated
<1>2. /\ r \in Nat /\ DOMAIN records = 1..r /\ DOMAIN new = 1..(r + m)
      /\ \A i \in 1..r : FactAt(new, i) = FactAt(records, i)
      /\ \A k \in 1..m : FactAt(new, r + k) = facts[k]
  BY DEF Grown, FactAt
<1>3. /\ \A i \in 1..r : /\ FactAt(records, i).event \in 1..n
                         /\ log[FactAt(records, i).event] = FactAt(records, i)
      /\ \A i \in 1..n : log[i].org = org => \E k \in 1..r : FactAt(records, k) = log[i]
      /\ \A i, k \in 1..r : i < k => FactAt(records, i).event < FactAt(records, k).event
  BY <1>1, <1>2 DEF InStep
<1> HIDE DEF n, m, r, all
<1>4. \A i \in 1..(r + m) : i \in 1..r \/ \E k \in 1..m : i = r + k
  <2> SUFFICES ASSUME NEW i \in 1..(r + m), i \notin 1..r PROVE \E k \in 1..m : i = r + k
    OBVIOUS
  <2>1. i - r \in 1..m /\ i = r + (i - r)
    BY <1>1, <1>2
  <2> QED
    BY <2>1
<1>5. \A k \in 1..m : facts[k].event = n + k /\ facts[k].org = org
  BY DEF n, m
<1>6. ASSUME NEW i \in 1..(r + m)
      PROVE  FactAt(new, i).event \in 1..(n + m) /\ all[FactAt(new, i).event] = FactAt(new, i)
  <2>1. CASE i \in 1..r
    <3>1. FactAt(new, i).event \in 1..n
      BY <2>1, <1>2, <1>3
    <3> QED
      BY <3>1, <2>1, <1>1, <1>2, <1>3
  <2>2. ASSUME NEW k \in 1..m, i = r + k
        PROVE  FactAt(new, i).event \in 1..(n + m) /\ all[FactAt(new, i).event] = FactAt(new, i)
    <3>1. FactAt(new, r + k) = facts[k] /\ all[n + k] = facts[k] /\ facts[k].event = n + k
      BY <1>1, <1>2, <1>5
    <3>2. n + k \in 1..(n + m)
      BY <1>1
    <3> QED
      BY <3>1, <3>2, <2>2
  <2> QED
    BY <2>1, <2>2, <1>4
<1>7. ASSUME NEW i \in 1..(n + m), all[i].org = org
      PROVE  \E k \in 1..(r + m) : FactAt(new, k) = all[i]
  <2>1. CASE i \in 1..n
    <3>1. PICK k \in 1..r : FactAt(records, k) = log[i]
      BY <2>1, <1>1, <1>3, <1>7
    <3>2. k \in 1..(r + m) /\ FactAt(new, k) = all[i]
      BY <3>1, <2>1, <1>1, <1>2
    <3> QED
      BY <3>2
  <2>2. ASSUME NEW k \in 1..m, i = n + k PROVE \E j \in 1..(r + m) : FactAt(new, j) = all[i]
    <3>1. FactAt(new, r + k) = facts[k] /\ all[n + k] = facts[k]
      BY <1>1, <1>2
    <3>2. r + k \in 1..(r + m)
      BY <1>1, <1>2
    <3> QED
      BY <3>1, <3>2, <2>2
  <2> QED
    BY <2>1, <2>2, <1>1
<1>8. ASSUME NEW i \in 1..(r + m), NEW k \in 1..(r + m), i < k
      PROVE  FactAt(new, i).event < FactAt(new, k).event
  <2>1. CASE k \in 1..r
    <3>1. i \in 1..r
      BY <2>1, <1>2, <1>8
    <3> QED
      BY <3>1, <2>1, <1>2, <1>3, <1>8
  <2>2. ASSUME NEW j \in 1..m, k = r + j PROVE FactAt(new, i).event < FactAt(new, k).event
    <3>1. FactAt(new, k).event = n + j
      BY <2>2, <1>2, <1>5
    <3>2. CASE i \in 1..r
      <4>1. FactAt(new, i).event \in 1..n
        BY <3>2, <1>2, <1>3
      <4> QED
        BY <4>1, <3>1, <1>1
    <3>3. ASSUME NEW l \in 1..m, i = r + l PROVE FactAt(new, i).event < FactAt(new, k).event
      <4>1. FactAt(new, i).event = n + l /\ l < j
        <5>1. FactAt(new, r + l) = facts[l] /\ facts[l].event = n + l
          BY <1>2, <1>5
        <5>2. l < j
          BY <3>3, <2>2, <1>2, <1>8
        <5> QED
          BY <5>1, <5>2, <3>3
      <4> QED
        BY <4>1, <3>1, <1>1
    <3> QED
      BY <3>2, <3>3, <1>4
  <2> QED
    BY <2>1, <2>2, <1>4
<1> QED
  BY <1>1, <1>2, <1>6, <1>7, <1>8 DEF InStep, all

\* Facts of another organization are none of this one's chain.
LEMMA OtherInStep ==
    ASSUME NEW T, NEW log \in Seq(T), NEW facts \in Seq(T), NEW records,
           NEW org, InStep(org, records, log),
           \A k \in 1..Len(facts) : facts[k].org # org
    PROVE  InStep(org, records, log \o facts)
<1> DEFINE n == Len(log) m == Len(facts) all == log \o facts
<1>1. /\ n \in Nat /\ m \in Nat /\ DOMAIN log = 1..n
      /\ DOMAIN all = 1..(n + m)
      /\ \A i \in 1..n : all[i] = log[i]
      /\ \A k \in 1..m : all[n + k] = facts[k]
      /\ \A i \in 1..(n + m) : i \in 1..n \/ \E k \in 1..m : i = n + k
  BY Concatenated
<1>2. /\ Valid(org, records)
      /\ \A i \in DOMAIN records : /\ FactAt(records, i).event \in 1..n
                                   /\ log[FactAt(records, i).event] = FactAt(records, i)
      /\ \A i \in 1..n : log[i].org = org => \E k \in DOMAIN records : FactAt(records, k) = log[i]
      /\ \A i, k \in DOMAIN records : i < k => FactAt(records, i).event < FactAt(records, k).event
  BY <1>1 DEF InStep
<1> HIDE DEF n, all
<1>3. \A i \in 1..(n + m) : all[i].org = org =>
         i \in 1..n /\ \E k \in DOMAIN records : FactAt(records, k) = all[i]
  BY <1>1, <1>2
<1>4. \A i \in DOMAIN records : /\ FactAt(records, i).event \in 1..(n + m)
                                /\ all[FactAt(records, i).event] = FactAt(records, i)
  BY <1>1, <1>2
<1> QED
  BY <1>1, <1>2, <1>3, <1>4 DEF InStep, all

\* The next versions of an operation, told in one batch.
LEMMA GrownTells ==
    ASSUME NEW T, NEW facts \in Seq(T), facts # <<>>,
           NEW records, records \in Seq(Range(records)), NEW new, Grown(records, new, facts),
           NEW o, NEW version \in Nat, NEW state, FactsTell(records, o, version, state),
           \A k \in 1..Len(facts) : facts[k].about[1] = o /\ facts[k].about[2] = version + k
    PROVE  FactsTell(new, o, version + Len(facts), facts[Len(facts)].about[3])
<1> DEFINE m == Len(facts) r == Len(records)
           Told(i) == FactAt(new, i).about[2]
<1>1. m \in Nat \ {0}
  OBVIOUS
<1>2. /\ r \in Nat /\ DOMAIN records = 1..r /\ DOMAIN new = 1..(r + m)
      /\ \A i \in 1..r : FactAt(new, i) = FactAt(records, i)
      /\ \A k \in 1..m : FactAt(new, r + k) = facts[k]
  BY DEF Grown, FactAt
<1> HIDE DEF m, r
<1>3. \A k \in 1..m : facts[k].about[1] = o /\ facts[k].about[2] = version + k
  BY DEF m
<1>4. /\ {FactAt(records, i).about[2] : i \in AboutOf(records, o)} = 1..version
      /\ \A i, k \in AboutOf(records, o) : i < k =>
            FactAt(records, i).about[2] < FactAt(records, k).about[2]
  BY DEF FactsTell
<1>5. AboutOf(records, o) \subseteq 1..r
      /\ \A i \in 1..r : i \in AboutOf(records, o) <=> FactAt(records, i).about[1] = o
  BY <1>2 DEF AboutOf
<1>6. \A i \in AboutOf(new, o) :
         i \in AboutOf(records, o) \/ \E k \in 1..m : i = r + k
  <2> SUFFICES ASSUME NEW i \in AboutOf(new, o), i \notin AboutOf(records, o)
               PROVE  \E k \in 1..m : i = r + k
    OBVIOUS
  <2>1. i \in 1..(r + m) /\ FactAt(new, i).about[1] = o
    BY <1>2 DEF AboutOf
  <2>2. i \notin 1..r
    BY <2>1, <1>2, <1>5
  <2>3. i - r \in 1..m /\ i = r + (i - r)
    BY <2>1, <2>2, <1>1, <1>2
  <2> QED
    BY <2>3
<1>7. AboutOf(records, o) \subseteq AboutOf(new, o)
  BY <1>1, <1>2, <1>5 DEF AboutOf
<1>8. \A k \in 1..m : r + k \in AboutOf(new, o) /\ Told(r + k) = version + k
  <2> SUFFICES ASSUME NEW k \in 1..m PROVE r + k \in AboutOf(new, o) /\ Told(r + k) = version + k
    OBVIOUS
  <2>1. FactAt(new, r + k) = facts[k] /\ facts[k].about[1] = o /\ facts[k].about[2] = version + k
    BY <1>2, <1>3
  <2>2. r + k \in 1..(r + m)
    BY <1>1, <1>2
  <2> QED
    BY <1>2, <2>1, <2>2 DEF AboutOf
<1>9. \A i \in AboutOf(records, o) : Told(i) = FactAt(records, i).about[2] /\ Told(i) \in 1..version
  BY <1>2, <1>4, <1>5
<1>10. {Told(i) : i \in AboutOf(new, o)} = 1..(version + m)
  <2>1. \A i \in AboutOf(new, o) : Told(i) \in 1..(version + m)
    BY <1>1, <1>6, <1>8, <1>9
  <2>2. ASSUME NEW v \in 1..(version + m) PROVE \E i \in AboutOf(new, o) : Told(i) = v
    <3>1. CASE v \in 1..version
      <4>1. PICK i \in AboutOf(records, o) : FactAt(records, i).about[2] = v
        BY <3>1, <1>4
      <4> QED
        BY <4>1, <1>7, <1>9
    <3>2. CASE v \notin 1..version
      <4>1. v - version \in 1..m /\ v = version + (v - version)
        BY <3>2, <1>1
      <4> QED
        BY <4>1, <1>8
    <3> QED
      BY <3>1, <3>2
  <2> HIDE DEF Told
  <2> QED
    BY <2>1, <2>2
<1>11. ASSUME NEW i \in AboutOf(new, o), NEW k \in AboutOf(new, o), i < k PROVE Told(i) < Told(k)
  <2>1. CASE k \in AboutOf(records, o)
    <3>1. i \in AboutOf(records, o)
      BY <2>1, <1>2, <1>5, <1>6, <1>11
    <3> QED
      BY <3>1, <2>1, <1>4, <1>9, <1>11
  <2>2. ASSUME NEW j \in 1..m, k = r + j PROVE Told(i) < Told(k)
    <3>1. Told(k) = version + j
      BY <2>2, <1>8
    <3>2. CASE i \in AboutOf(records, o)
      <4>1. Told(i) \in 1..version
        BY <3>2, <1>9
      <4> QED
        BY <4>1, <3>1
    <3>3. ASSUME NEW l \in 1..m, i = r + l PROVE Told(i) < Told(k)
      <4>1. Told(i) = version + l /\ l < j
        BY <3>3, <2>2, <1>1, <1>2, <1>8, <1>11
      <4> QED
        BY <4>1, <3>1
    <3> QED
      BY <3>2, <3>3, <1>6
  <2> QED
    BY <2>1, <2>2, <1>6
<1>12. ASSUME NEW i \in AboutOf(new, o), Told(i) = version + m
       PROVE  FactAt(new, i).about[3] = facts[m].about[3]
  <2>1. i \notin AboutOf(records, o)
    <3>1. i \in AboutOf(records, o) => Told(i) \in 1..version
      BY <1>9
    <3> QED
      BY <3>1, <1>1, <1>12
  <2>2. PICK k \in 1..m : i = r + k
    BY <2>1, <1>6
  <2>3. k = m
    BY <2>2, <1>1, <1>8, <1>12
  <2> QED
    BY <2>2, <2>3, <1>2
<1> QED
  BY <1>10, <1>11, <1>12 DEF FactsTell, m

\* Facts about other operations tell nothing of this one.
LEMMA GrownQuiet ==
    ASSUME NEW facts, Len(facts) \in Nat,
           NEW records, records \in Seq(Range(records)), NEW new, Grown(records, new, facts),
           NEW o, NEW version, NEW state, FactsTell(records, o, version, state),
           \A k \in 1..Len(facts) : facts[k].about[1] # o
    PROVE  FactsTell(new, o, version, state)
<1> DEFINE m == Len(facts) r == Len(records)
<1>1. /\ r \in Nat /\ DOMAIN records = 1..r /\ DOMAIN new = 1..(r + m)
      /\ \A i \in 1..r : FactAt(new, i) = FactAt(records, i)
      /\ \A k \in 1..m : FactAt(new, r + k) = facts[k]
  BY DEF Grown, FactAt
<1>2. \A i \in 1..(r + m) : (i \in 1..r) \/ (i - r \in 1..m /\ i = r + (i - r))
  BY <1>1
<1>3. AboutOf(new, o) = AboutOf(records, o) /\ AboutOf(records, o) \subseteq 1..r
  <2> HIDE DEF m, r
  <2>1. \A k \in 1..m : facts[k].about[1] # o
    BY DEF m
  <2>2. m \in Nat /\ 1..r \subseteq 1..(r + m)
    BY <1>1 DEF m
  <2>3. /\ \A i \in 1..(r + m) : i \in AboutOf(new, o) <=> FactAt(new, i).about[1] = o
        /\ \A i \in 1..r : i \in AboutOf(records, o) <=> FactAt(records, i).about[1] = o
        /\ AboutOf(new, o) \subseteq 1..(r + m) /\ AboutOf(records, o) \subseteq 1..r
    BY <1>1 DEF AboutOf
  <2>4. ASSUME NEW i \in 1..(r + m), i \notin 1..r PROVE i \notin AboutOf(new, o)
    <3>1. i - r \in 1..m /\ i = r + (i - r)
      BY <1>2, <2>4
    <3>2. FactAt(new, r + (i - r)) = facts[i - r]
      BY <3>1, <1>1
    <3> QED
      BY <3>1, <3>2, <2>1, <2>3
  <2>5. ASSUME NEW i \in 1..r PROVE i \in AboutOf(new, o) <=> i \in AboutOf(records, o)
    <3>1. FactAt(new, i) = FactAt(records, i) /\ i \in 1..(r + m)
      BY <1>1, <2>2
    <3> QED
      BY <3>1, <2>3
  <2>6. AboutOf(new, o) \subseteq 1..r /\ AboutOf(records, o) \subseteq 1..r
    BY <2>3, <2>4
  <2> QED
    BY <2>5, <2>6
<1>4. \A i \in AboutOf(records, o) : FactAt(new, i) = FactAt(records, i)
  BY <1>1, <1>3
<1>5. {FactAt(new, i).about[2] : i \in AboutOf(new, o)}
         = {FactAt(records, i).about[2] : i \in AboutOf(records, o)}
  BY <1>3, <1>4
<1> QED
  BY <1>3, <1>4, <1>5 DEF FactsTell

-----------------------------------------------------------------------------
\* The outbox.

\* The event of an operation's next version, starting where its row stands.
LEMMA NextEvent ==
    ASSUME NEW T, NEW events \in Seq(T), NEW event, NEW o, NEW version \in Nat \ {0}, NEW state,
           EventsTell(events, o, version, state),
           event.operation = o, event.sequence = version + 1, event.from = state,
           event.to \in Lifecycle!Legal[event.from],
           version = 1 => state = "PENDING"
    PROVE  EventsTell(Append(events, event), o, version + 1, event.to)
<1> DEFINE r == Len(events) new == Append(events, event)
<1>1. /\ r \in Nat /\ DOMAIN events = 1..r /\ DOMAIN new = 1..(r + 1)
      /\ \A i \in 1..r : new[i] = events[i]
      /\ new[r + 1] = event
  OBVIOUS
<1> HIDE DEF r, new
<1>2. /\ {events[n].sequence : n \in EventsOf(events, o)} = 2..version
      /\ \A m, n \in EventsOf(events, o) : m < n => events[m].sequence < events[n].sequence
      /\ \A n \in EventsOf(events, o) :
            /\ events[n].to \in Lifecycle!Legal[events[n].from]
            /\ events[n].sequence = 2 => events[n].from = "PENDING"
            /\ \A m \in EventsOf(events, o) :
                  events[n].sequence = events[m].sequence + 1 => events[n].from = events[m].to
            /\ events[n].sequence = version => events[n].to = state
  BY DEF EventsTell
<1>3. /\ EventsOf(events, o) \subseteq 1..r
      /\ EventsOf(new, o) = EventsOf(events, o) \union {r + 1}
  <2>1. /\ \A i \in 1..r : i \in EventsOf(events, o) <=> events[i].operation = o
        /\ \A i \in 1..(r + 1) : i \in EventsOf(new, o) <=> new[i].operation = o
        /\ EventsOf(events, o) \subseteq 1..r /\ EventsOf(new, o) \subseteq 1..(r + 1)
    BY <1>1 DEF EventsOf
  <2>2. r + 1 \in 1..(r + 1) /\ \A i \in 1..(r + 1) : i \in 1..r \/ i = r + 1
    BY <1>1
  <2> QED
    BY <1>1, <2>1, <2>2
<1>4. \A n \in EventsOf(events, o) : new[n] = events[n] /\ events[n].sequence \in 2..version
  BY <1>1, <1>2, <1>3
<1>5. {new[n].sequence : n \in EventsOf(new, o)} = 2..(version + 1)
  <2>1. \A n \in EventsOf(new, o) : new[n].sequence \in 2..(version + 1)
    BY <1>1, <1>3, <1>4
  <2>2. ASSUME NEW v \in 2..(version + 1) PROVE \E n \in EventsOf(new, o) : new[n].sequence = v
    <3>1. CASE v \in 2..version
      <4>1. PICK n \in EventsOf(events, o) : events[n].sequence = v
        BY <3>1, <1>2
      <4> QED
        BY <4>1, <1>3, <1>4
    <3>2. CASE v = version + 1
      BY <3>2, <1>1, <1>3
    <3> QED
      BY <3>1, <3>2
  <2> QED
    BY <2>1, <2>2
<1>6. \A m, n \in EventsOf(new, o) : m < n => new[m].sequence < new[n].sequence
  <2>1. \A m \in EventsOf(events, o) : m < r + 1 /\ new[m].sequence < version + 1
    BY <1>1, <1>3, <1>4
  <2> QED
    BY <2>1, <1>1, <1>2, <1>3, <1>4
<1>7. ASSUME NEW n \in EventsOf(events, o)
      PROVE  /\ new[n].to \in Lifecycle!Legal[new[n].from]
             /\ new[n].sequence = 2 => new[n].from = "PENDING"
             /\ \A m \in EventsOf(new, o) :
                   new[n].sequence = new[m].sequence + 1 => new[n].from = new[m].to
             /\ new[n].sequence # version + 1
  <2>1. new[n] = events[n] /\ events[n].sequence \in 2..version
    BY <1>4
  <2>2. ASSUME NEW m \in EventsOf(new, o), new[n].sequence = new[m].sequence + 1
        PROVE  new[n].from = new[m].to
    <3>1. m # r + 1
      BY <2>1, <2>2, <1>1
    <3>2. m \in EventsOf(events, o) /\ new[m] = events[m]
      BY <3>1, <1>3, <1>4
    <3> QED
      BY <3>2, <2>1, <2>2, <1>2
  <2> QED
    BY <2>1, <2>2, <1>2
<1>8. /\ \A m \in EventsOf(new, o) :
            event.sequence = new[m].sequence + 1 => event.from = new[m].to
      /\ event.sequence = 2 => event.from = "PENDING"
  <2>1. ASSUME NEW m \in EventsOf(new, o), event.sequence = new[m].sequence + 1
        PROVE  event.from = new[m].to
    <3>1. m # r + 1
      BY <2>1, <1>1
    <3>2. m \in EventsOf(events, o) /\ new[m] = events[m] /\ events[m].sequence = version
      BY <3>1, <2>1, <1>3, <1>4
    <3> QED
      BY <3>2, <1>2
  <2> QED
    BY <2>1
<1>9. \A n \in EventsOf(new, o) :
         /\ new[n].to \in Lifecycle!Legal[new[n].from]
         /\ new[n].sequence = 2 => new[n].from = "PENDING"
         /\ \A m \in EventsOf(new, o) :
               new[n].sequence = new[m].sequence + 1 => new[n].from = new[m].to
         /\ new[n].sequence = version + 1 => new[n].to = event.to
  BY <1>1, <1>3, <1>7, <1>8
<1> QED
  BY <1>5, <1>6, <1>9 DEF EventsTell, new

\* The event of another operation.
LEMMA OtherEvent ==
    ASSUME NEW T, NEW events \in Seq(T), NEW event, NEW o, NEW version, NEW state,
           EventsTell(events, o, version, state), event.operation # o
    PROVE  EventsTell(Append(events, event), o, version, state)
<1> DEFINE r == Len(events) new == Append(events, event)
<1>1. /\ r \in Nat /\ DOMAIN events = 1..r /\ DOMAIN new = 1..(r + 1)
      /\ \A i \in 1..r : new[i] = events[i]
      /\ new[r + 1] = event
  OBVIOUS
<1> HIDE DEF r, new
<1>2. EventsOf(new, o) = EventsOf(events, o)
  <2>1. /\ \A i \in 1..r : i \in EventsOf(events, o) <=> events[i].operation = o
        /\ \A i \in 1..(r + 1) : i \in EventsOf(new, o) <=> new[i].operation = o
        /\ EventsOf(events, o) \subseteq 1..r /\ EventsOf(new, o) \subseteq 1..(r + 1)
    BY <1>1 DEF EventsOf
  <2>2. \A i \in 1..(r + 1) : i \in 1..r \/ i = r + 1
    BY <1>1
  <2>3. 1..r \subseteq 1..(r + 1)
    BY <1>1
  <2> QED
    BY <1>1, <2>1, <2>2, <2>3
<1>3. \A n \in EventsOf(events, o) : new[n] = events[n]
  BY <1>1 DEF EventsOf
<1>4. {new[n].sequence : n \in EventsOf(new, o)} = {events[n].sequence : n \in EventsOf(events, o)}
  BY <1>2, <1>3
<1>5. \A m, n \in EventsOf(new, o) : m < n => new[m].sequence < new[n].sequence
  BY <1>2, <1>3 DEF EventsTell
<1>6. \A n \in EventsOf(new, o) :
         /\ new[n].to \in Lifecycle!Legal[new[n].from]
         /\ new[n].sequence = 2 => new[n].from = "PENDING"
         /\ \A m \in EventsOf(new, o) :
               new[n].sequence = new[m].sequence + 1 => new[n].from = new[m].to
         /\ new[n].sequence = version => new[n].to = state
  BY <1>2, <1>3 DEF EventsTell
<1>7. {new[n].sequence : n \in EventsOf(new, o)} = 2..version
  BY <1>4 DEF EventsTell
<1>8. EventsTell(new, o, version, state)
  BY <1>5, <1>6, <1>7 DEF EventsTell
<1> QED
  BY <1>8 DEF new

\* An operation without a row has no event, and its creation needs none.
LEMMA NoEventYet ==
    ASSUME NEW events, NEW o, NEW state, NEW first, EventsTell(events, o, 0, state)
    PROVE  EventsTell(events, o, 1, first)
<1>1. {events[n].sequence : n \in EventsOf(events, o)} = 2..0
  BY DEF EventsTell
<1>2. 2..0 = {} /\ 2..1 = {}
  OBVIOUS
<1>3. EventsOf(events, o) = {}
  BY <1>1, <1>2
<1> QED
  BY <1>1, <1>2, <1>3 DEF EventsTell

\* A chain that has no fact about an operation tells nothing of its state.
LEMMA NothingTold ==
    ASSUME NEW records, NEW o, NEW state, NEW other, FactsTell(records, o, 0, state)
    PROVE  FactsTell(records, o, 0, other)
<1>1. {FactAt(records, i).about[2] : i \in AboutOf(records, o)} = 1..0
  BY DEF FactsTell
<1>2. 1..0 = {}
  OBVIOUS
<1>3. AboutOf(records, o) = {}
  BY <1>1, <1>2
<1> QED
  BY <1>1, <1>3 DEF FactsTell

-----------------------------------------------------------------------------
\* The store's steps.

\* Changing what is recorded about one operation touches no other row.
LEMMA OneRow ==
    ASSUME TypeOK, NEW o \in Operation, NEW row \in RowType,
           operations' = [operations EXCEPT ![o] = row]
    PROVE  /\ operations' \in [Operation -> RowType \union {NoOperation}]
           /\ operations'[o] = row
           /\ \A p \in Operation : p # o => operations'[p] = operations[p]
BY DEF TypeOK

\* An audited change: every chain is again in step with the log, and only the chain
\* of the facts' organization grew, by exactly these facts.
LEMMA AuditKept ==
    ASSUME TypeOK, LogInPlace, ChainsSealed, NEW org \in Org, NEW facts \in Seq(FactType),
           CommitAudit(org, facts),
           \A other \in Org : InStep(other, chains[other], audit),
           \A k \in 1..Len(facts) : facts[k].event = Len(audit) + k /\ facts[k].org = org
    PROVE  /\ audit' \in Seq(FactType) /\ \A n \in DOMAIN audit' : audit'[n].event = n
           /\ DOMAIN chains' = Org
           /\ \A other \in Org : chains'[other] \in Seq(Range(chains'[other]))
           /\ \A other \in Org : InStep(other, chains'[other], audit')
           /\ Grown(chains[org], chains'[org], facts)
           /\ \A other \in Org : other # org => chains'[other] = chains[other]
           /\ ChainsSealed'
<1>1. /\ Appendable(org, chains[org], facts)
      /\ chains' = [chains EXCEPT ![org] = Appended(chains[org], facts)]
      /\ audit' = audit \o facts
  BY DEF CommitAudit
<1>2. /\ DOMAIN chains = Org /\ audit \in Seq(FactType)
      /\ \A other \in Org : chains[other] \in Seq(Range(chains[other]))
  BY DEF TypeOK
<1>3. /\ DOMAIN chains' = Org /\ chains'[org] = Appended(chains[org], facts)
      /\ \A other \in Org : other # org => chains'[other] = chains[other]
  BY <1>1, <1>2
<1>4. facts \in Seq(Range(facts))
  <2>1. \A k \in DOMAIN facts : facts[k] \in Range(facts)
    BY DEF Range
  <2> QED
    BY <2>1
<1>5. /\ Valid(org, chains'[org]) /\ Grown(chains[org], chains'[org], facts)
      /\ WellSealed(chains[org]) => WellSealed(chains'[org])
  BY <1>1, <1>2, <1>3, <1>4, AppendKeepsChain
<1>6. chains'[org] \in Seq(Range(chains'[org]))
  BY <1>5 DEF Grown
<1>7. InStep(org, chains'[org], audit')
  BY <1>1, <1>2, <1>5, GrownInStep
<1>8. ASSUME NEW other \in Org, other # org PROVE InStep(other, chains'[other], audit')
  <2>1. \A k \in 1..Len(facts) : facts[k].org # other
    BY <1>8
  <2>2. InStep(other, chains[other], audit \o facts)
    BY <1>2, <2>1, OtherInStep
  <2> QED
    BY <1>1, <1>3, <1>8, <2>2
<1>9. audit' \in Seq(FactType)
  BY <1>1, <1>2
<1>10. ASSUME NEW n \in DOMAIN audit' PROVE audit'[n].event = n
  <2> DEFINE r == Len(audit) m == Len(facts)
  <2>1. /\ r \in Nat /\ m \in Nat /\ DOMAIN audit = 1..r
        /\ DOMAIN audit' = 1..(r + m)
        /\ \A i \in 1..r : audit'[i] = audit[i]
        /\ \A k \in 1..m : audit'[r + k] = facts[k]
        /\ \A i \in 1..(r + m) : i \in 1..r \/ \E k \in 1..m : i = r + k
    BY <1>1, <1>2, Concatenated
  <2>2. CASE n \in 1..r
    BY <2>1, <2>2 DEF LogInPlace
  <2>3. ASSUME NEW k \in 1..m, n = r + k PROVE audit'[n].event = n
    <3>1. audit'[r + k] = facts[k] /\ facts[k].event = r + k
      BY <2>1
    <3> QED
      BY <3>1, <2>3
  <2> QED
    BY <2>1, <2>2, <2>3
<1>11. ChainsSealed'
  BY <1>3, <1>5 DEF ChainsSealed
<1> QED
  BY <1>2, <1>3, <1>5, <1>6, <1>7, <1>8, <1>9, <1>10, <1>11

\* The chains account for a changed row when the batch tells its new versions.
LEMMA ChainsTell ==
    ASSUME TypeOK, ChainTellsAll, NEW o \in Operation, NEW row \in RowType,
           operations' = [operations EXCEPT ![o] = row],
           operations[o] = NoOperation \/ operations[o].org = row.org,
           NEW facts \in Seq(FactType), facts # <<>>,
           Grown(chains[row.org], chains'[row.org], facts),
           \A other \in Org : other # row.org => chains'[other] = chains[other],
           \A k \in 1..Len(facts) :
              facts[k].about[1] = o /\ facts[k].about[2] = operations[o].version + k,
           row.version = operations[o].version + Len(facts),
           row.state = facts[Len(facts)].about[3]
    PROVE  \A other \in Org, p \in Operation :
              FactsTell(chains'[other], p, VersionIn(other, p)', operations'[p].state)
<1> DEFINE org == row.org
<1>1. org \in Org /\ operations[o].version \in Nat
  BY DEF TypeOK, RowType, NoOperation, Row
<1>2. /\ operations'[o] = row
      /\ \A p \in Operation : p # o => operations'[p] = operations[p]
  BY OneRow
<1>3. \A other \in Org, p \in Operation :
         FactsTell(chains[other], p, VersionIn(other, p), operations[p].state)
  BY DEF ChainTellsAll
<1>4. \A other \in Org : chains[other] \in Seq(Range(chains[other]))
  BY DEF TypeOK
<1>5. ASSUME NEW other \in Org, NEW p \in Operation
      PROVE  FactsTell(chains'[other], p, VersionIn(other, p)', operations'[p].state)
  <2>1. CASE other = org /\ p = o
    <3>1. VersionIn(org, o) = operations[o].version
      BY DEF VersionIn, NoOperation, Row
    <3>2. VersionIn(org, o)' = operations[o].version + Len(facts)
      BY <1>2 DEF VersionIn
    <3>3. FactsTell(chains[org], o, operations[o].version, operations[o].state)
      BY <1>1, <1>3, <3>1
    <3>4. FactsTell(chains'[org], o, operations[o].version + Len(facts), row.state)
      BY <1>1, <1>4, <3>3, GrownTells
    <3> QED
      BY <2>1, <1>2, <3>2, <3>4
  <2>2. CASE other = org /\ p # o
    <3>1. VersionIn(org, p)' = VersionIn(org, p) /\ operations'[p].state = operations[p].state
      BY <1>2, <2>2 DEF VersionIn
    <3>2. Len(facts) \in Nat /\ \A k \in 1..Len(facts) : facts[k].about[1] # p
      BY <2>2
    <3>3. FactsTell(chains[org], p, VersionIn(org, p), operations[p].state)
      BY <1>1, <1>3
    <3>4. FactsTell(chains'[org], p, VersionIn(org, p), operations[p].state)
      BY <1>1, <1>4, <3>2, <3>3, GrownQuiet
    <3> QED
      BY <2>2, <3>1, <3>4
  <2>3. CASE other # org /\ p = o
    <3>1. VersionIn(other, o) = 0 /\ VersionIn(other, o)' = 0
      BY <1>2, <2>3 DEF VersionIn, NoOperation, Row
    <3>2. FactsTell(chains[other], o, 0, operations[o].state)
      BY <1>3, <3>1
    <3>3. FactsTell(chains[other], o, 0, row.state)
      BY <3>2, NothingTold
    <3> QED
      BY <2>3, <1>2, <3>1, <3>3
  <2>4. CASE other # org /\ p # o
    <3>1. VersionIn(other, p)' = VersionIn(other, p) /\ operations'[p] = operations[p]
      BY <1>2, <2>4 DEF VersionIn
    <3> QED
      BY <1>3, <2>4, <3>1
  <2> QED
    BY <2>1, <2>2, <2>3, <2>4
<1> QED
  BY <1>5

\* What the audit log and the chains have to satisfy after a step.
AuditIInv ==
    /\ audit \in Seq(FactType) /\ \A n \in DOMAIN audit : audit[n].event = n
    /\ DOMAIN chains = Org /\ \A org \in Org : chains[org] \in Seq(Range(chains[org]))
    /\ ChainTellsAll /\ ChainsSealed

\* One new version of one row, with its fact.
LEMMA RowAudited ==
    ASSUME IInv, NEW o \in Operation, NEW row \in RowType,
           operations' = [operations EXCEPT ![o] = row],
           operations[o] = NoOperation \/ operations[o].org = row.org,
           row.version = operations[o].version + 1,
           CommitAudit(row.org, <<AuditFact(1, o, row)>>)
    PROVE  AuditIInv'
<1> DEFINE fact == AuditFact(1, o, row) facts == <<fact>>
<1>1. TypeOK /\ LogInPlace /\ ChainTellsAll /\ ChainsSealed /\ row.org \in Org
  BY DEF IInv, RowType
<1>2. /\ fact \in FactType
      /\ fact.event = Len(audit) + 1 /\ fact.org = row.org
      /\ fact.about[1] = o /\ fact.about[2] = row.version /\ fact.about[3] = row.state
  <2>1. Len(audit) \in Nat
    BY <1>1 DEF TypeOK
  <2> QED
    BY <2>1 DEF AuditFact, Fact, FactType, RowType
<1> HIDE DEF fact
<1>3. /\ facts \in Seq(FactType) /\ facts # <<>> /\ Len(facts) = 1 /\ facts[1] = fact
      /\ \A k \in 1..1 : k = 1
  BY <1>2
<1>4. CommitAudit(row.org, facts)
  BY DEF fact
<1> HIDE DEF facts
<1>5. \A other \in Org : InStep(other, chains[other], audit)
  BY <1>1 DEF ChainTellsAll
<1>6. \A k \in 1..Len(facts) : facts[k].event = Len(audit) + k /\ facts[k].org = row.org
  BY <1>2, <1>3
<1>7. \A k \in 1..Len(facts) :
         facts[k].about[1] = o /\ facts[k].about[2] = operations[o].version + k
  BY <1>2, <1>3
<1>8. row.version = operations[o].version + Len(facts) /\ row.state = facts[Len(facts)].about[3]
  BY <1>2, <1>3
<1>9. /\ audit' \in Seq(FactType) /\ \A n \in DOMAIN audit' : audit'[n].event = n
      /\ DOMAIN chains' = Org
      /\ \A other \in Org : chains'[other] \in Seq(Range(chains'[other]))
      /\ \A other \in Org : InStep(other, chains'[other], audit')
      /\ Grown(chains[row.org], chains'[row.org], facts)
      /\ \A other \in Org : other # row.org => chains'[other] = chains[other]
      /\ ChainsSealed'
  BY <1>1, <1>3, <1>4, <1>5, <1>6, AuditKept
<1>10. \A other \in Org, p \in Operation :
          FactsTell(chains'[other], p, VersionIn(other, p)', operations'[p].state)
  BY <1>1, <1>3, <1>7, <1>8, <1>9, ChainsTell
<1>11. ChainTellsAll'
  BY <1>9, <1>10 DEF ChainTellsAll
<1> QED
  BY <1>9, <1>11 DEF AuditIInv

\* Two new versions of one row, with a fact for each.
LEMMA RowAuditedTwice ==
    ASSUME IInv, NEW o \in Operation, NEW first \in RowType, NEW row \in RowType,
           operations' = [operations EXCEPT ![o] = row],
           first.org = row.org, operations[o].org = row.org,
           first.version = operations[o].version + 1, row.version = operations[o].version + 2,
           CommitAudit(row.org, <<AuditFact(1, o, first), AuditFact(2, o, row)>>)
    PROVE  AuditIInv'
<1> DEFINE one == AuditFact(1, o, first) two == AuditFact(2, o, row) facts == <<one, two>>
<1>1. TypeOK /\ LogInPlace /\ ChainTellsAll /\ ChainsSealed /\ row.org \in Org
  BY DEF IInv, RowType
<1>2. /\ one \in FactType /\ two \in FactType
      /\ one.event = Len(audit) + 1 /\ one.org = row.org
      /\ one.about[1] = o /\ one.about[2] = first.version
      /\ two.event = Len(audit) + 2 /\ two.org = row.org
      /\ two.about[1] = o /\ two.about[2] = row.version /\ two.about[3] = row.state
  <2>1. Len(audit) \in Nat
    BY <1>1 DEF TypeOK
  <2> QED
    BY <2>1 DEF AuditFact, Fact, FactType, RowType
<1> HIDE DEF one, two
<1>3. /\ facts \in Seq(FactType) /\ facts # <<>> /\ Len(facts) = 2
      /\ facts[1] = one /\ facts[2] = two
      /\ \A k \in 1..2 : k = 1 \/ k = 2
  BY <1>2
<1>4. CommitAudit(row.org, facts)
  BY DEF one, two
<1> HIDE DEF facts
<1>5. \A other \in Org : InStep(other, chains[other], audit)
  BY <1>1 DEF ChainTellsAll
<1>6. \A k \in 1..Len(facts) : facts[k].event = Len(audit) + k /\ facts[k].org = row.org
  BY <1>2, <1>3
<1>7. \A k \in 1..Len(facts) :
         facts[k].about[1] = o /\ facts[k].about[2] = operations[o].version + k
  BY <1>2, <1>3
<1>8. row.version = operations[o].version + Len(facts) /\ row.state = facts[Len(facts)].about[3]
  BY <1>2, <1>3
<1>9. /\ audit' \in Seq(FactType) /\ \A n \in DOMAIN audit' : audit'[n].event = n
      /\ DOMAIN chains' = Org
      /\ \A other \in Org : chains'[other] \in Seq(Range(chains'[other]))
      /\ \A other \in Org : InStep(other, chains'[other], audit')
      /\ Grown(chains[row.org], chains'[row.org], facts)
      /\ \A other \in Org : other # row.org => chains'[other] = chains[other]
      /\ ChainsSealed'
  BY <1>1, <1>3, <1>4, <1>5, <1>6, AuditKept
<1>10. \A other \in Org, p \in Operation :
          FactsTell(chains'[other], p, VersionIn(other, p)', operations'[p].state)
  BY <1>1, <1>3, <1>7, <1>8, <1>9, ChainsTell
<1>11. ChainTellsAll'
  BY <1>9, <1>10 DEF ChainTellsAll
<1> QED
  BY <1>9, <1>11 DEF AuditIInv

\* Jobs and answers stay bound to their operations while no operation to compile
\* comes, goes or changes its key, and no approved demand changes.
LEMMA JobsKept ==
    ASSUME JobsBound, UNCHANGED <<jobs, remembered>>,
           \A o \in Operation : o \in Compilations' <=> o \in Compilations,
           \A o \in Compilations :
              operations'[o].org = operations[o].org /\ operations'[o].key = operations[o].key,
           \A i \in DOMAIN jobs : demands'[jobs[i].demand] = demands[jobs[i].demand]
    PROVE  JobsBound'
<1>1. Compilations \subseteq Operation /\ Compilations' \subseteq Operation
  BY DEF Compilations, Existing
<1>2. Compilations' = Compilations
  BY <1>1
<1>3. jobs' = jobs /\ remembered' = remembered
  OBVIOUS
<1> QED
  BY <1>2, <1>3 DEF JobsBound

\* An empty store satisfies the inductive invariant.
LEMMA InitIInv == Init => IInv
<1> SUFFICES ASSUME Init PROVE IInv
  OBVIOUS
<1>1. \A T : <<>> \in Seq(T)
  OBVIOUS
<1>2. \A o \in Operation : operations[o] = NoOperation
  BY DEF Init
<1>3. TypeOK
  BY <1>1 DEF Init, TypeOK, Input
<1>4. LogInPlace
  BY <1>2 DEF Init, LogInPlace, NoOperation, Row
<1>5. ASSUME NEW o \in Operation
      PROVE  EventsTell(outbox, o, operations[o].version, operations[o].state)
  <2>1. EventsOf(<<>>, o) = {}
    BY DEF EventsOf
  <2>2. outbox = <<>> /\ operations[o].version = 0 /\ 2..0 = {}
    BY <1>2 DEF Init, NoOperation, Row
  <2> QED
    BY <2>1, <2>2 DEF EventsTell
<1>6. ASSUME NEW org \in Org PROVE InStep(org, chains[org], audit)
  <2>1. chains[org] = <<>> /\ audit = <<>>
    BY DEF Init
  <2> QED
    BY <2>1 DEF InStep, Valid
<1>7. ASSUME NEW org \in Org, NEW o \in Operation
      PROVE  FactsTell(chains[org], o, VersionIn(org, o), operations[o].state)
  <2>1. AboutOf(<<>>, o) = {}
    BY DEF AboutOf
  <2>2. chains[org] = <<>> /\ VersionIn(org, o) = 0 /\ 1..0 = {}
    BY <1>2 DEF Init, VersionIn, NoOperation, Row
  <2> QED
    BY <2>1, <2>2 DEF FactsTell
<1>8. ChainsSealed
  BY DEF Init, ChainsSealed, WellSealed
<1>9. JobsBound
  <2>1. Compilations = {} /\ jobs = <<>>
    BY <1>2 DEF Init, Compilations, Existing
  <2>2. \A org \in Org, key \in Key : remembered[<<org, key>>] = NoAnswer
    BY DEF Init
  <2> QED
    BY <2>1, <2>2 DEF JobsBound
<1> QED
  BY <1>3, <1>4, <1>5, <1>6, <1>7, <1>8, <1>9 DEF IInv, OutboxTellsRow, ChainTellsAll

\* A demand's compilation is requested.
LEMMA RequestKeeps ==
    ASSUME IInv, NEW o \in Operation, NEW org \in Org, NEW key \in Key, NEW d \in Demand,
           NEW ifMatch, RequestCompilation(o, org, key, d, ifMatch)
    PROVE  IInv'
<1> DEFINE row == Row("PENDING", 1, "COMPILE_PROFILE", org, key, FALSE)
           job == JobRow(o, d)
           r == Len(jobs)
<1>1. /\ TypeOK /\ LogInPlace /\ OutboxTellsRow /\ ChainTellsAll /\ JobsBound
      /\ Requestable(org, key, d, ifMatch) /\ operations[o] = NoOperation
      /\ CommitAudit(org, <<AuditFact(1, o, row)>>)
      /\ operations' = [operations EXCEPT ![o] = row]
      /\ jobs' = Append(jobs, job)
      /\ remembered' = [remembered EXCEPT ![<<org, key>>] = Answer(o, d)]
      /\ UNCHANGED <<demands, inputs, outbox, auditFailure, failures>>
  BY DEF IInv, RequestCompilation
<1>2. /\ row \in RowType /\ row.org = org /\ row.key = key /\ row.version = 1
      /\ row.state = "PENDING" /\ row.type = "COMPILE_PROFILE" /\ row # NoOperation
  BY DEF Row, RowType, NoOperation, Lifecycle!OperationStates
<1>3. /\ job \in JobType
      /\ job.operation = o /\ job.org = org /\ job.org = OrgOf[job.demand] /\ job.demand = d
      /\ demands[job.demand] = [revision |-> job.revision, approved |-> TRUE]
      /\ job.input = job.revision
  <2>1. demands[d] \in [revision : Nat, approved : BOOLEAN] /\ demands[d].approved
    BY <1>1 DEF TypeOK, Requestable
  <2>2. OrgOf[d] = org /\ inputs[d].revision = demands[d].revision
    BY <1>1 DEF Requestable, Resolved, Input
  <2> QED
    BY <2>1, <2>2 DEF JobRow, JobType
<1>4. operations[o].version = 0
  BY <1>1 DEF NoOperation, Row
<1> HIDE DEF row, job
<1>5. /\ operations' \in [Operation -> RowType \union {NoOperation}]
      /\ operations'[o] = row /\ \A p \in Operation : p # o => operations'[p] = operations[p]
  BY <1>1, <1>2, OneRow
<1>6. AuditIInv'
  <2>1. row.version = operations[o].version + 1
    BY <1>2, <1>4
  <2>2. CommitAudit(row.org, <<AuditFact(1, o, row)>>)
    BY <1>1, <1>2
  <2> QED
    BY <1>1, <1>2, <2>1, <2>2, RowAudited
<1>7. TypeOK'
  <2>1. jobs' \in Seq(JobType)
    BY <1>1, <1>3 DEF TypeOK
  <2>2. remembered' \in
           [Org \X Key -> [operation : Operation, demand : Demand] \union {NoAnswer}]
    BY <1>1 DEF TypeOK, Answer
  <2>3. /\ demands' \in [Demand -> [revision : Nat, approved : BOOLEAN]]
        /\ inputs' \in [Demand -> [available : BOOLEAN, revision : Nat]]
        /\ outbox' \in Seq(EventType)
    BY <1>1 DEF TypeOK
  <2> QED
    BY <2>1, <2>2, <2>3, <1>5, <1>6 DEF TypeOK, AuditIInv
<1>8. LogInPlace'
  BY <1>1, <1>2, <1>5, <1>6 DEF LogInPlace, AuditIInv
<1>9. OutboxTellsRow'
  <2>1. EventsTell(outbox, o, 1, "PENDING")
    BY <1>1, <1>4, NoEventYet DEF OutboxTellsRow
  <2> QED
    BY <2>1, <1>1, <1>2, <1>5 DEF OutboxTellsRow
<1>10. /\ Compilations' = Compilations \union {o} /\ o \notin Compilations
       /\ Compilations \subseteq Operation
  <2>1. o \in Compilations' /\ o \notin Compilations
    BY <1>1, <1>2, <1>5 DEF Compilations, Existing
  <2>2. \A p \in Operation : p # o => (p \in Compilations' <=> p \in Compilations)
    BY <1>5 DEF Compilations, Existing
  <2>3. Compilations \subseteq Operation /\ Compilations' \subseteq Operation
    BY DEF Compilations, Existing
  <2> QED
    BY <2>1, <2>2, <2>3
<1>11. /\ r \in Nat /\ DOMAIN jobs = 1..r /\ DOMAIN jobs' = 1..(r + 1)
       /\ \A i \in 1..r : jobs'[i] = jobs[i]
       /\ jobs'[r + 1] = job
       /\ \A i \in 1..(r + 1) : i \in 1..r \/ i = r + 1
  <2>1. jobs \in Seq(JobType) /\ job \in JobType
    BY <1>1, <1>3 DEF TypeOK
  <2>2. r \in Nat /\ DOMAIN jobs = 1..r
    BY <2>1
  <2>3. /\ DOMAIN jobs' = 1..(r + 1)
        /\ \A i \in 1..r : jobs'[i] = jobs[i]
        /\ jobs'[r + 1] = job
    BY <1>1, <2>1
  <2> QED
    BY <2>2, <2>3
<1> HIDE DEF r
<1>12. \A i \in 1..r :
          /\ jobs[i].operation \in Compilations
          /\ operations[jobs[i].operation].org = jobs[i].org
          /\ jobs[i].org = OrgOf[jobs[i].demand]
          /\ demands[jobs[i].demand] = [revision |-> jobs[i].revision, approved |-> TRUE]
          /\ jobs[i].input = jobs[i].revision
  BY <1>1, <1>11 DEF JobsBound
<1>13. ASSUME NEW i \in 1..(r + 1)
       PROVE  /\ jobs'[i].operation \in Compilations'
              /\ operations'[jobs'[i].operation].org = jobs'[i].org
              /\ jobs'[i].org = OrgOf[jobs'[i].demand]
              /\ demands'[jobs'[i].demand] = [revision |-> jobs'[i].revision, approved |-> TRUE]
              /\ jobs'[i].input = jobs'[i].revision
  <2>1. CASE i \in 1..r
    <3>1. jobs'[i] = jobs[i] /\ jobs[i].operation # o
      BY <2>1, <1>10, <1>11, <1>12
    <3> QED
      BY <2>1, <3>1, <1>1, <1>5, <1>10, <1>12
  <2>2. CASE i = r + 1
    BY <2>2, <1>1, <1>2, <1>3, <1>5, <1>10, <1>11
  <2> QED
    BY <2>1, <2>2, <1>11
<1>14. /\ remembered'[<<org, key>>] = Answer(o, d)
       /\ \A pair \in Org \X Key : pair # <<org, key>> => remembered'[pair] = remembered[pair]
  BY <1>1 DEF TypeOK
<1>15. ASSUME NEW p \in Compilations'
       PROVE  /\ Cardinality({i \in 1..(r + 1) : jobs'[i].operation = p}) = 1
              /\ \E i \in 1..(r + 1) :
                    /\ jobs'[i].operation = p
                    /\ remembered'[<<operations'[p].org, operations'[p].key>>]
                          = Answer(p, jobs'[i].demand)
  <2>1. CASE p = o
    <3>1. {i \in 1..(r + 1) : jobs'[i].operation = o} = {r + 1}
      <4>1. \A i \in 1..r : jobs'[i].operation # o
        BY <1>10, <1>11, <1>12
      <4>2. jobs'[r + 1].operation = o /\ r + 1 \in 1..(r + 1)
        BY <1>3, <1>11
      <4>3. \A i \in 1..(r + 1) : jobs'[i].operation = o <=> i = r + 1
        BY <4>1, <4>2, <1>11
      <4> QED
        BY <4>2, <4>3
    <3>2. Cardinality({r + 1}) = 1
      BY FS_Singleton
    <3>3. jobs'[r + 1].operation = o /\ jobs'[r + 1].demand = d /\ r + 1 \in 1..(r + 1)
      BY <1>3, <1>11
    <3>4. remembered'[<<operations'[o].org, operations'[o].key>>] = Answer(o, d)
      BY <1>2, <1>5, <1>14
    <3> QED
      BY <2>1, <3>1, <3>2, <3>3, <3>4
  <2>2. CASE p # o
    <3>1. p \in Compilations /\ p \in Operation /\ operations'[p] = operations[p]
      BY <2>2, <1>5, <1>10
    <3>2. {i \in 1..(r + 1) : jobs'[i].operation = p} = {i \in DOMAIN jobs : jobs[i].operation = p}
      BY <2>2, <1>3, <1>11
    <3>3. Cardinality({i \in DOMAIN jobs : jobs[i].operation = p}) = 1
      BY <1>1, <3>1 DEF JobsBound
    <3>4. PICK i \in 1..r :
             /\ jobs[i].operation = p
             /\ remembered[<<operations[p].org, operations[p].key>>] = Answer(p, jobs[i].demand)
      BY <1>1, <1>11, <3>1 DEF JobsBound
    <3>5. operations[p] \in RowType
      BY <1>1, <3>1 DEF TypeOK, Compilations, Existing
    <3>6. <<operations[p].org, operations[p].key>> \in Org \X Key
      BY <3>5 DEF RowType
    <3>7. <<operations[p].org, operations[p].key>> # <<org, key>>
      <4>1. remembered[<<org, key>>] = NoAnswer
        BY <1>1 DEF Requestable
      <4>2. Answer(p, jobs[i].demand) # NoAnswer
        BY <3>1, NameAssumption DEF Answer, NoAnswer
      <4> QED
        BY <3>4, <4>1, <4>2
    <3>8. remembered'[<<operations'[p].org, operations'[p].key>>] = Answer(p, jobs'[i].demand)
      BY <3>1, <3>4, <3>6, <3>7, <1>11, <1>14
    <3>9. i \in 1..(r + 1) /\ jobs'[i].operation = p
      BY <3>4, <1>11
    <3> QED
      BY <3>2, <3>3, <3>8, <3>9
  <2> QED
    BY <2>1, <2>2
<1>16. ASSUME NEW a \in Org, NEW k \in Key, remembered'[<<a, k>>] # NoAnswer
       PROVE  remembered'[<<a, k>>].operation \in Compilations'
  <2>1. CASE <<a, k>> = <<org, key>>
    <3>1. remembered'[<<a, k>>] = Answer(o, d)
      BY <2>1, <1>14
    <3> QED
      BY <3>1, <1>10 DEF Answer
  <2>2. CASE <<a, k>> # <<org, key>>
    <3>1. remembered'[<<a, k>>] = remembered[<<a, k>>]
      BY <2>2, <1>14
    <3>2. remembered[<<a, k>>].operation \in Compilations
      BY <3>1, <1>1, <1>16 DEF JobsBound
    <3> QED
      BY <3>1, <3>2, <1>10
  <2> QED
    BY <2>1, <2>2
<1>17. JobsBound'
  <2>1. DOMAIN jobs' = 1..(r + 1)
    BY <1>11
  <2>2. \A i \in DOMAIN jobs' :
           /\ jobs'[i].operation \in Compilations'
           /\ operations'[jobs'[i].operation].org = jobs'[i].org
           /\ jobs'[i].org = OrgOf[jobs'[i].demand]
           /\ demands'[jobs'[i].demand] = [revision |-> jobs'[i].revision, approved |-> TRUE]
           /\ jobs'[i].input = jobs'[i].revision
    BY <2>1, <1>13
  <2>3. \A p \in Compilations' :
           /\ Cardinality({i \in DOMAIN jobs' : jobs'[i].operation = p}) = 1
           /\ \E i \in DOMAIN jobs' :
                 /\ jobs'[i].operation = p
                 /\ remembered'[<<operations'[p].org, operations'[p].key>>]
                       = Answer(p, jobs'[i].demand)
    BY <2>1, <1>15
  <2> QED
    BY <2>2, <2>3, <1>16 DEF JobsBound
<1> QED
  BY <1>6, <1>7, <1>8, <1>9, <1>17 DEF IInv, AuditIInv

\* A row that is no new compilation and keeps its key disturbs no job and no answer.
LEMMA RowKeepsJobs ==
    ASSUME IInv, NEW o \in Operation, NEW row \in RowType,
           operations' = [operations EXCEPT ![o] = row],
           UNCHANGED <<demands, jobs, remembered>>,
           \/ operations[o] = NoOperation /\ row.type # "COMPILE_PROFILE"
           \/ /\ operations[o] # NoOperation
              /\ row.type = operations[o].type /\ row.org = operations[o].org
              /\ row.key = operations[o].key
    PROVE  JobsBound'
<1>1. TypeOK /\ JobsBound
  BY DEF IInv
<1>2. /\ operations'[o] = row /\ row # NoOperation
      /\ \A p \in Operation : p # o => operations'[p] = operations[p]
  <2>1. row # NoOperation
    BY DEF RowType, NoOperation, Row
  <2> QED
    BY <1>1, <2>1, OneRow
<1>3. \A p \in Operation : p \in Compilations' <=> p \in Compilations
  BY <1>2 DEF Compilations, Existing
<1>4. ASSUME NEW p \in Compilations
      PROVE  operations'[p].org = operations[p].org /\ operations'[p].key = operations[p].key
  <2>1. p \in Operation /\ operations[p] # NoOperation
    BY DEF Compilations, Existing
  <2>2. CASE p = o
    BY <2>1, <2>2, <1>2
  <2>3. CASE p # o
    BY <2>1, <2>3, <1>2
  <2> QED
    BY <2>2, <2>3
<1> QED
  BY <1>1, <1>3, <1>4, JobsKept

\* A bundle is asked for.
LEMMA CreateBundleKeeps ==
    ASSUME IInv, NEW o \in Operation, NEW org \in Org, NEW key \in Key,
           CreateBundleOperation(o, org, key)
    PROVE  IInv'
<1> DEFINE row == Row("PENDING", 1, "BUILD_BUNDLE", org, key, FALSE)
<1>1. /\ TypeOK /\ LogInPlace /\ OutboxTellsRow
      /\ operations[o] = NoOperation
      /\ CommitAudit(org, <<AuditFact(1, o, row)>>)
      /\ operations' = [operations EXCEPT ![o] = row]
      /\ UNCHANGED <<demands, inputs, jobs, remembered, outbox, auditFailure, failures>>
  BY DEF IInv, CreateBundleOperation
<1>2. /\ row \in RowType /\ row.org = org /\ row.version = 1
      /\ row.state = "PENDING" /\ row.type # "COMPILE_PROFILE"
  BY DEF Row, RowType, Lifecycle!OperationStates
<1>3. operations[o].version = 0
  BY <1>1 DEF NoOperation, Row
<1> HIDE DEF row
<1>4. /\ operations' \in [Operation -> RowType \union {NoOperation}]
      /\ operations'[o] = row /\ \A p \in Operation : p # o => operations'[p] = operations[p]
  BY <1>1, <1>2, OneRow
<1>5. AuditIInv'
  <2>1. row.version = operations[o].version + 1
    BY <1>2, <1>3
  <2>2. CommitAudit(row.org, <<AuditFact(1, o, row)>>)
    BY <1>1, <1>2
  <2> QED
    BY <1>1, <1>2, <2>1, <2>2, RowAudited
<1>6. TypeOK'
  BY <1>1, <1>4, <1>5 DEF TypeOK, AuditIInv
<1>7. LogInPlace'
  BY <1>1, <1>2, <1>4, <1>5 DEF LogInPlace, AuditIInv
<1>8. OutboxTellsRow'
  <2>1. EventsTell(outbox, o, 1, "PENDING")
    BY <1>1, <1>3, NoEventYet DEF OutboxTellsRow
  <2> QED
    BY <2>1, <1>1, <1>2, <1>4 DEF OutboxTellsRow
<1>9. JobsBound'
  BY <1>1, <1>2, RowKeepsJobs
<1> QED
  BY <1>5, <1>6, <1>7, <1>8, <1>9 DEF IInv, AuditIInv

\* An operation moves to its next version, with its event.
LEMMA MovedRow ==
    ASSUME NEW row \in RowType, NEW state \in Lifecycle!OperationStates, NEW result \in BOOLEAN
    PROVE  LET moved == Moved(row, state, result)
           IN /\ moved \in RowType /\ moved.version = row.version + 1 /\ moved.state = state
              /\ moved.org = row.org /\ moved.key = row.key /\ moved.type = row.type
<1>1. row.version \in Nat \ {0} /\ row.version + 1 \in Nat \ {0}
  BY DEF RowType
<1> QED
  BY <1>1 DEF Moved, RowType

LEMMA EventNames ==
    ASSUME NEW o \in Operation, NEW row \in RowType, NEW from \in Lifecycle!OperationStates
    PROVE  LET event == Event(o, row, from)
           IN /\ event \in EventType
              /\ event.operation = o /\ event.sequence = row.version
              /\ event.from = from /\ event.to = row.state
BY DEF Event, EventType, RowType

\* What is known of an operation that moves.
LEMMA MovingRow ==
    ASSUME TypeOK, LogInPlace, NEW o \in Operation, operations[o] # NoOperation
    PROVE  /\ operations[o] \in RowType /\ operations[o].org \in Org
           /\ operations[o].version \in Nat \ {0}
           /\ operations[o].state \in Lifecycle!OperationStates
           /\ operations[o].version = 1 => operations[o].state = "PENDING"
BY DEF TypeOK, LogInPlace, RowType

\* A worker moves an operation.
LEMMA TransitionKeeps ==
    ASSUME IInv, NEW o \in Operation, NEW next \in Lifecycle!OperationStates,
           NEW result \in BOOLEAN, ApplyWorkerTransition(o, next, result)
    PROVE  IInv'
<1> DEFINE old == operations[o]
           row == Moved(old, next, result)
           event == Event(o, row, old.state)
<1>1. /\ TypeOK /\ LogInPlace /\ OutboxTellsRow
      /\ next \in Lifecycle!Legal[old.state] \ {"PENDING"}
      /\ CommitAudit(row.org, <<AuditFact(1, o, row)>>)
      /\ operations' = [operations EXCEPT ![o] = row]
      /\ outbox' = Append(outbox, event)
      /\ UNCHANGED <<demands, inputs, jobs, remembered, auditFailure, failures>>
  BY DEF IInv, ApplyWorkerTransition, Movable
<1>2. old # NoOperation
  BY <1>1 DEF NoOperation, Row, Lifecycle!Legal
<1>3. /\ old \in RowType /\ old.version \in Nat \ {0} /\ old.state \in Lifecycle!OperationStates
      /\ old.version = 1 => old.state = "PENDING"
  BY <1>1, <1>2, MovingRow
<1> HIDE DEF old
<1>4. /\ row \in RowType /\ row.version = old.version + 1 /\ row.state = next
      /\ row.org = old.org /\ row.key = old.key /\ row.type = old.type
  BY <1>3, MovedRow
<1> HIDE DEF row
<1>5. /\ event \in EventType /\ event.operation = o /\ event.sequence = row.version
      /\ event.from = old.state /\ event.to = next
  BY <1>3, <1>4, EventNames
<1> HIDE DEF event
<1>6. /\ operations' \in [Operation -> RowType \union {NoOperation}]
      /\ operations'[o] = row /\ \A p \in Operation : p # o => operations'[p] = operations[p]
  BY <1>1, <1>4, OneRow
<1>7. AuditIInv'
  BY <1>1, <1>4, RowAudited DEF old
<1>8. outbox \in Seq(EventType) /\ outbox' \in Seq(EventType)
  <2>1. outbox \in Seq(EventType)
    BY <1>1 DEF TypeOK
  <2> QED
    BY <2>1, <1>1, <1>5
<1>9. TypeOK'
  BY <1>1, <1>6, <1>7, <1>8 DEF TypeOK, AuditIInv
<1>10. LogInPlace'
  BY <1>1, <1>3, <1>4, <1>6, <1>7 DEF LogInPlace, AuditIInv
<1>11. OutboxTellsRow'
  <2>1. EventsTell(outbox', o, row.version, row.state)
    <3>1. EventsTell(outbox, o, old.version, old.state)
      BY <1>1 DEF OutboxTellsRow, old
    <3>2. EventsTell(Append(outbox, event), o, old.version + 1, event.to)
      BY <3>1, <1>1, <1>3, <1>4, <1>5, <1>8, NextEvent
    <3> QED
      BY <3>2, <1>1, <1>4, <1>5
  <2>2. ASSUME NEW p \in Operation, p # o
        PROVE  EventsTell(outbox', p, operations[p].version, operations[p].state)
    <3>1. EventsTell(outbox, p, operations[p].version, operations[p].state)
      BY <1>1 DEF OutboxTellsRow
    <3>2. EventsTell(Append(outbox, event), p, operations[p].version, operations[p].state)
      BY <3>1, <2>2, <1>5, <1>8, OtherEvent
    <3> QED
      BY <3>2, <1>1
  <2> QED
    BY <2>1, <2>2, <1>6 DEF OutboxTellsRow
<1>12. JobsBound'
  BY <1>1, <1>2, <1>4, RowKeepsJobs DEF old
<1> QED
  BY <1>7, <1>9, <1>10, <1>11, <1>12 DEF IInv, AuditIInv

\* A bundle is complete: two versions, two events, two facts at once.
LEMMA CompleteBundleKeeps ==
    ASSUME IInv, NEW o \in Operation, CompleteBundleOperation(o)
    PROVE  IInv'
<1> DEFINE old == operations[o]
           running == Moved(old, "RUNNING", FALSE)
           row == Moved(running, "SUCCEEDED", TRUE)
           one == Event(o, running, "PENDING")
           two == Event(o, row, "RUNNING")
<1>1. /\ TypeOK /\ LogInPlace /\ OutboxTellsRow
      /\ old.state = "PENDING"
      /\ CommitAudit(running.org, <<AuditFact(1, o, running), AuditFact(2, o, row)>>)
      /\ operations' = [operations EXCEPT ![o] = row]
      /\ outbox' = outbox \o <<one, two>>
      /\ UNCHANGED <<demands, inputs, jobs, remembered, auditFailure, failures>>
  BY DEF IInv, CompleteBundleOperation, Completable, CompletionEvents
<1>2. old # NoOperation
  BY <1>1 DEF NoOperation, Row
<1>3. old \in RowType /\ old.version \in Nat \ {0}
  BY <1>1, <1>2, MovingRow
<1>4. /\ {"PENDING", "RUNNING", "SUCCEEDED"} \subseteq Lifecycle!OperationStates
      /\ "RUNNING" \in Lifecycle!Legal["PENDING"] /\ "SUCCEEDED" \in Lifecycle!Legal["RUNNING"]
  BY DEF Lifecycle!OperationStates, Lifecycle!Legal
<1> HIDE DEF old
<1>5. /\ running \in RowType /\ running.version = old.version + 1 /\ running.state = "RUNNING"
      /\ running.org = old.org /\ running.key = old.key /\ running.type = old.type
  BY <1>3, <1>4, MovedRow
<1> HIDE DEF running
<1>6. /\ row \in RowType /\ row.version = running.version + 1 /\ row.state = "SUCCEEDED"
      /\ row.org = running.org /\ row.key = running.key /\ row.type = running.type
  BY <1>4, <1>5, MovedRow
<1> HIDE DEF row
<1>7. /\ one \in EventType /\ one.operation = o /\ one.sequence = running.version
      /\ one.from = "PENDING" /\ one.to = "RUNNING"
      /\ two \in EventType /\ two.operation = o /\ two.sequence = row.version
      /\ two.from = "RUNNING" /\ two.to = "SUCCEEDED"
  BY <1>4, <1>5, <1>6, EventNames
<1> HIDE DEF one, two
<1>8. /\ operations' \in [Operation -> RowType \union {NoOperation}]
      /\ operations'[o] = row /\ \A p \in Operation : p # o => operations'[p] = operations[p]
  BY <1>1, <1>6, OneRow
<1>9. AuditIInv'
  <2>1. /\ running.org = row.org /\ operations[o].org = row.org
        /\ running.version = operations[o].version + 1
        /\ row.version = operations[o].version + 2
    BY <1>3, <1>5, <1>6 DEF old
  <2> QED
    BY <1>1, <1>5, <1>6, <2>1, RowAuditedTwice
<1>10. outbox \in Seq(EventType) /\ Append(outbox, one) \in Seq(EventType)
       /\ outbox' = Append(Append(outbox, one), two) /\ outbox' \in Seq(EventType)
  <2>1. outbox \in Seq(EventType)
    BY <1>1 DEF TypeOK
  <2> QED
    BY <2>1, <1>1, <1>7
<1>11. TypeOK'
  BY <1>1, <1>8, <1>9, <1>10 DEF TypeOK, AuditIInv
<1>12. LogInPlace'
  <2>1. row.version # 1
    BY <1>3, <1>5, <1>6
  <2> QED
    BY <2>1, <1>1, <1>8, <1>9 DEF LogInPlace, AuditIInv
<1>13. OutboxTellsRow'
  <2>1. EventsTell(outbox', o, row.version, row.state)
    <3>1. EventsTell(outbox, o, old.version, old.state)
      BY <1>1 DEF OutboxTellsRow, old
    <3>2. EventsTell(Append(outbox, one), o, old.version + 1, one.to)
      BY <3>1, <1>1, <1>3, <1>4, <1>5, <1>7, <1>10, NextEvent
    <3>3. EventsTell(Append(outbox, one), o, running.version, "RUNNING")
      BY <3>2, <1>5, <1>7
    <3>4. running.version \in Nat \ {0} /\ running.version # 1
      BY <1>3, <1>5
    <3>5. EventsTell(Append(Append(outbox, one), two), o, running.version + 1, two.to)
      BY <3>3, <3>4, <1>4, <1>6, <1>7, <1>10, NextEvent
    <3> QED
      BY <3>5, <1>6, <1>7, <1>10
  <2>2. ASSUME NEW p \in Operation, p # o
        PROVE  EventsTell(outbox', p, operations[p].version, operations[p].state)
    <3>1. EventsTell(outbox, p, operations[p].version, operations[p].state)
      BY <1>1 DEF OutboxTellsRow
    <3>2. EventsTell(Append(outbox, one), p, operations[p].version, operations[p].state)
      BY <3>1, <2>2, <1>7, <1>10, OtherEvent
    <3>3. EventsTell(Append(Append(outbox, one), two), p, operations[p].version,
                     operations[p].state)
      BY <3>2, <2>2, <1>7, <1>10, OtherEvent
    <3> QED
      BY <3>3, <1>10
  <2> QED
    BY <2>1, <2>2, <1>8 DEF OutboxTellsRow
<1>14. JobsBound'
  <2>1. row.type = operations[o].type /\ row.org = operations[o].org /\ row.key = operations[o].key
    BY <1>5, <1>6 DEF old
  <2> QED
    BY <2>1, <1>1, <1>2, <1>6, RowKeepsJobs DEF old
<1> QED
  BY <1>9, <1>11, <1>12, <1>13, <1>14 DEF IInv, AuditIInv

\* A step that writes nothing of the store's own keeps the invariant while no
\* demand with a job changes.
LEMMA QuietKeeps ==
    ASSUME IInv, UNCHANGED <<operations, jobs, remembered, outbox, audit, chains>>,
           demands' \in [Demand -> [revision : Nat, approved : BOOLEAN]],
           inputs' \in [Demand -> [available : BOOLEAN, revision : Nat]],
           \A i \in DOMAIN jobs : demands'[jobs[i].demand] = demands[jobs[i].demand]
    PROVE  IInv'
<1>1. TypeOK /\ LogInPlace /\ OutboxTellsRow /\ ChainTellsAll /\ ChainsSealed /\ JobsBound
  BY DEF IInv
<1>2. TypeOK'
  BY <1>1 DEF TypeOK
<1>3. LogInPlace' /\ OutboxTellsRow'
  BY <1>1 DEF LogInPlace, OutboxTellsRow
<1>4. ChainTellsAll' /\ ChainsSealed'
  <2>1. \A org \in Org, o \in Operation : VersionIn(org, o)' = VersionIn(org, o)
    BY DEF VersionIn
  <2> QED
    BY <1>1, <2>1 DEF ChainTellsAll, ChainsSealed
<1>5. JobsBound'
  <2>1. Compilations' = Compilations
    BY DEF Compilations, Existing
  <2> QED
    BY <1>1, <2>1, JobsKept
<1> QED
  BY <1>2, <1>3, <1>4, <1>5 DEF IInv

\* A demand changes until it is approved, and no job is for one that is not.
LEMMA DemandKeeps ==
    ASSUME IInv, NEW d \in Demand, NEW approved \in BOOLEAN, DemandChange(d, approved)
    PROVE  IInv'
<1>1. /\ demands \in [Demand -> [revision : Nat, approved : BOOLEAN]]
      /\ inputs \in [Demand -> [available : BOOLEAN, revision : Nat]]
      /\ JobsBound
  BY DEF IInv, TypeOK
<1>2. /\ ~demands[d].approved
      /\ demands' = [demands EXCEPT ![d] = [revision |-> @.revision + 1, approved |-> approved]]
      /\ UNCHANGED <<inputs, operations, jobs, remembered, outbox, audit, chains>>
  BY DEF DemandChange
<1>3. demands' \in [Demand -> [revision : Nat, approved : BOOLEAN]]
  <2>1. demands[d].revision + 1 \in Nat
    BY <1>1
  <2> QED
    BY <2>1, <1>1, <1>2
<1>4. ASSUME NEW i \in DOMAIN jobs PROVE demands'[jobs[i].demand] = demands[jobs[i].demand]
  <2>1. demands[jobs[i].demand].approved
    <3>1. demands[jobs[i].demand] = [revision |-> jobs[i].revision, approved |-> TRUE]
      BY <1>1 DEF JobsBound
    <3> QED
      BY <3>1
  <2> QED
    BY <2>1, <1>1, <1>2
<1> QED
  BY <1>1, <1>2, <1>3, <1>4, QuietKeeps

\* Every step of the store and of what it asks keeps the inductive invariant.
LEMMA NextKeepsIInv == IInv /\ [Next]_vars => IInv'
<1> SUFFICES ASSUME IInv, [Next]_vars PROVE IInv'
  OBVIOUS
<1>0. /\ demands \in [Demand -> [revision : Nat, approved : BOOLEAN]]
      /\ inputs \in [Demand -> [available : BOOLEAN, revision : Nat]]
  BY DEF IInv, TypeOK
<1>1. ASSUME NEW o \in Operation, NEW org \in Org, NEW key \in Key, NEW d \in Demand,
             NEW ifMatch \in 1..MaxDemandRevision, RequestCompilation(o, org, key, d, ifMatch)
      PROVE  IInv'
  BY <1>1, RequestKeeps
<1>2. ASSUME NEW o \in Operation, NEW org \in Org, NEW key \in Key,
             CreateBundleOperation(o, org, key)
      PROVE  IInv'
  BY <1>2, CreateBundleKeeps
<1>3. ASSUME NEW o \in Operation, CompleteBundleOperation(o) PROVE IInv'
  BY <1>3, CompleteBundleKeeps
<1>4. ASSUME NEW o \in Operation, NEW next \in Lifecycle!OperationStates,
             NEW result \in BOOLEAN, ApplyWorkerTransition(o, next, result)
      PROVE  IInv'
  BY <1>4, TransitionKeeps
<1>5. ASSUME NEW d \in Demand, NEW approved \in BOOLEAN, DemandChange(d, approved) PROVE IInv'
  BY <1>5, DemandKeeps
<1>6. ASSUME NEW d \in Demand, NEW revision \in 0..MaxDemandRevision,
             ResolverChange(d, Input(revision > 0, revision))
      PROVE  IInv'
  <2>1. /\ inputs' = [inputs EXCEPT ![d] = Input(revision > 0, revision)]
        /\ UNCHANGED <<demands, operations, jobs, remembered, outbox, audit, chains>>
    BY <1>6 DEF ResolverChange
  <2>2. Input(revision > 0, revision) \in [available : BOOLEAN, revision : Nat]
    BY BoundAssumption DEF Input
  <2>3. inputs' \in [Demand -> [available : BOOLEAN, revision : Nat]]
    BY <1>0, <2>1, <2>2
  <2> QED
    BY <1>0, <2>1, <2>3, QuietKeeps
<1>7. CASE Unaudited
  BY <1>0, <1>7, QuietKeeps DEF Unaudited
<1>8. CASE FailNextAudit
  BY <1>0, <1>8, QuietKeeps DEF FailNextAudit
<1>9. CASE UNCHANGED vars
  BY <1>0, <1>9, QuietKeeps DEF vars
<1> QED
  BY <1>1, <1>2, <1>3, <1>4, <1>5, <1>6, <1>7, <1>8, <1>9 DEF Next

LEMMA Inductive == Spec => []IInv
BY InitIInv, NextKeepsIInv, PTL DEF Spec

\* Rows, jobs, answers kept for keys, events and chains keep their shape.
THEOREM TypeCorrect == Spec => []TypeOK
<1>1. IInv => TypeOK
  BY DEF IInv
<1> QED
  BY <1>1, Inductive, PTL

\* Whatever calls come, in whatever order, and whichever appends fail: the events of
\* an operation, read in the order they were committed, give its row.
THEOREM EventsGiveTheRow == Spec => []OutboxTellsRow
<1>1. IInv => OutboxTellsRow
  BY DEF IInv
<1> QED
  BY <1>1, Inductive, PTL

\* The chain of every organization verifies, is in step with the audit log, and
\* accounts for every operation of it, version by version, up to its row.
THEOREM ChainsAreComplete == Spec => []ChainTellsAll
<1>1. IInv => ChainTellsAll
  BY DEF IInv
<1> QED
  BY <1>1, Inductive, PTL

\* Every operation to compile has the one job its key was answered with, for the
\* demand as it was approved.
THEOREM JobsStayBound == Spec => []JobsBound
<1>1. IInv => JobsBound
  BY DEF IInv
<1> QED
  BY <1>1, Inductive, PTL

-----------------------------------------------------------------------------
\* Tampering.

\* A chain whose record at some place is not in its place, not linked to the one
\* before or not sealed over its content is not valid.
LEMMA NotIntact ==
    ASSUME NEW org, NEW records, NEW i \in DOMAIN records,
           \/ records[i].unsigned.sequence # i
           \/ records[i].unsigned.previous # Before(records, i)
           \/ records[i].digest # Digest(records[i].unsigned)
    PROVE  ~Valid(org, records)
BY DEF Valid, Intact

\* A part of a sequence.
LEMMA Part ==
    ASSUME NEW T, NEW s \in Seq(T), NEW a \in 1..(Len(s) + 1), NEW b \in 0..Len(s), a <= b + 1
    PROVE  /\ SubSeq(s, a, b) \in Seq(T) /\ Len(SubSeq(s, a, b)) = b - a + 1
           /\ a <= b => SubSeq(s, a, b)[1] = s[a]
<1>1. Len(SubSeq(s, a, b)) = b - a + 1
  OBVIOUS
<1>2. \A i \in 1..(b - a + 1) : SubSeq(s, a, b)[i] = s[a + i - 1] /\ a + i - 1 \in 1..Len(s)
  OBVIOUS
<1>3. SubSeq(s, a, b) \in Seq(T)
  BY <1>1, <1>2
<1>4. a <= b => 1 \in 1..(b - a + 1) /\ a + 1 - 1 = a
  OBVIOUS
<1> QED
  BY <1>1, <1>2, <1>3, <1>4

\* What was put in, taken out, moved or changed in a chain that append made shows,
\* for chains of any length and any fact the record did not hold.
THEOREM AlterationShows ==
    ASSUME NEW org, NEW records, records \in Seq(Range(records)), WellSealed(records),
           NEW fact, \A i \in DOMAIN records : FactAt(records, i) # fact,
           NEW altered \in Tampered(records, fact)
    PROVE  ~Valid(org, altered)
<1> DEFINE n == Len(records)
<1>1. n \in Nat /\ DOMAIN records = 1..n
  OBVIOUS
<1>2. \A i \in 1..n :
         /\ records[i] = Sealed(Unsigned(i, Before(records, i), FactAt(records, i)))
         /\ FactAt(records, i) # fact
  BY <1>1 DEF WellSealed
<1>3. \/ \E i \in 1..n : altered = Changed(records, i, fact)
      \/ \E i \in 1..(n - 1) : altered = Resealed(records, i, fact)
      \/ \E i \in 1..n : \E k \in (i + 1)..n : altered = Swapped(records, i, k)
      \/ \E i \in 1..(n - 1) : altered = RemoveAt(records, i)
      \/ \E i \in 1..n : altered = Inserted(records, i, fact)
  BY DEF Tampered
<1> HIDE DEF n
<1>4. \A i \in 1..n :
         /\ records[i].unsigned = Unsigned(i, Before(records, i), FactAt(records, i))
         /\ records[i].digest = Digest(records[i].unsigned)
         /\ records[i].unsigned.sequence = i
         /\ records[i].unsigned.previous = Before(records, i)
  <2> SUFFICES ASSUME NEW i \in 1..n
               PROVE  /\ records[i].unsigned
                             = Unsigned(i, Before(records, i), FactAt(records, i))
                      /\ records[i].digest = Digest(records[i].unsigned)
                      /\ records[i].unsigned.sequence = i
                      /\ records[i].unsigned.previous = Before(records, i)
    OBVIOUS
  <2> DEFINE before == Unsigned(i, Before(records, i), FactAt(records, i))
  <2>1. before.sequence = i /\ before.previous = Before(records, i)
    BY DEF Unsigned
  <2>2. records[i] = [unsigned |-> before, digest |-> Digest(before)]
    BY <1>2 DEF Sealed
  <2> HIDE DEF before
  <2>3. records[i].unsigned = before /\ records[i].digest = Digest(before)
    BY <2>2
  <2> QED
    BY <2>1, <2>3 DEF before
<1>5. ASSUME NEW i \in 1..n, altered = Changed(records, i, fact) PROVE ~Valid(org, altered)
  <2> DEFINE old == records[i] new == altered[i]
             before == Unsigned(i, Before(records, i), FactAt(records, i))
             after == Unsigned(i, Before(records, i), fact)
  <2>1. /\ DOMAIN altered = 1..n
        /\ new = [old EXCEPT !.unsigned = [old.unsigned EXCEPT !.fact = fact]]
    BY <1>1, <1>5 DEF Changed
  <2>2. old = [unsigned |-> before, digest |-> Digest(before)]
    BY <1>2 DEF Sealed
  <2> HIDE DEF new, old
  <2>3. new.digest = Digest(before) /\ new.unsigned = [before EXCEPT !.fact = fact]
    <3> HIDE DEF before
    <3> QED
      BY <2>1, <2>2
  <2>4. [before EXCEPT !.fact = fact] = after /\ before # after
    <3>1. before.fact = FactAt(records, i) /\ after.fact = fact
      BY DEF Unsigned
    <3>2. before # after
      BY <3>1, <1>2
    <3>3. [before EXCEPT !.fact = fact] = after
      BY DEF Unsigned
    <3> QED
      BY <3>2, <3>3
  <2>5. new.digest # Digest(new.unsigned)
    BY <2>3, <2>4 DEF Digest
  <2> QED
    BY <2>1, <2>5, NotIntact DEF new
<1>6. ASSUME NEW i \in 1..(n - 1), altered = Resealed(records, i, fact)
      PROVE  ~Valid(org, altered)
  <2> DEFINE before == Unsigned(i, Before(records, i), FactAt(records, i))
             after == Unsigned(i, Before(records, i), fact)
  <2>1. i \in 1..n /\ i + 1 \in 1..n /\ i + 1 # 1 /\ (i + 1) - 1 = i /\ i # i + 1
    BY <1>1
  <2>2. /\ DOMAIN altered = 1..n
        /\ altered[i] = Sealed([records[i].unsigned EXCEPT !.fact = fact])
        /\ altered[i + 1] = records[i + 1]
    BY <1>1, <1>6, <2>1 DEF Resealed
  <2>3. records[i].unsigned = before /\ records[i].digest = Digest(before)
    BY <1>4, <2>1
  <2>4. [before EXCEPT !.fact = fact] = after /\ before # after
    <3>1. before.fact = FactAt(records, i) /\ after.fact = fact
      BY DEF Unsigned
    <3>2. before # after
      BY <3>1, <1>2, <2>1
    <3>3. [before EXCEPT !.fact = fact] = after
      BY DEF Unsigned
    <3> QED
      BY <3>2, <3>3
  <2> HIDE DEF before, after
  <2>5. altered[i].digest = Digest(after)
    BY <2>2, <2>3, <2>4 DEF Sealed
  <2>6. Before(altered, i + 1) = Digest(after) /\ Before(records, i + 1) = Digest(before)
    BY <2>1, <2>3, <2>5 DEF Before
  <2>7. altered[i + 1].unsigned.previous # Before(altered, i + 1)
    BY <1>4, <2>1, <2>2, <2>4, <2>6 DEF Digest
  <2> QED
    BY <2>1, <2>2, <2>7, NotIntact
<1>7. ASSUME NEW i \in 1..n, NEW k \in (i + 1)..n, altered = Swapped(records, i, k)
      PROVE  ~Valid(org, altered)
  <2>1. k \in 1..n /\ i # k
    BY <1>1
  <2>2. DOMAIN altered = 1..n /\ altered[i] = records[k]
    BY <1>1, <1>7, <2>1 DEF Swapped
  <2>3. altered[i].unsigned.sequence # i
    BY <1>4, <2>1, <2>2
  <2> QED
    BY <2>2, <2>3, NotIntact
<1>8. ASSUME NEW i \in 1..(n - 1), altered = RemoveAt(records, i) PROVE ~Valid(org, altered)
  <2> DEFINE T == Range(records)
             head == SubSeq(records, 1, i - 1)
             tail == SubSeq(records, i + 1, n)
  <2>1. /\ i \in 1..n /\ i + 1 \in 1..n /\ i # i + 1 /\ n - i \in Nat \ {0} /\ 1 \in 1..(n - i)
        /\ i - 1 \in Nat /\ (i - 1) + 1 = i
    BY <1>1
  <2>2. altered = head \o tail
    BY <1>8 DEF RemoveAt, n
  <2>3. head \in Seq(T) /\ Len(head) = i - 1
    <3>1. records \in Seq(T)
      OBVIOUS
    <3>2. i - 1 \in 0..n /\ 1 \in 1..(n + 1) /\ 1 <= (i - 1) + 1 /\ (i - 1) - 1 + 1 = i - 1
      BY <1>1
    <3> HIDE DEF T
    <3> QED
      BY <3>1, <3>2, Part DEF n
  <2>4. tail \in Seq(T) /\ Len(tail) = n - i /\ tail[1] = records[i + 1]
    <3>1. records \in Seq(T)
      OBVIOUS
    <3>2. i + 1 \in 1..(n + 1) /\ n \in 0..n /\ i + 1 <= n /\ i + 1 <= n + 1
          /\ n - (i + 1) + 1 = n - i
      BY <1>1
    <3> HIDE DEF T
    <3> QED
      BY <3>1, <3>2, Part DEF n
  <2> HIDE DEF T, head, tail
  <2>5. altered[i] = records[i + 1] /\ i \in DOMAIN altered
    BY <2>1, <2>2, <2>3, <2>4
  <2>6. altered[i].unsigned.sequence # i
    BY <1>4, <2>1, <2>5
  <2> QED
    BY <2>5, <2>6, NotIntact
<1>9. ASSUME NEW i \in 1..n, altered = Inserted(records, i, fact) PROVE ~Valid(org, altered)
  <2> DEFINE T == Range(records)
             head == SubSeq(records, 1, i - 1)
             tail == SubSeq(records, i, n)
             new == Sealed(Unsigned(i, Before(records, i), fact))
  <2>1. /\ i # i + 1 /\ n - i + 1 \in Nat \ {0} /\ 1 \in 1..(n - i + 1)
        /\ i - 1 \in Nat /\ (i - 1) + 1 = i
    BY <1>1
  <2>2. altered = head \o <<new>> \o tail
    BY <1>9 DEF Inserted, InsertAt, n
  <2>3. head \in Seq(T) /\ Len(head) = i - 1
    <3>1. records \in Seq(T)
      OBVIOUS
    <3>2. i - 1 \in 0..n /\ 1 \in 1..(n + 1) /\ 1 <= (i - 1) + 1 /\ (i - 1) - 1 + 1 = i - 1
      BY <1>1
    <3> HIDE DEF T
    <3> QED
      BY <3>1, <3>2, Part DEF n
  <2>4. tail \in Seq(T) /\ Len(tail) = n - i + 1 /\ tail[1] = records[i]
    <3>1. records \in Seq(T)
      OBVIOUS
    <3>2. i \in 1..(n + 1) /\ n \in 0..n /\ i <= n /\ i <= n + 1
          /\ n - (i) + 1 = n - i + 1
      BY <1>1
    <3> HIDE DEF T
    <3> QED
      BY <3>1, <3>2, Part DEF n
  <2> HIDE DEF T, head, tail, new
  <2>5. head \o <<new>> \in Seq(T \union {new}) /\ Len(head \o <<new>>) = i
    BY <2>1, <2>3
  <2>6. altered[i + 1] = records[i] /\ i + 1 \in DOMAIN altered
    BY <2>1, <2>2, <2>4, <2>5
  <2>7. altered[i + 1].unsigned.sequence # i + 1
    BY <1>4, <2>1, <2>6
  <2> QED
    BY <2>6, <2>7, NotIntact
<1> QED
  BY <1>3, <1>5, <1>6, <1>7, <1>8, <1>9

\* No chain that append ever made can be altered before its last record, or its last
\* record changed as it stands, without showing.
THEOREM TamperingAlwaysShows == Spec => []TamperingShows
<1>1. IInv => TamperingShows
  <2> SUFFICES ASSUME IInv, NEW org \in Org,
                      NEW records \in Tampered(chains[org], Fact(0, org, <<None, 0, "FORGED">>))
               PROVE  ~Valid(org, records)
    BY DEF TamperingShows
  <2> DEFINE forged == Fact(0, org, <<None, 0, "FORGED">>)
  <2>1. chains[org] \in Seq(Range(chains[org])) /\ WellSealed(chains[org])
    BY DEF IInv, TypeOK, ChainsSealed
  <2>2. ASSUME NEW i \in DOMAIN chains[org] PROVE FactAt(chains[org], i) # forged
    <3>1. FactAt(chains[org], i).event \in DOMAIN audit
      BY DEF IInv, ChainTellsAll, InStep
    <3>2. 0 \notin DOMAIN audit
      BY DEF IInv, TypeOK
    <3>3. forged.event = 0
      BY DEF Fact
    <3> QED
      BY <3>1, <3>2, <3>3
  <2> QED
    BY <2>1, <2>2, AlterationShows
<1> QED
  BY <1>1, Inductive, PTL
=============================================================================

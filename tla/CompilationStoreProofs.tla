----------------------- MODULE CompilationStoreProofs -----------------------
(***************************************************************************)
(* Proofs about CompilationStore, for any number of jobs, workers and      *)
(* organizations and any lease length, retry schedule and fault budget,    *)
(* and about EventRelay, which delivers its outbox.                        *)
(***************************************************************************)
EXTENDS EventRelay, FiniteSetTheorems, TLAPS

\* The values the store writes, typed once.
LEMMA RowTypes ==
    ASSUME TypeOK
    PROVE  /\ NoLease \in LeaseType
           /\ \A j \in Job : RevisionFor(j) \in Key
           /\ \A j \in Job : BindingKey(j) \in Org \X Binding
           /\ \A j \in Job : ProfileOf[j] \in Digest
<1>1. NoLease \in LeaseType
  BY DEF NoLease, LeaseType
<1>2. \A j \in Job : ProfileOf[j] \in Digest /\ BindingOf[j] \in Binding /\ OrgOf[j] \in Org
  BY OrgAssumption DEF Digest, Binding
<1>3. \A j \in Job : BindingKey(j) \in Org \X Binding
  BY <1>2 DEF BindingKey
<1>4. \A j \in Job : RevisionFor(j) \in Key
  BY <1>2, <1>3 DEF RevisionFor, Key, TypeOK
<1> QED
  BY <1>1, <1>2, <1>3, <1>4

\* A worker that remembers a job remembers one of the store's jobs.
LEMMA HeldType ==
    ASSUME TypeOK, NEW w \in Worker, held[w] # Idle
    PROVE  held[w].job \in Job /\ held[w].token \in Nat /\ held[w].at \in Nat
BY DEF TypeOK

\* The fence accepts a call only from the worker holding the current lease.
LEMMA AcceptedHolds ==
    ASSUME IInv, NEW w \in Worker, held[w] # Idle, NEW now, Leased(held[w].job, w, held[w].token, now)
    PROVE  HoldsCurrentLease(w, held[w].job)
BY HeldType DEF Leased, HoldsCurrentLease, IInv

\* An empty store satisfies the inductive invariant.
LEMMA InitIInv == Init => IInv
<1> SUFFICES ASSUME Init PROVE IInv
  OBVIOUS
<1> USE DEF Init
<1>1. TypeOK
  <2>1. NoLease \in LeaseType
    BY DEF NoLease, LeaseType
  <2>2. NoJob \in JobType
    BY <2>1 DEF NoJob, JobRow, JobType, JobStates
  <2>3. NoOperation \in OperationType
    BY DEF NoOperation, OperationRow, OperationType
  <2>4. outbox \in Seq(EventType)
    OBVIOUS
  <2> QED
    BY <2>2, <2>3, <2>4 DEF TypeOK
<1>2. JobOperationAgree
  BY DEF JobOperationAgree, OperationStateFor, NoJob, JobRow, NoOperation, OperationRow
<1>3. JobRowChecks
  BY DEF JobRowChecks, NoJob, JobRow
<1>4. ClaimsAreRemembered
  BY DEF ClaimsAreRemembered, NoJob, JobRow
<1>5. AttemptBudget
  BY AttemptAssumption DEF AttemptBudget, NoJob, JobRow
<1>6. TimesAdvance
  BY DEF TimesAdvance, NoJob, JobRow
<1>7. ResultsAreFinal
  BY DEF ResultsAreFinal, NoOperation, OperationRow
<1> QED
  BY <1>1, <1>2, <1>3, <1>4, <1>5, <1>6, <1>7 DEF IInv

-----------------------------------------------------------------------------
\* create_job.
LEMMA CreateKeeps ==
    ASSUME IInv, NEW j \in Job, NEW now \in Nat, CreateJob(j, now)
    PROVE  IInv'
<1> DEFINE row == JobRow("QUEUED", 0, now, now, NoLease, None)
           op == OperationRow("PENDING", 1, now, None)
<1>1. /\ jobs[j].state = "ABSENT"
      /\ jobs' = [jobs EXCEPT ![j] = row]
      /\ operations' = [operations EXCEPT ![j] = op]
      /\ UNCHANGED <<profiles, profileBindings, outbox, held, faults>>
  BY DEF CreateJob
<1>2. TypeOK
  BY DEF IInv
<1>3. row \in JobType /\ op \in OperationType
  BY RowTypes, <1>2 DEF JobRow, JobType, JobStates, OperationRow, OperationType
<1>4. /\ row.state = "QUEUED" /\ row.attempt = 0 /\ row.availableAt = now
      /\ row.lease = NoLease /\ row.resultKey = None
      /\ op.state = "PENDING" /\ op.updatedAt = now /\ op.result = None
  BY DEF JobRow, OperationRow
<1> HIDE DEF row, op
<1>5. TypeOK'
  BY <1>1, <1>2, <1>3 DEF TypeOK
<1>6. JobOperationAgree'
  BY <1>1, <1>2, <1>4 DEF TypeOK, JobOperationAgree, OperationStateFor, IInv
<1>7. JobRowChecks'
  BY <1>1, <1>2, <1>4 DEF TypeOK, JobRowChecks, IInv
<1>8. ASSUME NEW k \in Job PROVE jobs'[k].state = "LEASED" => k # j /\ jobs'[k] = jobs[k]
  BY <1>1, <1>2, <1>4 DEF TypeOK
<1>9. ClaimsAreRemembered'
  <2>1. ASSUME NEW w \in Worker, held[w] # Idle PROVE held[w].job # j
    BY <2>1, <1>1, <1>2, HeldType, AttemptAssumption
       DEF IInv, ClaimsAreRemembered, AttemptBudget
  <2> QED
    BY <2>1, <1>1, <1>2, <1>8, HeldType DEF TypeOK, ClaimsAreRemembered, HoldsCurrentLease, IInv
<1>10. AttemptBudget'
  BY <1>1, <1>2, <1>4, <1>8, AttemptAssumption
     DEF TypeOK, AttemptBudget, StealsLease, HoldsCurrentLease, IInv
<1>11. TimesAdvance'
  BY <1>1, <1>2, <1>4 DEF TypeOK, TimesAdvance, IInv, JobType, OperationType
<1>12. ResultsAreFinal'
  BY <1>1, <1>2, <1>4 DEF TypeOK, ResultsAreFinal, IInv
<1> QED
  BY <1>5, <1>6, <1>7, <1>9, <1>10, <1>11, <1>12 DEF IInv
-----------------------------------------------------------------------------
\* claim.  The fresh token exceeds every token given out for the job before.
LEMMA ClaimKeeps ==
    ASSUME IInv, NEW w \in Worker, NEW j \in Job, NEW now \in Nat, Claim(w, OrgOf[j], j, now)
    PROVE  IInv'
<1> DEFINE row == Claimed(w, jobs[j], now)
           op == Started(operations[j], now)
           mine == [job |-> j, token |-> FreshToken(jobs[j]), at |-> now]
<1>1. /\ held[w] = Idle
      /\ jobs[j].state \in {"QUEUED", "RETRY_WAIT", "LEASED"}
      /\ ClaimableAt(j) <= now
      /\ jobs' = [jobs EXCEPT ![j] = row]
      /\ held' = [held EXCEPT ![w] = mine]
      /\ UNCHANGED <<profiles, profileBindings>>
  BY DEF Claim, NextInQueue, Eligible
<1>2. \/ /\ operations[j].state = "PENDING"
         /\ operations' = [operations EXCEPT ![j] = op]
         /\ outbox' = Append(outbox, Event(j, op))
      \/ operations[j].state = "RUNNING" /\ UNCHANGED <<operations, outbox>>
  BY DEF Claim
<1>3. \/ StealsLease(j) /\ faults' = faults + 1
      \/ ~StealsLease(j) /\ faults' = faults
  BY DEF Claim
<1>4. TypeOK
  BY DEF IInv
<1>5. /\ jobs[j] \in JobType /\ operations[j] \in OperationType
      /\ jobs[j].attempt \in Nat /\ jobs[j].lease.expiresAt \in Nat
      /\ operations[j].version \in Nat /\ operations[j].updatedAt \in Nat
  BY <1>4 DEF TypeOK, JobType, LeaseType, OperationType
<1>6. row \in JobType /\ op \in OperationType /\ Event(j, op) \in EventType
  BY <1>5, LeaseAssumption
     DEF Claimed, JobRow, LeaseFor, FreshToken, JobType, LeaseType, JobStates, Started,
         OperationRow, OperationType, Event, EventType
<1>7. /\ row.state = "LEASED" /\ row.attempt = jobs[j].attempt + 1
      /\ row.resultKey = jobs[j].resultKey
      /\ row.lease.token = jobs[j].attempt + 1 /\ row.lease.owner = w
      /\ row.lease.claimedAt = now /\ row.lease.expiresAt = now + LeaseSeconds
      /\ op.state = "RUNNING" /\ op.updatedAt = now /\ op.result = operations[j].result
  BY DEF Claimed, JobRow, LeaseFor, FreshToken, Started, OperationRow
<1>8. mine.job = j /\ mine.token = jobs[j].attempt + 1 /\ mine.at = now
      /\ mine \in [job : Job, token : Nat, at : Nat]
  BY <1>5 DEF FreshToken
<1>9. mine # Idle
  BY <1>8, NoneAssumption DEF Idle
<1> HIDE DEF row, op, mine
<1>10. TypeOK'
  <2>1. operations' \in [Job -> OperationType] /\ outbox' \in Seq(EventType)
    <3>1. operations \in [Job -> OperationType] /\ outbox \in Seq(EventType)
      BY <1>4 DEF TypeOK
    <3>2. CASE operations[j].state = "PENDING" /\ operations' = [operations EXCEPT ![j] = op]
               /\ outbox' = Append(outbox, Event(j, op))
      BY <3>1, <3>2, <1>6
    <3>3. CASE UNCHANGED <<operations, outbox>>
      BY <3>1, <3>3
    <3> QED
      BY <3>2, <3>3, <1>2
  <2>2. faults' \in Nat
    BY <1>3, <1>4 DEF TypeOK
  <2>3. jobs' \in [Job -> JobType]
    BY <1>1, <1>4, <1>6 DEF TypeOK
  <2>4. held' \in [Worker -> [job : Job, token : Nat, at : Nat] \union {Idle}]
    BY <1>1, <1>4, <1>8 DEF TypeOK
  <2> QED
    BY <2>1, <2>2, <2>3, <2>4, <1>1, <1>4 DEF TypeOK
<1>11. JobOperationAgree'
  BY <1>1, <1>2, <1>4, <1>7 DEF TypeOK, JobOperationAgree, OperationStateFor, IInv
<1>12. JobRowChecks'
  <2>1. row.lease # NoLease
    BY <1>7, NoneAssumption DEF NoLease
  <2>2. row.resultKey = None
    BY <1>7, <1>1 DEF IInv, JobRowChecks
  <2>3. row.lease.expiresAt > row.lease.claimedAt /\ row.attempt >= 1 /\ row.lease.owner # None
    BY <1>5, <1>7, LeaseAssumption, NoneAssumption
  <2>4. ASSUME NEW k \in Job PROVE jobs'[k] = IF k = j THEN row ELSE jobs[k]
    BY <1>1, <1>4 DEF TypeOK
  <2> QED
    BY <1>7, <2>1, <2>2, <2>3, <2>4 DEF JobRowChecks, IInv
<1>13. ASSUME NEW v \in Worker, held[v] # Idle
       PROVE  v # w /\ held'[v] = held[v] /\ (held[v].job = j => held[v].token < jobs[j].attempt + 1)
  BY <1>1, <1>4, <1>5, <1>13, HeldType DEF IInv, ClaimsAreRemembered, TypeOK
<1>14. ASSUME NEW k \in Job PROVE jobs'[k] = IF k = j THEN row ELSE jobs[k]
  BY <1>1, <1>4 DEF TypeOK
<1>15. ASSUME NEW v \in Worker
       PROVE held'[v] = IF v = w THEN mine ELSE held[v]
  BY <1>1, <1>4 DEF TypeOK
<1>16. ClaimsAreRemembered'
  <2>1. \A k \in Job : jobs'[k].state = "LEASED" =>
          /\ jobs'[k].lease.token = jobs'[k].attempt
          /\ jobs'[k].lease.expiresAt > jobs'[k].lease.claimedAt + 1
    BY <1>7, <1>14, LeaseAssumption DEF IInv, ClaimsAreRemembered
  <2>2. ASSUME NEW v \in Worker, held'[v] # Idle
        PROVE  /\ held'[v].token \in 1..jobs'[held'[v].job].attempt
               /\ HoldsCurrentLease(v, held[v].job)' =>
                     /\ jobs'[held'[v].job].lease.owner = v
                     /\ jobs'[held'[v].job].lease.claimedAt = held'[v].at
    <3>1. CASE v = w
      BY <3>1, <1>5, <1>7, <1>8, <1>14, <1>15
    <3>2. CASE v # w
      <4>1. held'[v] = held[v] /\ held[v] # Idle /\ held[v].job \in Job /\ held[v].token \in Nat
        BY <2>2, <3>2, <1>4, <1>15, HeldType
      <4>2. CASE held[v].job = j
        BY <4>1, <4>2, <1>5, <1>7, <1>13, <1>14 DEF IInv, ClaimsAreRemembered, HoldsCurrentLease
      <4>3. CASE held[v].job # j
        BY <4>1, <4>3, <1>14 DEF IInv, ClaimsAreRemembered, HoldsCurrentLease
      <4> QED
        BY <4>2, <4>3
    <3> QED
      BY <3>1, <3>2
  <2>3. ASSUME NEW u \in Worker, NEW v \in Worker, held'[u] # Idle, held'[v] # Idle,
               held'[u].job = held'[v].job, held'[u].token = held'[v].token
        PROVE  u = v
    BY <2>3, <1>4, <1>5, <1>8, <1>13, <1>15, HeldType DEF IInv, ClaimsAreRemembered
  <2> QED
    BY <2>1, <2>2, <2>3 DEF ClaimsAreRemembered
<1>17. AttemptBudget'
  <2>1. faults \in Nat /\ faults' \in Nat /\ faults' >= faults
    BY <1>3, <1>4 DEF TypeOK
  <2>2. ASSUME NEW k \in Job, k # j PROVE StealsLease(k) => StealsLease(k)'
    BY <2>2, <1>13, <1>14, NoneAssumption DEF StealsLease, HoldsCurrentLease, Idle
  <2>3. StealsLease(j)'
    BY <1>7, <1>8, <1>14, <1>15 DEF StealsLease, HoldsCurrentLease
  <2>4. jobs[j].attempt + 1 <= MaxAttempts + faults'
    BY <1>1, <1>3, <1>5, <2>1, AttemptAssumption DEF IInv, AttemptBudget
  <2>5. ASSUME NEW k \in Job PROVE jobs[k].attempt \in Nat
    BY <1>4 DEF TypeOK, JobType
  <2> QED
    BY <1>7, <1>14, <2>1, <2>2, <2>3, <2>4, <2>5, AttemptAssumption DEF IInv, AttemptBudget
<1>18. TimesAdvance'
  <2>1. now >= operations'[j].updatedAt
    BY <1>1, <1>2, <1>4, <1>5, <1>7
       DEF IInv, TimesAdvance, ClaimableAt, TypeOK, JobRowChecks, JobType, LeaseType
  <2>2. ASSUME NEW k \in Job, k # j PROVE operations'[k] = operations[k]
    BY <2>2, <1>2, <1>4 DEF TypeOK
  <2> QED
    BY <1>7, <1>14, <2>1, <2>2 DEF IInv, TimesAdvance
<1>19. ResultsAreFinal'
  BY <1>2, <1>4, <1>7 DEF TypeOK, ResultsAreFinal, IInv
<1> QED
  BY <1>10, <1>11, <1>12, <1>16, <1>17, <1>18, <1>19 DEF IInv
-----------------------------------------------------------------------------
\* extend moves only the end of the lease.
LEMMA ExtendKeeps ==
    ASSUME IInv, NEW w \in Worker, NEW now \in Nat, Extend(w, now), now >= held[w].at
    PROVE  IInv'
<1> DEFINE j == held[w].job
           row == Extended(jobs[j], now)
<1>1. /\ held[w] # Idle
      /\ Leased(j, w, held[w].token, now)
      /\ jobs' = [jobs EXCEPT ![j] = row]
      /\ UNCHANGED <<operations, profiles, profileBindings, outbox, held, faults>>
  BY DEF Extend
<1>2. TypeOK /\ j \in Job /\ jobs[j] \in JobType /\ held[w].at \in Nat
  BY <1>1, HeldType DEF IInv, TypeOK
<1>3. HoldsCurrentLease(w, j)
  BY <1>1, AcceptedHolds
<1>4. jobs[j].lease.claimedAt = held[w].at /\ jobs[j].lease.owner = w /\ jobs[j].state = "LEASED"
  BY <1>1, <1>3 DEF IInv, ClaimsAreRemembered, HoldsCurrentLease
<1>5. jobs[j].lease \in LeaseType
  BY <1>2 DEF JobType
<1>6. /\ row.state = "LEASED" /\ row.attempt = jobs[j].attempt /\ row.resultKey = jobs[j].resultKey
      /\ row.lease.token = jobs[j].lease.token /\ row.lease.owner = w
      /\ row.lease.claimedAt = held[w].at /\ row.lease.expiresAt = now + LeaseSeconds
  BY <1>4, <1>5 DEF Extended, JobRow, LeaseType
<1>7. row \in JobType
  BY <1>2, <1>5, LeaseAssumption DEF Extended, JobRow, JobType, LeaseType
<1> HIDE DEF row, j
<1>8. ASSUME NEW k \in Job PROVE jobs'[k] = IF k = j THEN row ELSE jobs[k]
  BY <1>1, <1>2 DEF TypeOK
<1>9. TypeOK'
  BY <1>1, <1>2, <1>7 DEF TypeOK
<1>10. JobOperationAgree'
  BY <1>1, <1>4, <1>6, <1>8 DEF JobOperationAgree, IInv
<1>11. JobRowChecks'
  <2>1. row.lease # NoLease /\ row.lease.owner # None
    BY <1>6, NoneAssumption DEF NoLease
  <2>2. row.lease.expiresAt > row.lease.claimedAt
    BY <1>2, <1>6, LeaseAssumption
  <2> QED
    BY <1>4, <1>6, <1>8, <2>1, <2>2 DEF JobRowChecks, IInv
<1>12. ClaimsAreRemembered'
  <2>1. ASSUME NEW v \in Worker, NEW k \in Job PROVE HoldsCurrentLease(v, k)' <=> HoldsCurrentLease(v, k)
    BY <1>1, <1>4, <1>6, <1>8 DEF HoldsCurrentLease
  <2>2. \A k \in Job : jobs'[k].state = "LEASED" =>
          /\ jobs'[k].lease.token = jobs'[k].attempt
          /\ jobs'[k].lease.expiresAt > jobs'[k].lease.claimedAt + 1
    BY <1>2, <1>4, <1>6, <1>8, LeaseAssumption DEF IInv, ClaimsAreRemembered
  <2>3. ASSUME NEW v \in Worker, held'[v] # Idle
        PROVE  /\ held'[v].token \in 1..jobs'[held'[v].job].attempt
               /\ HoldsCurrentLease(v, held[v].job)' =>
                     /\ jobs'[held'[v].job].lease.owner = v
                     /\ jobs'[held'[v].job].lease.claimedAt = held'[v].at
    <3>1. held'[v] = held[v] /\ held[v] # Idle /\ held[v].job \in Job
      BY <2>3, <1>1, <1>2, HeldType
    <3>2. held[v].token \in 1..jobs'[held[v].job].attempt
      BY <3>1, <1>6, <1>8 DEF IInv, ClaimsAreRemembered
    <3>3. ASSUME HoldsCurrentLease(v, held[v].job)'
          PROVE  /\ jobs'[held[v].job].lease.owner = v
                 /\ jobs'[held[v].job].lease.claimedAt = held[v].at
      <4>1. HoldsCurrentLease(v, held[v].job)
        BY <3>1, <3>3, <2>1
      <4> QED
        BY <4>1, <3>1, <1>4, <1>6, <1>8 DEF IInv, ClaimsAreRemembered
    <3> QED
      BY <3>1, <3>2, <3>3
  <2> QED
    BY <2>2, <2>3, <1>1 DEF ClaimsAreRemembered, IInv
<1>13. AttemptBudget'
  <2>1. ASSUME NEW k \in Job PROVE StealsLease(k)' <=> StealsLease(k)
    BY <1>1, <1>4, <1>6, <1>8 DEF StealsLease, HoldsCurrentLease
  <2> QED
    BY <2>1, <1>1, <1>4, <1>6, <1>8 DEF AttemptBudget, IInv
<1>14. TimesAdvance'
  BY <1>1, <1>4, <1>6, <1>8 DEF TimesAdvance, IInv
<1>15. ResultsAreFinal'
  BY <1>1 DEF ResultsAreFinal, IInv
<1> QED
  BY <1>9, <1>10, <1>11, <1>12, <1>13, <1>14, <1>15 DEF IInv

-----------------------------------------------------------------------------
\* What every accepted result write has in common: the holder of the current
\* lease replaces its job's row by one without a lease, and forgets the job.
LEMMA ReleaseKeeps ==
    ASSUME IInv, NEW w \in Worker, held[w] # Idle, HoldsCurrentLease(w, held[w].job),
           NEW row \in JobType,
           jobs' = [jobs EXCEPT ![held[w].job] = row],
           row.state \in {"RETRY_WAIT", "SUCCEEDED", "DEAD_LETTERED"},
           row.attempt = jobs[held[w].job].attempt,
           row.lease = NoLease,
           row.state = "SUCCEEDED" <=> row.resultKey # None,
           row.state = "RETRY_WAIT" => row.attempt < MaxAttempts,
           held' = [held EXCEPT ![w] = Idle],
           faults' = faults
    PROVE  JobRowChecks' /\ ClaimsAreRemembered' /\ AttemptBudget'
<1> DEFINE j == held[w].job
<1>1. TypeOK /\ j \in Job
  BY HeldType DEF IInv
<1>2. ASSUME NEW k \in Job PROVE jobs'[k] = IF k = j THEN row ELSE jobs[k]
  BY <1>1 DEF TypeOK
<1>3. ASSUME NEW v \in Worker PROVE held'[v] = IF v = w THEN Idle ELSE held[v]
  BY <1>1 DEF TypeOK
<1> HIDE DEF j
<1>4. JobRowChecks'
  BY <1>2 DEF JobRowChecks, IInv
<1>5. ClaimsAreRemembered'
  <2>1. ASSUME NEW k \in Job PROVE jobs'[k].attempt = jobs[k].attempt
    BY <1>2 DEF j
  <2>2. ASSUME NEW k \in Job, jobs'[k].state = "LEASED" PROVE k # j /\ jobs'[k] = jobs[k]
    BY <2>2, <1>2
  <2>3. \A k \in Job : jobs'[k].state = "LEASED" =>
          /\ jobs'[k].lease.token = jobs'[k].attempt
          /\ jobs'[k].lease.expiresAt > jobs'[k].lease.claimedAt + 1
    BY <2>2 DEF IInv, ClaimsAreRemembered
  <2>4. ASSUME NEW v \in Worker, held'[v] # Idle
        PROVE  /\ held'[v].token \in 1..jobs'[held'[v].job].attempt
               /\ HoldsCurrentLease(v, held[v].job)' =>
                     /\ jobs'[held'[v].job].lease.owner = v
                     /\ jobs'[held'[v].job].lease.claimedAt = held'[v].at
    <3>1. held'[v] = held[v] /\ held[v] # Idle /\ held[v].job \in Job
      BY <2>4, <1>1, <1>3, HeldType
    <3> QED
      BY <3>1, <2>1, <2>2 DEF IInv, ClaimsAreRemembered, HoldsCurrentLease
  <2>5. ASSUME NEW u \in Worker, NEW v \in Worker, held'[u] # Idle, held'[v] # Idle,
               held'[u].job = held'[v].job, held'[u].token = held'[v].token
        PROVE  u = v
    BY <2>5, <1>3 DEF IInv, ClaimsAreRemembered
  <2> QED
    BY <2>3, <2>4, <2>5 DEF ClaimsAreRemembered
<1>6. AttemptBudget'
  <2>1. ASSUME NEW k \in Job, k # j PROVE StealsLease(k) => StealsLease(k)'
    BY <2>1, <1>2, <1>3 DEF StealsLease, HoldsCurrentLease, j
  <2>2. row.attempt = jobs[j].attempt
    BY DEF j
  <2> QED
    BY <2>1, <2>2, <1>1, <1>2 DEF AttemptBudget, IInv
<1> QED
  BY <1>4, <1>5, <1>6

\* What the accepted caller knows about the job it reports on.
LEMMA AcceptedFacts ==
    ASSUME IInv, NEW w \in Worker, held[w] # Idle, CallAccepted(w)
    PROVE  /\ TypeOK /\ held[w].job \in Job
           /\ HoldsCurrentLease(w, held[w].job)
           /\ jobs[held[w].job].state = "LEASED"
           /\ jobs[held[w].job] \in JobType
           /\ operations[held[w].job].version \in Nat
           /\ jobs[held[w].job].attempt \in Nat \ {0}
           /\ FinishTime(w) \in Nat
           /\ FinishTime(w) > operations[held[w].job].updatedAt
<1>1. TypeOK /\ held[w].job \in Job /\ held[w].at \in Nat
  BY HeldType DEF IInv
<1>2. HoldsCurrentLease(w, held[w].job) /\ jobs[held[w].job].state = "LEASED"
  BY AcceptedHolds DEF CallAccepted, HoldsCurrentLease
<1>3. /\ jobs[held[w].job] \in JobType /\ jobs[held[w].job].attempt \in Nat
      /\ operations[held[w].job].version \in Nat /\ operations[held[w].job].updatedAt \in Nat
  BY <1>1 DEF TypeOK, JobType, OperationType
<1>4. jobs[held[w].job].attempt >= 1
  BY <1>1, <1>2 DEF IInv, JobRowChecks
<1>5. held[w].at >= operations[held[w].job].updatedAt
  BY <1>1, <1>2 DEF IInv, ClaimsAreRemembered, TimesAdvance
<1> QED
  BY <1>1, <1>2, <1>3, <1>4, <1>5 DEF FinishTime

\* fail.
LEMMA FailKeeps ==
    ASSUME IInv, NEW w \in Worker, held[w] # Idle, CallAccepted(w),
           Fail(held[w].job, FinishTime(w)), Done(w)
    PROVE  IInv'
<1> DEFINE j == held[w].job
           now == FinishTime(w)
           row == Release(jobs[j], "DEAD_LETTERED", jobs[j].availableAt, None)
           op == OperationRow("FAILED", operations[j].version + 1, now, None)
<1>1. /\ jobs' = [jobs EXCEPT ![j] = row]
      /\ operations' = [operations EXCEPT ![j] = op]
      /\ outbox' = Append(outbox, Event(j, op))
      /\ UNCHANGED <<profiles, profileBindings>>
      /\ held' = [held EXCEPT ![w] = Idle] /\ faults' = faults
  BY DEF Fail, CloseOperation, Done
<1>2. TypeOK /\ j \in Job /\ HoldsCurrentLease(w, j) /\ jobs[j] \in JobType
      /\ operations[j].version \in Nat /\ now \in Nat
  BY AcceptedFacts
<1>3. row \in JobType /\ op \in OperationType /\ Event(j, op) \in EventType
  BY <1>2, RowTypes DEF Release, JobRow, JobType, JobStates, OperationRow, OperationType, Event, EventType
<1>4. /\ row.state = "DEAD_LETTERED" /\ row.attempt = jobs[j].attempt /\ row.lease = NoLease
      /\ row.resultKey = None /\ op.state = "FAILED" /\ op.result = None
  BY DEF Release, JobRow, OperationRow
<1> HIDE DEF row, op
<1>5. JobRowChecks' /\ ClaimsAreRemembered' /\ AttemptBudget'
  BY <1>1, <1>2, <1>3, <1>4, ReleaseKeeps
<1> HIDE DEF j
<1>6. TypeOK'
  BY <1>1, <1>2, <1>3 DEF TypeOK
<1>7. JobOperationAgree'
  BY <1>1, <1>2, <1>4 DEF TypeOK, JobOperationAgree, OperationStateFor, IInv
<1>8. TimesAdvance' /\ ResultsAreFinal'
  BY <1>1, <1>2, <1>4 DEF TypeOK, TimesAdvance, ResultsAreFinal, IInv
<1> QED
  BY <1>5, <1>6, <1>7, <1>8 DEF IInv

\* succeed.
LEMMA SucceedKeeps ==
    ASSUME IInv, NEW w \in Worker, held[w] # Idle, CallAccepted(w),
           Succeed(held[w].job, FinishTime(w)), Done(w)
    PROVE  IInv'
<1> DEFINE j == held[w].job
           now == FinishTime(w)
           row == Release(jobs[j], "SUCCEEDED", jobs[j].availableAt, RevisionFor(j))
           op == OperationRow("SUCCEEDED", operations[j].version + 1, now, ProfileOf[j])
<1>1. /\ jobs' = [jobs EXCEPT ![j] = row]
      /\ operations' = [operations EXCEPT ![j] = op]
      /\ outbox' = Append(outbox, Event(j, op))
      /\ profiles' = profiles \union {RevisionFor(j)}
      /\ profileBindings' = [profileBindings EXCEPT ![BindingKey(j)] = RevisionFor(j)]
      /\ held' = [held EXCEPT ![w] = Idle] /\ faults' = faults
  BY DEF Succeed, CloseOperation, Done
<1>2. TypeOK /\ j \in Job /\ HoldsCurrentLease(w, j) /\ jobs[j] \in JobType
      /\ operations[j].version \in Nat /\ now \in Nat
  BY AcceptedFacts
<1>3. RevisionFor(j) \in Key /\ BindingKey(j) \in Org \X Binding /\ ProfileOf[j] \in Digest
  BY <1>2, RowTypes
<1>4. row \in JobType /\ op \in OperationType /\ Event(j, op) \in EventType
  BY <1>2, <1>3, RowTypes
     DEF Release, JobRow, JobType, JobStates, OperationRow, OperationType, Event, EventType
<1>5. /\ row.state = "SUCCEEDED" /\ row.attempt = jobs[j].attempt /\ row.lease = NoLease
      /\ row.resultKey # None /\ op.state = "SUCCEEDED"
  BY <1>3, NoneAssumption DEF Release, JobRow, OperationRow
<1> HIDE DEF row, op
<1>6. JobRowChecks' /\ ClaimsAreRemembered' /\ AttemptBudget'
  BY <1>1, <1>2, <1>4, <1>5, ReleaseKeeps
<1> HIDE DEF j
<1>7. TypeOK'
  BY <1>1, <1>2, <1>3, <1>4 DEF TypeOK
<1>8. JobOperationAgree'
  BY <1>1, <1>2, <1>5 DEF TypeOK, JobOperationAgree, OperationStateFor, IInv
<1>9. TimesAdvance' /\ ResultsAreFinal'
  BY <1>1, <1>2, <1>5 DEF TypeOK, TimesAdvance, ResultsAreFinal, IInv
<1> QED
  BY <1>6, <1>7, <1>8, <1>9 DEF IInv

\* retry, with attempts left.
LEMMA RetryKeeps ==
    ASSUME IInv, NEW w \in Worker, held[w] # Idle, CallAccepted(w),
           Retry(held[w].job, FinishTime(w)), Done(w)
    PROVE  IInv'
<1>1. CASE Fail(held[w].job, FinishTime(w))
  BY <1>1, FailKeeps
<1>2. CASE ~Fail(held[w].job, FinishTime(w))
  <2> DEFINE j == held[w].job
             now == FinishTime(w)
             row == Release(jobs[j], "RETRY_WAIT", now + RetryDelays[jobs[j].attempt], None)
  <2>1. /\ jobs' = [jobs EXCEPT ![j] = row]
        /\ jobs[j].attempt < MaxAttempts
        /\ UNCHANGED <<operations, profiles, profileBindings, outbox>>
        /\ held' = [held EXCEPT ![w] = Idle] /\ faults' = faults
    BY <1>2 DEF Retry, Done
  <2>2. /\ TypeOK /\ j \in Job /\ HoldsCurrentLease(w, j) /\ jobs[j] \in JobType
        /\ jobs[j].attempt \in Nat \ {0} /\ jobs[j].state = "LEASED"
        /\ now \in Nat /\ now > operations[j].updatedAt
    BY AcceptedFacts
  <2>3. RetryDelays[jobs[j].attempt] \in Nat
    BY <2>1, <2>2, DelayAssumption, AttemptAssumption
  <2>4. row \in JobType
    BY <2>2, <2>3, RowTypes DEF Release, JobRow, JobType, JobStates
  <2>5. /\ row.state = "RETRY_WAIT" /\ row.attempt = jobs[j].attempt /\ row.lease = NoLease
        /\ row.resultKey = None /\ row.availableAt = now + RetryDelays[jobs[j].attempt]
    BY DEF Release, JobRow
  <2> HIDE DEF row
  <2>6. JobRowChecks' /\ ClaimsAreRemembered' /\ AttemptBudget'
    BY <2>1, <2>2, <2>4, <2>5, ReleaseKeeps
  <2> HIDE DEF j
  <2>7. TypeOK'
    BY <2>1, <2>2, <2>4 DEF TypeOK
  <2>8. JobOperationAgree'
    BY <2>1, <2>2, <2>5 DEF TypeOK, JobOperationAgree, OperationStateFor, IInv
  <2>9. TimesAdvance'
    <3>1. operations[j].updatedAt \in Nat
      BY <2>2 DEF TypeOK, OperationType
    <3>2. row.availableAt >= operations[j].updatedAt
      BY <2>2, <2>3, <2>5, <3>1
    <3> QED
      BY <2>1, <2>2, <2>5, <3>2 DEF TypeOK, TimesAdvance, IInv
  <2>10. ResultsAreFinal'
    BY <2>1 DEF ResultsAreFinal, IInv
  <2> QED
    BY <2>6, <2>7, <2>8, <2>9, <2>10 DEF IInv
<1> QED
  BY <1>1, <1>2

\* A refused result write and a crash change only what the worker remembers;
\* either the lease was not current any more, or a fault is counted for it.
LEMMA ForgetKeeps ==
    ASSUME IInv, NEW w \in Worker, UNCHANGED storeVars, held' = [held EXCEPT ![w] = Idle],
           held[w] # Idle,
           \/ faults' = faults + 1
           \/ faults' = faults /\ ~HoldsCurrentLease(w, held[w].job)
    PROVE  IInv'
<1>1. TypeOK /\ UNCHANGED <<jobs, operations, profiles, profileBindings, outbox>>
  BY DEF IInv, storeVars
<1>2. ASSUME NEW v \in Worker PROVE held'[v] = IF v = w THEN Idle ELSE held[v]
  BY <1>1 DEF TypeOK
<1>3. faults \in Nat /\ faults' \in Nat /\ faults' >= faults
  BY <1>1 DEF TypeOK
<1>4. TypeOK'
  BY <1>1, <1>3 DEF TypeOK
<1>5. JobOperationAgree' /\ JobRowChecks' /\ TimesAdvance' /\ ResultsAreFinal'
  BY <1>1 DEF IInv, JobOperationAgree, JobRowChecks, TimesAdvance, ResultsAreFinal
<1>6. ClaimsAreRemembered'
  BY <1>1, <1>2 DEF IInv, ClaimsAreRemembered, HoldsCurrentLease
<1>7. AttemptBudget'
  <2>1. ASSUME NEW k \in Job
        PROVE  jobs[k].state = "LEASED" /\ ~StealsLease(k)' => jobs[k].attempt < MaxAttempts + faults'
    <3>1. CASE faults' = faults + 1
      BY <3>1, <1>1, <1>3, AttemptAssumption DEF IInv, AttemptBudget, TypeOK, JobType
    <3>2. CASE faults' = faults /\ ~HoldsCurrentLease(w, held[w].job)
      <4>1. StealsLease(k) => StealsLease(k)'
        BY <3>2, <1>1, <1>2 DEF StealsLease, HoldsCurrentLease
      <4> QED
        BY <4>1, <3>2 DEF IInv, AttemptBudget
    <3> QED
      BY <3>1, <3>2
  <2>2. ASSUME NEW k \in Job PROVE jobs[k].attempt <= MaxAttempts + faults'
    BY <1>1, <1>3, AttemptAssumption DEF IInv, AttemptBudget, TypeOK, JobType
  <2> QED
    BY <2>1, <2>2, <1>1 DEF IInv, AttemptBudget
<1> QED
  BY <1>4, <1>5, <1>6, <1>7 DEF IInv
-----------------------------------------------------------------------------
\* The fence refuses only a worker whose lease is no longer current.
LEMMA RefusedLostLease ==
    ASSUME IInv, NEW w \in Worker, held[w] # Idle, ~CallAccepted(w)
    PROVE  ~HoldsCurrentLease(w, held[w].job)
<1> SUFFICES ASSUME HoldsCurrentLease(w, held[w].job) PROVE FALSE
  OBVIOUS
<1>1. held[w].job \in Job
  BY HeldType DEF IInv
<1>2. jobs[held[w].job].lease.expiresAt > FinishTime(w)
  BY <1>1 DEF IInv, ClaimsAreRemembered, HoldsCurrentLease, FinishTime
<1>3. Leased(held[w].job, w, held[w].token, FinishTime(w))
  BY <1>1, <1>2 DEF IInv, ClaimsAreRemembered, HoldsCurrentLease, Leased
<1> QED
  BY <1>3 DEF CallAccepted

\* Whatever a worker does next keeps the inductive invariant.
LEMMA WorkerStepKeeps ==
    ASSUME IInv, NEW w \in Worker, WorkerStep(w)
    PROVE  IInv'
<1>1. CASE ClaimNow(w)
  <2>1. PICK j \in Job : \E now \in ClaimableAt(j)..(ClaimableAt(j) + MaxLateness) :
                            Claim(w, OrgOf[j], j, now)
    BY <1>1 DEF ClaimNow
  <2>2. ClaimableAt(j) \in Nat
    BY DEF ClaimableAt, IInv, TypeOK, JobType, LeaseType
  <2>3. PICK now \in Nat : Claim(w, OrgOf[j], j, now)
    BY <2>1, <2>2, BoundAssumption
  <2> QED
    BY <2>3, ClaimKeeps
<1>2. CASE ExtendNow(w)
  <2>1. PICK now \in held[w].at..(held[w].at + MaxExtension) : Extend(w, now)
    BY <1>2 DEF ExtendNow
  <2>2. held[w].at \in Nat
    BY <2>1, HeldType DEF Extend, IInv
  <2>3. now \in Nat /\ now >= held[w].at
    BY <2>1, <2>2, BoundAssumption
  <2> QED
    BY <2>1, <2>3, ExtendKeeps
<1>3. CASE FinishSucceed(w)
  BY <1>3, SucceedKeeps DEF FinishSucceed
<1>4. CASE FinishRetry(w)
  BY <1>4, RetryKeeps DEF FinishRetry
<1>5. CASE FinishFail(w)
  BY <1>5, FailKeeps DEF FinishFail
<1>6. CASE FinishRefused(w)
  BY <1>6, RefusedLostLease, ForgetKeeps DEF FinishRefused, Done
<1>7. CASE Crash(w)
  BY <1>7, ForgetKeeps DEF Crash
<1> QED
  BY <1>1, <1>2, <1>3, <1>4, <1>5, <1>6, <1>7 DEF WorkerStep, Finish

\* Every step of the queue keeps the inductive invariant.
LEMMA NextKeeps == IInv /\ [Next]_vars => IInv'
<1> SUFFICES ASSUME IInv, [Next]_vars PROVE IInv'
  OBVIOUS
<1>1. CASE Create
  <2>1. PICK j \in Job, now \in 0..MaxCreateTime : CreateJob(j, now)
    BY <1>1 DEF Create
  <2>2. now \in Nat
    BY BoundAssumption
  <2> QED
    BY <2>1, <2>2, CreateKeeps
<1>2. ASSUME NEW w \in Worker, WorkerStep(w) PROVE IInv'
  BY <1>2, WorkerStepKeeps
<1>3. CASE UNCHANGED vars
  BY <1>3 DEF vars, IInv, TypeOK, JobOperationAgree, JobRowChecks, ClaimsAreRemembered,
              AttemptBudget, TimesAdvance, ResultsAreFinal, HoldsCurrentLease, StealsLease
<1> QED
  BY <1>1, <1>2, <1>3 DEF Next

\* So the inductive invariant holds always.
LEMMA Inductive == Spec => []IInv
BY InitIInv, NextKeeps, PTL DEF Spec

-----------------------------------------------------------------------------
\* Every row, event and worker memory of the queue keeps its shape.
THEOREM TypeCorrect == Spec => []TypeOK
<1>1. IInv => TypeOK
  BY DEF IInv
<1> QED
  BY <1>1, Inductive, PTL

\* A job and its operation always agree, for any number of workers claiming,
\* stalling, dying and reporting late.
THEOREM AgreementHolds == Spec => []JobOperationAgree
<1>1. IInv => JobOperationAgree
  BY DEF IInv
<1> QED
  BY <1>1, Inductive, PTL

\* No two workers ever hold a token the store would accept for the same job.
THEOREM ExclusiveLeases == Spec => []LeaseExclusive
<1>1. IInv => LeaseExclusive
  BY NoneAssumption DEF IInv, ClaimsAreRemembered, LeaseExclusive, HoldsCurrentLease, Idle
<1> QED
  BY <1>1, Inductive, PTL

\* A job is attempted at most MAX_ATTEMPTS times plus once per lost lease.
THEOREM AttemptsBounded == Spec => []AttemptsExplained
<1>1. IInv => AttemptsExplained
  BY DEF IInv, AttemptBudget, AttemptsExplained
<1> QED
  BY <1>1, Inductive, PTL
-----------------------------------------------------------------------------
\* An accepted result write is made by the holder of the current lease, to its
\* own job, ends what the worker remembers and leaves the attempt.
LEMMA AcceptedWriteIsFenced ==
    ASSUME IInv, NEW w \in Worker, held[w] # Idle, CallAccepted(w), Done(w),
           NEW state \in {"RETRY_WAIT", "SUCCEEDED", "DEAD_LETTERED"}, NEW availableAt, NEW resultKey,
           jobs' = [jobs EXCEPT ![held[w].job] =
                        Release(jobs[held[w].job], state, availableAt, resultKey)]
    PROVE  FencedStep
<1>1. TypeOK /\ held[w].job \in Job /\ HoldsCurrentLease(w, held[w].job)
  BY AcceptedFacts
<1>2. held'[w] = Idle
  BY <1>1 DEF Done, TypeOK
<1>3. /\ jobs'[held[w].job].state = state
      /\ jobs'[held[w].job].attempt = jobs[held[w].job].attempt
  BY <1>1 DEF TypeOK, Release, JobRow
<1>4. ASSUME NEW k \in Job, k # held[w].job PROVE jobs'[k] = jobs[k]
  BY <1>1, <1>4 DEF TypeOK
<1>5. ClosedByHolder(held[w].job)
  BY <1>1, <1>2, <1>3 DEF ClosedByHolder
<1> QED
  BY <1>4, <1>5 DEF FencedStep

\* A claim of a leased job takes it over: the lease has ended, by the time of
\* the claim, and the new token is not the old one.
LEMMA ClaimIsFenced ==
    ASSUME IInv, NEW w \in Worker, NEW j \in Job, NEW now \in Nat, Claim(w, OrgOf[j], j, now)
    PROVE  FencedStep
<1>1. TypeOK
  BY DEF IInv
<1>2. jobs' = [jobs EXCEPT ![j] = Claimed(w, jobs[j], now)] /\ ClaimableAt(j) <= now
  BY DEF Claim, NextInQueue, Eligible
<1>3. /\ jobs'[j].state = "LEASED" /\ jobs'[j].attempt = jobs[j].attempt + 1
      /\ jobs'[j].lease.claimedAt = now /\ jobs'[j].lease.token = jobs[j].attempt + 1
  BY <1>1, <1>2 DEF TypeOK, Claimed, JobRow, LeaseFor, FreshToken
<1>4. ASSUME jobs[j].state = "LEASED" PROVE TakenOver(j)
  <2>1. jobs[j].lease.token = jobs[j].attempt /\ jobs[j].attempt \in Nat
    BY <1>1, <1>4 DEF IInv, ClaimsAreRemembered, TypeOK, JobType
  <2>2. now >= jobs[j].lease.expiresAt
    <3>1. jobs[j].lease.expiresAt <= now /\ jobs[j].lease.expiresAt \in Nat
      BY <1>1, <1>2, <1>4 DEF ClaimableAt, TypeOK, JobType, LeaseType
    <3> QED
      BY <3>1
  <2>3. jobs'[j].lease.token # jobs[j].lease.token
    BY <1>3, <2>1
  <2> QED
    BY <1>3, <2>2, <2>3 DEF TakenOver
<1>5. ASSUME NEW k \in Job, k # j PROVE jobs'[k] = jobs[k]
  BY <1>1, <1>2, <1>5 DEF TypeOK
<1> QED
  BY <1>4, <1>5 DEF FencedStep

\* An extension is the holder's, made between its claim and the lease's end.
LEMMA ExtendIsFenced ==
    ASSUME IInv, NEW w \in Worker, NEW now \in Nat, held[w] # Idle => now >= held[w].at, Extend(w, now)
    PROVE  FencedStep
<1>1. TypeOK /\ held[w] # Idle
  BY DEF IInv, Extend
<1>2. PICK j \in Job : j = held[w].job
  BY <1>1, HeldType
<1>3. /\ Leased(j, w, held[w].token, now)
      /\ jobs' = [jobs EXCEPT ![j] = Extended(jobs[j], now)]
      /\ held' = held
  BY <1>2 DEF Extend
<1>4. HoldsCurrentLease(w, j)
  BY <1>1, <1>2, <1>3, AcceptedHolds
<1>5. /\ jobs[j].lease.claimedAt = held[w].at /\ held[w].at \in Nat
      /\ jobs[j].lease.expiresAt > now /\ jobs[j].lease.expiresAt \in Nat
  <2>1. jobs[j].lease.claimedAt = held[w].at
    BY <1>1, <1>2, <1>4 DEF IInv, ClaimsAreRemembered
  <2>2. held[w].at \in Nat /\ jobs[j].lease.expiresAt \in Nat
    BY <1>1, HeldType DEF TypeOK, JobType, LeaseType
  <2> QED
    BY <1>3, <2>1, <2>2 DEF Leased
<1>6. jobs'[j] = Extended(jobs[j], now)
  BY <1>1, <1>3 DEF TypeOK
<1>7. jobs[j] \in JobType
  BY <1>1 DEF TypeOK
<1>8. /\ jobs'[j].lease.expiresAt = now + LeaseSeconds
      /\ jobs'[j] = [jobs[j] EXCEPT !.lease = [@ EXCEPT !.expiresAt = now + LeaseSeconds]]
  BY <1>6, <1>7 DEF Extended, JobRow, JobType, LeaseType
<1>9. ExtendedByHolder(j)
  <2>1. /\ jobs[j].lease.claimedAt + LeaseSeconds <= now + LeaseSeconds
        /\ now + LeaseSeconds < jobs[j].lease.expiresAt + LeaseSeconds
    BY <1>1, <1>5, LeaseAssumption
  <2> QED
    BY <1>3, <1>4, <1>8, <2>1 DEF ExtendedByHolder
<1>10. ASSUME NEW k \in Job, k # j PROVE jobs'[k] = jobs[k]
  BY <1>1, <1>3, <1>10 DEF TypeOK
<1> QED
  BY <1>9, <1>10 DEF FencedStep

\* Every step of the queue respects the fence of every leased job.
LEMMA StepIsFenced == IInv /\ [Next]_vars => [FencedStep]_vars
<1> SUFFICES ASSUME IInv, Next PROVE FencedStep
  OBVIOUS
<1>1. TypeOK
  BY DEF IInv
<1>2. CASE Create
  BY <1>1, <1>2 DEF Create, CreateJob, FencedStep, TypeOK
<1>3. ASSUME NEW w \in Worker, held[w] # Idle, CallAccepted(w), Done(w), Fail(held[w].job, FinishTime(w))
      PROVE  FencedStep
  BY <1>3, AcceptedWriteIsFenced DEF Fail
<1>4. ASSUME NEW w \in Worker, WorkerStep(w) PROVE FencedStep
  <2>1. CASE ClaimNow(w)
    <3>1. PICK j \in Job : \E now \in ClaimableAt(j)..(ClaimableAt(j) + MaxLateness) :
                              Claim(w, OrgOf[j], j, now)
      BY <2>1 DEF ClaimNow
    <3>2. ClaimableAt(j) \in Nat
      BY <1>1 DEF ClaimableAt, TypeOK, JobType, LeaseType
    <3>3. PICK now \in Nat : Claim(w, OrgOf[j], j, now)
      BY <3>1, <3>2, BoundAssumption
    <3> QED
      BY <3>3, ClaimIsFenced
  <2>2. CASE ExtendNow(w)
    <3>1. PICK now \in held[w].at..(held[w].at + MaxExtension) : Extend(w, now)
      BY <2>2 DEF ExtendNow
    <3>2. held[w].at \in Nat
      BY <1>1, <3>1, HeldType DEF Extend
    <3>3. now \in Nat /\ now >= held[w].at
      BY <3>1, <3>2, BoundAssumption
    <3> QED
      BY <3>1, <3>3, ExtendIsFenced
  <2>3. CASE FinishSucceed(w)
    BY <2>3, AcceptedWriteIsFenced DEF FinishSucceed, Succeed
  <2>4. CASE FinishRetry(w)
    <3>1. held[w] # Idle /\ CallAccepted(w) /\ Done(w) /\ Retry(held[w].job, FinishTime(w))
      BY <2>4 DEF FinishRetry
    <3>2. CASE Fail(held[w].job, FinishTime(w))
      BY <1>3, <3>1, <3>2
    <3>3. CASE ~Fail(held[w].job, FinishTime(w))
      BY <3>1, <3>3, AcceptedWriteIsFenced DEF Retry
    <3> QED
      BY <3>2, <3>3
  <2>5. CASE FinishFail(w)
    BY <2>5, <1>3 DEF FinishFail
  <2>6. CASE FinishRefused(w) \/ Crash(w)
    BY <2>6 DEF FinishRefused, Crash, storeVars, FencedStep
  <2> QED
    BY <1>4, <2>1, <2>2, <2>3, <2>4, <2>5, <2>6 DEF WorkerStep, Finish
<1> QED
  BY <1>2, <1>4 DEF Next

\* The owner and token of a lease stay until it ends: a leased job is only ever
\* extended in time or given up by the worker holding its current token, or
\* taken over by a claim made no earlier than the lease's end.
THEOREM WritesAreFenced == Spec => FencedWrites
BY Inductive, StepIsFenced, PTL DEF Spec, FencedWrites

-----------------------------------------------------------------------------
\* The step of the abstract life cycle that an accepted close takes.
LEMMA CloseIsLifecycleStep ==
    ASSUME IInv, NEW w \in Worker, held[w] # Idle, CallAccepted(w),
           NEW s \in {"SUCCEEDED", "FAILED"}, NEW result, s = "SUCCEEDED" \/ result = None,
           operations[held[w].job].state = "RUNNING",
           CloseOperation(held[w].job, s, result, FinishTime(w))
    PROVE  Lifecycle!OpNext
<1> DEFINE j == held[w].job
           op == OperationRow(s, operations[j].version + 1, FinishTime(w), result)
<1>1. TypeOK /\ j \in Job /\ FinishTime(w) > operations[j].updatedAt /\ FinishTime(w) \in Nat
  BY AcceptedFacts
<1>2. operations' = [operations EXCEPT ![j] = op] /\ operations[j].updatedAt \in Nat
  BY <1>1 DEF CloseOperation, TypeOK, OperationType
<1>3. operations'[j] = op /\ op.state = s /\ op.updatedAt = FinishTime(w) /\ op.result = result
  BY <1>1, <1>2 DEF TypeOK, OperationRow
<1>4. Lifecycle!OpAdvance(j, s, FinishTime(w), result)
  BY <1>1, <1>2 DEF Lifecycle!OpAdvance, Lifecycle!Legal, OperationRow
<1>5. Lifecycle!OpStep(j)
  BY <1>3, <1>4 DEF Lifecycle!OpStep
<1> QED
  BY <1>1, <1>5 DEF Lifecycle!OpNext

\* Every step of the queue is a step of the abstract life cycle, or leaves it alone.
LEMMA StepIsLifecycleStep == IInv /\ [Next]_vars => [Lifecycle!OpNext]_operations
<1> SUFFICES ASSUME IInv, [Next]_vars, operations' # operations PROVE Lifecycle!OpNext
  OBVIOUS
<1>1. TypeOK
  BY DEF IInv
<1>2. CASE Create
  <2>1. PICK j \in Job, now \in 0..MaxCreateTime : CreateJob(j, now)
    BY <1>2 DEF Create
  <2>2. operations[j].state = "ABSENT"
    BY <2>1 DEF CreateJob, IInv, JobOperationAgree, OperationStateFor
  <2>3. operations' = [operations EXCEPT ![j] = OperationRow("PENDING", 1, now, None)]
    BY <2>1 DEF CreateJob
  <2>4. operations'[j].updatedAt = now
    BY <1>1, <2>3 DEF TypeOK, OperationRow
  <2>5. Lifecycle!OpCreate(j, now)
    BY <2>2, <2>3 DEF Lifecycle!OpCreate, OperationRow
  <2> QED
    BY <2>4, <2>5 DEF Lifecycle!OpNext, Lifecycle!OpStep
<1>3. ASSUME NEW w \in Worker, WorkerStep(w) PROVE Lifecycle!OpNext
  <2>1. CASE ClaimNow(w)
    <3>1. PICK j \in Job : \E now \in ClaimableAt(j)..(ClaimableAt(j) + MaxLateness) :
                              Claim(w, OrgOf[j], j, now)
      BY <2>1 DEF ClaimNow
    <3>2. ClaimableAt(j) \in Nat
      BY <1>1 DEF ClaimableAt, TypeOK, JobType, LeaseType
    <3>3. PICK now \in Nat : Claim(w, OrgOf[j], j, now) /\ ClaimableAt(j) <= now
      BY <3>1, <3>2, BoundAssumption
    <3>4. /\ operations[j].state = "PENDING"
          /\ operations' = [operations EXCEPT ![j] = Started(operations[j], now)]
      BY <3>3 DEF Claim
    <3>5. jobs[j].state = "QUEUED" /\ operations[j].result = None
      <4>1. jobs[j].state \in JobStates /\ operations[j].state = OperationStateFor[jobs[j].state]
        BY <1>1 DEF IInv, JobOperationAgree, TypeOK, JobType
      <4>2. jobs[j].state = "QUEUED"
        BY <3>4, <4>1 DEF JobStates, OperationStateFor
      <4> QED
        BY <3>4, <4>2 DEF IInv, ResultsAreFinal
    <3>6. now >= operations[j].updatedAt
      BY <1>1, <3>2, <3>3, <3>5 DEF IInv, TimesAdvance, ClaimableAt, TypeOK, OperationType
    <3>7. /\ operations'[j].state = "RUNNING" /\ operations'[j].updatedAt = now
          /\ operations'[j].result = None
      BY <1>1, <3>4, <3>5 DEF Started, OperationRow, TypeOK
    <3>8. Lifecycle!OpAdvance(j, "RUNNING", now, None)
      BY <3>4, <3>5, <3>6 DEF Lifecycle!OpAdvance, Lifecycle!Legal, Started, OperationRow
    <3> QED
      BY <3>7, <3>8 DEF Lifecycle!OpNext, Lifecycle!OpStep
  <2>2. CASE ExtendNow(w)
    BY <2>2 DEF ExtendNow, Extend
  <2>3. CASE FinishSucceed(w)
    BY <2>3, CloseIsLifecycleStep DEF FinishSucceed, Succeed
  <2>4. CASE FinishRetry(w)
    BY <2>4, CloseIsLifecycleStep DEF FinishRetry, Retry, Fail
  <2>5. CASE FinishFail(w)
    BY <2>5, CloseIsLifecycleStep DEF FinishFail, Fail
  <2>6. CASE FinishRefused(w) \/ Crash(w)
    BY <2>6 DEF FinishRefused, Crash, storeVars
  <2> QED
    BY <1>3, <2>1, <2>2, <2>3, <2>4, <2>5, <2>6 DEF WorkerStep, Finish
<1>4. CASE UNCHANGED vars
  BY <1>4 DEF vars
<1> QED
  BY <1>2, <1>3, <1>4 DEF Next

\* The compilation queue implements the operation life cycle: whatever its
\* workers do, a client polling an operation sees only legal transitions.
THEOREM LifecycleRefinement == Spec => ImplementsLifecycle
<1>1. Init => Lifecycle!OpInit
  BY DEF Init, Lifecycle!OpInit, NoOperation, OperationRow, Lifecycle!NoOperation
<1> QED
  BY <1>1, Inductive, StepIsLifecycleStep, PTL DEF Spec, ImplementsLifecycle, Lifecycle!OpSpec

-----------------------------------------------------------------------------
\* Each position of the outbox holds an event.
LEMMA EventTyped ==
    ASSUME TypeOK, NEW n \in DOMAIN outbox
    PROVE  outbox[n] \in EventType
<1>1. outbox \in Seq(EventType)
  BY DEF TypeOK
<1> QED
  BY <1>1

\* The events of one operation, as the sequences they carry.
LEMMA SequencesSeen ==
    ASSUME OutboxIInv, NEW j \in Job, NEW s
    PROVE  s \in 2..operations[j].version
             <=> \E n \in DOMAIN outbox : outbox[n].subject = j /\ outbox[n].sequence = s
<1>1. {outbox[n].sequence : n \in {m \in DOMAIN outbox : outbox[m].subject = j}}
        = 2..operations[j].version
  BY DEF OutboxIInv, OutboxSequential
<1> QED
  BY <1>1

\* An operation's next event follows all its events in sequence and in time.
LEMMA AppendKeepsOutbox ==
    ASSUME TypeOK, OutboxIInv, NEW j \in Job, NEW op \in OperationType,
           operations' = [operations EXCEPT ![j] = op],
           outbox' = Append(outbox, Event(j, op)), Event(j, op) \in EventType,
           op.version = operations[j].version + 1,
           op.version = VersionFor[op.state],
           \/ operations[j].version = 1 /\ op.updatedAt >= operations[j].updatedAt
           \/ operations[j].version = 2 /\ op.updatedAt > operations[j].updatedAt
    PROVE  OutboxIInv'
<1> DEFINE N == Len(outbox)
           e == Event(j, op)
<1>1. /\ N \in Nat /\ DOMAIN outbox = 1..N /\ DOMAIN outbox' = 1..(N + 1)
      /\ \A n \in 1..N : outbox'[n] = outbox[n] /\ outbox[n] \in EventType
      /\ outbox'[N + 1] = e
  BY DEF TypeOK
<1>2. e.subject = j /\ e.sequence = op.version /\ e.time = op.updatedAt
  BY DEF Event
<1>3. /\ operations[j].version \in Nat /\ operations[j].updatedAt \in Nat /\ op.updatedAt \in Nat
      /\ \A n \in 1..N : outbox[n].sequence \in Nat /\ outbox[n].time \in Nat /\ outbox[n].subject \in Job
  BY <1>1 DEF TypeOK, OperationType, EventType
<1>4. ASSUME NEW k \in Job PROVE operations'[k] = IF k = j THEN op ELSE operations[k]
  BY DEF TypeOK
<1> HIDE DEF N, e
<1>5. ASSUME NEW n \in 1..N, outbox[n].subject = j
      PROVE  outbox[n].sequence < op.version /\ outbox[n].time < op.updatedAt
  <2>1. outbox[n].sequence \in 2..operations[j].version
    BY <1>1, <1>5, SequencesSeen
  <2>2. outbox[n].time <= operations[j].updatedAt
    BY <1>1, <1>5 DEF OutboxIInv, EventsCovered
  <2> QED
    BY <2>1, <2>2, <1>3
<1>6. ASSUME NEW m \in 1..(N + 1), NEW n \in 1..(N + 1), m < n, outbox'[m].subject = outbox'[n].subject
      PROVE  outbox'[m].sequence < outbox'[n].sequence /\ outbox'[m].time < outbox'[n].time
  <2>1. m \in 1..N
    BY <1>1, <1>6
  <2>2. CASE n \in 1..N
    BY <2>1, <2>2, <1>1, <1>6 DEF OutboxIInv, OutboxSequential
  <2>3. CASE n = N + 1
    BY <2>1, <2>3, <1>1, <1>2, <1>5, <1>6
  <2> QED
    BY <2>2, <2>3, <1>1
<1>7. ASSUME NEW k \in Job
      PROVE  {outbox'[n].sequence : n \in {m \in 1..(N + 1) : outbox'[m].subject = k}}
               = 2..operations'[k].version
  <2>1. ASSUME NEW s
        PROVE  s \in 2..operations'[k].version
                 <=> \E n \in 1..(N + 1) : outbox'[n].subject = k /\ outbox'[n].sequence = s
    <3>1. s \in 2..operations[k].version
            <=> \E n \in 1..N : outbox[n].subject = k /\ outbox[n].sequence = s
      BY <1>1, SequencesSeen
    <3>2. (\E n \in 1..(N + 1) : outbox'[n].subject = k /\ outbox'[n].sequence = s)
            <=> \/ \E n \in 1..N : outbox[n].subject = k /\ outbox[n].sequence = s
                \/ k = j /\ s = op.version
      BY <1>1, <1>2
    <3>3. CASE k = j
      <4>1. s \in 2..op.version <=> s \in 2..operations[j].version \/ s = op.version
        BY <1>3
      <4> QED
        BY <4>1, <3>1, <3>2, <3>3, <1>4
    <3>4. CASE k # j
      BY <3>1, <3>2, <3>4, <1>4
    <3> QED
      BY <3>3, <3>4
  <2> QED
    BY <2>1
<1>8. OutboxSequential'
  BY <1>1, <1>6, <1>7 DEF OutboxSequential
<1>9. EventsCovered'
  <2>1. \A k \in Job : operations'[k].version = VersionFor[operations'[k].state]
    BY <1>4 DEF OutboxIInv, EventsCovered
  <2>2. ASSUME NEW n \in 1..(N + 1)
        PROVE  outbox'[n].time <= operations'[outbox'[n].subject].updatedAt
    <3>1. CASE n = N + 1
      BY <3>1, <1>1, <1>2, <1>3, <1>4
    <3>2. CASE n \in 1..N /\ outbox[n].subject = j
      BY <3>2, <1>1, <1>3, <1>4, <1>5
    <3>3. CASE n \in 1..N /\ outbox[n].subject # j
      BY <3>3, <1>1, <1>3, <1>4 DEF OutboxIInv, EventsCovered
    <3> QED
      BY <3>1, <3>2, <3>3, <1>1
  <2> QED
    BY <2>1, <2>2, <1>1 DEF EventsCovered
<1> QED
  BY <1>8, <1>9 DEF OutboxIInv

\* A step that neither appends an event nor writes an operation.
LEMMA QuietKeepsOutbox ==
    ASSUME OutboxIInv, operations' = operations, outbox' = outbox
    PROVE  OutboxIInv'
BY DEF OutboxIInv, OutboxSequential, EventsCovered

\* An accepted final state is the operation's third version, later than its second.
LEMMA CloseKeepsOutbox ==
    ASSUME IInv, OutboxIInv, NEW w \in Worker, held[w] # Idle, CallAccepted(w),
           NEW s \in {"SUCCEEDED", "FAILED"}, NEW result \in Digest \union {None},
           operations[held[w].job].state = "RUNNING",
           CloseOperation(held[w].job, s, result, FinishTime(w))
    PROVE  OutboxIInv'
<1> DEFINE j == held[w].job
           op == OperationRow(s, operations[j].version + 1, FinishTime(w), result)
<1>1. /\ TypeOK /\ j \in Job /\ FinishTime(w) > operations[j].updatedAt
      /\ FinishTime(w) \in Nat /\ operations[j].version \in Nat
  BY AcceptedFacts
<1>2. operations' = [operations EXCEPT ![j] = op] /\ outbox' = Append(outbox, Event(j, op))
  BY DEF CloseOperation
<1>3. op \in OperationType /\ Event(j, op) \in EventType
  BY <1>1 DEF OperationRow, OperationType, Event, EventType
<1>4. op.state = s /\ op.version = operations[j].version + 1 /\ op.updatedAt = FinishTime(w)
  BY DEF OperationRow
<1>5. operations[j].version = 2 /\ VersionFor[s] = 3
  BY <1>1 DEF OutboxIInv, EventsCovered, VersionFor
<1>6. op.version = VersionFor[op.state]
  BY <1>4, <1>5
<1>7. op.updatedAt > operations[j].updatedAt
  BY <1>1, <1>4
<1> HIDE DEF op, j
<1> QED
  BY <1>1, <1>2, <1>3, <1>4, <1>5, <1>6, <1>7, AppendKeepsOutbox

\* Every step of the queue keeps the outbox in sequence.
LEMMA NextKeepsOutbox == IInv /\ OutboxIInv /\ [Next]_vars => OutboxIInv'
<1> SUFFICES ASSUME IInv, OutboxIInv, [Next]_vars PROVE OutboxIInv'
  OBVIOUS
<1>1. TypeOK
  BY DEF IInv
<1>2. CASE Create
  <2>1. PICK j \in Job, now \in 0..MaxCreateTime : CreateJob(j, now)
    BY <1>2 DEF Create
  <2> DEFINE op == OperationRow("PENDING", 1, now, None)
  <2>2. operations' = [operations EXCEPT ![j] = op] /\ outbox' = outbox
    BY <2>1 DEF CreateJob
  <2>3. op.state = "PENDING" /\ op.version = 1
    BY DEF OperationRow
  <2>4. operations[j].version = 0
    BY <2>1 DEF CreateJob, IInv, JobOperationAgree, OperationStateFor, OutboxIInv, EventsCovered, VersionFor
  <2> HIDE DEF op
  <2>5. ASSUME NEW k \in Job PROVE operations'[k] = IF k = j THEN op ELSE operations[k]
    BY <1>1, <2>2 DEF TypeOK
  <2>6. \A n \in DOMAIN outbox : outbox[n].subject \in Job
    BY <1>1, EventTyped DEF EventType
  <2>7. ASSUME NEW n \in DOMAIN outbox PROVE outbox[n].subject # j
    BY <2>4, <2>6, SequencesSeen
  <2>8. \A k \in Job : 2..operations'[k].version = 2..operations[k].version
    BY <2>3, <2>4, <2>5
  <2>9. OutboxSequential'
    <3>1. OutboxSequential
      BY DEF OutboxIInv
    <3>2. ASSUME NEW k \in Job
          PROVE  {outbox'[n].sequence : n \in {m \in DOMAIN outbox' : outbox'[m].subject = k}}
                   = 2..operations'[k].version
      <4>1. {outbox[n].sequence : n \in {m \in DOMAIN outbox : outbox[m].subject = k}}
              = 2..operations[k].version
        BY <3>1 DEF OutboxSequential
      <4> QED
        BY <4>1, <2>2, <2>8
    <3> QED
      BY <3>1, <3>2, <2>2 DEF OutboxSequential
  <2>10. EventsCovered'
    BY <2>2, <2>3, <2>5, <2>6, <2>7 DEF OutboxIInv, EventsCovered, VersionFor
  <2> QED
    BY <2>9, <2>10 DEF OutboxIInv
<1>3. ASSUME NEW w \in Worker, WorkerStep(w) PROVE OutboxIInv'
  <2>1. CASE ClaimNow(w)
    <3>1. PICK j \in Job : \E now \in ClaimableAt(j)..(ClaimableAt(j) + MaxLateness) :
                              Claim(w, OrgOf[j], j, now)
      BY <2>1 DEF ClaimNow
    <3>2. ClaimableAt(j) \in Nat
      BY <1>1 DEF ClaimableAt, TypeOK, JobType, LeaseType
    <3>3. PICK now \in Nat : Claim(w, OrgOf[j], j, now) /\ ClaimableAt(j) <= now
      BY <3>1, <3>2, BoundAssumption
    <3>4. CASE UNCHANGED <<operations, outbox>>
      BY <3>4, QuietKeepsOutbox
    <3>5. CASE /\ operations[j].state = "PENDING"
               /\ operations' = [operations EXCEPT ![j] = Started(operations[j], now)]
               /\ outbox' = Append(outbox, Event(j, Started(operations[j], now)))
      <4> DEFINE op == Started(operations[j], now)
      <4>1. jobs[j].state = "QUEUED"
        <5>1. jobs[j].state \in JobStates /\ operations[j].state = OperationStateFor[jobs[j].state]
          BY <1>1 DEF IInv, JobOperationAgree, TypeOK, JobType
        <5> QED
          BY <3>5, <5>1 DEF JobStates, OperationStateFor
      <4>2. operations[j].version = 1 /\ operations[j].updatedAt \in Nat
        BY <1>1, <3>5 DEF OutboxIInv, EventsCovered, VersionFor, TypeOK, OperationType
      <4>3. now >= operations[j].updatedAt
        BY <1>1, <3>2, <3>3, <4>1, <4>2 DEF IInv, TimesAdvance, ClaimableAt
      <4>4. op.state = "RUNNING" /\ op.version = 2 /\ op.updatedAt = now
        BY <4>2 DEF Started, OperationRow
      <4>5. op \in OperationType /\ Event(j, op) \in EventType
        BY <1>1, <4>2 DEF Started, OperationRow, TypeOK, OperationType, Event, EventType
      <4> HIDE DEF op
      <4>6. operations' = [operations EXCEPT ![j] = op] /\ outbox' = Append(outbox, Event(j, op))
        BY <3>5 DEF op
      <4> QED
        <5>1. op.version = VersionFor[op.state] /\ op.version = operations[j].version + 1
          BY <4>2, <4>4 DEF VersionFor
        <5>2. op.updatedAt >= operations[j].updatedAt
          BY <4>3, <4>4
        <5> QED
          BY <5>1, <5>2, <1>1, <4>2, <4>5, <4>6, AppendKeepsOutbox
    <3> QED
      BY <3>3, <3>4, <3>5 DEF Claim
  <2>2. CASE ExtendNow(w)
    BY <2>2, QuietKeepsOutbox DEF ExtendNow, Extend
  <2>3. CASE FinishSucceed(w)
    <3>1. ProfileOf[held[w].job] \in Digest
      BY <2>3, AcceptedFacts, RowTypes DEF FinishSucceed
    <3> QED
      BY <2>3, <3>1, CloseKeepsOutbox DEF FinishSucceed, Succeed
  <2>4. CASE FinishRetry(w)
    BY <2>4, CloseKeepsOutbox, QuietKeepsOutbox DEF FinishRetry, Retry, Fail
  <2>5. CASE FinishFail(w)
    BY <2>5, CloseKeepsOutbox DEF FinishFail, Fail
  <2>6. CASE FinishRefused(w) \/ Crash(w)
    BY <2>6, QuietKeepsOutbox DEF FinishRefused, Crash, storeVars
  <2> QED
    BY <1>3, <2>1, <2>2, <2>3, <2>4, <2>5, <2>6 DEF WorkerStep, Finish
<1>4. CASE UNCHANGED vars
  BY <1>4, QuietKeepsOutbox DEF vars
<1> QED
  BY <1>2, <1>3, <1>4 DEF Next

\* Nothing is announced in an empty store.
LEMMA InitOutbox == Init => OutboxIInv
<1> SUFFICES ASSUME Init PROVE OutboxIInv
  OBVIOUS
<1>1. DOMAIN outbox = {} /\ \A j \in Job : operations[j].version = 0 /\ operations[j].state = "ABSENT"
  BY DEF Init, NoOperation, OperationRow
<1>2. \A j \in Job : 2..operations[j].version = {}
  BY <1>1
<1> QED
  BY <1>1, <1>2 DEF OutboxIInv, OutboxSequential, EventsCovered, VersionFor

\* The outbox stays in sequence in every behaviour of the queue.
LEMMA OutboxInductive == Spec => []OutboxIInv
BY InitOutbox, Inductive, NextKeepsOutbox, PTL DEF Spec

\* The events of every operation are committed gap-free and in the order of
\* their times, whichever clocks its workers read: sorting the outbox by time,
\* as the relay does, recovers each operation's order.
THEOREM OutboxInSequence == Spec => []OutboxSequential
<1>1. OutboxIInv => OutboxSequential
  BY DEF OutboxIInv
<1> QED
  BY <1>1, OutboxInductive, PTL

-----------------------------------------------------------------------------
\* A step that files nothing and touches no succeeded job keeps the bindings.
LEMMA QuietKeepsBindings ==
    ASSUME IInv, BindingsResolve, UNCHANGED <<profiles, profileBindings>>,
           \A j \in Job : jobs[j].state = "SUCCEEDED" \/ jobs'[j].state = "SUCCEEDED"
                             => jobs'[j] = jobs[j] /\ operations'[j] = operations[j]
    PROVE  BindingsResolve'
<1>1. \A k \in Job : BindingKey(k)' = BindingKey(k)
  BY DEF BindingKey
<1>2. \A k \in Job : jobs[k].state = "SUCCEEDED" => jobs'[k] = jobs[k] /\ operations'[k] = operations[k]
  OBVIOUS
<1>3. ASSUME NEW c \in Org \X Binding, profileBindings'[c] # None
      PROVE  /\ profileBindings'[c] \in profiles' /\ profileBindings'[c].org = c[1]
             /\ \E k \in Job : /\ jobs'[k].state = "SUCCEEDED" /\ BindingKey(k) = c
                               /\ profileBindings'[c].digest = ProfileOf[k]
  BY <1>2, <1>3 DEF BindingsResolve
<1>4. ASSUME NEW k \in Job, jobs'[k].state = "SUCCEEDED"
      PROVE  /\ jobs'[k].resultKey = profileBindings'[BindingKey(k)]
             /\ operations'[k].result = ProfileOf[k]
  BY <1>4 DEF BindingsResolve
<1> QED
  BY <1>1, <1>3, <1>4 DEF BindingsResolve

\* succeed files the result under its binding's revision: the stored one if the
\* binding has one, whose digest some job of the binding made, or its own.
LEMMA SucceedKeepsBindings ==
    ASSUME IInv, BindingsResolve, NEW w \in Worker, held[w] # Idle, CallAccepted(w),
           Succeed(held[w].job, FinishTime(w))
    PROVE  BindingsResolve'
<1>1. PICK j \in Job : j = held[w].job
  BY AcceptedFacts
<1>2. TypeOK
  BY DEF IInv
<1>3. PICK r \in Key : r = RevisionFor(j)
  BY <1>2, RowTypes
<1>4. PICK b \in Org \X Binding : b = BindingKey(j)
  BY <1>2, RowTypes
<1>5. /\ profiles' = profiles \union {r}
      /\ profileBindings' = [profileBindings EXCEPT ![b] = r]
      /\ jobs' = [jobs EXCEPT ![j] = Release(jobs[j], "SUCCEEDED", jobs[j].availableAt, r)]
      /\ operations' = [operations EXCEPT ![j] =
            OperationRow("SUCCEEDED", operations[j].version + 1, FinishTime(w), ProfileOf[j])]
  BY <1>1, <1>3, <1>4 DEF Succeed, CloseOperation
<1>6. /\ jobs'[j].state = "SUCCEEDED" /\ jobs'[j].resultKey = r
      /\ operations'[j].result = ProfileOf[j]
      /\ \A k \in Job : k # j => jobs'[k] = jobs[k] /\ operations'[k] = operations[k]
  BY <1>2, <1>5 DEF TypeOK, Release, JobRow, OperationRow
<1>7. profileBindings'[b] = r /\ \A c \in Org \X Binding : c # b => profileBindings'[c] = profileBindings[c]
  BY <1>2, <1>5 DEF TypeOK
<1>8. r # None
  BY NoneAssumption
<1>9. b[1] = OrgOf[j] /\ b[2] = BindingOf[j]
  BY <1>4 DEF BindingKey
<1>10. r.org = b[1] /\ \E k \in Job : /\ jobs'[k].state = "SUCCEEDED" /\ BindingKey(k) = b
                                       /\ r.digest = ProfileOf[k]
  <2>1. CASE profileBindings[b] # None
    <3>1. r = profileBindings[b]
      BY <2>1, <1>3, <1>4 DEF RevisionFor
    <3>2. PICK k \in Job : /\ jobs[k].state = "SUCCEEDED" /\ BindingKey(k) = b
                           /\ profileBindings[b].digest = ProfileOf[k]
      BY <2>1 DEF BindingsResolve
    <3>3. jobs'[k].state = "SUCCEEDED"
      BY <1>6, <3>2
    <3>4. r.org = b[1]
      BY <2>1, <3>1 DEF BindingsResolve
    <3> QED
      BY <3>1, <3>2, <3>3, <3>4
  <2>2. CASE profileBindings[b] = None
    <3>1. r = [org |-> OrgOf[j], binding |-> BindingOf[j], digest |-> ProfileOf[j]]
      BY <2>2, <1>3, <1>4 DEF RevisionFor
    <3> QED
      BY <3>1, <1>4, <1>6, <1>9
  <2> QED
    BY <2>1, <2>2
<1>11. profileBindings[b] # None => profileBindings[b] = r
  BY <1>3, <1>4 DEF RevisionFor
<1>12. ASSUME NEW c \in Org \X Binding, profileBindings'[c] # None
       PROVE  /\ profileBindings'[c] \in profiles'
              /\ profileBindings'[c].org = c[1]
              /\ \E k \in Job : /\ jobs'[k].state = "SUCCEEDED" /\ BindingKey(k) = c
                                /\ profileBindings'[c].digest = ProfileOf[k]
  <2>1. CASE c = b
    BY <2>1, <1>5, <1>7, <1>10
  <2>2. CASE c # b
    <3>1. profileBindings'[c] = profileBindings[c]
      BY <2>2, <1>7
    <3>2. PICK k \in Job : /\ jobs[k].state = "SUCCEEDED" /\ BindingKey(k) = c
                           /\ profileBindings[c].digest = ProfileOf[k]
      BY <1>12, <3>1 DEF BindingsResolve
    <3>3. jobs'[k].state = "SUCCEEDED"
      BY <1>6, <3>2
    <3>4. profileBindings[c] \in profiles' /\ profileBindings[c].org = c[1]
      BY <1>5, <1>12, <3>1 DEF BindingsResolve
    <3> QED
      BY <3>1, <3>2, <3>3, <3>4
  <2> QED
    BY <2>1, <2>2
<1>13. ASSUME NEW k \in Job, jobs'[k].state = "SUCCEEDED"
       PROVE  /\ jobs'[k].resultKey = profileBindings'[BindingKey(k)]
              /\ operations'[k].result = ProfileOf[k]
  <2>1. CASE k = j
    BY <2>1, <1>4, <1>6, <1>7
  <2>2. CASE k # j
    <3>1. /\ jobs[k].state = "SUCCEEDED" /\ jobs'[k] = jobs[k] /\ operations'[k] = operations[k]
          /\ jobs[k].resultKey = profileBindings[BindingKey(k)] /\ jobs[k].resultKey # None
          /\ operations[k].result = ProfileOf[k]
      BY <2>2, <1>6, <1>13 DEF BindingsResolve, IInv, JobRowChecks
    <3>2. BindingKey(k) \in Org \X Binding
      BY <1>2, RowTypes
    <3> QED
      BY <3>1, <3>2, <1>7, <1>11
  <2> QED
    BY <2>1, <2>2
<1>14. \A k \in Job : BindingKey(k)' = BindingKey(k)
  BY DEF BindingKey
<1> QED
  BY <1>12, <1>13, <1>14 DEF BindingsResolve

\* Every step of the queue keeps results where their references point.
LEMMA NextKeepsBindings == IInv /\ BindingsResolve /\ [Next]_vars => BindingsResolve'
<1> SUFFICES ASSUME IInv, BindingsResolve, [Next]_vars PROVE BindingsResolve'
  OBVIOUS
<1>1. TypeOK
  BY DEF IInv
<1>2. CASE Create
  <2>1. PICK j \in Job, now \in 0..MaxCreateTime : CreateJob(j, now)
    BY <1>2 DEF Create
  <2>2. PICK row : jobs' = [jobs EXCEPT ![j] = row] /\ row.state = "QUEUED"
    <3>1. jobs' = [jobs EXCEPT ![j] = JobRow("QUEUED", 0, now, now, NoLease, None)]
      BY <2>1 DEF CreateJob
    <3>2. JobRow("QUEUED", 0, now, now, NoLease, None).state = "QUEUED"
      BY DEF JobRow
    <3> QED
      BY <3>1, <3>2
  <2>3. jobs[j].state = "ABSENT" /\ UNCHANGED <<profiles, profileBindings>>
    BY <2>1 DEF CreateJob
  <2>4. \A k \in Job : k # j => operations'[k] = operations[k]
    BY <1>1, <2>1 DEF CreateJob, TypeOK
  <2> QED
    BY <1>1, <2>2, <2>3, <2>4, QuietKeepsBindings DEF TypeOK
<1>3. ASSUME NEW w \in Worker, held[w] # Idle, CallAccepted(w), Fail(held[w].job, FinishTime(w))
      PROVE  BindingsResolve'
  <2>1. PICK j \in Job : j = held[w].job /\ jobs[j].state = "LEASED"
    BY <1>3, AcceptedFacts
  <2>2. PICK row : jobs' = [jobs EXCEPT ![j] = row] /\ row.state = "DEAD_LETTERED"
    <3>1. jobs' = [jobs EXCEPT ![j] = Release(jobs[j], "DEAD_LETTERED", jobs[j].availableAt, None)]
      BY <1>3, <2>1 DEF Fail
    <3>2. Release(jobs[j], "DEAD_LETTERED", jobs[j].availableAt, None).state = "DEAD_LETTERED"
      BY DEF Release, JobRow
    <3> QED
      BY <3>1, <3>2
  <2>3. PICK op : operations' = [operations EXCEPT ![j] = op]
    BY <1>3, <2>1 DEF Fail, CloseOperation
  <2>4. UNCHANGED <<profiles, profileBindings>>
    BY <1>3 DEF Fail
  <2> QED
    BY <1>1, <2>1, <2>2, <2>3, <2>4, QuietKeepsBindings DEF TypeOK
<1>4. ASSUME NEW w \in Worker, WorkerStep(w) PROVE BindingsResolve'
  <2>1. CASE ClaimNow(w)
    <3>0. PICK j \in Job : \E now : Claim(w, OrgOf[j], j, now)
      BY <2>1 DEF ClaimNow
    <3>1. PICK now : Claim(w, OrgOf[j], j, now)
      BY <3>0
    <3>2. PICK row : jobs' = [jobs EXCEPT ![j] = row] /\ row.state = "LEASED"
      <4>1. jobs' = [jobs EXCEPT ![j] = Claimed(w, jobs[j], now)]
        BY <3>1 DEF Claim
      <4>2. Claimed(w, jobs[j], now).state = "LEASED"
        BY DEF Claimed, JobRow
      <4> QED
        BY <4>1, <4>2
    <3>3. jobs[j].state # "SUCCEEDED" /\ UNCHANGED <<profiles, profileBindings>>
      BY <3>1 DEF Claim, NextInQueue, Eligible
    <3>4. \A k \in Job : k # j => operations'[k] = operations[k]
      BY <1>1, <3>1 DEF Claim, TypeOK
    <3> QED
      BY <1>1, <3>2, <3>3, <3>4, QuietKeepsBindings DEF TypeOK
  <2>2. CASE ExtendNow(w)
    <3>1. PICK now : Extend(w, now)
      BY <2>2 DEF ExtendNow
    <3>2. PICK j \in Job : j = held[w].job /\ jobs[j].state = "LEASED"
      BY <1>1, <3>1, HeldType DEF Extend, Leased
    <3>3. PICK row : jobs' = [jobs EXCEPT ![j] = row] /\ row.state = "LEASED"
      <4>1. jobs' = [jobs EXCEPT ![j] = Extended(jobs[j], now)]
        BY <3>1, <3>2 DEF Extend
      <4>2. Extended(jobs[j], now).state = "LEASED"
        BY <3>2 DEF Extended, JobRow
      <4> QED
        BY <4>1, <4>2
    <3> QED
      BY <1>1, <3>1, <3>2, <3>3, QuietKeepsBindings DEF TypeOK, Extend
  <2>3. CASE FinishSucceed(w)
    BY <2>3, SucceedKeepsBindings DEF FinishSucceed
  <2>4. CASE FinishRetry(w)
    <3>1. CASE Fail(held[w].job, FinishTime(w))
      BY <3>1, <2>4, <1>3 DEF FinishRetry
    <3>2. CASE ~Fail(held[w].job, FinishTime(w))
      <4>1. PICK row : jobs' = [jobs EXCEPT ![held[w].job] = row] /\ row.state = "RETRY_WAIT"
        BY <3>2, <2>4 DEF FinishRetry, Retry, Release, JobRow
      <4>2. UNCHANGED <<operations, profiles, profileBindings>>
        BY <3>2, <2>4 DEF FinishRetry, Retry
      <4>3. PICK j \in Job : j = held[w].job /\ jobs[j].state = "LEASED"
        BY <2>4, AcceptedFacts DEF FinishRetry
      <4> QED
        BY <1>1, <4>1, <4>2, <4>3, QuietKeepsBindings DEF TypeOK
    <3> QED
      BY <3>1, <3>2
  <2>5. CASE FinishFail(w)
    BY <2>5, <1>3 DEF FinishFail
  <2>6. CASE FinishRefused(w) \/ Crash(w)
    BY <2>6, QuietKeepsBindings DEF FinishRefused, Crash, storeVars
  <2> QED
    BY <1>4, <2>1, <2>2, <2>3, <2>4, <2>5, <2>6 DEF WorkerStep, Finish
<1>5. CASE UNCHANGED vars
  BY <1>5, QuietKeepsBindings DEF vars
<1> QED
  BY <1>2, <1>4, <1>5 DEF Next

\* The revision a succeeded job names is the one stored for its binding, in its
\* own organization and made by a job of that binding, and its operation's
\* result is what its own input compiled to, although several jobs of one
\* binding, with equal or different inputs, and several workers of one job race.
THEOREM ResultsAlwaysResolve == Spec => []ResultsResolve
<1>1. Init => BindingsResolve
  BY DEF Init, BindingsResolve, NoJob, JobRow
<1>2. IInv /\ BindingsResolve => ResultsResolve
  <2> SUFFICES ASSUME IInv, BindingsResolve, NEW j \in Job, jobs[j].state = "SUCCEEDED"
               PROVE  /\ jobs[j].resultKey \in profiles
                      /\ jobs[j].resultKey = profileBindings[BindingKey(j)]
                      /\ jobs[j].resultKey.org = OrgOf[j]
                      /\ operations[j].result = ProfileOf[j]
                      /\ \E k \in Job : /\ SharesBinding(j, k)
                                        /\ operations[k].result = jobs[j].resultKey.digest
    BY DEF ResultsResolve
  <2>1. BindingKey(j) \in Org \X Binding /\ BindingKey(j)[1] = OrgOf[j]
    BY RowTypes DEF IInv, BindingKey
  <2>2. jobs[j].resultKey = profileBindings[BindingKey(j)] /\ profileBindings[BindingKey(j)] # None
    BY DEF BindingsResolve, IInv, JobRowChecks
  <2>3. operations[j].result = ProfileOf[j]
    BY DEF BindingsResolve
  <2>4. PICK k \in Job : /\ jobs[k].state = "SUCCEEDED" /\ BindingKey(k) = BindingKey(j)
                         /\ profileBindings[BindingKey(j)].digest = ProfileOf[k]
    BY <2>1, <2>2 DEF BindingsResolve
  <2>5. operations[k].result = ProfileOf[k]
    BY <2>4 DEF BindingsResolve
  <2>6. jobs[j].resultKey \in profiles /\ jobs[j].resultKey.org = OrgOf[j]
    BY <2>1, <2>2 DEF BindingsResolve
  <2> QED
    BY <2>2, <2>3, <2>4, <2>5, <2>6 DEF SharesBinding
<1> QED
  BY <1>1, <1>2, Inductive, NextKeepsBindings, PTL DEF Spec

-----------------------------------------------------------------------------
\* The relay.  The outbox only grows at its end, by an event that tells the row
\* written with it.
LEMMA OutboxGrows ==
    ASSUME IInv, [Next]_vars
    PROVE  \/ outbox' = outbox
           \/ \E j \in Job : outbox' = Append(outbox, Event(j, operations'[j]))
<1> DEFINE Tells == \E j \in Job : outbox' = Append(outbox, Event(j, operations'[j]))
<1>1. ASSUME NEW j \in Job, NEW s, NEW result, NEW now, CloseOperation(j, s, result, now) PROVE Tells
  <2> DEFINE closed == OperationRow(s, operations[j].version + 1, now, result)
  <2>1. operations' = [operations EXCEPT ![j] = closed] /\ outbox' = Append(outbox, Event(j, closed))
    BY <1>1 DEF CloseOperation
  <2> HIDE DEF closed
  <2>2. operations'[j] = closed
    BY <2>1 DEF IInv, TypeOK
  <2> QED
    BY <2>1, <2>2
<1>2. ASSUME NEW w \in Worker, WorkerStep(w) PROVE outbox' = outbox \/ Tells
  <2>1. CASE ClaimNow(w)
    <3>0. PICK j \in Job : \E now : Claim(w, OrgOf[j], j, now)
      BY <2>1 DEF ClaimNow
    <3>1. PICK now : Claim(w, OrgOf[j], j, now)
      BY <3>0
    <3>2. operations' = [operations EXCEPT ![j] = Started(operations[j], now)]
             => operations'[j] = Started(operations[j], now)
      BY DEF IInv, TypeOK
    <3> HIDE DEF Tells
    <3>3. CASE UNCHANGED outbox
      BY <3>3
    <3>4. CASE /\ operations' = [operations EXCEPT ![j] = Started(operations[j], now)]
               /\ outbox' = Append(outbox, Event(j, Started(operations[j], now)))
      BY <3>2, <3>4 DEF Tells
    <3> QED
      BY <3>1, <3>3, <3>4 DEF Claim
  <2>2. CASE ExtendNow(w)
    BY <2>2 DEF ExtendNow, Extend
  <2>3. held[w] # Idle => held[w].job \in Job
    BY HeldType DEF IInv
  <2> HIDE DEF Tells
  <2>4. CASE FinishSucceed(w)
    BY <2>3, <2>4, <1>1 DEF FinishSucceed, Succeed
  <2>5. CASE FinishRetry(w)
    BY <2>3, <2>5, <1>1 DEF FinishRetry, Retry, Fail
  <2>6. CASE FinishFail(w)
    BY <2>3, <2>6, <1>1 DEF FinishFail, Fail
  <2>7. CASE FinishRefused(w) \/ Crash(w)
    BY <2>7 DEF FinishRefused, Crash, storeVars
  <2> QED
    BY <1>2, <2>1, <2>2, <2>4, <2>5, <2>6, <2>7 DEF WorkerStep, Finish
<1>3. CASE Create
  BY <1>3 DEF Create, CreateJob
<1>4. CASE UNCHANGED vars
  BY <1>4 DEF vars
<1> QED
  BY <1>2, <1>3, <1>4 DEF Next

\* A new event is beyond everything the consumer has accepted of its operation.
LEMMA QueueKeepsRelay ==
    ASSUME IInv, TypeOK', OutboxIInv, OutboxIInv', RelayIInv, [Next]_vars, UNCHANGED relayVars
    PROVE  RelayIInv'
<1>1. UNCHANGED <<receipts, inbox, inboxSequences>>
  BY DEF relayVars
<1>2. CASE outbox' = outbox
  BY <1>1, <1>2 DEF RelayIInv, AcceptedOf
<1>3. CASE \E e : outbox' = Append(outbox, e)
  <2> DEFINE N == Len(outbox)
  <2>1. PICK e : outbox' = Append(outbox, e)
    BY <1>3
  <2>2. /\ N \in Nat /\ DOMAIN outbox = 1..N /\ DOMAIN outbox' = 1..(N + 1)
        /\ \A n \in 1..N : outbox'[n] = outbox[n]
        /\ outbox'[N + 1] = e
    BY <2>1 DEF IInv, TypeOK
  <2>3. e \in EventType
    <3>1. outbox' \in Seq(EventType)
      BY DEF TypeOK
    <3> QED
      BY <3>1, <2>2
  <2>4. e.subject \in Job /\ e.sequence \in Nat
    BY <2>3 DEF EventType
  <2>5. e.sequence >= 2
    <3>1. {outbox'[n].sequence : n \in {m \in DOMAIN outbox' : outbox'[m].subject = e.subject}}
            = 2..operations'[e.subject].version
      BY <2>4 DEF OutboxIInv, OutboxSequential
    <3>2. e.sequence \in 2..operations'[e.subject].version
      BY <3>1, <2>2
    <3>3. operations'[e.subject].version \in Nat
      BY <2>4 DEF TypeOK, OperationType
    <3> QED
      BY <3>2, <3>3
  <2> HIDE DEF N
  <2>6. \A d \in 1..N : outbox[d].subject = e.subject => outbox[d].sequence < e.sequence
    BY <2>2 DEF OutboxIInv, OutboxSequential
  <2>7. inboxSequences[e.subject] \in Nat
    BY <2>4 DEF RelayIInv
  <2>8. e.sequence > inboxSequences[e.subject]
    <3>1. CASE inboxSequences[e.subject] = 0
      BY <3>1, <2>5, <2>4
    <3>2. CASE inboxSequences[e.subject] # 0
      <4>1. PICK d \in AcceptedOf(e.subject) : outbox[d].sequence = inboxSequences[e.subject]
        BY <3>2, <2>4 DEF RelayIInv
      <4>2. d \in 1..N /\ outbox[d].subject = e.subject
        BY <4>1, <2>2 DEF AcceptedOf, RelayIInv
      <4> QED
        BY <4>1, <4>2, <2>4, <2>6, <2>7
    <3> QED
      BY <3>1, <3>2
  <2>9. \A j \in Job : AcceptedOf(j)' = AcceptedOf(j)
    BY <1>1, <2>2 DEF AcceptedOf, RelayIInv
  <2>10. N + 1 \notin inbox
    BY <2>2 DEF RelayIInv
  <2>11. ASSUME NEW n \in 1..(N + 1)
         PROVE  n \in inbox <=> outbox'[n].sequence <= inboxSequences[outbox'[n].subject]
    <3>1. CASE n = N + 1
      BY <3>1, <2>2, <2>4, <2>7, <2>8, <2>10
    <3>2. CASE n \in 1..N
      BY <3>2, <2>2 DEF RelayIInv
    <3> QED
      BY <3>1, <3>2, <2>2
  <2>12. ASSUME NEW j \in Job, inboxSequences[j] # 0
         PROVE  \E d \in AcceptedOf(j) : outbox'[d].sequence = inboxSequences[j]
    BY <2>2, <2>12 DEF RelayIInv, AcceptedOf
  <2>13. inbox \subseteq 1..(N + 1)
    BY <2>2 DEF RelayIInv
  <2> QED
    BY <1>1, <2>2, <2>9, <2>11, <2>12, <2>13 DEF RelayIInv
<1> QED
  BY <1>2, <1>3, OutboxGrows

\* The earliest unreceipted event is the next of its operation: whatever event
\* of the operation is still to come has a later time, hence a higher sequence.
LEMMA AcceptKeepsRelay ==
    ASSUME TypeOK, OutboxIInv, RelayIInv, NEW e \in Pending, NextToDeliver(e), AcceptEvent(e),
           receipts' \in {receipts, receipts \union {e}}, UNCHANGED outbox
    PROVE  RelayIInv'
<1>1. CASE e \in inbox
  BY <1>1 DEF AcceptEvent, RelayIInv, AcceptedOf
<1>2. CASE e \notin inbox
  <2> DEFINE s == outbox[e].sequence
  <2>1. e \in DOMAIN outbox /\ e \notin receipts
    BY DEF Pending
  <2>2. PICK j \in Job : j = outbox[e].subject
    BY <2>1, EventTyped DEF EventType
  <2>3. /\ \A n \in DOMAIN outbox : outbox[n].sequence \in Nat /\ outbox[n].time \in Nat
                                       /\ outbox[n].subject \in Job
        /\ inboxSequences[j] \in Nat
    BY EventTyped DEF EventType, RelayIInv
  <2>4. inbox' = inbox \union {e} /\ inboxSequences' = [inboxSequences EXCEPT ![j] = s]
    BY <1>2, <2>2 DEF AcceptEvent
  <2>5. s > inboxSequences[j]
    BY <1>2, <2>1, <2>2, <2>3 DEF AcceptEvent, SequenceRefused
  <2>6. /\ inboxSequences' \in [Job -> Nat] /\ inboxSequences'[j] = s
        /\ \A k \in Job : k # j => inboxSequences'[k] = inboxSequences[k]
    BY <2>1, <2>3, <2>4 DEF RelayIInv
  <2>7. ASSUME NEW n \in DOMAIN outbox, outbox[n].subject = j, n \notin inbox, n # e
        PROVE  outbox[n].sequence > s
    <3>1. outbox[e].time <= outbox[n].time
      BY <2>7 DEF NextToDeliver, Pending, RelayIInv
    <3>2. n \in Nat /\ e \in Nat
      BY <2>1 DEF TypeOK
    <3>3. ~(n < e)
      <4>1. n < e => outbox[n].time < outbox[e].time
        BY <2>1, <2>2, <2>7 DEF OutboxIInv, OutboxSequential
      <4> QED
        BY <4>1, <3>1, <2>1, <2>3
    <3>4. e < n
      BY <3>2, <3>3, <2>7
    <3>5. s < outbox[n].sequence
      BY <3>4, <2>1, <2>2, <2>7 DEF OutboxIInv, OutboxSequential
    <3> QED
      BY <3>5, <2>1, <2>3
  <2> HIDE DEF s
  <2>8. ASSUME NEW n \in DOMAIN outbox
        PROVE  n \in inbox' <=> outbox[n].sequence <= inboxSequences'[outbox[n].subject]
    <3>1. n \in inbox <=> outbox[n].sequence <= inboxSequences[outbox[n].subject]
      BY DEF RelayIInv
    <3>2. CASE outbox[n].subject # j
      BY <3>1, <3>2, <2>2, <2>3, <2>4, <2>6
    <3>3. CASE n = e
      BY <3>3, <2>2, <2>3, <2>4, <2>6 DEF s
    <3>4. CASE outbox[n].subject = j /\ n # e
      <4>1. s \in Nat
        BY <2>1, <2>3 DEF s
      <4> QED
        BY <4>1, <3>1, <3>4, <2>3, <2>4, <2>5, <2>6, <2>7
    <3> QED
      BY <3>2, <3>3, <3>4
  <2>9. ASSUME NEW k \in Job, inboxSequences'[k] # 0
        PROVE  \E d \in AcceptedOf(k)' : outbox[d].sequence = inboxSequences'[k]
    <3>1. CASE k = j
      <4>1. e \in AcceptedOf(k)'
        BY <3>1, <2>2, <2>4 DEF AcceptedOf
      <4> QED
        BY <4>1, <3>1, <2>6 DEF s
    <3>2. CASE k # j
      BY <3>2, <2>4, <2>6, <2>9 DEF AcceptedOf, RelayIInv
    <3> QED
      BY <3>1, <3>2
  <2>10. inbox' \subseteq DOMAIN outbox /\ receipts' \subseteq inbox'
    BY <2>1, <2>4 DEF RelayIInv
  <2> QED
    BY <2>6, <2>8, <2>9, <2>10 DEF RelayIInv
<1> QED
  BY <1>1, <1>2

\* Every step of the queue and of the relay keeps the inbox in step with the outbox.
LEMMA RelayNextKeeps ==
    IInv /\ OutboxIInv /\ RelayIInv /\ [RelayNext]_allVars => IInv' /\ OutboxIInv' /\ RelayIInv'
<1> SUFFICES ASSUME IInv, OutboxIInv, RelayIInv, [RelayNext]_allVars
             PROVE  IInv' /\ OutboxIInv' /\ RelayIInv'
  OBVIOUS
<1>1. [Next]_vars
  BY DEF RelayNext, QueueStep, DeliverNext, DeliverAndCrash, allVars, vars
<1>2. IInv' /\ OutboxIInv'
  BY <1>1, NextKeeps, NextKeepsOutbox
<1>3. TypeOK /\ TypeOK'
  BY <1>2 DEF IInv
<1>4. CASE QueueStep
  BY <1>1, <1>2, <1>3, <1>4, QueueKeepsRelay DEF QueueStep
<1>5. CASE DeliverNext \/ DeliverAndCrash
  <2>1. PICK e \in Pending : /\ NextToDeliver(e) /\ AcceptEvent(e)
                             /\ receipts' = receipts \/ receipts' = receipts \union {e}
                             /\ UNCHANGED vars
    BY <1>5 DEF DeliverNext, DeliverAndCrash
  <2>2. receipts' \in {receipts, receipts \union {e}} /\ UNCHANGED outbox
    BY <2>1 DEF vars
  <2>3. RelayIInv'
    BY <1>3, <2>1, <2>2, AcceptKeepsRelay
  <2> QED
    BY <1>2, <2>3
<1>6. CASE UNCHANGED allVars
  <2>1. UNCHANGED relayVars
    BY <1>6 DEF allVars, relayVars
  <2> QED
    BY <2>1, <1>1, <1>2, <1>3, QueueKeepsRelay
<1> QED
  BY <1>2, <1>4, <1>5, <1>6 DEF RelayNext

\* So the inbox is in step with the outbox in every behaviour.
LEMMA RelayInductive == RelaySpec => [](IInv /\ OutboxIInv /\ RelayIInv)
<1>1. RelayInit => IInv /\ OutboxIInv /\ RelayIInv
  <2> SUFFICES ASSUME RelayInit PROVE IInv /\ OutboxIInv /\ RelayIInv
    OBVIOUS
  <2>1. IInv /\ OutboxIInv
    BY InitIInv, InitOutbox DEF RelayInit
  <2>2. RelayIInv
    BY DEF RelayInit, Init, RelayIInv
  <2> QED
    BY <2>1, <2>2
<1> QED
  BY <1>1, RelayNextKeeps, PTL DEF RelaySpec

\* The relay is never stuck on an event its consumer refuses, whatever dies
\* between a hand-over and its receipt and however the times of different
\* operations tie.
THEOREM NeverBlocked == RelaySpec => []RelayNeverBlocked
<1>1. ASSUME IInv, RelayIInv PROVE RelayNeverBlocked
  <2> SUFFICES ASSUME NEW e \in Pending PROVE ~SequenceRefused(e)
    BY DEF RelayNeverBlocked
  <2>1. e \in DOMAIN outbox /\ outbox[e].sequence \in Nat /\ outbox[e].subject \in Job
    BY <1>1, EventTyped DEF Pending, IInv, EventType
  <2>2. inboxSequences[outbox[e].subject] \in Nat
    BY <1>1, <2>1 DEF RelayIInv
  <2> QED
    BY <1>1, <2>1, <2>2 DEF SequenceRefused, RelayIInv
<1> QED
  BY <1>1, RelayInductive, PTL

\* The accepted events of an operation, counted by their sequences.
LEMMA InboxCounted == IInv /\ OutboxIInv /\ RelayIInv => InboxIsPrefix
<1> SUFFICES ASSUME IInv, OutboxIInv, RelayIInv, NEW j \in Job
             PROVE  /\ {outbox[e].sequence : e \in AcceptedOf(j)} =
                          IF inboxSequences[j] = 0 THEN {} ELSE 2..inboxSequences[j]
                    /\ Cardinality(AcceptedOf(j)) =
                          IF inboxSequences[j] = 0 THEN 0 ELSE inboxSequences[j] - 1
  BY DEF InboxIsPrefix
<1> DEFINE S == AcceptedOf(j)
           last == inboxSequences[j]
<1>1. last \in Nat /\ TypeOK
  BY DEF RelayIInv, IInv
<1>2. ASSUME NEW e \in DOMAIN outbox, outbox[e].subject = j
      PROVE  /\ outbox[e].sequence \in Nat /\ outbox[e].sequence >= 2
             /\ e \in S <=> outbox[e].sequence <= last
  <2>1. outbox[e].sequence \in 2..operations[j].version
    BY <1>2, SequencesSeen
  <2>2. operations[j].version \in Nat
    BY <1>1 DEF TypeOK, OperationType
  <2> QED
    BY <1>2, <2>1, <2>2 DEF RelayIInv, AcceptedOf
<1>3. \A e \in S : e \in DOMAIN outbox /\ outbox[e].subject = j
  BY DEF AcceptedOf, RelayIInv
<1>4. CASE last = 0
  <2>1. S = {}
    BY <1>2, <1>3, <1>4
  <2> QED
    BY <2>1, <1>4, FS_EmptySet
<1>5. CASE last # 0
  <2>1. PICK d \in S : outbox[d].sequence = last
    BY <1>5 DEF RelayIInv
  <2>2. last >= 2 /\ last \in 2..operations[j].version
    BY <2>1, <1>2, <1>3, SequencesSeen
  <2>3. operations[j].version \in Nat
    BY <1>1 DEF TypeOK, OperationType
  <2>4. \A s \in 2..last : \E e \in S : outbox[e].sequence = s
    <3> SUFFICES ASSUME NEW s \in 2..last PROVE \E e \in S : outbox[e].sequence = s
      OBVIOUS
    <3>1. s \in 2..operations[j].version
      BY <1>1, <2>2, <2>3
    <3>2. PICK e \in DOMAIN outbox : outbox[e].subject = j /\ outbox[e].sequence = s
      BY <3>1, SequencesSeen
    <3> QED
      BY <3>2, <1>1, <1>2
  <2>5. \A e \in S : outbox[e].sequence \in 2..last
    BY <1>1, <1>2, <1>3
  <2> DEFINE f == [e \in S |-> outbox[e].sequence]
  <2>6. f \in [S -> 2..last]
    BY <2>5
  <2>7. f \in Injection(S, 2..last)
    <3>1. ASSUME NEW a \in S, NEW b \in S, f[a] = f[b] PROVE a = b
      <4>1. a \in Nat /\ b \in Nat /\ outbox[a].sequence = outbox[b].sequence
        BY <3>1, <1>1, <1>3 DEF TypeOK
      <4>2. ~(a < b) /\ ~(b < a)
        BY <4>1, <1>2, <1>3 DEF OutboxIInv, OutboxSequential
      <4> QED
        BY <4>1, <4>2
    <3> QED
      BY <3>1, <2>6 DEF Injection, IsInjective
  <2>8. f \in Surjection(S, 2..last)
    BY <2>4, <2>6 DEF Surjection
  <2>9. IsFiniteSet(2..last) /\ Cardinality(2..last) = last - 1
    BY <2>2, <1>1, FS_Interval
  <2>10. Cardinality(S) = last - 1
    BY <2>7, <2>8, <2>9, FS_Injection
  <2>11. {outbox[e].sequence : e \in S} = 2..last
    BY <2>4, <2>5
  <2> QED
    BY <2>10, <2>11, <1>5
<1> QED
  BY <1>4, <1>5

\* Of every operation the consumer holds a gap-free run of its transitions from
\* the first, each exactly once, for any number of operations interleaved in
\* one outbox and any number of redeliveries.
THEOREM InboxInOrder == RelaySpec => []InboxIsPrefix
BY InboxCounted, RelayInductive, PTL

-----------------------------------------------------------------------------
\* The consumer's view of the operations.  Every event tells the state of one
\* version of its operation.
LEMMA NextTellsVersion ==
    IInv /\ OutboxIInv /\ EventsTellVersion /\ [Next]_vars => EventsTellVersion'
<1> SUFFICES ASSUME IInv, OutboxIInv, EventsTellVersion, [Next]_vars PROVE EventsTellVersion'
  OBVIOUS
<1>1. CASE outbox' = outbox
  BY <1>1 DEF EventsTellVersion
<1>2. CASE \E j \in Job : outbox' = Append(outbox, Event(j, operations'[j]))
  <2>1. PICK j \in Job : outbox' = Append(outbox, Event(j, operations'[j]))
    BY <1>2
  <2> DEFINE e == Event(j, operations'[j])
             N == Len(outbox)
  <2>2. e.sequence = operations'[j].version /\ e.state = operations'[j].state
    BY DEF Event
  <2>3. e.sequence = VersionFor[e.state]
    BY <2>2, NextKeepsOutbox DEF OutboxIInv, EventsCovered
  <2> HIDE DEF e
  <2>4. /\ N \in Nat /\ DOMAIN outbox = 1..N /\ DOMAIN outbox' = 1..(N + 1)
        /\ \A n \in 1..N : outbox'[n] = outbox[n]
        /\ outbox'[N + 1] = e
    BY <2>1 DEF IInv, TypeOK, e
  <2> HIDE DEF N
  <2>5. ASSUME NEW n \in 1..(N + 1) PROVE outbox'[n].sequence = VersionFor[outbox'[n].state]
    <3>1. CASE n = N + 1
      BY <3>1, <2>3, <2>4
    <3>2. CASE n \in 1..N
      BY <3>2, <2>4 DEF EventsTellVersion
    <3> QED
      BY <3>1, <3>2, <2>4
  <2> QED
    BY <2>4, <2>5 DEF EventsTellVersion
<1> QED
  BY <1>1, <1>2, OutboxGrows

\* Two events of one operation with one sequence are the same event.
LEMMA EventsDiffer ==
    ASSUME TypeOK, OutboxIInv, NEW a \in DOMAIN outbox, NEW b \in DOMAIN outbox,
           outbox[a].subject = outbox[b].subject, outbox[a].sequence = outbox[b].sequence
    PROVE  a = b
<1>1. a \in Nat /\ b \in Nat /\ outbox[a].sequence \in Nat /\ outbox[b].sequence \in Nat
  BY EventTyped DEF TypeOK, EventType
<1>2. ~(a < b) /\ ~(b < a)
  BY <1>1 DEF OutboxIInv, OutboxSequential
<1> QED
  BY <1>1, <1>2

\* Between two deliveries the consumer's view changes only where an operation
\* is created: what it has accepted of the others has not changed.
LEMMA QueueStepSeen ==
    ASSUME IInv, IInv', OutboxIInv, RelayIInv, [Next]_vars, UNCHANGED relayVars
    PROVE  [Consumer!OpNext]_KnownRows
<1>1. UNCHANGED <<inbox, inboxSequences>>
  BY DEF relayVars
<1>2. inbox \subseteq DOMAIN outbox /\ \A n \in DOMAIN outbox : n \in DOMAIN outbox' /\ outbox'[n] = outbox[n]
  <2>1. ASSUME NEW e, outbox' = Append(outbox, e), NEW n \in DOMAIN outbox
        PROVE  n \in DOMAIN outbox' /\ outbox'[n] = outbox[n]
    BY <2>1 DEF IInv, TypeOK
  <2> QED
    BY <2>1, OutboxGrows DEF RelayIInv
<1>3. ASSUME NEW k \in Job PROVE AcceptedOf(k)' = AcceptedOf(k)
  BY <1>1, <1>2 DEF AcceptedOf
<1>4. ASSUME NEW k \in Job, inboxSequences[k] # 0
      PROVE  outbox'[LastAccepted(k)'].state = outbox[LastAccepted(k)].state
  <2>1. PICK d \in AcceptedOf(k) : outbox[d].sequence = inboxSequences[k]
    BY <1>4 DEF RelayIInv
  <2>2. \A c \in AcceptedOf(k) : c \in DOMAIN outbox /\ outbox'[c] = outbox[c] /\ outbox[c].subject = k
    BY <1>2 DEF AcceptedOf
  <2>3. \A c \in AcceptedOf(k) : outbox[c].sequence = inboxSequences[k] => c = d
    BY <2>1, <2>2, EventsDiffer DEF IInv
  <2>4. LastAccepted(k) = d
    BY <2>1, <2>3 DEF LastAccepted
  <2>5. LastAccepted(k)' = d
    BY <2>1, <2>2, <2>3, <1>1, <1>3 DEF LastAccepted
  <2> QED
    BY <2>1, <2>2, <2>4, <2>5
<1>5. ASSUME NEW k \in Job, operations'[k].state = "ABSENT" <=> operations[k].state = "ABSENT"
      PROVE  KnownRow(k)' = KnownRow(k)
  BY <1>1, <1>4, <1>5 DEF KnownRow
<1>6. CASE operations' = operations
  <2>1. KnownRows' = KnownRows
    BY <1>5, <1>6 DEF KnownRows
  <2> QED
    BY <2>1
<1>7. CASE Lifecycle!OpNext
  <2>1. PICK j \in Job : Lifecycle!OpStep(j)
    BY <1>7 DEF Lifecycle!OpNext
  <2>2. \A k \in Job \ {j} : operations'[k] = operations[k]
    BY <2>1 DEF Lifecycle!OpStep, Lifecycle!OpCreate, Lifecycle!OpAdvance, IInv, TypeOK
  <2>3. \A k \in Job \ {j} : KnownRow(k)' = KnownRow(k)
    BY <1>5, <2>2
  <2>4. CASE Lifecycle!OpCreate(j, operations'[j].updatedAt)
    <3>1. operations[j].state = "ABSENT" /\ operations'[j].state = "PENDING"
      BY <2>4 DEF Lifecycle!OpCreate, IInv, TypeOK
    <3>2. inboxSequences[j] = 0
      <4> SUFFICES ASSUME inboxSequences[j] # 0 PROVE FALSE
        OBVIOUS
      <4>1. PICK d \in AcceptedOf(j) : TRUE
        BY DEF RelayIInv
      <4>2. d \in DOMAIN outbox /\ outbox[d].subject = j
        BY <1>2 DEF AcceptedOf
      <4>3. outbox[d].sequence \in 2..operations[j].version
        BY <4>2, SequencesSeen
      <4>4. operations[j].version = 0
        BY <3>1 DEF OutboxIInv, EventsCovered, VersionFor
      <4> QED
        BY <4>3, <4>4
    <3> DEFINE created == OperationRow("PENDING", 1, 0, None)
    <3>3. KnownRow(j) = NoOperation /\ KnownRow(j)' = created
      BY <1>1, <3>1, <3>2 DEF KnownRow
    <3>4. KnownRows[j] = NoOperation /\ KnownRows'[j] = created
      BY <3>3 DEF KnownRows
    <3>5. KnownRows' = [KnownRows EXCEPT ![j] = created]
      BY <2>3, <3>3 DEF KnownRows
    <3>6. Consumer!OpCreate(j, KnownRows'[j].updatedAt)
      BY <3>4, <3>5 DEF Consumer!OpCreate, NoOperation, OperationRow
    <3> QED
      BY <3>6 DEF Consumer!OpNext, Consumer!OpStep
  <2>5. CASE Lifecycle!OpAdvance(j, operations'[j].state, operations'[j].updatedAt, operations'[j].result)
    <3>1. operations[j].state # "ABSENT"
      BY <2>5 DEF Lifecycle!OpAdvance
    <3>2. operations'[j].state # "ABSENT"
      <4>1. \A s \in {"PENDING", "RUNNING", "SUCCEEDED", "FAILED"} : "ABSENT" \notin Lifecycle!Legal[s]
        BY DEF Lifecycle!Legal
      <4>2. operations[j].state \in {"PENDING", "RUNNING", "SUCCEEDED", "FAILED"}
        BY <3>1 DEF IInv, TypeOK, OperationType
      <4>3. operations'[j].state \in Lifecycle!Legal[operations[j].state]
        BY <2>5 DEF Lifecycle!OpAdvance
      <4> QED
        BY <4>1, <4>2, <4>3
    <3>3. KnownRow(j)' = KnownRow(j)
      BY <1>5, <3>1, <3>2
    <3>4. KnownRows' = KnownRows
      BY <2>3, <3>3 DEF KnownRows
    <3> QED
      BY <3>4
  <2> QED
    BY <2>1, <2>4, <2>5 DEF Lifecycle!OpStep
<1> QED
  BY <1>6, <1>7, StepIsLifecycleStep

\* Where the consumer stands with an operation that has an event it has not
\* accepted yet, when that event is delivered: exactly one version behind it.
LEMMA AcceptedNext ==
    ASSUME IInv, OutboxIInv, RelayIInv, RelayIInv', EventsTellVersion, UNCHANGED vars,
           NEW e \in Pending, e \notin inbox, AcceptEvent(e), NEW j \in Job, outbox[e].subject = j
    PROVE  /\ operations[j].state # "ABSENT"
           /\ inboxSequences'[j] = outbox[e].sequence
           /\ \/ /\ inboxSequences[j] = 0
                 /\ outbox[e].sequence = 2 /\ outbox[e].state = "RUNNING"
              \/ /\ inboxSequences[j] = 2
                 /\ outbox[e].sequence = 3 /\ outbox[e].state \in {"SUCCEEDED", "FAILED"}
<1> DEFINE s == outbox[e].sequence
           last == inboxSequences[j]
<1>1. e \in DOMAIN outbox /\ outbox' = outbox /\ operations' = operations
  BY DEF Pending, vars
<1>2. /\ inbox' = inbox \union {e} /\ inboxSequences'[j] = s /\ last \in Nat
      /\ ~(s <= last)
  BY <1>1 DEF AcceptEvent, SequenceRefused, RelayIInv
<1>3. /\ outbox[e].state \in {"RUNNING", "SUCCEEDED", "FAILED"}
      /\ s = VersionFor[outbox[e].state]
  BY <1>1, EventTyped DEF IInv, EventType, EventsTellVersion
<1>4. \/ s = 2 /\ outbox[e].state = "RUNNING"
      \/ s = 3 /\ outbox[e].state \in {"SUCCEEDED", "FAILED"}
  BY <1>3 DEF VersionFor
<1>5. s \in 2..operations[j].version
  BY <1>1, SequencesSeen
<1>6. operations[j].version \in Nat
  BY DEF IInv, TypeOK, OperationType
<1>7. operations[j].state # "ABSENT"
  BY <1>5, <1>6 DEF OutboxIInv, EventsCovered, VersionFor
<1>8. last # 1
  <2> SUFFICES ASSUME last = 1 PROVE FALSE
    OBVIOUS
  <2>1. PICK d \in AcceptedOf(j) : outbox[d].sequence = last
    BY DEF RelayIInv
  <2>2. d \in DOMAIN outbox /\ outbox[d].subject = j
    BY <2>1 DEF AcceptedOf, RelayIInv
  <2>3. last \in 2..operations[j].version
    BY <2>1, <2>2, SequencesSeen
  <2> QED
    BY <2>3, <1>6
<1>9. s = 3 => last # 0
  <2> SUFFICES ASSUME s = 3, last = 0 PROVE FALSE
    OBVIOUS
  <2>1. 2 \in 2..operations[j].version
    BY <1>5, <1>6
  <2>2. PICK d \in DOMAIN outbox : outbox[d].subject = j /\ outbox[d].sequence = 2
    BY <2>1, SequencesSeen
  <2>3. d \in inbox'
    BY <2>2, <1>1, <1>2 DEF RelayIInv
  <2>4. d # e
    BY <2>2
  <2>5. d \in inbox
    BY <2>3, <2>4, <1>2
  <2> QED
    BY <2>2, <2>5 DEF RelayIInv
<1> QED
  BY <1>2, <1>4, <1>7, <1>8, <1>9

\* Accepting an event moves the consumer's view of its operation along one
\* legal transition; a repeated delivery moves nothing.
LEMMA AcceptSeen ==
    ASSUME IInv, OutboxIInv, RelayIInv, RelayIInv', EventsTellVersion, UNCHANGED vars,
           NEW e \in Pending, AcceptEvent(e)
    PROVE  [Consumer!OpNext]_KnownRows
<1>1. UNCHANGED <<outbox, operations>>
  BY DEF vars
<1>2. CASE e \in inbox
  <2>1. UNCHANGED <<inbox, inboxSequences>>
    BY <1>2 DEF AcceptEvent
  <2>2. KnownRows' = KnownRows
    BY <1>1, <2>1 DEF KnownRows, KnownRow, LastAccepted, AcceptedOf
  <2> QED
    BY <2>2
<1>3. CASE e \notin inbox
  <2>1. e \in DOMAIN outbox
    BY DEF Pending
  <2>2. PICK j \in Job : outbox[e].subject = j
    BY <2>1, EventTyped DEF IInv, EventType
  <2>3. /\ operations[j].state # "ABSENT"
        /\ inboxSequences'[j] = outbox[e].sequence
        /\ \/ /\ inboxSequences[j] = 0
              /\ outbox[e].sequence = 2 /\ outbox[e].state = "RUNNING"
           \/ /\ inboxSequences[j] = 2
              /\ outbox[e].sequence = 3 /\ outbox[e].state \in {"SUCCEEDED", "FAILED"}
    BY <1>3, <2>2, AcceptedNext
  <2>4. inbox' = inbox \union {e}
        /\ \A k \in Job : k # j => inboxSequences'[k] = inboxSequences[k]
    BY <1>3, <2>2 DEF AcceptEvent, RelayIInv
  <2>5. AcceptedOf(j)' = AcceptedOf(j) \union {e}
        /\ \A k \in Job : k # j => AcceptedOf(k)' = AcceptedOf(k)
    BY <1>1, <2>2, <2>4 DEF AcceptedOf
  <2>6. \A k \in Job : k # j => KnownRow(k)' = KnownRow(k)
    <3> SUFFICES ASSUME NEW k \in Job, k # j PROVE KnownRow(k)' = KnownRow(k)
      OBVIOUS
    <3>1. /\ AcceptedOf(k)' = AcceptedOf(k) /\ inboxSequences'[k] = inboxSequences[k]
          /\ outbox' = outbox /\ operations' = operations
      BY <1>1, <2>4, <2>5
    <3>2. LastAccepted(k)' = LastAccepted(k)
      BY <3>1 DEF LastAccepted
    <3> QED
      BY <3>1, <3>2 DEF KnownRow
  <2>7. \A d \in AcceptedOf(j)' : d \in DOMAIN outbox /\ outbox[d].subject = j
    BY <1>1, <2>1, <2>2, <2>5 DEF AcceptedOf, RelayIInv
  <2>8. LastAccepted(j)' = e
    <3>1. \A d \in AcceptedOf(j)' : outbox[d].sequence = outbox[e].sequence => d = e
      BY <2>1, <2>2, <2>7, EventsDiffer DEF IInv
    <3>2. e \in AcceptedOf(j)' /\ outbox' = outbox
      BY <1>1, <2>5
    <3> QED
      BY <2>3, <3>1, <3>2 DEF LastAccepted
  <2> DEFINE row == OperationRow(outbox[e].state, outbox[e].sequence, 0, None)
  <2>9. KnownRow(j)' = row
    BY <1>1, <2>3, <2>8 DEF KnownRow
  <2>10. PICK known, version :
            /\ KnownRow(j) = OperationRow(known, version, 0, None)
            /\ \/ known = "PENDING" /\ version = 1
               \/ known = "RUNNING" /\ version = 2
            /\ row.state \in Consumer!Legal[known] /\ row.version = version + 1
    <3>1. CASE inboxSequences[j] = 0
      <4>1. KnownRow(j) = OperationRow("PENDING", 1, 0, None)
        BY <3>1, <2>3 DEF KnownRow
      <4>2. row.state \in Consumer!Legal["PENDING"] /\ row.version = 2
        BY <3>1, <2>3 DEF OperationRow, Consumer!Legal
      <4> QED
        BY <4>1, <4>2
    <3>2. CASE inboxSequences[j] = 2
      <4>1. \E d \in AcceptedOf(j) : outbox[d].sequence = 2
        BY <3>2 DEF RelayIInv
      <4>2. LastAccepted(j) \in AcceptedOf(j) /\ outbox[LastAccepted(j)].sequence = 2
        BY <3>2, <4>1 DEF LastAccepted
      <4>3. LastAccepted(j) \in DOMAIN outbox
        BY <4>2 DEF AcceptedOf, RelayIInv
      <4>4. outbox[LastAccepted(j)].state \in {"RUNNING", "SUCCEEDED", "FAILED"}
        BY <4>3, EventTyped DEF IInv, EventType
      <4>5. outbox[LastAccepted(j)].state = "RUNNING"
        BY <4>2, <4>3, <4>4 DEF EventsTellVersion, VersionFor
      <4>6. KnownRow(j) = OperationRow("RUNNING", 2, 0, None)
        BY <3>2, <2>3, <4>5 DEF KnownRow
      <4>7. row.state \in Consumer!Legal["RUNNING"] /\ row.version = 3
        BY <3>2, <2>3 DEF OperationRow, Consumer!Legal
      <4> QED
        BY <4>6, <4>7
    <3> QED
      BY <2>3, <3>1, <3>2
  <2>11. /\ KnownRow(j).state = known /\ known # "ABSENT"
         /\ KnownRow(j).version = version /\ KnownRow(j).updatedAt = 0
    BY <2>10 DEF OperationRow
  <2>12. row.updatedAt = 0 /\ row.result = None /\ row = [state |-> row.state, version |-> row.version,
                                                        updatedAt |-> 0, result |-> None]
    BY DEF OperationRow
  <2> HIDE DEF row
  <2>13. KnownRows' = [KnownRows EXCEPT ![j] = row]
    BY <2>6, <2>9 DEF KnownRows
  <2>14. KnownRows[j] = KnownRow(j) /\ KnownRows'[j] = row
    BY <2>9 DEF KnownRows
  <2>15. Consumer!OpAdvance(j, row.state, row.updatedAt, row.result)
    <3>1. KnownRows[j].state # "ABSENT" /\ row.updatedAt >= KnownRows[j].updatedAt
      BY <2>11, <2>12, <2>14
    <3>2. row.state \in Consumer!Legal[KnownRows[j].state]
      BY <2>10, <2>11, <2>14
    <3>3. row = [state |-> row.state, version |-> KnownRows[j].version + 1,
                 updatedAt |-> row.updatedAt, result |-> row.result]
      BY <2>10, <2>11, <2>12, <2>14
    <3> QED
      BY <2>12, <2>13, <3>1, <3>2, <3>3 DEF Consumer!OpAdvance
  <2> QED
    BY <2>14, <2>15 DEF Consumer!OpNext, Consumer!OpStep
<1> QED
  BY <1>2, <1>3

\* A step of the queue or of the relay is a step of the consumer's view, or
\* leaves it alone.
LEMMA StepIsSeen ==
    /\ IInv /\ OutboxIInv /\ RelayIInv /\ EventsTellVersion
    /\ [RelayNext]_allVars
    => [Consumer!OpNext]_KnownRows /\ EventsTellVersion'
<1> SUFFICES ASSUME IInv, OutboxIInv, RelayIInv, EventsTellVersion, [RelayNext]_allVars
             PROVE  [Consumer!OpNext]_KnownRows /\ EventsTellVersion'
  OBVIOUS
<1>1. [Next]_vars
  BY DEF RelayNext, QueueStep, DeliverNext, DeliverAndCrash, allVars, vars
<1>2. EventsTellVersion'
  BY <1>1, NextTellsVersion
<1>3. IInv' /\ RelayIInv'
  BY RelayNextKeeps
<1>4. CASE UNCHANGED relayVars
  BY <1>1, <1>2, <1>3, <1>4, QueueStepSeen
<1>5. CASE DeliverNext \/ DeliverAndCrash
  <2>1. PICK e \in Pending : AcceptEvent(e) /\ UNCHANGED vars
    BY <1>5 DEF DeliverNext, DeliverAndCrash
  <2> QED
    BY <2>1, <1>2, <1>3, AcceptSeen
<1> QED
  BY <1>2, <1>4, <1>5 DEF RelayNext, QueueStep, allVars, relayVars

\* What the consumer knows of an operation, however late, implements the life
\* cycle the operation itself implements: every change it sees is one legal
\* transition, although events are redelivered and interleaved with others'.
THEOREM ConsumerImplements == RelaySpec => ConsumerFollows
<1>1. RelayInit => Consumer!OpInit /\ EventsTellVersion
  <2> SUFFICES ASSUME RelayInit PROVE Consumer!OpInit /\ EventsTellVersion
    OBVIOUS
  <2>1. operations = [j \in Job |-> NoOperation] /\ outbox = <<>>
    BY DEF RelayInit, Init
  <2>2. \A j \in Job : KnownRow(j) = NoOperation
    BY <2>1 DEF KnownRow, NoOperation, OperationRow
  <2>3. KnownRows = [j \in Job |-> Consumer!NoOperation]
    BY <2>2 DEF KnownRows, NoOperation, OperationRow, Consumer!NoOperation
  <2> QED
    BY <2>1, <2>3 DEF Consumer!OpInit, EventsTellVersion
<1> QED
  BY <1>1, RelayInductive, StepIsSeen, PTL DEF RelaySpec, ConsumerFollows, Consumer!OpSpec

\* The relay only watches the queue: the queue it delivers for still behaves as
\* the queue does, so all that is proved of the queue holds beside the relay.
THEOREM RelayKeepsQueue == RelaySpec => Spec
<1>1. RelayInit => Init
  BY DEF RelayInit
<1>2. [RelayNext]_allVars => [Next]_vars
  BY DEF RelayNext, QueueStep, DeliverNext, DeliverAndCrash, allVars, vars
<1> QED
  BY <1>1, <1>2, PTL DEF RelaySpec, Spec
=============================================================================

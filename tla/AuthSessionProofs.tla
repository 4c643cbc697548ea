------------------------- MODULE AuthSessionProofs -------------------------
(***************************************************************************)
(* Proofs about AuthSession, for any number of attempts, tokens and        *)
(* sessions, any lifetimes and any number of failed audit appends.         *)
(***************************************************************************)
EXTENDS AuthSession, TLAPS

\* An empty store satisfies the inductive invariant.
LEMMA InitIInv == Init => IInv
<1> SUFFICES ASSUME Init PROVE IInv
  OBVIOUS
<1> USE DEF Init
<1>1. TypeOK
  <2>1. NoAttempt \in AttemptType
    BY DEF NoAttempt, AttemptRow, AttemptType
  <2>2. NoToken \in TokenType
    BY DEF NoToken, TokenRow, TokenType
  <2>3. NoSession \in SessionType
    BY DEF NoSession, SessionRow, SessionType
  <2>4. revisions \in [Session -> Seq(RevisionType)] /\ audit \in [Session -> Seq(AuditType)]
    OBVIOUS
  <2>5. attempts \in [Attempt -> AttemptType] /\ tokens \in [Token -> TokenType]
    BY <2>1, <2>2
  <2>6. sessions \in [Session -> SessionType] /\ lastGrant \in [Session -> Nat]
    BY <2>3
  <2>7. keyActive \in BOOLEAN /\ auditFailure \in BOOLEAN /\ used \subseteq Token
    BY Zenon
  <2>8. failures \in Nat /\ now \in Nat \ {0}
    OBVIOUS
  <2> QED
    BY <2>4, <2>5, <2>6, <2>7, <2>8, Zenon DEF TypeOK
<1>2. OneSessionPerSignIn
  BY DEF OneSessionPerSignIn, Existing, NoSession, SessionRow
<1>3. RowsInStep
  BY DEF RowsInStep, RowInStep, NoSession, SessionRow
<1>4. TrailComplete
  BY DEF TrailComplete, TrailTells, NoSession, SessionRow
<1>5. GrantsWithinLife
  BY DEF GrantsWithinLife, GrantsLive
<1> QED
  BY <1>1, <1>2, <1>3, <1>4, <1>5 DEF IInv

-----------------------------------------------------------------------------
\* A step that leaves the sessions, their trails and their grants alone, and
\* under which no attempt or token a session came from is touched, keeps the
\* invariant as far as the sessions go.
LEMMA SessionsUntouched ==
    ASSUME IInv, TypeOK', UNCHANGED <<sessions, revisions, audit, lastGrant>>, now' >= now,
           \A a \in Attempt : attempts[a].state = "CONSUMED" => attempts'[a] = attempts[a],
           \A t \in Token : tokens[t] # NoToken => tokens'[t] = tokens[t]
    PROVE  IInv'
<1>1. \A s \in Existing :
         /\ sessions[s].token \in Token /\ AttemptOf(s) \in Attempt
         /\ tokens'[sessions[s].token] = tokens[sessions[s].token]
         /\ AttemptOf(s)' = AttemptOf(s) /\ attempts'[AttemptOf(s)] = attempts[AttemptOf(s)]
  <2> SUFFICES ASSUME NEW s \in Existing
               PROVE  /\ sessions[s].token \in Token /\ AttemptOf(s) \in Attempt
                      /\ tokens'[sessions[s].token] = tokens[sessions[s].token]
                      /\ AttemptOf(s)' = AttemptOf(s)
                      /\ attempts'[AttemptOf(s)] = attempts[AttemptOf(s)]
    OBVIOUS
  <2>1. sessions[s].token \in Token /\ AttemptOf(s) \in Attempt
          /\ attempts[AttemptOf(s)].state = "CONSUMED"
    BY DEF IInv, OneSessionPerSignIn
  <2>2. tokens[sessions[s].token] # NoToken
    BY <2>1, NameAssumption DEF AttemptOf, NoToken, TokenRow
  <2> QED
    BY <2>1, <2>2 DEF AttemptOf
<1>2. Existing' = Existing /\ Existing \subseteq Session
  BY DEF Existing
<1>3. OneSessionPerSignIn'
  BY <1>1, <1>2 DEF IInv, OneSessionPerSignIn
<1>4. RowsInStep'
  <2>1. \A s \in Session : sessions[s].issuedAt <= now' /\ lastGrant[s] <= now'
    BY DEF IInv, RowsInStep, RowInStep, TypeOK, SessionType
  <2>2. \A s \in Session : sessions[s].state # "ABSENT" =>
           sessions[s].absolute <= tokens'[sessions[s].token].expiresAt
    BY <1>1 DEF Existing, IInv, RowsInStep, RowInStep
  <2> QED
    BY <2>1, <2>2 DEF IInv, RowsInStep, RowInStep
<1>5. TrailComplete'
  BY DEF IInv, TrailComplete
<1>6. GrantsWithinLife'
  <2>1. \A s \in Session : lastGrant[s] # 0 => s \in Existing
    BY DEF IInv, RowsInStep, RowInStep, Existing
  <2>2. \A s \in Existing : tokens'[sessions[s].token] = tokens[sessions[s].token]
    BY <1>1
  <2> QED
    BY <2>1, <2>2 DEF IInv, GrantsWithinLife, GrantsLive
<1> QED
  BY <1>3, <1>4, <1>5, <1>6 DEF IInv

\* Beginning an attempt touches no session.
LEMMA BeginKeeps ==
    ASSUME IInv, NEW a \in Attempt, Begin(a)
    PROVE  IInv'
<1>1. AttemptRow("OPEN", now + AttemptSeconds, 0) \in AttemptType
  BY LimitAssumption DEF AttemptRow, AttemptType, IInv, TypeOK
<1>2. TypeOK'
  BY <1>1 DEF Begin, IInv, TypeOK
<1>3. \A b \in Attempt : attempts[b].state = "CONSUMED" => attempts'[b] = attempts[b]
  BY DEF Begin, IInv, TypeOK
<1>4. tokens' = tokens /\ now' = now /\ now \in Nat
    /\ UNCHANGED <<sessions, revisions, audit, lastGrant>>
  BY DEF Begin, IInv, TypeOK
<1> QED
  BY <1>2, <1>3, <1>4, SessionsUntouched

\* Nor does a token that the provider issues.
LEMMA IssueKeeps ==
    ASSUME IInv, NEW t \in Token, NEW a \in Attempt, NEW ahead \in Nat, NEW life \in Lifetime,
           IssueToken(t, a, ahead, life)
    PROVE  IInv'
<1>1. TokenRow(a, now + ahead, now + ahead + life) \in TokenType
  BY LimitAssumption DEF TokenRow, TokenType, IInv, TypeOK
<1>2. TypeOK'
  BY <1>1 DEF IssueToken, IInv, TypeOK
<1>3. \A u \in Token : tokens[u] # NoToken => tokens'[u] = tokens[u]
  BY DEF IssueToken, IInv, TypeOK
<1>4. attempts' = attempts /\ now' = now /\ now \in Nat
    /\ UNCHANGED <<sessions, revisions, audit, lastGrant>>
  BY DEF IssueToken, IInv, TypeOK
<1> QED
  BY <1>2, <1>3, <1>4, SessionsUntouched

\* A callback that is refused, or whose audit append fails, spends an attempt
\* that no session came from.
LEMMA SpendKeeps ==
    ASSUME IInv, NEW a \in Attempt, NEW t \in Token, NEW shared \in BOOLEAN,
           CompleteRefused(a, t, shared) \/ CompleteUnaudited(a, t, shared)
    PROVE  IInv'
<1>1. attempts[a].state = "OPEN" /\ attempts' = [attempts EXCEPT ![a] = Consumed(@)]
  BY DEF CompleteRefused, CompleteUnaudited, Consumable
<1>2. Consumed(attempts[a]) \in AttemptType
  BY DEF Consumed, AttemptRow, AttemptType, IInv, TypeOK
<1>3. used' \subseteq Token /\ auditFailure' \in BOOLEAN
  BY DEF CompleteRefused, CompleteUnaudited, Remember, IInv, TypeOK
<1>4. /\ UNCHANGED <<tokens, keyActive, sessions, revisions, audit, failures, lastGrant, now>>
      /\ now \in Nat
  BY DEF CompleteRefused, CompleteUnaudited, IInv, TypeOK
<1>5. TypeOK'
  BY <1>1, <1>2, <1>3, <1>4 DEF IInv, TypeOK
<1>6. \A b \in Attempt : attempts[b].state = "CONSUMED" => attempts'[b] = attempts[b]
  BY <1>1 DEF IInv, TypeOK
<1> QED
  BY <1>4, <1>5, <1>6, SessionsUntouched

\* The clock, the key and the audit's next failure say nothing about sessions.
LEMMA EnvironmentKeeps ==
    ASSUME IInv, FailNextAudit \/ RevokeKey \/ Tick
    PROVE  IInv'
<1>1. /\ UNCHANGED <<attempts, tokens, used, sessions, revisions, audit, lastGrant>>
      /\ keyActive' \in BOOLEAN /\ auditFailure' \in BOOLEAN
  BY DEF FailNextAudit, RevokeKey, Tick, IInv, TypeOK
<1>2. failures' \in Nat /\ now' \in Nat \ {0} /\ now' >= now
  BY DEF FailNextAudit, RevokeKey, Tick, IInv, TypeOK
<1>3. TypeOK'
  BY <1>1, <1>2, Zenon DEF IInv, TypeOK
<1> QED
  BY <1>1, <1>2, <1>3, SessionsUntouched

-----------------------------------------------------------------------------
\* The callback that opens a session takes an attempt no session came from, and
\* with it a token no session came from; the limits are those of the token.
LEMMA CompleteKeeps ==
    ASSUME IInv, NEW a \in Attempt, NEW t \in Token, NEW s \in Session,
           NEW shared \in BOOLEAN, Complete(a, t, s, shared)
    PROVE  IInv'
<1> DEFINE row == Started(t)
           entry == Revision(row, now)
           event == AuditEvent(row)
<1>1. /\ TypeOK /\ sessions[s] = NoSession /\ lastGrant[s] = 0
      /\ revisions[s] = <<>> /\ audit[s] = <<>>
  BY DEF Complete, IInv, RowsInStep, RowInStep, TrailComplete, TrailTells, TypeOK, NoSession, SessionRow
<1>2. /\ attempts[a].state = "OPEN" /\ attempts[a].expiresAt > now
      /\ tokens[t].nonce = a /\ tokens[t].expiresAt \in Nat /\ now \in Nat /\ now # 0
  BY <1>1 DEF Complete, Consumable, Admissible, TypeOK, TokenType
<1>3. /\ row.state = "ACTIVE" /\ row.version = 1 /\ row.token = t /\ row.issuedAt = now
      /\ row.absolute \in Nat /\ row.idle \in Nat
      /\ row.absolute <= tokens[t].expiresAt /\ row.absolute <= now + AbsoluteSeconds
      /\ row.idle <= now + IdleSeconds /\ row \in SessionType
  <2>1. Min2(tokens[t].expiresAt, now + AbsoluteSeconds) \in Nat
    BY <1>2, LimitAssumption DEF Min2
  <2> QED
    BY <1>2, <2>1, LimitAssumption DEF Started, SessionRow, Min2, SessionType
<1>4. /\ entry = [revision |-> 1, state |-> "ACTIVE", at |-> now]
      /\ event = [version |-> 1, state |-> "ACTIVE"]
      /\ entry \in RevisionType /\ event \in AuditType
  BY <1>2, <1>3 DEF Revision, AuditEvent, RevisionType, AuditType
<1> HIDE DEF row, entry, event
<1>5. /\ attempts' = [attempts EXCEPT ![a] = Consumed(@)]
      /\ sessions' = [sessions EXCEPT ![s] = row]
      /\ revisions' = [revisions EXCEPT ![s] = Append(@, entry)]
      /\ audit' = [audit EXCEPT ![s] = Append(@, event)]
      /\ UNCHANGED <<tokens, keyActive, auditFailure, failures, lastGrant, now>>
  BY DEF Complete, row, entry, event
<1>6. /\ Consumed(attempts[a]) \in AttemptType
      /\ Consumed(attempts[a]).state = "CONSUMED"
      /\ Consumed(attempts[a]).expiresAt = attempts[a].expiresAt
      /\ Consumed(attempts[a]).consumedAt = now
  BY <1>1 DEF Consumed, AttemptRow, AttemptType, TypeOK
<1>7. revisions[s] \in Seq(RevisionType) /\ audit[s] \in Seq(AuditType)
  BY <1>1 DEF TypeOK
<1>8. /\ sessions'[s] = row /\ revisions'[s] = <<entry>> /\ audit'[s] = <<event>>
      /\ attempts'[a] = Consumed(attempts[a])
  BY <1>1, <1>5, <1>7 DEF TypeOK
<1>9. \A r \in Session \ {s} :
         sessions'[r] = sessions[r] /\ revisions'[r] = revisions[r] /\ audit'[r] = audit[r]
  BY <1>1, <1>5 DEF TypeOK
<1>10. \A b \in Attempt \ {a} : attempts'[b] = attempts[b]
  BY <1>1, <1>5 DEF TypeOK
<1>11. TypeOK'
  <2>1. attempts' \in [Attempt -> AttemptType] /\ sessions' \in [Session -> SessionType]
    BY <1>1, <1>3, <1>5, <1>6 DEF TypeOK
  <2>2. revisions' \in [Session -> Seq(RevisionType)] /\ audit' \in [Session -> Seq(AuditType)]
    BY <1>1, <1>4, <1>5, <1>7 DEF TypeOK
  <2>3. used' \subseteq Token
    BY <1>1 DEF Complete, Remember, TypeOK
  <2> QED
    BY <1>1, <1>5, <2>1, <2>2, <2>3, Zenon DEF TypeOK
<1>12. Existing' = Existing \union {s} /\ s \notin Existing /\ Existing \subseteq Session
  BY <1>1, <1>3, <1>8, <1>9 DEF Existing, NoSession, SessionRow
<1>13. \A r \in Existing :
          /\ r # s /\ AttemptOf(r)' = AttemptOf(r) /\ AttemptOf(r) # a /\ AttemptOf(r) \in Attempt
          /\ attempts'[AttemptOf(r)] = attempts[AttemptOf(r)] /\ sessions[r].token \in Token
  <2> SUFFICES ASSUME NEW r \in Existing
               PROVE  /\ r # s /\ AttemptOf(r)' = AttemptOf(r) /\ AttemptOf(r) # a
                      /\ AttemptOf(r) \in Attempt
                      /\ attempts'[AttemptOf(r)] = attempts[AttemptOf(r)]
                      /\ sessions[r].token \in Token
    OBVIOUS
  <2>1. /\ AttemptOf(r) \in Attempt /\ attempts[AttemptOf(r)].state = "CONSUMED"
        /\ sessions[r].token \in Token
    BY DEF IInv, OneSessionPerSignIn
  <2>2. r # s /\ sessions'[r] = sessions[r]
    BY <1>9, <1>12
  <2> QED
    BY <1>2, <1>5, <1>10, <2>1, <2>2 DEF AttemptOf
<1>14. AttemptOf(s)' = a /\ sessions'[s].token = t
  BY <1>2, <1>3, <1>5, <1>8 DEF AttemptOf
<1>15. OneSessionPerSignIn'
  <2>1. ASSUME NEW r \in Existing'
        PROVE  LET at == attempts'[AttemptOf(r)']
               IN /\ sessions'[r].token \in Token /\ AttemptOf(r)' \in Attempt
                  /\ at.state = "CONSUMED" /\ at.consumedAt = sessions'[r].issuedAt
                  /\ at.consumedAt < at.expiresAt
    <3>1. CASE r = s
      BY <1>2, <1>3, <1>6, <1>8, <1>14, <3>1
    <3>2. CASE r \in Existing
      BY <1>9, <1>12, <1>13, <3>2 DEF IInv, OneSessionPerSignIn
    <3> QED
      BY <1>12, <2>1, <3>1, <3>2
  <2>2. \A q, r \in Existing' : AttemptOf(q)' = AttemptOf(r)' => q = r
    BY <1>12, <1>13, <1>14 DEF IInv, OneSessionPerSignIn
  <2> QED
    BY <2>1, <2>2 DEF OneSessionPerSignIn
<1>16. RowsInStep'
  <2> SUFFICES ASSUME NEW r \in Session PROVE RowInStep(r)'
    BY DEF RowsInStep
  <2>1. CASE r = s
    BY <1>1, <1>2, <1>3, <1>5, <1>8, <2>1 DEF RowInStep
  <2>2. CASE r # s
    BY <1>5, <1>9, <2>2 DEF IInv, RowsInStep, RowInStep
  <2> QED
    BY <2>1, <2>2
<1>17. TrailComplete'
  <2>1. /\ Len(<<entry>>) = 1 /\ Len(<<event>>) = 1
        /\ <<entry>>[1] = entry /\ <<event>>[1] = event
    OBVIOUS
  <2>2. TrailTells(row, <<entry>>, <<event>>)
    BY <1>2, <1>3, <1>4, <2>1 DEF TrailTells
  <2> QED
    BY <1>8, <1>9, <2>2 DEF IInv, TrailComplete
<1>18. GrantsWithinLife'
  BY <1>1, <1>5, <1>9 DEF IInv, GrantsWithinLife, GrantsLive
<1> QED
  BY <1>11, <1>15, <1>16, <1>17, <1>18 DEF IInv

-----------------------------------------------------------------------------
\* A request that is let in comes before both ends of its session.
LEMMA AuthenticateKeeps ==
    ASSUME IInv, NEW s \in Session, Authenticate(s)
    PROVE  IInv'
<1>1. /\ TypeOK /\ sessions[s].state = "ACTIVE" /\ lastGrant' = [lastGrant EXCEPT ![s] = now]
      /\ now < sessions[s].absolute /\ now < sessions[s].idle
      /\ UNCHANGED <<attempts, tokens, keyActive, used, sessions, revisions, audit,
                     auditFailure, failures, now>>
  BY DEF Authenticate, Over, IInv, TypeOK, SessionType
<1>2. /\ lastGrant'[s] = now /\ now \in Nat /\ now # 0
      /\ \A r \in Session \ {s} : lastGrant'[r] = lastGrant[r]
  BY <1>1 DEF TypeOK
<1>3. TypeOK'
  <2>1. lastGrant' \in [Session -> Nat]
    BY <1>1, <1>2 DEF TypeOK
  <2> QED
    BY <1>1, <2>1, Zenon DEF TypeOK
<1>4. OneSessionPerSignIn' /\ TrailComplete'
  BY <1>1 DEF IInv, OneSessionPerSignIn, Existing, AttemptOf, TrailComplete
<1>5. RowsInStep'
  BY <1>1, <1>2 DEF IInv, RowsInStep, RowInStep
<1>6. GrantsWithinLife'
  <2>1. tokens[sessions[s].token].expiresAt \in Nat
    BY <1>1 DEF IInv, OneSessionPerSignIn, Existing, TypeOK, TokenType
  <2>2. /\ sessions[s].absolute \in Nat /\ sessions[s].idle \in Nat
        /\ sessions[s].issuedAt \in Nat
    BY <1>1 DEF TypeOK, SessionType
  <2>3. RowInStep(s)
    BY DEF IInv, RowsInStep
  <2>4. GrantsLive(s)'
    BY <1>1, <1>2, <2>1, <2>2, <2>3, LimitAssumption DEF RowInStep, GrantsLive
  <2> QED
    BY <1>1, <1>2, <2>4 DEF IInv, GrantsWithinLife, GrantsLive
<1> QED
  BY <1>3, <1>4, <1>5, <1>6 DEF IInv

\* The row of a session that ends, written out.
LEMMA EndedRow ==
    ASSUME NEW row \in SessionType, row.version = 1, NEW state
    PROVE  Ended(row, state) =
             SessionRow(state, 2, row.token, row.issuedAt, row.absolute, row.idle)
<1>1. row = SessionRow(row.state, row.version, row.token, row.issuedAt, row.absolute, row.idle)
  BY DEF SessionRow, SessionType
<1>2. [row EXCEPT !.state = state] =
        SessionRow(state, 1, row.token, row.issuedAt, row.absolute, row.idle)
  BY <1>1 DEF SessionRow
<1>3. [SessionRow(state, 1, row.token, row.issuedAt, row.absolute, row.idle)
         EXCEPT !.version = @ + 1] =
        SessionRow(state, 2, row.token, row.issuedAt, row.absolute, row.idle)
  BY DEF SessionRow
<1>4. Ended(row, state) = [[row EXCEPT !.state = state] EXCEPT !.version = @ + 1]
  BY DEF Ended
<1> QED
  BY <1>2, <1>3, <1>4

\* Ending a session adds the second and last part of its trail, now.
LEMMA TransitionKeeps ==
    ASSUME IInv, NEW s \in Session, NEW state \in {"REVOKED", "EXPIRED"}, Transition(s, state)
    PROVE  IInv'
<1> DEFINE row == Ended(sessions[s], state)
           entry == Revision(row, now)
           event == AuditEvent(row)
<1>1. /\ TypeOK /\ sessions[s].state = "ACTIVE" /\ sessions[s].version = 1
      /\ UNCHANGED <<attempts, tokens, keyActive, used, failures, lastGrant, now>>
  BY DEF Transition, Endable, IInv, RowsInStep, RowInStep
<1>2. CASE auditFailure /\ auditFailure' = FALSE /\ UNCHANGED <<sessions, revisions, audit>>
  <2>1. TypeOK' /\ now' \in Nat
    BY <1>1, <1>2, Zenon DEF TypeOK
  <2>2. now' >= now
    BY <1>1, <2>1
  <2> QED
    BY <1>1, <1>2, <2>1, <2>2, SessionsUntouched
<1>3. CASE /\ sessions' = [sessions EXCEPT ![s] = row]
           /\ revisions' = [revisions EXCEPT ![s] = Append(@, entry)]
           /\ audit' = [audit EXCEPT ![s] = Append(@, event)]
           /\ UNCHANGED auditFailure
  <2>1. /\ row.state = state /\ row.version = 2 /\ row.token = sessions[s].token
        /\ row.issuedAt = sessions[s].issuedAt /\ row.absolute = sessions[s].absolute
        /\ row.idle = sessions[s].idle /\ row \in SessionType
    <3>1. sessions[s] \in SessionType
      BY <1>1 DEF TypeOK
    <3>2. row = SessionRow(state, 2, sessions[s].token, sessions[s].issuedAt,
                           sessions[s].absolute, sessions[s].idle)
      BY <1>1, <3>1, EndedRow
    <3>3. row \in SessionType
      BY <3>1, <3>2 DEF SessionRow, SessionType
    <3> QED
      BY <3>2, <3>3 DEF SessionRow
  <2>2. /\ entry = [revision |-> 2, state |-> state, at |-> now]
        /\ event = [version |-> 2, state |-> state]
        /\ entry \in RevisionType /\ event \in AuditType
    BY <1>1, <2>1 DEF Revision, AuditEvent, RevisionType, AuditType, TypeOK
  <2> HIDE DEF row, entry, event
  <2>3. revisions[s] \in Seq(RevisionType) /\ audit[s] \in Seq(AuditType)
    BY <1>1 DEF TypeOK
  <2>4. /\ sessions'[s] = row /\ revisions'[s] = Append(revisions[s], entry)
        /\ audit'[s] = Append(audit[s], event)
    BY <1>1, <1>3 DEF TypeOK
  <2>5. \A r \in Session \ {s} :
           sessions'[r] = sessions[r] /\ revisions'[r] = revisions[r] /\ audit'[r] = audit[r]
    BY <1>1, <1>3 DEF TypeOK
  <2>6. TypeOK'
    <3>1. sessions' \in [Session -> SessionType]
      BY <1>1, <1>3, <2>1 DEF TypeOK
    <3>2. revisions' \in [Session -> Seq(RevisionType)] /\ audit' \in [Session -> Seq(AuditType)]
      BY <1>1, <1>3, <2>2, <2>3 DEF TypeOK
    <3> QED
      BY <1>1, <1>3, <3>1, <3>2, Zenon DEF TypeOK
  <2>7. Existing' = Existing /\ s \in Existing /\ Existing \subseteq Session
    BY <1>1, <2>1, <2>4, <2>5 DEF Existing
  <2>8. \A r \in Existing : AttemptOf(r)' = AttemptOf(r) /\ sessions'[r].token = sessions[r].token
                              /\ sessions'[r].issuedAt = sessions[r].issuedAt
    BY <1>1, <2>1, <2>4, <2>5, <2>7 DEF AttemptOf
  <2>9. OneSessionPerSignIn'
    BY <1>1, <2>7, <2>8 DEF IInv, OneSessionPerSignIn
  <2>10. RowsInStep'
    <3>1. RowInStep(s)'
      BY <1>1, <2>1, <2>4 DEF IInv, RowsInStep, RowInStep
    <3> QED
      BY <1>1, <2>5, <3>1 DEF IInv, RowsInStep, RowInStep
  <2>11. TrailTells(sessions[s], revisions[s], audit[s]) /\ sessions[s].issuedAt <= now
    BY DEF IInv, TrailComplete, RowsInStep, RowInStep
  <2>12. /\ Len(revisions'[s]) = 2 /\ revisions'[s][1] = revisions[s][1] /\ revisions'[s][2] = entry
         /\ Len(audit'[s]) = 2 /\ audit'[s][1] = audit[s][1] /\ audit'[s][2] = event
    BY <1>1, <2>3, <2>4, <2>11 DEF TrailTells
  <2>13. TrailTells(sessions[s], revisions[s], audit[s])'
    BY <1>1, <2>1, <2>2, <2>4, <2>11, <2>12 DEF TrailTells
  <2>14. TrailComplete'
    BY <2>5, <2>13 DEF IInv, TrailComplete
  <2>15. GrantsWithinLife'
    <3>1. revisions'[s][sessions'[s].version].at = now
      BY <2>1, <2>2, <2>4, <2>12
    <3>2. GrantsLive(s)'
      BY <1>1, <2>1, <2>4, <3>1 DEF IInv, GrantsWithinLife, GrantsLive, RowsInStep, RowInStep
    <3> QED
      BY <1>1, <2>5, <3>2 DEF IInv, GrantsWithinLife, GrantsLive
  <2> QED
    BY <2>6, <2>9, <2>10, <2>14, <2>15 DEF IInv
<1> QED
  BY <1>2, <1>3 DEF Transition

-----------------------------------------------------------------------------
\* Every step of the session store keeps the inductive invariant.
LEMMA NextKeeps == IInv /\ [Next]_vars => IInv'
<1> SUFFICES ASSUME IInv, [Next]_vars PROVE IInv'
  OBVIOUS
<1>1. ASSUME NEW a \in Attempt, Begin(a) PROVE IInv'
  BY <1>1, BeginKeeps
<1>2. ASSUME NEW t \in Token, NEW a \in Attempt, NEW ahead \in 0..(Skew + 1),
             NEW life \in Lifetime, IssueToken(t, a, ahead, life)
      PROVE  IInv'
  BY <1>2, IssueKeeps, LimitAssumption
<1>3. ASSUME NEW a \in Attempt, NEW t \in Token, NEW s \in Session, NEW shared \in BOOLEAN,
             Complete(a, t, s, shared)
      PROVE  IInv'
  BY <1>3, CompleteKeeps
<1>4. ASSUME NEW a \in Attempt, NEW t \in Token, NEW shared \in BOOLEAN,
             CompleteRefused(a, t, shared) \/ CompleteUnaudited(a, t, shared)
      PROVE  IInv'
  BY <1>4, SpendKeeps
<1>5. ASSUME NEW s \in Session, Authenticate(s) \/ AuthenticateLate(s) \/ Revoke(s) PROVE IInv'
  BY <1>5, AuthenticateKeeps, TransitionKeeps DEF AuthenticateLate, Revoke
<1>6. CASE FailNextAudit \/ RevokeKey \/ Tick
  BY <1>6, EnvironmentKeeps
<1>7. CASE UNCHANGED vars
  <2>1. TypeOK' /\ now' >= now
    BY <1>7 DEF vars, IInv, TypeOK
  <2> QED
    BY <1>7, <2>1, SessionsUntouched DEF vars
<1> QED
  BY <1>1, <1>2, <1>3, <1>4, <1>5, <1>6, <1>7 DEF Next

\* So the inductive invariant holds always.
LEMMA Inductive == Spec => []IInv
BY InitIInv, NextKeeps, PTL DEF Spec

\* Every row of the session store keeps its shape.
THEOREM TypeCorrect == Spec => []TypeOK
<1>1. IInv => TypeOK
  BY DEF IInv
<1> QED
  BY <1>1, Inductive, PTL

\* However often callbacks are repeated and whatever fails, a session has an
\* attempt and a token of its own, consumed in time in the call that stored it.
THEOREM SignInsAreSingle == Spec => []OneSessionPerSignIn
<1>1. IInv => OneSessionPerSignIn
  BY DEF IInv
<1> QED
  BY <1>1, Inductive, PTL

\* Rows, revisions and audit events of a session always tell one story.
THEOREM TrailsAreComplete == Spec => []TrailComplete
<1>1. IInv => TrailComplete
  BY DEF IInv
<1> QED
  BY <1>1, Inductive, PTL

\* Nobody is let in outside the life of a session, for any lifetimes.
THEOREM GrantsAreBounded == Spec => []GrantsWithinLife
<1>1. IInv => GrantsWithinLife
  BY DEF IInv
<1> QED
  BY <1>1, Inductive, PTL

-----------------------------------------------------------------------------
\* What a step may do to a session that exists: end it once, and nothing else.
SessionStep ==
    \A s \in Session :
        /\ sessions[s].state \in {"REVOKED", "EXPIRED"} => sessions'[s] = sessions[s]
        /\ sessions[s].state = "ACTIVE" =>
              [sessions'[s] EXCEPT !.state = "ACTIVE", !.version = 1] = sessions[s]

\* An active row, and one that was active until it ended, is the row it began as.
LEMMA RowAsBegun ==
    ASSUME NEW row \in SessionType, row.state = "ACTIVE", row.version = 1,
           NEW state \in {"REVOKED", "EXPIRED"}
    PROVE  /\ [row EXCEPT !.state = "ACTIVE", !.version = 1] = row
           /\ [Ended(row, state) EXCEPT !.state = "ACTIVE", !.version = 1] = row
<1>1. [row EXCEPT !.state = "ACTIVE", !.version = 1] = row
  BY DEF SessionType
<1>2. [Ended(row, state) EXCEPT !.state = "ACTIVE", !.version = 1] = row
  BY DEF SessionType, Ended
<1> QED
  BY <1>1, <1>2

\* A session whose row stays is left alone.
LEMMA StaysAsBegun ==
    ASSUME IInv, NEW s \in Session, sessions[s].state = "ACTIVE"
    PROVE  [sessions[s] EXCEPT !.state = "ACTIVE", !.version = 1] = sessions[s]
<1>1. sessions[s] \in SessionType /\ sessions[s].version = 1
  BY DEF IInv, TypeOK, RowsInStep, RowInStep
<1> QED
  BY <1>1, RowAsBegun

\* Every step respects the life of every session.
LEMMA StepIsSessionStep == IInv /\ [Next]_vars => [SessionStep]_vars
<1> SUFFICES ASSUME IInv, Next PROVE SessionStep
  OBVIOUS
<1>1. ASSUME NEW a \in Attempt, NEW t \in Token, NEW s \in Session, NEW shared \in BOOLEAN,
             Complete(a, t, s, shared)
      PROVE  SessionStep
  <2>1. /\ sessions[s].state = "ABSENT"
        /\ \A r \in Session : r # s => sessions'[r] = sessions[r]
    BY <1>1 DEF Complete, IInv, TypeOK
  <2> QED
    BY <2>1, StaysAsBegun DEF SessionStep
<1>2. ASSUME NEW s \in Session, NEW state \in {"REVOKED", "EXPIRED"}, Transition(s, state)
      PROVE  SessionStep
  <2>1. /\ sessions[s].state = "ACTIVE" /\ sessions[s].version = 1
        /\ sessions' = sessions \/ sessions' = [sessions EXCEPT ![s] = Ended(@, state)]
        /\ sessions[s] \in SessionType
    BY <1>2 DEF Transition, Endable, IInv, RowsInStep, RowInStep, TypeOK
  <2>2. /\ \A r \in Session : r # s => sessions'[r] = sessions[r]
        /\ sessions'[s] = sessions[s] \/ sessions'[s] = Ended(sessions[s], state)
    BY <2>1 DEF IInv, TypeOK
  <2>3. [sessions'[s] EXCEPT !.state = "ACTIVE", !.version = 1] = sessions[s]
    <3>1. /\ [sessions[s] EXCEPT !.state = "ACTIVE", !.version = 1] = sessions[s]
          /\ [Ended(sessions[s], state) EXCEPT !.state = "ACTIVE", !.version = 1] = sessions[s]
      BY <2>1, RowAsBegun
    <3> QED
      BY <2>2, <3>1
  <2> QED
    BY <2>1, <2>2, <2>3, StaysAsBegun DEF SessionStep
<1>3. CASE UNCHANGED sessions
  BY <1>3, StaysAsBegun DEF SessionStep
<1> QED
  BY <1>1, <1>2, <1>3
     DEF Next, Begin, IssueToken, CompleteRefused, CompleteUnaudited, Authenticate,
         AuthenticateLate, Revoke, FailNextAudit, RevokeKey, Tick

\* An ended session stays ended, and no request moves a session's limits.
THEOREM EndsAreFinal == Spec => EndedForGood
BY Inductive, StepIsSessionStep, PTL DEF Spec, EndedForGood, SessionStep
=============================================================================

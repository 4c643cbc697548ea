---------------------------- MODULE AuthSession ----------------------------
(***************************************************************************)
(* Signing in and staying signed in: InMemorySessionStore with             *)
(* beginAuthorization, completeAuthorization and the admission of an ID    *)
(* token.  A browser opens an authorization attempt, the identity provider *)
(* issues a token for the attempt's nonce, and the callback exchanges both *)
(* for a session with an absolute and an idle end.                         *)
(*                                                                         *)
(* Every call runs to completion in one event-loop turn, so it is one      *)
(* action.  A call that throws may have changed something before: an       *)
(* attempt is consumed before its token is looked at, and a token is       *)
(* remembered before the session is stored, which the audit append may     *)
(* still refuse.  Secrets are abstracted to what they identify: the state, *)
(* nonce and verifier to their attempt, the cookie to its session, the     *)
(* jti and the admission digest to their token.                            *)
(***************************************************************************)
EXTENDS Integers, Sequences, FiniteSets

CONSTANTS
    Attempt,           \* authorization attempts
    Token,             \* ID tokens, each with a jti of its own
    Session,           \* sessions
    None,
    AttemptSeconds,    \* life of an attempt: 600 in the code
    AbsoluteSeconds,   \* longest life of a session: 28800 in the code
    IdleSeconds,       \* idle time of a session: 1800 in the code
    Skew,              \* clockSkewSeconds of the issuer's binding
    MaxLifetime,       \* maximumTokenLifetimeSeconds of the issuer's binding
    ReplayLimit,       \* tokens a replay store remembers: 4096 in the code
    Lifetime,          \* lifetimes the provider gives its tokens
    MaxTime,           \* bound: the clock stops at MaxTime
    MaxAuditFailures   \* bound: audit appends that fail

ASSUME LimitAssumption ==
    /\ AttemptSeconds \in Nat \ {0} /\ AbsoluteSeconds \in Nat \ {0}
    /\ IdleSeconds \in Nat \ {0} /\ Skew \in Nat /\ MaxLifetime \in Nat
    /\ ReplayLimit \in Nat /\ Lifetime \subseteq Nat
    /\ MaxTime \in Nat \ {0} /\ MaxAuditFailures \in Nat
ASSUME NameAssumption == None \notin Attempt /\ None \notin Token

VARIABLES
    attempts,       \* attempt rows
    tokens,         \* what the identity provider has issued
    keyActive,      \* the provider's signing key is ACTIVE in the registry
    used,           \* a replay store that several callbacks are given
    sessions,       \* session rows
    revisions,      \* the revision rows of each session, in order
    audit,          \* the audit events about each session, in order
    auditFailure,   \* the next audit append fails
    failures,       \* how many appends were made to fail
    lastGrant,      \* history: when a session last authenticated a request
    now             \* the server's clock

vars == <<attempts, tokens, keyActive, used, sessions, revisions, audit,
          auditFailure, failures, lastGrant, now>>

-----------------------------------------------------------------------------
\* Rows.  A time of 0 is an empty column.

AttemptRow(state, expiresAt, consumedAt) ==
    [state |-> state, expiresAt |-> expiresAt, consumedAt |-> consumedAt]
NoAttempt == AttemptRow("ABSENT", 0, 0)

TokenRow(nonce, issuedAt, expiresAt) ==
    [nonce |-> nonce, issuedAt |-> issuedAt, expiresAt |-> expiresAt]
NoToken == TokenRow(None, 0, 0)

SessionRow(state, version, token, issuedAt, absolute, idle) ==
    [state |-> state, version |-> version, token |-> token, issuedAt |-> issuedAt,
     absolute |-> absolute, idle |-> idle]
NoSession == SessionRow("ABSENT", 0, None, 0, 0, 0)

Revision(row, at) == [revision |-> row.version, state |-> row.state, at |-> at]
AuditEvent(row) == [version |-> row.version, state |-> row.state]

Min2(a, b) == IF a <= b THEN a ELSE b

-----------------------------------------------------------------------------
\* beginAuthorization.
Begin(a) ==
    /\ attempts[a].state = "ABSENT"
    /\ attempts' = [attempts EXCEPT ![a] = AttemptRow("OPEN", now + AttemptSeconds, 0)]
    /\ UNCHANGED <<tokens, keyActive, used, sessions, revisions, audit, auditFailure,
                   failures, lastGrant, now>>

\* The provider signs the user in and issues a token for the attempt's nonce,
\* by a clock that may be ahead of ours.
IssueToken(t, a, ahead, life) ==
    /\ tokens[t] = NoToken
    /\ attempts[a].state # "ABSENT"
    /\ tokens' = [tokens EXCEPT ![t] = TokenRow(a, now + ahead, now + ahead + life)]
    /\ UNCHANGED <<attempts, keyActive, used, sessions, revisions, audit, auditFailure,
                   failures, lastGrant, now>>

-----------------------------------------------------------------------------
\* completeAuthorization: consume, admit, remember, store.

\* Variant: an attempt may be consumed twice.
ConsumableAgain(a) == attempts[a].state # "ABSENT" /\ attempts[a].expiresAt > now

\* consumeAttempt; the browser that began the attempt supplies its secrets.
Consumable(a) == attempts[a].state = "OPEN" /\ attempts[a].expiresAt > now

Consumed(row) == AttemptRow("CONSUMED", row.expiresAt, now)

\* The time checks of admitIdToken, with nbf the time of issue.
Timely(token) ==
    /\ token.issuedAt <= now + Skew
    /\ token.expiresAt > now - Skew
    /\ token.expiresAt > token.issuedAt
    /\ token.expiresAt - token.issuedAt <= MaxLifetime

\* MemoryReplayStore.use answers true: every call has a store of its own
\* unless it is given one.
Unused(t, shared) == shared => t \notin used /\ Cardinality(used) < ReplayLimit

Admissible(t, a, shared) ==
    /\ tokens[t].nonce = a
    /\ Timely(tokens[t])
    /\ keyActive
    /\ Unused(t, shared)

Remember(t, shared) == used' = IF shared THEN used \union {t} ELSE used

Started(t) ==
    LET absolute == Min2(tokens[t].expiresAt, now + AbsoluteSeconds)
    IN SessionRow("ACTIVE", 1, t, now, absolute, Min2(absolute, now + IdleSeconds))

Complete(a, t, s, shared) ==
    /\ Consumable(a)
    /\ Admissible(t, a, shared)
    /\ ~auditFailure
    /\ sessions[s].state = "ABSENT"
    /\ attempts' = [attempts EXCEPT ![a] = Consumed(@)]
    /\ Remember(t, shared)
    /\ sessions' = [sessions EXCEPT ![s] = Started(t)]
    /\ revisions' = [revisions EXCEPT ![s] = Append(@, Revision(Started(t), now))]
    /\ audit' = [audit EXCEPT ![s] = Append(@, AuditEvent(Started(t)))]
    /\ UNCHANGED <<tokens, keyActive, auditFailure, failures, lastGrant, now>>

\* The token is refused, and the attempt is spent.
CompleteRefused(a, t, shared) ==
    /\ Consumable(a)
    /\ tokens[t] # NoToken
    /\ ~Admissible(t, a, shared)
    /\ attempts' = [attempts EXCEPT ![a] = Consumed(@)]
    /\ UNCHANGED <<tokens, keyActive, used, sessions, revisions, audit, auditFailure,
                   failures, lastGrant, now>>

\* The audit append fails: no session, and both attempt and token are spent.
CompleteUnaudited(a, t, shared) ==
    /\ Consumable(a)
    /\ Admissible(t, a, shared)
    /\ auditFailure
    /\ attempts' = [attempts EXCEPT ![a] = Consumed(@)]
    /\ Remember(t, shared)
    /\ auditFailure' = FALSE
    /\ UNCHANGED <<tokens, keyActive, sessions, revisions, audit, failures, lastGrant, now>>

-----------------------------------------------------------------------------
\* authenticate and transition.

\* Variant: a session that ended may be ended again.
EndableAgain(s) == sessions[s].state # "ABSENT"

Endable(s) == sessions[s].state = "ACTIVE"

\* Variant: the version stays.
EndedUnversioned(row, state) == [row EXCEPT !.state = state]

Ended(row, state) == [row EXCEPT !.state = state, !.version = @ + 1]

\* transition: the row with its revision and its audit event, or nothing.
Transition(s, state) ==
    /\ Endable(s)
    /\ \/ /\ auditFailure
          /\ auditFailure' = FALSE
          /\ UNCHANGED <<sessions, revisions, audit>>
       \/ /\ ~auditFailure
          /\ sessions' = [sessions EXCEPT ![s] = Ended(@, state)]
          /\ revisions' = [revisions EXCEPT ![s] = Append(@, Revision(Ended(sessions[s], state), now))]
          /\ audit' = [audit EXCEPT ![s] = Append(@, AuditEvent(Ended(sessions[s], state)))]
          /\ UNCHANGED auditFailure
    /\ UNCHANGED <<attempts, tokens, keyActive, used, failures, lastGrant, now>>

\* Variant: only the absolute end counts.
OverAbsolute(row) == row.absolute <= now

Over(row) == row.absolute <= now \/ row.idle <= now

\* authenticate with the session's cookie, and its CSRF token where one is
\* asked for.  A request that comes after the end is refused, and the session
\* is marked if the audit lets it.
Authenticate(s) ==
    /\ sessions[s].state = "ACTIVE"
    /\ ~Over(sessions[s])
    /\ lastGrant' = [lastGrant EXCEPT ![s] = now]
    /\ UNCHANGED <<attempts, tokens, keyActive, used, sessions, revisions, audit, auditFailure,
                   failures, now>>

AuthenticateLate(s) ==
    /\ sessions[s].state = "ACTIVE"
    /\ Over(sessions[s])
    /\ Transition(s, "EXPIRED")

\* transition on the user's own request.
Revoke(s) == Transition(s, "REVOKED")

-----------------------------------------------------------------------------
\* The environment.

FailNextAudit ==
    /\ failures < MaxAuditFailures
    /\ auditFailure' = TRUE
    /\ failures' = failures + 1
    /\ UNCHANGED <<attempts, tokens, keyActive, used, sessions, revisions, audit, lastGrant, now>>

RevokeKey ==
    /\ keyActive
    /\ keyActive' = FALSE
    /\ UNCHANGED <<attempts, tokens, used, sessions, revisions, audit, auditFailure, failures,
                   lastGrant, now>>

Tick ==
    /\ now < MaxTime
    /\ now' = now + 1
    /\ UNCHANGED <<attempts, tokens, keyActive, used, sessions, revisions, audit, auditFailure,
                   failures, lastGrant>>

Init ==
    /\ attempts = [a \in Attempt |-> NoAttempt]
    /\ tokens = [t \in Token |-> NoToken]
    /\ keyActive = TRUE
    /\ used = {}
    /\ sessions = [s \in Session |-> NoSession]
    /\ revisions = [s \in Session |-> <<>>]
    /\ audit = [s \in Session |-> <<>>]
    /\ auditFailure = FALSE
    /\ failures = 0
    /\ lastGrant = [s \in Session |-> 0]
    /\ now = 1

Next ==
    \/ \E a \in Attempt : Begin(a)
    \/ \E t \in Token, a \in Attempt, ahead \in 0..(Skew + 1), life \in Lifetime :
          IssueToken(t, a, ahead, life)
    \/ \E a \in Attempt, t \in Token, s \in Session, shared \in BOOLEAN : Complete(a, t, s, shared)
    \/ \E a \in Attempt, t \in Token, shared \in BOOLEAN :
          CompleteRefused(a, t, shared) \/ CompleteUnaudited(a, t, shared)
    \/ \E s \in Session : Authenticate(s) \/ AuthenticateLate(s) \/ Revoke(s)
    \/ FailNextAudit \/ RevokeKey \/ Tick

Spec == Init /\ [][Next]_vars

-----------------------------------------------------------------------------
\* Properties.

AttemptType == [state : {"ABSENT", "OPEN", "CONSUMED"}, expiresAt : Nat, consumedAt : Nat]
TokenType == [nonce : Attempt \union {None}, issuedAt : Nat, expiresAt : Nat]
SessionType == [state : {"ABSENT", "ACTIVE", "REVOKED", "EXPIRED"}, version : Nat,
                token : Token \union {None}, issuedAt : Nat, absolute : Nat, idle : Nat]
RevisionType == [revision : Nat, state : {"ACTIVE", "REVOKED", "EXPIRED"}, at : Nat]
AuditType == [version : Nat, state : {"ACTIVE", "REVOKED", "EXPIRED"}]

\* The shape of every row the session store keeps.
TypeOK ==
    /\ attempts \in [Attempt -> AttemptType]
    /\ tokens \in [Token -> TokenType]
    /\ keyActive \in BOOLEAN
    /\ used \subseteq Token
    /\ sessions \in [Session -> SessionType]
    /\ revisions \in [Session -> Seq(RevisionType)]
    /\ audit \in [Session -> Seq(AuditType)]
    /\ auditFailure \in BOOLEAN
    /\ failures \in Nat
    /\ lastGrant \in [Session -> Nat]
    /\ now \in Nat \ {0}

Existing == {s \in Session : sessions[s].state # "ABSENT"}
AttemptOf(s) == tokens[sessions[s].token].nonce

\* Each session was opened by an attempt and a token of its own: its attempt was
\* consumed in the very call that stored it, before it ran out, and no second
\* session ever comes of that attempt or that token, although a callback may be
\* repeated and completeAuthorization by default gives every call a new replay
\* store.
OneSessionPerSignIn ==
    /\ \A s \in Existing :
          LET row == attempts[AttemptOf(s)]
          IN /\ sessions[s].token \in Token /\ AttemptOf(s) \in Attempt
             /\ row.state = "CONSUMED"
             /\ row.consumedAt = sessions[s].issuedAt
             /\ row.consumedAt < row.expiresAt
    /\ \A s, r \in Existing : AttemptOf(s) = AttemptOf(r) => s = r

TrailTells(row, trail, events) ==
    /\ Len(trail) = row.version /\ Len(events) = row.version
    /\ row.version <= 2
    /\ \A i \in 1..row.version :
          /\ trail[i].revision = i
          /\ trail[i].state = (IF i < row.version THEN "ACTIVE" ELSE row.state)
          /\ trail[i].at >= row.issuedAt
          /\ events[i] = [version |-> i, state |-> trail[i].state]

\* A session's row, its revisions and its audit events tell one story, whichever
\* appends failed in between: version by version, active first and ended at most
\* once, at times that do not go back.
TrailComplete == \A s \in Session : TrailTells(sessions[s], revisions[s], audit[s])

GrantsLive(s) == lastGrant[s] # 0 =>
    /\ lastGrant[s] >= sessions[s].issuedAt
    /\ lastGrant[s] < sessions[s].issuedAt + IdleSeconds
    /\ lastGrant[s] < sessions[s].issuedAt + AbsoluteSeconds
    /\ lastGrant[s] < tokens[sessions[s].token].expiresAt
    /\ sessions[s].state \in {"REVOKED", "EXPIRED"} =>
          lastGrant[s] <= revisions[s][sessions[s].version].at

\* Whoever was let in was let in while the session lived: not before it began,
\* not from its idle or absolute end on, not past the token it came from, and
\* not after it was revoked or marked expired, even if marking failed at first.
GrantsWithinLife == \A s \in Session : GrantsLive(s)

\* An ended session stays as it ended, and no request ever moves the limits of a
\* session or gives it another token.
EndedForGood ==
    [][\A s \in Session :
         /\ sessions[s].state \in {"REVOKED", "EXPIRED"} => sessions'[s] = sessions[s]
         /\ sessions[s].state = "ACTIVE" =>
               [sessions'[s] EXCEPT !.state = "ACTIVE", !.version = 1] = sessions[s]]_vars

\* What a row says of its session: nothing before it was opened, the first
\* version while it is active, limits set when it was opened, no time to come.
RowInStep(s) ==
    /\ sessions[s].state = "ABSENT" => sessions[s] = NoSession /\ lastGrant[s] = 0
    /\ sessions[s].state = "ACTIVE" => sessions[s].version = 1
    /\ sessions[s].state \in {"REVOKED", "EXPIRED"} => sessions[s].version = 2
    /\ sessions[s].issuedAt <= now /\ lastGrant[s] <= now
    /\ sessions[s].state # "ABSENT" =>
          /\ sessions[s].absolute <= sessions[s].issuedAt + AbsoluteSeconds
          /\ sessions[s].absolute <= tokens[sessions[s].token].expiresAt
          /\ sessions[s].idle <= sessions[s].issuedAt + IdleSeconds

RowsInStep == \A s \in Session : RowInStep(s)

\* The inductive invariant behind the proofs.
IInv ==
    /\ TypeOK
    /\ OneSessionPerSignIn
    /\ RowsInStep
    /\ TrailComplete
    /\ GrantsWithinLife
=============================================================================

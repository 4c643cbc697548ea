----------------------------- MODULE ProfilePage -----------------------------
(***************************************************************************)
(* The profile review page in one reviewer's browser, over the store of    *)
(* ProfileLifecycle that others use at the same time.  The page opens a    *)
(* profile by four requests, one after the other, and sends one guarded    *)
(* request per click.  A request reaches the server and its answer reaches *)
(* the page at moments of their own, and a click may come while a profile  *)
(* is still being opened: the buttons of the open profile stay enabled.    *)
(*                                                                         *)
(* A view is what an answer carries.  Its ETag is a digest of it, so it    *)
(* is the view itself.  Every click has an idempotency key of its own, so  *)
(* nothing is ever replayed.  What is shown while a request runs is kept   *)
(* with it as history.                                                     *)
(***************************************************************************)
EXTENDS ProfileLifecycle

CONSTANTS
    Viewer,      \* whose browser it is
    MaxOpenings, \* bound: profiles opened, one at a time
    MaxClicks    \* bound: buttons clicked, one at a time

ASSUME PageAssumption ==
    Viewer \in Actor /\ MaxOpenings \in Nat /\ MaxClicks \in Nat

VARIABLES
    page,       \* what the page shows
    opening,    \* load: the profile being opened and the answer on its way
    click       \* mutate: the request of a button and the answer on its way

pageVars == <<page, opening, click>>
allVars  == <<vars, page, opening, click>>

-----------------------------------------------------------------------------
\* readProfile, readApproval and the ETags they carry.

ProfileView(p) ==
    [of |-> p, state |-> profiles[p].state, revision |-> profiles[p].revision,
     open |-> profiles[p].open, approvalState |-> approvals[p].state,
     approvalRevision |-> approvals[p].revision, bundle |-> bundles[p].state]
NoProfileView ==
    [of |-> None, state |-> "ABSENT", revision |-> 0, open |-> FALSE,
     approvalState |-> "ABSENT", approvalRevision |-> 0, bundle |-> "ABSENT"]

ApprovalView(p) == [of |-> p, state |-> approvals[p].state, revision |-> approvals[p].revision]
NoApprovalView == [of |-> None, state |-> "ABSENT", revision |-> 0]

\* Variant: the approval's ETag is its revision.
ApprovalCurrentByRevision(p, view) == view.revision = approvals[p].revision

ApprovalCurrent(p, view) == view = ApprovalView(p)

ProfileCurrent(p, view) == view = ProfileView(p)

-----------------------------------------------------------------------------
\* The page: the profile, its approval, its bundle, the profile explained, and
\* whether it says that all of it was verified.

Blank == [profile |-> NoProfileView, approval |-> NoApprovalView, bundle |-> None,
          explanation |-> None, busy |-> FALSE, verified |-> FALSE]

Opening(stage, id, loaded, answer, left) ==
    [stage |-> stage, id |-> id, loaded |-> loaded, answer |-> answer, left |-> left]
NotOpening(left) == Opening("idle", None, NoProfileView, NoApprovalView, left)

Click(stage, kind, on, shown, answer, left) ==
    [stage |-> stage, kind |-> kind, on |-> on, shown |-> shown, answer |-> answer, left |-> left]

Refused == [of |-> None]
NotClicked(left) ==
    Click("idle", None, None, [profile |-> NoProfileView, approval |-> NoApprovalView], Refused, left)

PageInit ==
    /\ Init
    /\ page = Blank
    /\ opening = NotOpening(MaxOpenings)
    /\ click = NotClicked(MaxClicks)

-----------------------------------------------------------------------------
\* load.  The approval and the bundle are cleared, the profile stays.
Open(p) ==
    /\ opening.stage = "idle" /\ opening.left > 0
    /\ ~page.busy
    /\ opening' = Opening("profile", p, NoProfileView, NoApprovalView, opening.left - 1)
    /\ page' = [page EXCEPT !.approval = NoApprovalView, !.bundle = None,
                            !.busy = TRUE, !.verified = FALSE]
    /\ UNCHANGED <<vars, click>>

\* The server answers the request that is on its way: getProfile, the approval
\* where there is one, or a refusal.
OpeningServed ==
    /\ \/ /\ opening.stage = "profile"
          /\ opening' = [opening EXCEPT !.stage = "profile answered",
                           !.loaded = IF profiles[opening.id] = NoProfile THEN NoProfileView
                                      ELSE ProfileView(opening.id)]
       \/ /\ opening.stage = "approval"
          /\ opening' = [opening EXCEPT !.stage = "approval answered",
                           !.answer = ApprovalView(opening.id)]
    /\ UNCHANGED <<vars, page, click>>

\* fetchProfile returns; the explanation is asked for next.
ProfileOpened ==
    /\ opening.stage = "profile answered"
    /\ opening.loaded # NoProfileView
    /\ page' = [page EXCEPT !.profile = opening.loaded]
    /\ opening' = [opening EXCEPT !.stage = "explanation"]
    /\ UNCHANGED <<vars, click>>

\* What remains to be fetched is the bundle, where the profile had one; otherwise
\* the page says that all it shows is verified.
Complete(shown) ==
    \/ /\ opening.loaded.bundle # "ABSENT"
       /\ page' = shown
       /\ opening' = [opening EXCEPT !.stage = "bundle"]
    \/ /\ opening.loaded.bundle = "ABSENT"
       /\ page' = [shown EXCEPT !.busy = FALSE, !.verified = TRUE]
       /\ opening' = NotOpening(opening.left)

\* The explanation never changes.  The approval is asked for next where the
\* profile had one.
ExplanationOpened ==
    LET shown == [page EXCEPT !.explanation = opening.id]
    IN /\ opening.stage = "explanation"
       /\ \/ /\ opening.loaded.approvalState # "ABSENT"
             /\ page' = shown
             /\ opening' = [opening EXCEPT !.stage = "approval"]
          \/ opening.loaded.approvalState = "ABSENT" /\ Complete(shown)
       /\ UNCHANGED <<vars, click>>

ApprovalOpened ==
    /\ opening.stage = "approval answered"
    /\ Complete([page EXCEPT !.approval = opening.answer])
    /\ UNCHANGED <<vars, click>>

\* A refusal of the bundle is passed over.
BundleOpened ==
    /\ opening.stage = "bundle"
    /\ \E bundle \in {opening.id, page.bundle} :
          page' = [page EXCEPT !.bundle = bundle, !.busy = FALSE, !.verified = TRUE]
    /\ opening' = NotOpening(opening.left)
    /\ UNCHANGED <<vars, click>>

\* A refusal, or no answer at all.
OpeningFails ==
    /\ opening.stage # "idle"
    /\ page' = [page EXCEPT !.busy = FALSE, !.verified = FALSE]
    /\ opening' = NotOpening(opening.left)
    /\ UNCHANGED <<vars, click>>

-----------------------------------------------------------------------------
\* The buttons.

Offered(kind) ==
    CASE kind = "request"            -> page.profile.state = "PROPOSED" /\ ~page.profile.open
      [] kind \in {"APPROVE", "REJECT"} -> page.profile.of # None /\ page.approval.state = "PENDING"
      [] kind = "lock"               -> /\ page.profile.state = "APPROVAL_PENDING"
                                        /\ page.approval.state = "APPROVED"
      [] kind = "bundle"             -> page.profile.state = "LOCKED" /\ page.profile.bundle = "ABSENT"

Kinds == {"request", "APPROVE", "REJECT", "lock", "bundle"}

\* mutate, with the ETag the page holds: of the approval for a decision, of the
\* profile for everything else.
Press(kind) ==
    /\ click.stage = "idle" /\ click.left > 0
    /\ Offered(kind)
    /\ click' = Click("sent", kind, page.profile.of,
                      [profile |-> page.profile, approval |-> page.approval], Refused, click.left - 1)
    /\ page' = [page EXCEPT !.busy = TRUE, !.verified = FALSE]
    /\ UNCHANGED <<vars, opening>>

Done(answer) ==
    click' = Click("answered", click.kind, click.on, NotClicked(0).shown, answer, click.left)

Authorized(p, kind) ==
    IF kind \in {"APPROVE", "REJECT"} THEN ApprovalCurrent(p, click.shown.approval)
    ELSE ProfileCurrent(p, click.shown.profile)

StoreStep(p, kind) ==
    \/ kind = "request" /\ \E policy \in Policy : RequestApproval(p, Viewer, policy)
    \/ kind \in {"APPROVE", "REJECT"} /\ Decide(p, Viewer, kind)
    \/ kind = "lock" /\ Lock(p)
    \/ kind = "bundle" /\ RequestBundle(p)

\* The request reaches the store and is carried out; the answer of all but a
\* lock carries a view.
ClickServed(p) ==
    /\ click.stage = "sent" /\ click.on = p
    /\ Authorized(p, click.kind)
    /\ StoreStep(p, click.kind)
    /\ Done(IF click.kind \in {"request", "APPROVE", "REJECT"} THEN ApprovalView(p)'
            ELSE [of |-> p])
    /\ UNCHANGED <<page, opening>>

\* A decision that comes too late is refused, and marks the approval expired.
ClickExpires(p) ==
    /\ click.stage = "sent" /\ click.on = p
    /\ click.kind \in {"APPROVE", "REJECT"}
    /\ Authorized(p, click.kind)
    /\ Expire(p)
    /\ Done(Refused)
    /\ UNCHANGED <<page, opening>>

\* The request is refused, or it or its answer is lost.
ClickFails ==
    /\ click.stage # "idle"
    /\ page' = [page EXCEPT !.busy = FALSE, !.verified = FALSE]
    /\ click' = NotClicked(click.left)
    /\ UNCHANGED <<vars, opening>>

\* accept: the answer is shown, and the profile is asked for again.
WithAnswer(shown) ==
    CASE click.kind \in {"request", "APPROVE", "REJECT"} -> [shown EXCEPT !.approval = click.answer]
      [] click.kind = "bundle" -> [shown EXCEPT !.bundle = click.on]
      [] OTHER -> shown

ClickAnswered ==
    /\ click.stage = "answered" /\ click.answer # Refused
    /\ page' = WithAnswer(page)
    /\ click' = [click EXCEPT !.stage = "refresh"]
    /\ UNCHANGED <<vars, opening>>

RefreshServed ==
    /\ click.stage = "refresh"
    /\ click' = [click EXCEPT !.stage = "refreshed", !.answer = ProfileView(click.on)]
    /\ UNCHANGED <<vars, page, opening>>

Refreshed ==
    /\ click.stage = "refreshed"
    /\ page' = [page EXCEPT !.profile = click.answer, !.busy = FALSE, !.verified = FALSE]
    /\ click' = NotClicked(click.left)
    /\ UNCHANGED <<vars, opening>>

-----------------------------------------------------------------------------
OthersStep == Next /\ UNCHANGED pageVars

PageNext ==
    \/ OthersStep
    \/ \E p \in Profile : Open(p)
    \/ OpeningServed \/ ProfileOpened \/ ExplanationOpened \/ ApprovalOpened \/ BundleOpened
    \/ OpeningFails
    \/ \E kind \in Kinds : Press(kind)
    \/ \E p \in Profile : ClickServed(p) \/ ClickExpires(p)
    \/ ClickFails \/ ClickAnswered \/ RefreshServed \/ Refreshed

PageSpec == PageInit /\ [][PageNext]_allVars

-----------------------------------------------------------------------------
\* Properties.

Name == Profile \union {None}
ProfileViewType ==
    [of : Name, state : ProfileStates, revision : Nat, open : BOOLEAN,
     approvalState : ApprovalStates, approvalRevision : Nat, bundle : BundleStates]
ApprovalViewType == [of : Name, state : ApprovalStates, revision : Nat]
PageType ==
    [profile : ProfileViewType, approval : ApprovalViewType, bundle : Name, explanation : Name,
     busy : BOOLEAN, verified : BOOLEAN]
OpeningType ==
    [stage : {"idle", "profile", "profile answered", "explanation", "approval",
              "approval answered", "bundle"},
     id : Name, loaded : ProfileViewType, answer : ApprovalViewType, left : Nat]
ShownType == [profile : ProfileViewType, approval : ApprovalViewType]
AnswerType == ProfileViewType \union ApprovalViewType \union [of : Name]
ClickType ==
    [stage : {"idle", "sent", "answered", "refresh", "refreshed"}, kind : Kinds \union {None},
     on : Name, shown : ShownType, answer : AnswerType, left : Nat]

\* The shape of what the page shows and of the requests on their way, each
\* answer of the shape its request is answered with.
PageTypeOK ==
    /\ page \in PageType
    /\ opening \in OpeningType
    /\ opening.stage # "idle" => opening.id \in Profile
    /\ click \in ClickType
    /\ click.stage = "answered" /\ click.kind \in {"request", "APPROVE", "REJECT"}
          /\ click.answer # Refused => click.answer \in ApprovalViewType
    /\ click.stage = "refreshed" => click.answer \in ProfileViewType

\* A click is on the profile that was shown, which is there.
ClickOnShown ==
    /\ page.profile.of = None => page.profile = NoProfileView
    /\ opening.loaded.of = None => opening.loaded = NoProfileView
    /\ click.stage # "idle" => click.on \in Profile
    /\ click.stage = "sent" => click.on = click.shown.profile.of
    /\ click.stage = "refreshed" => click.answer.of \in Profile

\* The inductive invariant behind the proofs about the page.
PageIInv == IInv /\ PageTypeOK /\ ClickOnShown

InformedStep ==
    click.stage = "sent" /\ click'.stage = "answered" =>
      LET p == click.on
          shown == click.shown
      IN /\ shown.profile.of = p
         /\ IF click.kind \in {"APPROVE", "REJECT"}
              THEN shown.approval = [of |-> p, state |-> "PENDING",
                                     revision |-> 1 + Len(approvals[p].decisions)]
              ELSE /\ shown.profile.revision = profiles[p].revision
                   /\ shown.profile.state = profiles[p].state
         /\ \A q \in Profile \ {p} :
               profiles'[q] = profiles[q] /\ approvals'[q] = approvals[q] /\ locks'[q] = locks[q]

\* What a click does in the store is done to the profile its user saw, and to
\* nothing else: a decision was taken on the approval of that very profile as it
\* was shown and still stands, with every decision before it counted on the page;
\* anything else on the very revision shown.  Profiles opened in between,
\* other reviewers and answers that overtake each other do not change that.
ClicksAreInformed == [][InformedStep]_allVars

\* When the page says that the stored bytes and every immutable binding match
\* the review shown, all it shows is about one profile.
ReviewIsOneProfile ==
    page.verified =>
        /\ page.explanation = page.profile.of
        /\ page.approval.of \in {None, page.profile.of}
        /\ page.bundle \in {None, page.profile.of}
=============================================================================

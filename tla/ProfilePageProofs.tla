------------------------- MODULE ProfilePageProofs -------------------------
(***************************************************************************)
(* Proofs about ProfilePage: the page in one browser over the profile      *)
(* store, for any number of profiles, people, openings and clicks.         *)
(***************************************************************************)
EXTENDS ProfilePage, ProfileLifecycleProofs

\* What a server's answer carries has the shape of a view.
LEMMA ViewTypes ==
    ASSUME TypeOK
    PROVE  /\ NoProfileView \in ProfileViewType /\ NoApprovalView \in ApprovalViewType
           /\ \A p \in Profile : /\ ProfileView(p) \in ProfileViewType /\ ProfileView(p).of = p
                                 /\ ApprovalView(p) \in ApprovalViewType
<1>1. NoProfileView \in ProfileViewType /\ NoApprovalView \in ApprovalViewType
  BY DEF NoProfileView, NoApprovalView, ProfileViewType, ApprovalViewType, Name, ProfileStates,
         ApprovalStates, BundleStates
<1>2. ASSUME NEW p \in Profile
      PROVE  /\ ProfileView(p) \in ProfileViewType /\ ProfileView(p).of = p
             /\ ApprovalView(p) \in ApprovalViewType
  <2>1. /\ profiles[p] \in ProfileType /\ approvals[p] \in ApprovalType
        /\ bundles[p] \in BundleType
    BY DEF TypeOK
  <2>2. ProfileView(p) \in ProfileViewType /\ ProfileView(p).of = p
    BY <2>1 DEF ProfileView, ProfileViewType, Name, ProfileType, ApprovalType, BundleType
  <2>3. ApprovalView(p) \in ApprovalViewType
    BY <2>1 DEF ApprovalView, ApprovalViewType, Name, ApprovalType
  <2> QED
    BY <2>2, <2>3
<1> QED
  BY <1>1, <1>2

-----------------------------------------------------------------------------
\* Whatever the page does, the store takes one of its own steps or none.
LEMMA PageStepIsStoreStep == [PageNext]_allVars => [Next]_vars
<1> SUFFICES ASSUME [PageNext]_allVars PROVE [Next]_vars
  OBVIOUS
<1>1. CASE OthersStep
  BY <1>1 DEF OthersStep
<1>2. ASSUME NEW p \in Profile, ClickServed(p) PROVE Next
  <2>1. PICK kind : StoreStep(p, kind)
    BY <1>2 DEF ClickServed
  <2>2. Viewer \in Actor
    BY PageAssumption
  <2>3. ASSUME NEW policy \in Policy, RequestApproval(p, Viewer, policy) PROVE Next
    <3>1. profiles[p].state = "PROPOSED"
      BY <2>3 DEF RequestApproval
    <3> QED
      BY <2>2, <2>3, <3>1 DEF Next
  <2>4. ASSUME kind \in {"APPROVE", "REJECT"}, Decide(p, Viewer, kind) PROVE Next
    <3>1. UnderReview(p)
      BY <2>4 DEF Decide
    <3> QED
      BY <2>2, <2>4, <3>1 DEF Next
  <2>5. ASSUME Lock(p) \/ RequestBundle(p) PROVE Next
    BY <2>5 DEF Next
  <2> QED
    BY <2>1, <2>3, <2>4, <2>5 DEF StoreStep
<1>3. ASSUME NEW p \in Profile, ClickExpires(p) PROVE Next
  BY <1>3 DEF ClickExpires, Next
<1> QED
  BY <1>1, <1>2, <1>3
     DEF PageNext, Open, OpeningServed, ProfileOpened, ExplanationOpened, ApprovalOpened,
         BundleOpened, OpeningFails, Press, ClickFails, ClickAnswered, RefreshServed, Refreshed,
         allVars

-----------------------------------------------------------------------------
\* Nothing is shown and nothing is on its way at first.
LEMMA PageInitIInv == PageInit => PageIInv
<1> SUFFICES ASSUME PageInit PROVE PageIInv
  OBVIOUS
<1>1. IInv /\ TypeOK
  BY InitIInv DEF PageInit, IInv
<1>2. /\ page = Blank /\ opening = NotOpening(MaxOpenings) /\ click = NotClicked(MaxClicks)
      /\ MaxOpenings \in Nat /\ MaxClicks \in Nat
  BY PageAssumption DEF PageInit
<1>3. NoProfileView \in ProfileViewType /\ NoApprovalView \in ApprovalViewType /\ None \in Name
  BY <1>1, ViewTypes DEF Name
<1>4. page \in PageType /\ page.profile = NoProfileView
  BY <1>2, <1>3 DEF Blank, PageType
<1>5. opening \in OpeningType /\ opening.stage = "idle" /\ opening.loaded = NoProfileView
  BY <1>2, <1>3 DEF NotOpening, Opening, OpeningType
<1>6. click \in ClickType /\ click.stage = "idle"
  <2>1. Refused \in AnswerType
    BY <1>3 DEF Refused, AnswerType
  <2> QED
    BY <1>2, <1>3, <2>1 DEF NotClicked, Click, ClickType, ShownType
<1> QED
  BY <1>1, <1>4, <1>5, <1>6 DEF PageIInv, PageTypeOK, ClickOnShown

\* Steps that leave the clicks alone: opening a profile shows views of
\* profiles that are there.
LEMMA OpeningKeeps ==
    ASSUME PageIInv, IInv', click' = click, page' \in PageType, opening' \in OpeningType,
           opening'.stage # "idle" => opening'.id \in Profile,
           page'.profile.of = None => page'.profile = NoProfileView,
           opening'.loaded.of = None => opening'.loaded = NoProfileView
    PROVE  PageIInv'
BY DEF PageIInv, PageTypeOK, ClickOnShown

LEMMA OpeningActionsKeep ==
    ASSUME PageIInv, IInv',
           \/ \E p \in Profile : Open(p)
           \/ OpeningServed \/ ProfileOpened \/ ExplanationOpened \/ ApprovalOpened
           \/ BundleOpened \/ OpeningFails
    PROVE  PageIInv'
<1>1. /\ TypeOK /\ page \in PageType /\ opening \in OpeningType
      /\ opening.stage # "idle" => opening.id \in Profile
      /\ page.profile.of = None => page.profile = NoProfileView
      /\ opening.loaded.of = None => opening.loaded = NoProfileView
      /\ opening.loaded \in ProfileViewType /\ opening.answer \in ApprovalViewType
      /\ opening.id \in Name /\ opening.left \in Nat
  BY DEF PageIInv, IInv, PageTypeOK, ClickOnShown, OpeningType
<1>2. NoProfileView \in ProfileViewType /\ NoApprovalView \in ApprovalViewType /\ None \in Name
  BY <1>1, ViewTypes DEF Name
<1>3. \A left \in Nat : /\ NotOpening(left) \in OpeningType /\ NotOpening(left).stage = "idle"
                        /\ NotOpening(left).loaded = NoProfileView
  BY <1>2 DEF NotOpening, Opening, OpeningType
<1>4. ASSUME NEW p \in Profile, Open(p) PROVE PageIInv'
  <2>1. page' \in PageType /\ page'.profile = page.profile
    BY <1>1, <1>2, <1>4 DEF Open, PageType
  <2>2. opening' = Opening("profile", p, NoProfileView, NoApprovalView, opening.left - 1)
    BY <1>4 DEF Open
  <2>3. opening.left - 1 \in Nat
    BY <1>1, <1>4 DEF Open
  <2>4. /\ opening' \in OpeningType /\ opening'.id \in Profile
        /\ opening'.loaded = NoProfileView
    BY <1>2, <2>2, <2>3 DEF Opening, OpeningType, Name
  <2> QED
    BY <1>1, <1>4, <2>1, <2>4, OpeningKeeps DEF Open
<1>5. CASE OpeningServed
  <2>1. opening.id \in Profile
    BY <1>1, <1>5 DEF OpeningServed
  <2>2. /\ ProfileView(opening.id) \in ProfileViewType /\ ProfileView(opening.id).of # None
        /\ ApprovalView(opening.id) \in ApprovalViewType
    BY <1>1, <2>1, ViewTypes, ActorAssumption
  <2>3. /\ opening' \in OpeningType /\ opening'.id = opening.id
        /\ opening'.loaded.of = None => opening'.loaded = NoProfileView
    <3>1. CASE opening.stage = "profile"
      <4>1. PICK view \in {NoProfileView, ProfileView(opening.id)} :
               opening' = [opening EXCEPT !.stage = "profile answered", !.loaded = view]
        BY <1>5, <3>1 DEF OpeningServed
      <4> QED
        BY <1>1, <1>2, <2>2, <4>1 DEF OpeningType
    <3>2. CASE opening.stage = "approval"
      BY <1>1, <1>5, <2>2, <3>2 DEF OpeningServed, OpeningType
    <3> QED
      BY <1>5, <3>1, <3>2 DEF OpeningServed
  <2> QED
    BY <1>1, <1>5, <2>1, <2>3, OpeningKeeps DEF OpeningServed
<1>6. CASE ProfileOpened
  <2>1. page' \in PageType /\ page'.profile = opening.loaded /\ opening.loaded # NoProfileView
    BY <1>1, <1>6 DEF ProfileOpened, PageType
  <2>2. /\ opening' \in OpeningType /\ opening'.id = opening.id
        /\ opening'.loaded = opening.loaded /\ opening.id \in Profile
    BY <1>1, <1>6 DEF ProfileOpened, OpeningType
  <2> QED
    BY <1>1, <1>6, <2>1, <2>2, OpeningKeeps DEF ProfileOpened
<1>7. ASSUME NEW shown \in PageType, shown.profile = page.profile, Complete(shown),
             opening.stage # "idle", click' = click
      PROVE  PageIInv'
  <2>1. page' \in PageType /\ page'.profile = page.profile
    BY <1>7 DEF Complete, PageType
  <2>2. \/ opening' = NotOpening(opening.left)
        \/ opening' = [opening EXCEPT !.stage = "bundle"]
    BY <1>7 DEF Complete
  <2>3. /\ opening' \in OpeningType
        /\ opening'.stage # "idle" => opening'.id \in Profile
        /\ opening'.loaded.of = None => opening'.loaded = NoProfileView
    BY <1>1, <1>3, <1>7, <2>2 DEF OpeningType
  <2> QED
    BY <1>1, <1>7, <2>1, <2>3, OpeningKeeps
<1>8. CASE ExplanationOpened
  <2> DEFINE shown == [page EXCEPT !.explanation = opening.id]
  <2>1. shown \in PageType /\ shown.profile = page.profile
    BY <1>1 DEF PageType
  <2>2. CASE page' = shown /\ opening' = [opening EXCEPT !.stage = "approval"]
    <3>1. /\ opening' \in OpeningType /\ opening'.id = opening.id
          /\ opening'.loaded = opening.loaded /\ opening.id \in Profile
      BY <1>1, <1>8, <2>2 DEF ExplanationOpened, OpeningType
    <3> QED
      BY <1>1, <1>8, <2>1, <2>2, <3>1, OpeningKeeps DEF ExplanationOpened
  <2>3. CASE Complete(shown)
    BY <1>7, <1>8, <2>1, <2>3 DEF ExplanationOpened
  <2> QED
    BY <1>8, <2>2, <2>3 DEF ExplanationOpened
<1>9. CASE ApprovalOpened
  <2> DEFINE shown == [page EXCEPT !.approval = opening.answer]
  <2>1. shown \in PageType /\ shown.profile = page.profile
    BY <1>1 DEF PageType
  <2> QED
    BY <1>7, <1>9, <2>1 DEF ApprovalOpened
<1>10. CASE BundleOpened \/ OpeningFails
  <2>1. page' \in PageType /\ page'.profile = page.profile
    BY <1>1, <1>10 DEF BundleOpened, OpeningFails, PageType
  <2>2. opening' = NotOpening(opening.left) /\ click' = click
    BY <1>10 DEF BundleOpened, OpeningFails
  <2> QED
    BY <1>1, <1>3, <2>1, <2>2, OpeningKeeps
<1> QED
  BY <1>4, <1>5, <1>6, <1>8, <1>9, <1>10

-----------------------------------------------------------------------------
\* Steps of a click leave the opening of profiles alone.
LEMMA ClickKeeps ==
    ASSUME PageIInv, IInv', opening' = opening, page' \in PageType, click' \in ClickType,
           page'.profile.of = None => page'.profile = NoProfileView,
           click'.stage # "idle" => click'.on \in Profile,
           click'.stage = "sent" => click'.on = click'.shown.profile.of,
           click'.stage = "answered" /\ click'.kind \in {"request", "APPROVE", "REJECT"}
             /\ click'.answer # Refused => click'.answer \in ApprovalViewType,
           click'.stage = "refreshed" =>
             click'.answer \in ProfileViewType /\ click'.answer.of \in Profile
    PROVE  PageIInv'
BY DEF PageIInv, PageTypeOK, ClickOnShown

\* A button is offered for a profile that is shown.
LEMMA OfferedShown ==
    ASSUME PageIInv, NEW kind \in Kinds, Offered(kind)
    PROVE  page.profile.of \in Profile
<1>1. page.profile.of = None => page.profile = NoProfileView
  BY DEF PageIInv, ClickOnShown
<1>2. NoProfileView.state = "ABSENT"
  BY DEF NoProfileView
<1>3. page.profile.of \in Name
  BY DEF PageIInv, PageTypeOK, PageType, ProfileViewType
<1> QED
  BY <1>1, <1>2, <1>3 DEF Offered, Kinds, Name

\* The answer to a click, wherever it comes from.
LEMMA DoneKeeps ==
    ASSUME PageIInv, IInv', opening' = opening, page' = page, click.stage = "sent",
           NEW answer \in AnswerType, Done(answer),
           click.kind \in {"request", "APPROVE", "REJECT"} /\ answer # Refused =>
             answer \in ApprovalViewType
    PROVE  PageIInv'
<1>1. click \in ClickType /\ click.on \in Profile /\ page \in PageType
      /\ (page.profile.of = None => page.profile = NoProfileView)
  BY DEF PageIInv, PageTypeOK, ClickOnShown
<1>2. NotClicked(0).shown \in ShownType
  <2>1. TypeOK
    BY DEF PageIInv, IInv
  <2> QED
    BY <2>1, ViewTypes DEF NotClicked, Click, ShownType
<1>3. /\ click' \in ClickType /\ click'.stage = "answered" /\ click'.on = click.on
      /\ click'.kind = click.kind /\ click'.answer = answer
  BY <1>1, <1>2 DEF Done, Click, ClickType
<1> QED
  BY <1>1, <1>3, ClickKeeps

LEMMA ClickActionsKeep ==
    ASSUME PageIInv, IInv',
           \/ \E kind \in Kinds : Press(kind)
           \/ \E p \in Profile : ClickServed(p) \/ ClickExpires(p)
           \/ ClickFails \/ ClickAnswered \/ RefreshServed \/ Refreshed
    PROVE  PageIInv'
<1>1. /\ TypeOK /\ TypeOK' /\ page \in PageType /\ click \in ClickType
      /\ page.profile.of = None => page.profile = NoProfileView
      /\ click.stage # "idle" => click.on \in Profile
      /\ page.profile \in ProfileViewType /\ page.approval \in ApprovalViewType
      /\ click.left \in Nat /\ click.on \in Name
  BY DEF PageIInv, IInv, PageTypeOK, ClickOnShown, PageType, ClickType
<1>2. NoProfileView \in ProfileViewType /\ NoApprovalView \in ApprovalViewType /\ None \in Name
  BY <1>1, ViewTypes DEF Name
<1>3. Refused \in AnswerType /\ \A p \in Profile : [of |-> p] \in AnswerType
  BY <1>2 DEF Refused, AnswerType, Name
<1>4. \A left \in Nat : NotClicked(left) \in ClickType /\ NotClicked(left).stage = "idle"
  BY <1>2, <1>3 DEF NotClicked, Click, ClickType, ShownType
<1>5. ASSUME NEW kind \in Kinds, Press(kind) PROVE PageIInv'
  <2> DEFINE shown == [profile |-> page.profile, approval |-> page.approval]
  <2>1. page.profile.of \in Profile
    BY <1>5, OfferedShown DEF Press
  <2>2. click' = Click("sent", kind, page.profile.of, shown, Refused, click.left - 1)
    BY <1>5 DEF Press
  <2>3. shown \in ShownType /\ shown.profile = page.profile
    BY <1>1 DEF ShownType
  <2>4. click.left - 1 \in Nat
    BY <1>1, <1>5 DEF Press
  <2> HIDE DEF shown
  <2>5. /\ click' \in ClickType /\ click'.stage = "sent" /\ click'.on \in Profile
        /\ click'.on = click'.shown.profile.of
    BY <1>3, <2>1, <2>2, <2>3, <2>4 DEF Click, ClickType, Name
  <2>6. page' \in PageType /\ page'.profile = page.profile
    BY <1>1, <1>5 DEF Press, PageType
  <2> QED
    BY <1>1, <1>5, <2>5, <2>6, ClickKeeps DEF Press
<1>6. ASSUME NEW p \in Profile, ClickServed(p) PROVE PageIInv'
  <2>1. ApprovalView(p)' \in ApprovalViewType
    <3>1. approvals'[p] \in ApprovalType
      BY <1>1 DEF TypeOK
    <3> QED
      BY <3>1 DEF ApprovalView, ApprovalViewType, Name, ApprovalType
  <2>2. PICK answer : /\ Done(answer)
                      /\ answer = IF click.kind \in {"request", "APPROVE", "REJECT"}
                                    THEN ApprovalView(p)' ELSE [of |-> p]
    BY <1>6 DEF ClickServed
  <2>3. answer \in AnswerType
    BY <1>3, <2>1, <2>2 DEF AnswerType
  <2> QED
    BY <1>6, <2>1, <2>2, <2>3, DoneKeeps DEF ClickServed
<1>7. ASSUME NEW p \in Profile, ClickExpires(p) PROVE PageIInv'
  BY <1>3, <1>7, DoneKeeps DEF ClickExpires
<1>8. CASE ClickFails
  <2>1. page' \in PageType /\ page'.profile = page.profile
    BY <1>1, <1>8 DEF ClickFails, PageType
  <2> QED
    BY <1>1, <1>4, <1>8, <2>1, ClickKeeps DEF ClickFails
<1>9. CASE ClickAnswered
  <2>1. page' \in PageType /\ page'.profile = page.profile
    <3>1. click.kind \in {"request", "APPROVE", "REJECT"} => click.answer \in ApprovalViewType
      BY <1>9 DEF ClickAnswered, PageIInv, PageTypeOK
    <3>2. \/ page' = page
          \/ page' = [page EXCEPT !.bundle = click.on]
          \/ /\ click.answer \in ApprovalViewType
             /\ page' = [page EXCEPT !.approval = click.answer]
      BY <1>9, <3>1 DEF ClickAnswered, WithAnswer
    <3> QED
      BY <1>1, <3>2 DEF PageType
  <2>2. click' \in ClickType /\ click'.stage = "refresh" /\ click'.on = click.on
    BY <1>1, <1>9 DEF ClickAnswered, ClickType
  <2> QED
    BY <1>1, <1>9, <2>1, <2>2, ClickKeeps DEF ClickAnswered
<1>10. CASE RefreshServed
  <2>1. click.on \in Profile
    BY <1>1, <1>10 DEF RefreshServed
  <2>2. ProfileView(click.on) \in ProfileViewType /\ ProfileView(click.on).of = click.on
    BY <1>1, <2>1, ViewTypes
  <2>3. ProfileView(click.on) \in AnswerType
    BY <2>2 DEF AnswerType
  <2>4. click' = [click EXCEPT !.stage = "refreshed", !.answer = ProfileView(click.on)]
    BY <1>10 DEF RefreshServed
  <2>5. /\ click' \in ClickType /\ click'.stage = "refreshed" /\ click'.on = click.on
        /\ click'.answer = ProfileView(click.on)
    BY <1>1, <2>3, <2>4 DEF ClickType
  <2> QED
    BY <1>1, <1>10, <2>1, <2>2, <2>5, ClickKeeps DEF RefreshServed
<1>11. CASE Refreshed
  <2>1. click.answer \in ProfileViewType /\ click.answer.of \in Profile
    BY <1>11 DEF Refreshed, PageIInv, PageTypeOK, ClickOnShown
  <2>2. page' \in PageType /\ page'.profile = click.answer
    BY <1>1, <1>11, <2>1 DEF Refreshed, PageType
  <2>3. page'.profile.of # None
    BY <2>1, <2>2, ActorAssumption
  <2> QED
    BY <1>1, <1>4, <1>11, <2>2, <2>3, ClickKeeps DEF Refreshed
<1> QED
  BY <1>5, <1>6, <1>7, <1>8, <1>9, <1>10, <1>11

-----------------------------------------------------------------------------
\* Every step of the page and of everybody else keeps the inductive invariant.
LEMMA PageNextKeeps == PageIInv /\ [PageNext]_allVars => PageIInv'
<1> SUFFICES ASSUME PageIInv, [PageNext]_allVars PROVE PageIInv'
  OBVIOUS
<1>1. IInv'
  BY PageStepIsStoreStep, NextKeeps DEF PageIInv
<1>2. CASE OthersStep \/ UNCHANGED allVars
  BY <1>1, <1>2 DEF OthersStep, pageVars, allVars, PageIInv, PageTypeOK, ClickOnShown
<1> QED
  BY <1>1, <1>2, OpeningActionsKeep, ClickActionsKeep DEF PageNext

\* So it holds always.
LEMMA PageInductive == PageSpec => []PageIInv
BY PageInitIInv, PageNextKeeps, PTL DEF PageSpec

\* The page shows, sends and is answered only what has the shape of a view.
THEOREM PageTypeCorrect == PageSpec => []PageTypeOK
<1>1. PageIInv => PageTypeOK
  BY DEF PageIInv
<1> QED
  BY <1>1, PageInductive, PTL

\* The store under the page is the store of ProfileLifecycle.
THEOREM PageImplementsStore == PageSpec => Spec
<1>1. PageInit => Init
  BY DEF PageInit
<1> QED
  BY <1>1, PageStepIsStoreStep, PTL DEF PageSpec, Spec

-----------------------------------------------------------------------------
\* What the store does for a click it does to one profile.
LEMMA StoreStepOnOne ==
    ASSUME TypeOK, NEW p \in Profile, (\E kind : StoreStep(p, kind)) \/ Expire(p)
    PROVE  \A q \in Profile \ {p} :
              profiles'[q] = profiles[q] /\ approvals'[q] = approvals[q] /\ locks'[q] = locks[q]
<1>1. ASSUME NEW policy, RequestApproval(p, Viewer, policy)
      PROVE  \A q \in Profile \ {p} :
                profiles'[q] = profiles[q] /\ approvals'[q] = approvals[q] /\ locks'[q] = locks[q]
  BY <1>1 DEF RequestApproval, TypeOK
<1>2. ASSUME NEW kind, Decide(p, Viewer, kind)
      PROVE  \A q \in Profile \ {p} :
                profiles'[q] = profiles[q] /\ approvals'[q] = approvals[q] /\ locks'[q] = locks[q]
  BY <1>2 DEF Decide, TypeOK
<1>3. CASE Lock(p) \/ RequestBundle(p) \/ Expire(p)
  BY <1>3 DEF Lock, RequestBundle, Expire, TypeOK
<1> QED
  BY <1>1, <1>2, <1>3 DEF StoreStep

\* A click that is carried out was authorized by the view that was shown.
LEMMA AuthorizedIsInformed ==
    ASSUME PageIInv, NEW p \in Profile, click.stage = "sent", click.on = p,
           Authorized(p, click.kind),
           StoreStep(p, click.kind) \/ (click.kind \in {"APPROVE", "REJECT"} /\ Expire(p))
    PROVE  InformedStep
<1>1. TypeOK /\ click.shown.profile.of = p
  BY DEF PageIInv, IInv, ClickOnShown
<1>2. \A q \in Profile \ {p} :
         profiles'[q] = profiles[q] /\ approvals'[q] = approvals[q] /\ locks'[q] = locks[q]
  BY <1>1, StoreStepOnOne
<1>3. CASE click.kind \in {"APPROVE", "REJECT"}
  <2>1. approvals[p].state = "PENDING"
    BY <1>3 DEF StoreStep, Decide, Expire, UnderReview
  <2>2. approvals[p].revision = 1 + Len(approvals[p].decisions)
    BY <2>1 DEF PageIInv, IInv, Sound, SoundApproval
  <2>3. click.shown.approval = ApprovalView(p)
    BY <1>3 DEF Authorized, ApprovalCurrent
  <2>4. click.shown.approval = [of |-> p, state |-> "PENDING",
                                revision |-> 1 + Len(approvals[p].decisions)]
    BY <2>1, <2>2, <2>3 DEF ApprovalView
  <2> QED
    BY <1>1, <1>2, <1>3, <2>4 DEF InformedStep
<1>4. CASE click.kind \notin {"APPROVE", "REJECT"}
  <2>1. click.shown.profile = ProfileView(p)
    BY <1>4 DEF Authorized, ProfileCurrent
  <2>2. /\ click.shown.profile.revision = profiles[p].revision
        /\ click.shown.profile.state = profiles[p].state
    BY <2>1 DEF ProfileView
  <2> QED
    BY <1>1, <1>2, <1>4, <2>2 DEF InformedStep
<1> QED
  BY <1>3, <1>4

\* No other step answers a click with an effect.
LEMMA StepIsInformed == PageIInv /\ [PageNext]_allVars => [InformedStep]_allVars
<1> SUFFICES ASSUME PageIInv, PageNext, click.stage = "sent", click'.stage = "answered"
             PROVE  InformedStep
  BY DEF InformedStep
<1>1. ASSUME NEW p \in Profile, ClickServed(p) \/ ClickExpires(p) PROVE InformedStep
  <2>1. Authorized(p, click.kind) /\ click.on = p
    BY <1>1 DEF ClickServed, ClickExpires
  <2>2. StoreStep(p, click.kind) \/ (click.kind \in {"APPROVE", "REJECT"} /\ Expire(p))
    BY <1>1 DEF ClickServed, ClickExpires
  <2> QED
    BY <2>1, <2>2, AuthorizedIsInformed
<1>2. CASE UNCHANGED click
  BY <1>2
<1>3. CASE (\E kind \in Kinds : Press(kind)) \/ ClickAnswered \/ RefreshServed \/ Refreshed
  BY <1>3 DEF Press, ClickAnswered, RefreshServed, Refreshed
<1>4. CASE ClickFails
  BY <1>4 DEF ClickFails, NotClicked, Click
<1> QED
  BY <1>1, <1>2, <1>3, <1>4
     DEF PageNext, OthersStep, pageVars, Open, OpeningServed, ProfileOpened, ExplanationOpened,
         ApprovalOpened, BundleOpened, OpeningFails

\* Whatever profiles are opened meanwhile and whoever else decides, a click does
\* what its user was shown, to the profile that was shown.
THEOREM ClicksStayInformed == PageSpec => ClicksAreInformed
BY PageInductive, StepIsInformed, PTL DEF PageSpec, ClicksAreInformed
=============================================================================

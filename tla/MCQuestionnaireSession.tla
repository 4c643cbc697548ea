----------------------- MODULE MCQuestionnaireSession -----------------------
\* Instances of QuestionnaireSession for TLC.
EXTENDS QuestionnaireSession, TLC

CONSTANTS q1, q2

\* One question in each of two stages.
MCStageOf == q1 :> 1 @@ q2 :> 2

\* An answer and its removal.
MCAnswerSet ==
    {[stage |-> 1, answers |-> q1 :> "x"], [stage |-> 1, answers |-> q1 :> "empty"]}

Symmetry == Permutations(Client) \union Permutations(Key)
=============================================================================

------------------------- MODULE OperationLifecycle -------------------------
(***************************************************************************)
(* What the control plane promises about a long-running operation,         *)
(* whoever advances it: the operation table of migration 004 with its row  *)
(* checks and its transition trigger, and the transition table the web     *)
(* control plane keeps for the same rows.  A row is created PENDING at     *)
(* version 1; afterwards it only moves along Legal, one version at a time, *)
(* never back in time, and carries a result exactly when it SUCCEEDED.     *)
(***************************************************************************)
EXTENDS Integers

CONSTANTS Operation,      \* identities of operations
          NoResult        \* the empty result_refs

VARIABLE operations

OperationStates ==
    {"PENDING", "RUNNING", "CANCELLING", "SUCCEEDED", "FAILED", "CANCELLED"}

Terminal == {"SUCCEEDED", "FAILED", "CANCELLED"}

Legal == [ABSENT     |-> {"PENDING"},
          PENDING    |-> {"RUNNING", "CANCELLED"},
          RUNNING    |-> {"SUCCEEDED", "FAILED", "CANCELLING"},
          CANCELLING |-> {"CANCELLED", "FAILED"},
          SUCCEEDED  |-> {}, FAILED |-> {}, CANCELLED |-> {}]

NoOperation == [state |-> "ABSENT", version |-> 0, updatedAt |-> 0, result |-> NoResult]

OpInit == operations = [o \in Operation |-> NoOperation]

\* The INSERT of a new operation row.
OpCreate(o, now) ==
    /\ operations[o].state = "ABSENT"
    /\ operations' = [operations EXCEPT ![o] =
            [state |-> "PENDING", version |-> 1, updatedAt |-> now, result |-> NoResult]]

\* An UPDATE that guard_operation_transition and the row checks admit.
OpAdvance(o, next, now, result) ==
    /\ operations[o].state # "ABSENT"
    /\ next \in Legal[operations[o].state]
    /\ now >= operations[o].updatedAt
    /\ (next = "SUCCEEDED") \/ (result = NoResult)
    /\ operations' = [operations EXCEPT ![o] =
            [state |-> next, version |-> operations[o].version + 1,
             updatedAt |-> now, result |-> result]]

\* One operation changes per step, and nothing else about it may move.
OpStep(o) ==
    LET row == operations'[o] IN
    \/ OpCreate(o, row.updatedAt)
    \/ OpAdvance(o, row.state, row.updatedAt, row.result)

OpNext == \E o \in Operation : OpStep(o)

OpSpec == OpInit /\ [][OpNext]_operations
=============================================================================

--------------------------- MODULE TaskSubmission ---------------------------
(***************************************************************************)
(* What the recovery of the batcher may rely on when it hands a batch to   *)
(* create_new_task: batches are submitted one at a time, an Ok means that  *)
(* the transaction of the batch is on chain, an error means nothing (the   *)
(* transaction may be on chain, or get there later), and only after a      *)
(* confirmed cancellation is it certain that the transaction will not be   *)
(* mined any more.  TaskTransaction is shown to implement this.            *)
(***************************************************************************)
CONSTANT Batches

VARIABLES
    outcome,    \* what create_new_task made of each batch
    onChain     \* batches with a createNewTask transaction in a block

taskVars == <<outcome, onChain>>

Outcomes == {"todo", "open", "ok", "failed", "cancelled"}

Init ==
    /\ outcome = [b \in Batches |-> "todo"]
    /\ onChain = {}

Submit(b) ==
    /\ \A c \in Batches : outcome[c] # "open"
    /\ outcome[b] = "todo"
    /\ outcome' = [outcome EXCEPT ![b] = "open"]
    /\ UNCHANGED onChain

Mine(b) ==
    /\ outcome[b] \in {"open", "failed"}
    /\ onChain' = onChain \cup {b}
    /\ UNCHANGED outcome

Succeed(b) ==
    /\ outcome[b] = "open"
    /\ b \in onChain
    /\ outcome' = [outcome EXCEPT ![b] = "ok"]
    /\ UNCHANGED onChain

Fail(b) ==
    /\ outcome[b] = "open"
    /\ outcome' \in {[outcome EXCEPT ![b] = o] : o \in {"failed", "cancelled"}}
    /\ UNCHANGED onChain

Next == \E b \in Batches : Submit(b) \/ Mine(b) \/ Succeed(b) \/ Fail(b)

Spec == Init /\ [][Next]_taskVars
=============================================================================

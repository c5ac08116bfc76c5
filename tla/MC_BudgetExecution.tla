------------------------ MODULE MC_BudgetExecution --------------------------
(* TLC instance of BudgetExecution: controllers compete for one session.    *)
EXTENDS BudgetExecution

ThreeTasks == {[session |-> "s", task |-> t] : t \in {"t", "u", "v"}}
=============================================================================

-------------------------- MODULE AllowableIncrease --------------------------
(***************************************************************************)
(* find_allowable_increase() of helpers.py.  A linear program is the set of *)
(* its basic solutions, each with its objective value and its amount of the *)
(* target variable; the objective is maximised.  The solver is external:    *)
(* it returns an optimal solution, and the same one for the same program.   *)
(***************************************************************************)
EXTENDS Integers

CONSTANTS
    Models,         \* linear programs: sets of [value, amount] records
    step, max_iter,
    None

ASSUME IncreaseAssumption ==
    /\ \A m \in Models : m # {} /\ m \subseteq [value : Int, amount : Int]
    /\ step \in Nat \ {0} /\ max_iter \in Nat
    /\ None \notin Int

VARIABLES
    search_at,  \* "start", "solve", "loop", "check", "returned" or "raised"
    model,      \* the basic solutions of the copy
    objective,  \* what was added to the coefficient of the target variable
    i,
    base_solution, current_solution,
    allowable_increase

searchVars ==
    <<search_at, model, objective, i, base_solution, current_solution, allowable_increase>>

SearchTypeOK ==
    /\ search_at \in {"start", "solve", "loop", "check", "returned", "raised"}
    /\ model \in Models \cup {{}}
    /\ objective \in Int /\ i \in 0 .. max_iter
    /\ {base_solution, current_solution} \subseteq model \cup {None}
    /\ allowable_increase \in Nat \cup {None}

SearchInit ==
    /\ search_at = "start" /\ model = {} /\ objective = 0 /\ i = 0
    /\ base_solution = None /\ current_solution = None
    /\ allowable_increase = None

-----------------------------------------------------------------------------
\* The optimal solutions of the model with an increased coefficient.
Optimal(increase) ==
    {s \in model : \A t \in model :
        t.value + increase * t.amount <= s.value + increase * s.amount}

\* The target variable is one of the model, or not.
Start ==
    /\ search_at = "start"
    /\ \/ model' \in Models /\ search_at' = "solve"
       \/ search_at' = "raised" /\ UNCHANGED model
    /\ UNCHANGED <<objective, i, base_solution, current_solution, allowable_increase>>

SolveBase ==
    /\ search_at = "solve"
    /\ base_solution' \in Optimal(0)
    /\ search_at' = "loop"
    /\ UNCHANGED <<model, objective, i, current_solution, allowable_increase>>

\* One solution of the loop: the objective is updated and the model solved.
Solve ==
    /\ search_at = "loop" /\ i < max_iter
    /\ objective' = objective + i * step
    /\ current_solution' \in IF objective' = 0 THEN {base_solution} ELSE Optimal(objective')
    /\ search_at' = "check"
    /\ UNCHANGED <<model, i, base_solution, allowable_increase>>

Changed ==
    /\ search_at = "check" /\ current_solution # base_solution
    /\ allowable_increase' = i * step
    /\ search_at' = "returned"
    /\ UNCHANGED <<model, objective, i, base_solution, current_solution>>

\* Mutant: the objective is not reset.
Unchanged_NoReset ==
    /\ search_at = "check" /\ current_solution = base_solution
    /\ i' = i + 1
    /\ search_at' = "loop"
    /\ UNCHANGED <<model, objective, base_solution, current_solution, allowable_increase>>

\* The objective is reset.
Unchanged ==
    /\ search_at = "check" /\ current_solution = base_solution
    /\ objective' = objective - i * step
    /\ i' = i + 1
    /\ search_at' = "loop"
    /\ UNCHANGED <<model, base_solution, current_solution, allowable_increase>>

NotFound ==
    /\ search_at = "loop" /\ i = max_iter
    /\ search_at' = "returned"
    /\ UNCHANGED <<model, objective, i, base_solution, current_solution,
                   allowable_increase>>

Returned == search_at \in {"returned", "raised"} /\ UNCHANGED searchVars

SearchNext ==
    Start \/ SolveBase \/ Solve \/ Changed \/ Unchanged \/ NotFound \/ Returned

SearchSpec == SearchInit /\ [][SearchNext]_searchVars

-----------------------------------------------------------------------------
(***************************************************************************)
(* The result is the first step at which another solution is optimal: the   *)
(* base solution still was at every step before, so that each round starts  *)
(* from the original objective, and the allowable increase lies in the last *)
(* step.  None means that it was optimal at every step tried                *)
(* (helpers.py:39-67).                                                      *)
(***************************************************************************)
BracketsIncrease ==
    search_at = "returned" =>
        /\ \A k \in 0 .. max_iter - 1 :
              allowable_increase = None \/ k * step < allowable_increase =>
                  base_solution \in Optimal(k * step)
        /\ allowable_increase # None =>
              Optimal(allowable_increase) \ {base_solution} # {}

(***************************************************************************)
(* helpers.py:18-19: "Returns: allowable_increase (float): The maximum      *)
(* increase in the coefficient without changing the optimal basis."  So the *)
(* base solution is still optimal with the increase that is returned.       *)
(***************************************************************************)
IncreaseKeepsOptimum ==
    search_at = "returned" /\ allowable_increase # None =>
        base_solution \in Optimal(allowable_increase)

=============================================================================

--------------------------- MODULE MCModelBudget ---------------------------
(* Small instances of ModelBudget. *)
EXTENDS ModelBudget, TLC

MCPolicies ==
    {[max_calls |-> 3, max_tokens |-> 9, max_cost |-> NoLimit, max_output_tokens |-> 2],
     [max_calls |-> NoLimit, max_tokens |-> NoLimit, max_cost |-> 7, max_output_tokens |-> 1]}

\* A provider whose price leaves i64 on an overrun, one without prices, one
\* whose worst case already leaves i64, and one whose adapter forwards running
\* counts (Gemini).
MCProviders ==
    {[context_window |-> 2, input_rate |-> 1, output_rate |-> 12, partial_usage |-> FALSE],
     [context_window |-> 3, input_rate |-> 0, output_rate |-> 0, partial_usage |-> FALSE],
     [context_window |-> 1, input_rate |-> 30, output_rate |-> 1, partial_usage |-> FALSE],
     [context_window |-> 2, input_rate |-> 1, output_rate |-> 3, partial_usage |-> TRUE]}

MCRequests == {[bounded |-> TRUE, max_tokens |-> NoLimit],
               [bounded |-> FALSE, max_tokens |-> 1]}

MCUsages == [input : {1, 2}, output : {0, 1, 2}]

CallerSymmetry == Permutations(Callers)
=============================================================================

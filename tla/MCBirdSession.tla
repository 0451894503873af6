---------------------------- MODULE MCBirdSession ----------------------------
(* Two runs of a task with two phases, and a session that is made again.      *)
(* Runs overlap in a-interact, where nothing in the code forbids it.          *)
EXTENDS BirdSession, TLC

BothModes ==
    { [mode |-> "a", ablation |-> FALSE, overlap |-> TRUE],
      [mode |-> "a", ablation |-> TRUE, overlap |-> FALSE],
      [mode |-> "c", ablation |-> FALSE, overlap |-> FALSE],
      [mode |-> "c", ablation |-> TRUE, overlap |-> FALSE] }

RunSymmetry == Permutations(Runs)

\* coin_cost in halves of a coin.
OfficialCost == [execute_sql |-> 2, ask_user |-> 4, submit_sql |-> 6, get_schema |-> 2]

SmallBatches == { <<"get_schema">>, <<"execute_sql">>, <<"submit_sql">>, <<"submit_sql", "ask_user">> }
=============================================================================

-------------------------- MODULE MCEvaluationRunner --------------------------
EXTENDS EvaluationRunner

CONSTANTS t1, t2, h1, h2

\* Both modes of t1 in series; the same run cut down to one of them; two tasks
\* side by side under another configuration hash; and both modes of one task
\* side by side, which validate_same_task_serial refuses.
Resumable ==
    { [list |-> <<<<t1, "c">>, <<t1, "a">>>>, concurrency |-> 1, hash |-> h1],
      [list |-> <<<<t1, "a">>>>, concurrency |-> 1, hash |-> h1],
      [list |-> <<<<t1, "c">>, <<t2, "c">>>>, concurrency |-> 2, hash |-> h2],
      [list |-> <<<<t1, "c">>, <<t1, "a">>>>, concurrency |-> 2, hash |-> h1] }

\* One line of the task list repeated.
Repeated == { [list |-> <<<<t1, "c">>, <<t1, "c">>>>, concurrency |-> 2, hash |-> h1] }
=============================================================================

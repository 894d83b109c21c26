---------------------------- MODULE ParallelLoop ----------------------------
(***************************************************************************)
(* What BatchMaintainer::run_jobs promises to the phases of a batch: a     *)
(* call with `count' tasks executes every task of 0..count-1 exactly once, *)
(* in any order and on any thread, and returns only after all of them have *)
(* been executed.  The pool of worker threads (module JobPool) is shown to *)
(* implement this.                                                         *)
(***************************************************************************)
EXTENDS Integers

CONSTANT Counts         \* the task counts a call may have

VARIABLES
  running,              \* a call is in progress
  count,                \* its number of tasks
  ran                   \* how often each of its tasks has been executed

loopVars == <<running, count, ran>>

Tasks(n) == 0 .. (n - 1)

Init ==
  /\ running = FALSE
  /\ count = 0
  /\ ran = [i \in Tasks(0) |-> 0]

Call(n) ==
  /\ ~running
  /\ running' = TRUE
  /\ count' = n
  /\ ran' = [i \in Tasks(n) |-> 0]

Execute(i) ==
  /\ running
  /\ ran[i] = 0
  /\ ran' = [ran EXCEPT ![i] = 1]
  /\ UNCHANGED <<running, count>>

Return ==
  /\ running
  /\ \A i \in Tasks(count) : ran[i] = 1
  /\ running' = FALSE
  /\ UNCHANGED <<count, ran>>

Next ==
  \/ \E n \in Counts : Call(n)
  \/ \E i \in Tasks(count) : Execute(i)
  \/ Return

Safety == Init /\ [][Next]_loopVars

Progress == \/ \E i \in Tasks(count) : Execute(i)
            \/ Return

Spec == Safety /\ WF_loopVars(Progress)
=============================================================================

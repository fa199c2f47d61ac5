---------------------------- MODULE TaskLifecycle ----------------------------
(***************************************************************************)
(* What a caller of the task queue sees of the tasks it submits, through   *)
(* get_status and wait_for (core/task_queue/queue.py:93-106): a task is    *)
(* pending, then running, then completed or failed, or it is abandoned     *)
(* when it ends with a cancellation.  Tasks start one at a time and in the *)
(* order of their submission; an ended task stays as it is.                *)
(***************************************************************************)
EXTENDS Naturals

CONSTANT Tasks  \* task n is the n-th that is submitted

VARIABLE task   \* task[n]: where task n is

Edges ==
    { <<"new", "pending">>, <<"pending", "running">>,
      <<"running", "completed">>, <<"running", "failed">>,
      <<"running", "abandoned">> }

Moved(n) == task'[n] # task[n]

Init == task = [n \in Tasks |-> "new"]

(* One worker may end a task and start another at once, and several tasks    *)
(* are abandoned at once when the workers are cancelled.                     *)
Next ==
    /\ DOMAIN task' = Tasks
    /\ \A n \in Tasks : Moved(n) => <<task[n], task'[n]>> \in Edges
    /\ \A n \in Tasks : Moved(n) /\ task'[n] \in {"pending", "running"} =>
         \A m \in Tasks : m < n => task[m] # task[n]

Spec == Init /\ [][Next]_task

=============================================================================

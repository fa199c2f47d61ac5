---------------------------- MODULE BatchPromise ----------------------------
(***************************************************************************)
(* What execute_batch promises its caller (core/tool_executor.py:133-173), *)
(* without caches, retries or scheduling: every request of a batch is      *)
(* answered at most once, an answer never changes, the list that is        *)
(* delivered has the answer to request i at position i, and a batch that   *)
(* was delivered or aborted stays as it is.                                *)
(***************************************************************************)
EXTENDS Naturals, Sequences

CONSTANTS
    Batches,    \* calls of execute_batch
    MaxBatch,   \* longest request list
    Answers,    \* the results a request may get
    Pending     \* not an answer

VARIABLES
    phase,      \* phase[b] \in {"idle", "running", "returned", "raised"}
    size,       \* size[b]: the number of requests
    answer,     \* answer[<<b, i>>]: the answer to request i, or Pending
    delivered   \* delivered[b]: the list the caller gets

vars == <<phase, size, answer, delivered>>

Positions(b) == 1..size[b]

Init ==
    /\ phase = [b \in Batches |-> "idle"]
    /\ size = [b \in Batches |-> 0]
    /\ answer = [s \in Batches \X (1..MaxBatch) |-> Pending]
    /\ delivered = [b \in Batches |-> <<>>]

Accept(b, n) ==
    /\ phase[b] = "idle"
    /\ phase' = [phase EXCEPT ![b] = "running"]
    /\ size' = [size EXCEPT ![b] = n]
    /\ UNCHANGED <<answer, delivered>>

Settle(b, i) ==
    /\ phase[b] = "running"
    /\ i \in Positions(b)
    /\ answer[<<b, i>>] = Pending
    /\ answer'[<<b, i>>] \in Answers
    /\ answer' = [answer EXCEPT ![<<b, i>>] = answer'[<<b, i>>]]
    /\ UNCHANGED <<phase, size, delivered>>

Deliver(b) ==
    /\ phase[b] = "running"
    /\ \A i \in Positions(b) : answer[<<b, i>>] # Pending
    /\ phase' = [phase EXCEPT ![b] = "returned"]
    /\ delivered' = [delivered EXCEPT
                       ![b] = [i \in Positions(b) |-> answer[<<b, i>>]]]
    /\ UNCHANGED <<size, answer>>

(* The caller gets an exception; what was pending may be given up. *)
Abort(b) ==
    /\ phase[b] = "running"
    /\ phase' = [phase EXCEPT ![b] = "raised"]
    /\ DOMAIN answer' = DOMAIN answer
    /\ \A s \in DOMAIN answer :
         \/ answer'[s] = answer[s]
         \/ s[1] = b /\ answer[s] = Pending /\ answer'[s] \in Answers
    /\ UNCHANGED <<size, delivered>>

Next ==
    \E b \in Batches :
      \/ \E n \in 0..MaxBatch : Accept(b, n)
      \/ \E i \in 1..MaxBatch : Settle(b, i)
      \/ Deliver(b)
      \/ Abort(b)

Spec == Init /\ [][Next]_vars

=============================================================================

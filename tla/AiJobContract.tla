--------------------------- MODULE AiJobContract ---------------------------
(***************************************************************************)
(* What the job queue promises to the code that submits AI work, without   *)
(* workers, leases, back-off or cancellation checks:                       *)
(*   - a submission is tried at most Limit times and delivers at most one  *)
(*     result, after at least one try;                                     *)
(*   - once it was asked to stop it delivers nothing any more;             *)
(*   - a delivered or cancelled job is final, a failed one changes only    *)
(*     when its owner submits it again.                                    *)
(***************************************************************************)
EXTENDS Integers

CONSTANTS Jobs, Limit

VARIABLES phase,    (* of each job                                         *)
          tries,    (* tries of the current submission                     *)
          results   (* results delivered so far                            *)

vars == <<phase, tries, results>>

Init ==
    /\ phase = [j \in Jobs |-> "none"]
    /\ tries = [j \in Jobs |-> 0]
    /\ results = [j \in Jobs |-> 0]

Submit(j) ==
    /\ phase[j] \in {"none", "failed"}
    /\ phase' = [phase EXCEPT ![j] = "pending"]
    /\ tries' = [tries EXCEPT ![j] = 0]
    /\ UNCHANGED results

Try(j) ==
    /\ phase[j] = "pending"
    /\ tries[j] < Limit
    /\ tries' = [tries EXCEPT ![j] = @ + 1]
    /\ UNCHANGED <<phase, results>>

Deliver(j) ==
    /\ phase[j] = "pending"
    /\ tries[j] > 0
    /\ phase' = [phase EXCEPT ![j] = "delivered"]
    /\ results' = [results EXCEPT ![j] = @ + 1]
    /\ UNCHANGED tries

Fail(j) ==
    /\ phase[j] = "pending"
    /\ tries[j] > 0
    /\ phase' = [phase EXCEPT ![j] = "failed"]
    /\ UNCHANGED <<tries, results>>

(* Stopping may be asked of several jobs at once: those of one PRD.        *)
AskToStop(S) ==
    /\ \A j \in S : phase[j] = "pending"
    /\ phase' = [j \in Jobs |-> IF j \in S THEN "stopping" ELSE phase[j]]
    /\ UNCHANGED <<tries, results>>

Stop(j) ==
    /\ phase[j] \in {"pending", "stopping"}
    /\ phase' = [phase EXCEPT ![j] = "cancelled"]
    /\ UNCHANGED <<tries, results>>

Forget(S) ==
    /\ phase' = [j \in Jobs |-> IF j \in S THEN "none" ELSE phase[j]]
    /\ tries' = [j \in Jobs |-> IF j \in S THEN 0 ELSE tries[j]]
    /\ results' = [j \in Jobs |-> IF j \in S THEN 0 ELSE results[j]]

Next ==
    \/ \E j \in Jobs : Submit(j) \/ Try(j) \/ Deliver(j) \/ Fail(j) \/ Stop(j)
    \/ \E S \in SUBSET Jobs : AskToStop(S) \/ Forget(S)

Spec == Init /\ [][Next]_vars
=============================================================================

---------------------------- MODULE MCAiRequests ----------------------------
(***************************************************************************)
(* A small instance of AiRequests: the coach, the analysis, and diagnoses  *)
(* with their synthesis have nothing to do with each other and are         *)
(* explored apart, the first two with two jobs.  Only there the window of  *)
(* duplicates passes and a job that failed is tried again.                 *)
(***************************************************************************)
EXTENDS AiRequests, TLC

InUse == {jobs[i].feature : i \in DOMAIN jobs}
         \cup {request[t].feature : t \in {u \in Tabs : request[u] # Nothing}}

Apart ==
    /\ \E alone \in {{"chat"}, {"analysis"}, {"evaluation", "synthesis"}} : InUse \subseteq alone
    /\ Cardinality(JobsOf("chat") \cup JobsOf("analysis")) <= 2
    /\ \A i \in JobsOf("evaluation") \cup JobsOf("synthesis") :
         ~jobs[i].stale /\ ~jobs[i].retried /\ jobs[i].status # "cancelled"

Symmetry == Permutations(Tabs) \cup Permutations(Keys) \cup Permutations(Personas)
=============================================================================

---- MODULE JobClaims ----
(***************************************************************************)
(* What claim_next_job promises ("atomically claim the next queued job and *)
(* mark it RUNNING ... without double-claiming the same job") together     *)
(* with the marks, with no transactions, row locks or workers' program     *)
(* counters: a claim is one step, it takes a queued job that nobody is     *)
(* working on, at most 1 + MaxRetries claims of a job are ever made, and   *)
(* only the worker that claimed a job puts it back into the queue.  A mark *)
(* by a task that has claimed nothing may settle the row at any time.      *)
(***************************************************************************)
EXTENDS Integers

CONSTANTS Jobs, Workers, MaxRetries, Nobody

VARIABLES status,    \* status[j]: what the row of job j says
          owner,     \* owner[j]: the worker whose claim of j is in force, or Nobody
          claims     \* claims[j]: how often j has been claimed

jobs == <<status, owner, claims>>

Init ==
    /\ status = [j \in Jobs |-> "absent"]
    /\ owner = [j \in Jobs |-> Nobody]
    /\ claims = [j \in Jobs |-> 0]

Create(j) ==
    /\ status[j] = "absent"
    /\ status' = [status EXCEPT ![j] = "queued"]
    /\ UNCHANGED <<owner, claims>>

Claim(j, w) ==
    /\ status[j] = "queued" /\ owner[j] = Nobody /\ claims[j] <= MaxRetries
    /\ status' = [status EXCEPT ![j] = "running"]
    /\ owner' = [owner EXCEPT ![j] = w]
    /\ claims' = [claims EXCEPT ![j] = @ + 1]

\* The worker that claimed the job reports: done, failed, or to be tried again.
End(j, w, outcome) ==
    /\ owner[j] = w
    /\ status' = [status EXCEPT ![j] = outcome]
    /\ owner' = [owner EXCEPT ![j] = Nobody]
    /\ UNCHANGED claims

\* A task that claimed nothing settles the row, whatever it said.
Settle(j, outcome) ==
    /\ status[j] # "absent"
    /\ status' = [status EXCEPT ![j] = outcome]
    /\ UNCHANGED <<owner, claims>>

\* The worker dies: the row keeps what it says and nobody works on the job.
Abandon(j, w) ==
    /\ owner[j] = w
    /\ owner' = [owner EXCEPT ![j] = Nobody]
    /\ UNCHANGED <<status, claims>>

Next ==
    \E j \in Jobs :
        \/ Create(j)
        \/ \E outcome \in {"completed", "failed"} : Settle(j, outcome)
        \/ \E w \in Workers :
              \/ Claim(j, w)
              \/ \E outcome \in {"completed", "failed", "queued"} : End(j, w, outcome)
              \/ Abandon(j, w)

Spec == Init /\ [][Next]_jobs
====

---- MODULE ScraperJobQueue_proofs ----
(***************************************************************************)
(* Proofs about ScraperJobQueue, for any sets of jobs, pollers, sites and  *)
(* priorities and any retry limit.  The inductive invariant IInv adds to   *)
(* the type invariant what a poller's phase says of the row it holds, that *)
(* a row has one transaction at most that updates it, and that every claim *)
(* but the first is paid for by a failure that was counted.  The           *)
(* refinement of JobClaims rests on it because a job's abstract owner is   *)
(* the poller whose claim has committed, and there is never a second.      *)
(***************************************************************************)
EXTENDS ScraperJobQueue, TLAPS

\* What the phase of poller p says of the job it holds.
HeldJob(p) ==
    /\ poller[p].phase = "idle" <=> poller[p].job = NoJob
    /\ poller[p].phase = "claiming" =>
          /\ status[poller[p].job] = "queued"
          /\ retryCount[poller[p].job] <= MaxRetries
    /\ poller[p].phase \in {"working", "marking"} =>
          status[poller[p].job] \in {"running", "completed", "failed"}
    /\ poller[p].phase = "reporting" =>
          /\ status[poller[p].job] # "absent"
          /\ poller[p].outcome # "queued"

HeldJobs == \A p \in Pollers : HeldJob(p)

\* Poller p has an open transaction that has updated the row of j.
Updates(p, j) == poller[p].job = j /\ poller[p].phase \in {"claiming", "marking", "reporting"}

\* A row is updated by one open transaction at a time.
RowLocks == \A p, q \in Pollers : \A j \in Jobs : Updates(p, j) /\ Updates(q, j) => p = q

\* What the retry counter says of the number of claims.
ClaimsCounted ==
    \A j \in Jobs :
        /\ claims[j] <= retryCount[j] + 1
        /\ status[j] = "queued" => claims[j] <= retryCount[j]
        /\ status[j] = "absent" => claims[j] = 0

IInv == TypeOK /\ OneWorkerPerJob /\ HeldJobs /\ RowLocks /\ ClaimsCounted /\ AttemptsBounded

(* The initial state satisfies the inductive invariant. *)
LEMMA InitIInv == Init => IInv
  BY QueueAssumption
  DEF Init, IInv, TypeOK, OneWorkerPerJob, HeldJobs, HeldJob, RowLocks, ClaimsCounted,
      AttemptsBounded, Holds, Updates, Idle, Statuses, Phases

(* A step of poller p that takes it to a state in which it holds no more   *)
(* than before keeps the exclusions.                                       *)
LEMMA ExclusionKept ==
  ASSUME IInv, NEW p \in Pollers,
         \A q \in Pollers : q # p => poller'[q] = poller[q],
         \A j \in Jobs : Holds(p, j)' => Holds(p, j) \/ \A q \in Pollers : ~Holds(q, j),
         \A j \in Jobs : Updates(p, j)' => Updates(p, j) \/ \A q \in Pollers : ~Updates(q, j)
  PROVE  OneWorkerPerJob' /\ RowLocks'
<1>1. \A q \in Pollers : \A j \in Jobs :
        q # p => (Holds(q, j)' <=> Holds(q, j)) /\ (Updates(q, j)' <=> Updates(q, j))
  BY DEF Holds, Updates
<1>2. OneWorkerPerJob'
  BY <1>1 DEF IInv, OneWorkerPerJob
<1>3. RowLocks'
  BY <1>1 DEF IInv, RowLocks
<1> QED
  BY <1>2, <1>3

(* Who changes no row keeps what is known of the rows and of the jobs the  *)
(* other pollers hold.                                                     *)
LEMMA RowsKept ==
  ASSUME IInv, NEW p \in Pollers, UNCHANGED <<table, claims>>,
         \A q \in Pollers : q # p => poller'[q] = poller[q],
         HeldJob(p)'
  PROVE  HeldJobs' /\ ClaimsCounted' /\ AttemptsBounded'
<1>1. \A q \in Pollers : q # p => HeldJob(q)'
  BY DEF IInv, HeldJobs, HeldJob, table
<1>2. ClaimsCounted' /\ AttemptsBounded'
  BY DEF IInv, ClaimsCounted, AttemptsBounded, table
<1> QED
  BY <1>1, <1>2 DEF HeldJobs

(* Inserting a queued row disturbs no poller, which holds other rows. *)
LEMMA TriggerSiteIInv ==
  ASSUME IInv, NEW j \in Jobs, NEW pr \in Priorities, TriggerSite(j, pr)
  PROVE  IInv'
<1> USE QueueAssumption DEF IInv
<1>1. TypeOK'
  BY DEF TriggerSite, TypeOK, Statuses
<1>2. OneWorkerPerJob' /\ RowLocks'
  BY DEF TriggerSite, OneWorkerPerJob, RowLocks, Holds, Updates
<1>3. HeldJobs'
  <2> SUFFICES ASSUME NEW q \in Pollers PROVE HeldJob(q)'
    BY DEF HeldJobs
  <2>1. poller[q].job # j
    BY DEF TriggerSite, HeldJobs, HeldJob, TypeOK, Phases
  <2> QED
    BY <2>1 DEF TriggerSite, HeldJobs, HeldJob, TypeOK, Phases
<1>4. ClaimsCounted' /\ AttemptsBounded'
  BY DEF TriggerSite, ClaimsCounted, AttemptsBounded, TypeOK
<1> QED
  BY <1>1, <1>2, <1>3, <1>4

(* A claim takes a row that no open transaction has locked, and a row that *)
(* says "queued" is in nobody's hands otherwise.                           *)
LEMMA ClaimIInv ==
  ASSUME IInv, NEW p \in Pollers, NEW scope \in SUBSET Jobs, ClaimNextJob(p, scope)
  PROVE  IInv'
<1> USE QueueAssumption DEF IInv
<1>1. PICK j \in Claimable(scope) :
        poller' = [poller EXCEPT ![p] = [Idle EXCEPT !.phase = "claiming", !.job = j]]
  BY DEF ClaimNextJob
<1>2. /\ j \in Jobs /\ status[j] = "queued" /\ retryCount[j] <= MaxRetries /\ ~Locked(j)
      /\ UNCHANGED <<table, nCreated, crashes, reports, claims>>
  BY DEF ClaimNextJob, Claimable, HasRetriesLeft, Lockable
<1>3. TypeOK'
  BY <1>1, <1>2 DEF TypeOK, Idle, Phases, table
<1>4. /\ poller'[p].job = j /\ poller'[p].phase = "claiming"
      /\ \A q \in Pollers : q # p => poller'[q] = poller[q]
  BY <1>1 DEF Idle, TypeOK
<1>5. \A q \in Pollers : ~Holds(q, j) /\ ~Updates(q, j)
  BY <1>2 DEF Locked, HeldJobs, HeldJob, Holds, Updates
<1>6. OneWorkerPerJob' /\ RowLocks'
  <2>1. \A k \in Jobs : Holds(p, k)' \/ Updates(p, k)' => k = j
    BY <1>4 DEF Holds, Updates
  <2> QED
    BY <1>4, <1>5, <2>1, ExclusionKept
<1>7. HeldJob(p)'
  BY <1>2, <1>4 DEF HeldJob, table
<1>8. HeldJobs' /\ ClaimsCounted' /\ AttemptsBounded'
  BY <1>2, <1>4, <1>7, RowsKept
<1> QED
  BY <1>3, <1>6, <1>8

(* Committing a claim makes the row say "running", for the one poller that *)
(* holds it; the claim it counts is paid for by the retry count.           *)
LEMMA CommitClaimIInv ==
  ASSUME IInv, NEW p \in Pollers, CommitClaim(p)
  PROVE  IInv'
<1> USE QueueAssumption DEF IInv
<1>0. PICK j \in Jobs : j = poller[p].job
  BY DEF CommitClaim, HeldJobs, HeldJob, TypeOK
<1>1. /\ status[j] = "queued" /\ retryCount[j] <= MaxRetries
      /\ poller[p].phase = "claiming"
  BY <1>0 DEF CommitClaim, HeldJobs, HeldJob
<1>2. /\ status' = [status EXCEPT ![j] = "running"]
      /\ claims' = [claims EXCEPT ![j] = @ + 1]
      /\ poller' = [poller EXCEPT ![p].phase = "working"]
      /\ UNCHANGED <<retryCount, priority, createdAt, nCreated, crashes, reports>>
  BY <1>0 DEF CommitClaim
<1>3. TypeOK'
  BY <1>1, <1>2 DEF TypeOK, Statuses, Phases
<1>4. /\ poller'[p].job = j /\ poller'[p].phase = "working"
      /\ \A q \in Pollers : q # p => poller'[q] = poller[q]
  BY <1>0, <1>2 DEF TypeOK
<1>5. OneWorkerPerJob' /\ RowLocks'
  <2>1. \A k \in Jobs : (Holds(p, k)' => Holds(p, k)) /\ ~Updates(p, k)'
    BY <1>0, <1>1, <1>4 DEF Holds, Updates
  <2> QED
    BY <1>4, <2>1, ExclusionKept
<1>6. HeldJobs'
  <2>1. HeldJob(p)'
    BY <1>2, <1>4 DEF HeldJob, TypeOK
  <2>2. ASSUME NEW q \in Pollers, q # p PROVE HeldJob(q)'
    <3>1. CASE poller[q].job = j
      <4>1. poller[q].phase \notin {"claiming", "working", "marking", "reporting"}
        BY <1>0, <1>1, <2>2, <3>1 DEF OneWorkerPerJob, RowLocks, Holds, Updates
      <4> QED
        BY <1>0, <2>2, <3>1, <4>1 DEF HeldJobs, HeldJob, TypeOK, Phases
    <3>2. CASE poller[q].job # j
      <4>1. HeldJob(q) /\ poller'[q] = poller[q] /\ retryCount' = retryCount
        BY <1>2, <1>4, <2>2 DEF HeldJobs
      <4>2. poller[q].phase # "idle" => status'[poller[q].job] = status[poller[q].job]
        BY <1>2, <3>2, <4>1 DEF HeldJob, TypeOK
      <4> QED
        BY <4>1, <4>2 DEF HeldJob
    <3> QED
      BY <3>1, <3>2
  <2> QED
    BY <2>1, <2>2 DEF HeldJobs
<1>7. ClaimsCounted' /\ AttemptsBounded'
  BY <1>1, <1>2 DEF ClaimsCounted, AttemptsBounded, TypeOK
<1> QED
  BY <1>3, <1>5, <1>6, <1>7

(* Writing the report changes only the poller's phase: the row still says  *)
(* what it said to everyone else.                                          *)
LEMMA MarkIInv ==
  ASSUME IInv, NEW p \in Pollers, NEW outcome \in {"completed", "failed", "queued"},
         Mark(p, outcome)
  PROVE  IInv'
<1> USE QueueAssumption DEF IInv
<1>1. /\ poller' = [poller EXCEPT ![p].phase = "marking", ![p].outcome = outcome]
      /\ poller[p].phase = "working" /\ ~Locked(poller[p].job)
      /\ UNCHANGED <<table, nCreated, crashes, reports, claims>>
  BY DEF Mark, Lockable
<1>2. TypeOK'
  BY <1>1 DEF TypeOK, Phases, table
<1>3. /\ poller'[p].job = poller[p].job /\ poller'[p].phase = "marking"
      /\ \A q \in Pollers : q # p => poller'[q] = poller[q]
  BY <1>1 DEF TypeOK
<1>4. OneWorkerPerJob' /\ RowLocks'
  <2>1. \A k \in Jobs : Holds(p, k)' => Holds(p, k)
    BY <1>1, <1>3 DEF Holds
  <2>2. \A k \in Jobs : Updates(p, k)' => \A q \in Pollers : ~Updates(q, k)
    BY <1>1, <1>3 DEF Updates, Locked
  <2> QED
    BY <1>3, <2>1, <2>2, ExclusionKept
<1>5. HeldJob(p)'
  BY <1>1, <1>3 DEF HeldJobs, HeldJob, table
<1>6. HeldJobs' /\ ClaimsCounted' /\ AttemptsBounded'
  BY <1>1, <1>3, <1>5, RowsKept
<1> QED
  BY <1>2, <1>4, <1>6

(* A task that claimed nothing locks the row of a job that exists. *)
LEMMA ReportIInv ==
  ASSUME IInv, NEW p \in Pollers, NEW j \in Jobs, NEW outcome \in {"completed", "failed"},
         Report(p, j, outcome)
  PROVE  IInv'
<1> USE QueueAssumption DEF IInv
<1>1. /\ poller' = [poller EXCEPT
                       ![p] = [phase |-> "reporting", job |-> j, outcome |-> outcome]]
      /\ status[j] # "absent" /\ ~Locked(j)
      /\ reports < MaxReports /\ reports' = reports + 1
      /\ UNCHANGED <<table, nCreated, crashes, claims>>
  BY DEF Report, Lockable
<1>2. TypeOK'
  BY <1>1 DEF TypeOK, Phases, table
<1>3. /\ poller'[p].job = j /\ poller'[p].phase = "reporting"
      /\ poller'[p].outcome = outcome
      /\ \A q \in Pollers : q # p => poller'[q] = poller[q]
  BY <1>1 DEF TypeOK
<1>4. OneWorkerPerJob' /\ RowLocks'
  <2>1. \A k \in Jobs : ~Holds(p, k)'
    BY <1>3 DEF Holds
  <2>2. \A k \in Jobs : Updates(p, k)' => \A q \in Pollers : ~Updates(q, k)
    BY <1>1, <1>3 DEF Updates, Locked
  <2> QED
    BY <1>3, <2>1, <2>2, ExclusionKept
<1>5. HeldJob(p)'
  BY <1>1, <1>3 DEF HeldJob, table
<1>6. HeldJobs' /\ ClaimsCounted' /\ AttemptsBounded'
  BY <1>1, <1>3, <1>5, RowsKept
<1> QED
  BY <1>2, <1>4, <1>6

(* Committing the report: a failure is counted, and the row goes back to   *)
(* the queue only for the poller that had claimed it.                      *)
LEMMA CommitMarkIInv ==
  ASSUME IInv, NEW p \in Pollers, CommitMark(p)
  PROVE  IInv'
<1> USE QueueAssumption DEF IInv
<1>0. PICK j \in Jobs, o \in {"completed", "failed", "queued"} :
        j = poller[p].job /\ o = poller[p].outcome
  BY DEF CommitMark, HeldJobs, HeldJob, TypeOK
<1>1. /\ poller[p].phase \in {"marking", "reporting"}
      /\ o = "queued" => poller[p].phase = "marking"
      /\ status[j] \notin {"absent"} /\ retryCount[j] \in Nat
  BY <1>0 DEF CommitMark, HeldJobs, HeldJob, TypeOK
<1>2. /\ status' = [status EXCEPT ![j] = o]
      /\ retryCount' = [retryCount EXCEPT
                           ![j] = IF o = "completed" THEN retryCount[j] ELSE retryCount[j] + 1]
      /\ poller' = [poller EXCEPT ![p] = Idle]
      /\ UNCHANGED <<priority, createdAt, nCreated, crashes, reports, claims>>
  BY <1>0 DEF CommitMark, RetriesAfter
<1>3. TypeOK'
  BY <1>1, <1>2 DEF TypeOK, Statuses, Phases, Idle
<1>4. /\ poller'[p] = Idle
      /\ \A q \in Pollers : q # p => poller'[q] = poller[q]
  BY <1>2 DEF TypeOK
<1>5. OneWorkerPerJob' /\ RowLocks'
  <2>1. \A k \in Jobs : ~Holds(p, k)' /\ ~Updates(p, k)'
    BY <1>4 DEF Holds, Updates, Idle
  <2> QED
    BY <1>4, <2>1, ExclusionKept
<1>6. HeldJobs'
  <2>1. HeldJob(p)'
    BY <1>4 DEF HeldJob, Idle
  <2>2. ASSUME NEW q \in Pollers, q # p PROVE HeldJob(q)'
    <3>1. CASE poller[q].job = j
      <4>1. /\ poller[q].phase \notin {"claiming", "marking", "reporting"}
            /\ poller[q].phase = "working" => o # "queued"
        BY <1>0, <1>1, <2>2, <3>1 DEF OneWorkerPerJob, RowLocks, Holds, Updates
      <4> QED
        BY <1>0, <1>2, <1>4, <2>2, <3>1, <4>1 DEF HeldJobs, HeldJob, TypeOK, Phases
    <3>2. CASE poller[q].job # j
      <4>1. HeldJob(q) /\ poller'[q] = poller[q]
        BY <1>4, <2>2 DEF HeldJobs
      <4>2. poller[q].phase # "idle" =>
              /\ status'[poller[q].job] = status[poller[q].job]
              /\ retryCount'[poller[q].job] = retryCount[poller[q].job]
        BY <1>2, <3>2, <4>1 DEF HeldJob, TypeOK
      <4> QED
        BY <4>1, <4>2 DEF HeldJob
    <3> QED
      BY <3>1, <3>2
  <2> QED
    BY <2>1, <2>2 DEF HeldJobs
<1>7. ClaimsCounted' /\ AttemptsBounded'
  <2>1. /\ claims[j] \in Nat /\ claims[j] <= retryCount[j] + 1
    BY DEF TypeOK, ClaimsCounted
  <2>2. \A k \in Jobs : k # j => status'[k] = status[k] /\ retryCount'[k] = retryCount[k]
    BY <1>2 DEF TypeOK
  <2>3. status'[j] = o /\ retryCount'[j] = IF o = "completed" THEN retryCount[j] ELSE retryCount[j] + 1
    BY <1>2 DEF TypeOK
  <2> QED
    BY <1>1, <1>2, <2>1, <2>2, <2>3 DEF ClaimsCounted, AttemptsBounded
<1> QED
  BY <1>3, <1>5, <1>6, <1>7

(* A dead poller holds nothing; the row it leaves keeps what it says.      *)
LEMMA CrashIInv ==
  ASSUME IInv, NEW p \in Pollers, Crash(p)
  PROVE  IInv'
<1> USE QueueAssumption DEF IInv
<1>1. /\ poller' = [poller EXCEPT ![p] = Idle]
      /\ crashes < MaxCrashes /\ crashes' = crashes + 1
      /\ UNCHANGED <<table, nCreated, reports, claims>>
  BY DEF Crash
<1>2. /\ poller'[p] = Idle
      /\ \A q \in Pollers : q # p => poller'[q] = poller[q]
  BY <1>1 DEF TypeOK
<1>3. TypeOK'
  BY <1>1 DEF TypeOK, Idle, Phases, table
<1>4. OneWorkerPerJob' /\ RowLocks'
  <2>1. \A k \in Jobs : ~Holds(p, k)' /\ ~Updates(p, k)'
    BY <1>2 DEF Holds, Updates, Idle
  <2> QED
    BY <1>2, <2>1, ExclusionKept
<1>5. HeldJob(p)'
  BY <1>2 DEF HeldJob, Idle
<1>6. HeldJobs' /\ ClaimsCounted' /\ AttemptsBounded'
  BY <1>1, <1>2, <1>5, RowsKept
<1> QED
  BY <1>3, <1>4, <1>6

(* Every scope a caller may pass is a set of jobs. *)
LEMMA ScopesAreJobs == \A scope \in Scopes : scope \subseteq Jobs
  BY DEF Scopes

(* IInv is inductive. *)
LEMMA NextIInv == IInv /\ [Next]_vars => IInv'
<1> SUFFICES ASSUME IInv, [Next]_vars PROVE IInv'
  OBVIOUS
<1>1. CASE \E j \in Jobs, pr \in Priorities : TriggerSite(j, pr)
  BY <1>1, TriggerSiteIInv
<1>2. ASSUME NEW p \in Pollers, PollerStep(p) PROVE IInv'
  <2>1. CASE \E scope \in Scopes : ClaimNextJob(p, scope)
    BY <2>1, ScopesAreJobs, ClaimIInv
  <2>2. CASE CommitClaim(p)
    BY <2>2, CommitClaimIInv
  <2>3. CASE MarkCompleted(p)
    BY <2>3, MarkIInv DEF MarkCompleted
  <2>4. CASE \E willRetry \in BOOLEAN : MarkFailed(p, willRetry)
    BY <2>4, MarkIInv DEF MarkFailed
  <2>5. CASE \E j \in Jobs, outcome \in {"completed", "failed"} : Report(p, j, outcome)
    BY <2>5, ReportIInv
  <2>6. CASE CommitMark(p)
    BY <2>6, CommitMarkIInv
  <2> QED
    BY <1>2, <2>1, <2>2, <2>3, <2>4, <2>5, <2>6 DEF PollerStep
<1>3. ASSUME NEW p \in Pollers, Crash(p) PROVE IInv'
  BY <1>3, CrashIInv
<1>4. CASE UNCHANGED vars
  BY <1>4 DEF vars, table, IInv, TypeOK, OneWorkerPerJob, HeldJobs, HeldJob, RowLocks,
                ClaimsCounted, AttemptsBounded, Holds, Updates
<1> QED
  BY <1>1, <1>2, <1>3, <1>4 DEF Next

LEMMA IInvHolds == Spec => []IInv
  BY InitIInv, NextIInv, PTL DEF Spec

(* Type correctness: a poller is in a phase it can be in, with a job. *)
THEOREM TypeCorrect == Spec => []TypeOK
<1>1. IInv => TypeOK
  BY DEF IInv
<1> QED
  BY <1>1, IInvHolds, PTL

(* Two pollers never hold the same job by a claim, whatever the number of  *)
(* pollers, crashes, retries and marks by tasks that claimed nothing.      *)
THEOREM NoDoubleClaim == Spec => []OneWorkerPerJob
<1>1. IInv => OneWorkerPerJob
  BY DEF IInv
<1> QED
  BY <1>1, IInvHolds, PTL

(* A job is claimed 1 + max_retries times at most. *)
THEOREM RetriesBounded == Spec => []AttemptsBounded
<1>1. IInv => AttemptsBounded
  BY DEF IInv
<1> QED
  BY <1>1, IInvHolds, PTL

----
(***************************************************************************)
(* ScraperJobQueue implements JobClaims: committing a claim is Claim,      *)
(* committing a worker's report is End and that of a task that claimed     *)
(* nothing Settle, the death of a worker that holds a committed claim is   *)
(* Abandon, inserting the row is Create, and every other step a stutter.   *)
(***************************************************************************)

\* Poller p is what the refinement mapping calls the owner of j.
Works(p, j) == poller[p].job = j /\ poller[p].phase \in {"working", "marking"}

\* What Owner(j) is, without the CHOOSE.
OwnerIs ==
    \A j \in Jobs :
        /\ \A p \in Pollers : Works(p, j) => Owner(j) = p
        /\ (\A p \in Pollers : ~Works(p, j)) => Owner(j) = Nobody

(* One poller at most works on a job, so the CHOOSE has no choice. *)
LEMMA OwnerFacts == OneWorkerPerJob => OwnerIs
<1> SUFFICES ASSUME OneWorkerPerJob, NEW j \in Jobs
             PROVE  /\ \A p \in Pollers : Works(p, j) => Owner(j) = p
                    /\ (\A p \in Pollers : ~Works(p, j)) => Owner(j) = Nobody
  BY DEF OwnerIs
<1>1. ASSUME NEW p \in Pollers, Works(p, j) PROVE Owner(j) = p
  <2>1. \A q \in Pollers : Works(q, j) => q = p
    BY <1>1 DEF OneWorkerPerJob, Holds, Works
  <2>2. Owner(j) = CHOOSE q \in Pollers : Works(q, j)
    BY <1>1 DEF Owner, Works
  <2> QED
    BY <1>1, <2>1, <2>2
<1>2. ASSUME \A p \in Pollers : ~Works(p, j) PROVE Owner(j) = Nobody
  BY <1>2 DEF Owner, Works
<1> QED
  BY <1>1, <1>2

(* The same of the next state. *)
LEMMA OwnerFactsNext == OneWorkerPerJob' => OwnerIs'
  BY OwnerFacts, PTL

(* A job keeps its owner when the same pollers work on it as before. *)
LEMMA OwnerKept ==
  ASSUME IInv, IInv', NEW j \in Jobs,
         \A p \in Pollers : Works(p, j)' <=> Works(p, j)
  PROVE  Owner(j)' = Owner(j)
<1>1. OwnerIs /\ OwnerIs'
  BY OwnerFacts, OwnerFactsNext DEF IInv
<1>2. CASE \E p \in Pollers : Works(p, j)
  BY <1>1, <1>2 DEF OwnerIs
<1>3. CASE \A p \in Pollers : ~Works(p, j)
  BY <1>1, <1>3 DEF OwnerIs
<1> QED
  BY <1>2, <1>3

(* The initial table maps to the initial table with nobody at work. *)
LEMMA InitRefines == Init => Abstract!Init
<1> SUFFICES ASSUME Init PROVE Abstract!Init
  OBVIOUS
<1>1. \A j \in Jobs : Owner(j) = Nobody
  BY DEF Init, Owner, Idle
<1> QED
  BY <1>1 DEF Init, Abstract!Init

(* A step that leaves statuses, claims and owners alone is a stutter. *)
LEMMA Stutters ==
  ASSUME UNCHANGED <<status, claims>>, \A j \in Jobs : Owner(j)' = Owner(j)
  PROVE  UNCHANGED Abstract!jobs
  BY DEF Abstract!jobs

(* Inserting a row creates the job. *)
LEMMA TriggerSiteRefines ==
  ASSUME IInv, IInv', NEW j \in Jobs, NEW pr \in Priorities, TriggerSite(j, pr)
  PROVE  Abstract!Create(j)
<1>1. \A k \in Jobs : Owner(k)' = Owner(k)
  BY OwnerKept DEF TriggerSite, Works
<1> QED
  BY <1>1 DEF TriggerSite, Abstract!Create

(* A claim in flight is invisible: its poller does not own the job yet. *)
LEMMA ClaimRefines ==
  ASSUME IInv, IInv', NEW p \in Pollers, NEW scope \in SUBSET Jobs, ClaimNextJob(p, scope)
  PROVE  UNCHANGED Abstract!jobs
<1>1. PICK j \in Jobs :
        poller' = [poller EXCEPT ![p] = [Idle EXCEPT !.phase = "claiming", !.job = j]]
  BY DEF ClaimNextJob, Claimable
<1>2. \A q \in Pollers : \A k \in Jobs : Works(q, k)' <=> Works(q, k)
  BY <1>1 DEF ClaimNextJob, Works, IInv, TypeOK, Idle
<1>3. \A k \in Jobs : Owner(k)' = Owner(k)
  BY <1>2, OwnerKept
<1> QED
  BY <1>3, Stutters DEF ClaimNextJob, table

(* The commit of a claim takes a job that had no owner. *)
LEMMA CommitClaimRefines ==
  ASSUME IInv, IInv', NEW p \in Pollers, CommitClaim(p)
  PROVE  Abstract!Claim(poller[p].job, p)
<1>0. PICK j \in Jobs : j = poller[p].job
  BY DEF CommitClaim, IInv, HeldJobs, HeldJob, TypeOK
<1>1. /\ status[j] = "queued"
      /\ claims[j] <= MaxRetries
  <2>1. status[j] = "queued" /\ retryCount[j] <= MaxRetries /\ claims[j] <= retryCount[j]
    BY <1>0 DEF CommitClaim, IInv, HeldJobs, HeldJob, ClaimsCounted
  <2> QED
    BY <2>1, QueueAssumption DEF IInv, TypeOK
<1>2. /\ poller' = [poller EXCEPT ![p].phase = "working"]
      /\ poller[p].phase = "claiming"
      /\ status' = [status EXCEPT ![j] = "running"]
      /\ claims' = [claims EXCEPT ![j] = @ + 1]
  BY <1>0 DEF CommitClaim
<1>3. poller'[p].job = j /\ poller'[p].phase = "working"
  BY <1>0, <1>2 DEF IInv, TypeOK
<1>4. \A q \in Pollers : q # p => poller'[q] = poller[q]
  BY <1>2 DEF IInv, TypeOK
<1>5. OwnerIs /\ OwnerIs'
  BY OwnerFacts, OwnerFactsNext DEF IInv
<1>6. Owner(j) = Nobody
  <2>1. \A q \in Pollers : ~Works(q, j)
    BY <1>1 DEF Works, IInv, HeldJobs, HeldJob
  <2> QED
    BY <1>5, <2>1 DEF OwnerIs
<1>7. Owner(j)' = p
  <2>1. Works(p, j)'
    BY <1>3 DEF Works
  <2> QED
    BY <1>5, <2>1 DEF OwnerIs
<1>8. ASSUME NEW k \in Jobs, k # j PROVE Owner(k)' = Owner(k)
  <2>1. \A q \in Pollers : Works(q, k)' <=> Works(q, k)
    BY <1>0, <1>2, <1>3, <1>4, <1>8 DEF Works
  <2> QED
    BY <2>1, OwnerKept
<1>9. [k \in Jobs |-> Owner(k)]' = [[k \in Jobs |-> Owner(k)] EXCEPT ![j] = p]
  BY <1>7, <1>8
<1>10. [k \in Jobs |-> Owner(k)][j] = Nobody
  BY <1>6
<1> QED
  BY <1>0, <1>1, <1>2, <1>9, <1>10 DEF Abstract!Claim

(* Writing the report is invisible until it commits. *)
LEMMA MarkRefines ==
  ASSUME IInv, IInv', NEW p \in Pollers, NEW outcome \in {"completed", "failed", "queued"},
         Mark(p, outcome)
  PROVE  UNCHANGED Abstract!jobs
<1>1. \A q \in Pollers : \A k \in Jobs : Works(q, k)' <=> Works(q, k)
  BY DEF Mark, Works, IInv, TypeOK
<1>2. \A k \in Jobs : Owner(k)' = Owner(k)
  BY <1>1, OwnerKept
<1> QED
  BY <1>2, Stutters DEF Mark, table

(* So is the UPDATE of a task that claimed nothing. *)
LEMMA ReportRefines ==
  ASSUME IInv, IInv', NEW p \in Pollers, NEW j \in Jobs, NEW outcome \in {"completed", "failed"},
         Report(p, j, outcome)
  PROVE  UNCHANGED Abstract!jobs
<1>1. \A q \in Pollers : \A k \in Jobs : Works(q, k)' <=> Works(q, k)
  BY DEF Report, Works, IInv, TypeOK
<1>2. \A k \in Jobs : Owner(k)' = Owner(k)
  BY <1>1, OwnerKept
<1> QED
  BY <1>2, Stutters DEF Report, table

(* The commit of a report ends the job of the worker that owned it, or     *)
(* settles the row for a task that owns nothing.                           *)
LEMMA CommitMarkRefines ==
  ASSUME IInv, IInv', NEW p \in Pollers, CommitMark(p)
  PROVE  \/ Abstract!End(poller[p].job, p, poller[p].outcome)
         \/ /\ Abstract!Settle(poller[p].job, poller[p].outcome)
            /\ poller[p].outcome # "queued"
<1>0. PICK j \in Jobs, o \in {"completed", "failed", "queued"} :
        j = poller[p].job /\ o = poller[p].outcome
  BY DEF CommitMark, IInv, HeldJobs, HeldJob, TypeOK
<1>1. status[j] # "absent" /\ (o = "queued" => Works(p, j))
  BY <1>0 DEF CommitMark, IInv, HeldJobs, HeldJob, Works
<1>2. /\ poller' = [poller EXCEPT ![p] = Idle]
      /\ poller[p].phase \in {"marking", "reporting"}
      /\ status' = [status EXCEPT ![j] = o]
      /\ claims' = claims
  BY <1>0 DEF CommitMark
<1>3. OwnerIs /\ OwnerIs'
  BY OwnerFacts, OwnerFactsNext DEF IInv
<1>4. /\ \A k \in Jobs : ~Works(p, k)'
      /\ \A q \in Pollers : q # p => poller'[q] = poller[q]
  BY <1>2 DEF Works, Idle, IInv, TypeOK
<1>5. ASSUME NEW k \in Jobs, ~Works(p, k) PROVE Owner(k)' = Owner(k)
  <2>1. \A q \in Pollers : Works(q, k)' <=> Works(q, k)
    BY <1>4, <1>5 DEF Works
  <2> QED
    BY <2>1, OwnerKept
<1>6. \A k \in Jobs : k # j => Owner(k)' = Owner(k)
  BY <1>0, <1>5 DEF Works
<1>7. CASE Works(p, j)
  <2>1. Owner(j) = p
    BY <1>3, <1>7 DEF OwnerIs
  <2>2. Owner(j)' = Nobody
    <3>1. \A q \in Pollers : ~Works(q, j)'
      BY <1>4, <1>7 DEF Works, Holds, IInv, OneWorkerPerJob
    <3> QED
      BY <1>3, <3>1 DEF OwnerIs
  <2> QED
    BY <1>0, <1>2, <1>6, <2>1, <2>2 DEF Abstract!End
<1>8. CASE ~Works(p, j)
  <2>1. \A k \in Jobs : Owner(k)' = Owner(k)
    BY <1>5, <1>6, <1>8
  <2> QED
    BY <1>0, <1>1, <1>2, <1>8, <2>1 DEF Abstract!Settle
<1> QED
  BY <1>7, <1>8

(* A worker that dies at work abandons its job; one that dies with its     *)
(* claim uncommitted, or with no claim, has never owned one.               *)
LEMMA CrashRefines ==
  ASSUME IInv, IInv', NEW p \in Pollers, Crash(p)
  PROVE  (\E j \in Jobs : Abstract!Abandon(j, p)) \/ UNCHANGED Abstract!jobs
<1>0. PICK j \in Jobs : j = poller[p].job
  BY DEF Crash, IInv, HeldJobs, HeldJob, TypeOK
<1>1. /\ poller' = [poller EXCEPT ![p] = Idle]
      /\ UNCHANGED <<status, claims>>
  BY DEF Crash, table
<1>2. OwnerIs /\ OwnerIs'
  BY OwnerFacts, OwnerFactsNext DEF IInv
<1>3. /\ \A k \in Jobs : ~Works(p, k)'
      /\ \A q \in Pollers : q # p => poller'[q] = poller[q]
  BY <1>1 DEF Works, Idle, IInv, TypeOK
<1>4. ASSUME NEW k \in Jobs, ~Works(p, k) PROVE Owner(k)' = Owner(k)
  <2>1. \A q \in Pollers : Works(q, k)' <=> Works(q, k)
    BY <1>3, <1>4 DEF Works
  <2> QED
    BY <2>1, OwnerKept
<1>5. CASE Works(p, j)
  <2>1. Owner(j) = p
    BY <1>2, <1>5 DEF OwnerIs
  <2>2. Owner(j)' = Nobody
    <3>1. \A q \in Pollers : ~Works(q, j)'
      BY <1>3, <1>5 DEF Works, Holds, IInv, OneWorkerPerJob
    <3> QED
      BY <1>2, <3>1 DEF OwnerIs
  <2>3. \A k \in Jobs : k # j => Owner(k)' = Owner(k)
    BY <1>0, <1>4 DEF Works
  <2>4. Abstract!Abandon(j, p)
    BY <1>1, <2>1, <2>2, <2>3 DEF Abstract!Abandon
  <2> QED
    BY <2>4
<1>6. CASE ~Works(p, j)
  <2>1. \A k \in Jobs : Owner(k)' = Owner(k)
    BY <1>0, <1>4, <1>6 DEF Works
  <2> QED
    BY <1>1, <2>1, Stutters
<1> QED
  BY <1>5, <1>6

(* Every step of the queue maps to a step of JobClaims or a stutter. *)
LEMMA StepRefines == IInv /\ IInv' /\ [Next]_vars => [Abstract!Next]_Abstract!jobs
<1> SUFFICES ASSUME IInv, IInv', [Next]_vars
             PROVE  Abstract!Next \/ UNCHANGED Abstract!jobs
  OBVIOUS
<1>1. ASSUME NEW j \in Jobs, NEW pr \in Priorities, TriggerSite(j, pr) PROVE Abstract!Next
  BY <1>1, TriggerSiteRefines DEF Abstract!Next
<1>2. ASSUME NEW p \in Pollers, PollerStep(p)
      PROVE  Abstract!Next \/ UNCHANGED Abstract!jobs
  <2>1. CASE \E scope \in Scopes : ClaimNextJob(p, scope)
    BY <2>1, ScopesAreJobs, ClaimRefines
  <2>2. CASE CommitClaim(p)
    <3>1. poller[p].job \in Jobs
      BY <2>2 DEF CommitClaim, IInv, HeldJobs, HeldJob, TypeOK
    <3> QED
      BY <2>2, <3>1, CommitClaimRefines DEF Abstract!Next
  <2>3. CASE MarkCompleted(p)
    BY <2>3, MarkRefines DEF MarkCompleted
  <2>4. CASE \E willRetry \in BOOLEAN : MarkFailed(p, willRetry)
    BY <2>4, MarkRefines DEF MarkFailed
  <2>5. CASE \E j \in Jobs, outcome \in {"completed", "failed"} : Report(p, j, outcome)
    BY <2>5, ReportRefines
  <2>6. CASE CommitMark(p)
    <3>1. /\ poller[p].job \in Jobs
          /\ poller[p].outcome \in {"completed", "failed", "queued"}
      BY <2>6 DEF CommitMark, IInv, HeldJobs, HeldJob, TypeOK
    <3>2. CASE Abstract!End(poller[p].job, p, poller[p].outcome)
      BY <3>1, <3>2 DEF Abstract!Next
    <3>3. CASE Abstract!Settle(poller[p].job, poller[p].outcome) /\ poller[p].outcome # "queued"
      BY <3>1, <3>3 DEF Abstract!Next
    <3> QED
      BY <2>6, <3>2, <3>3, CommitMarkRefines
  <2> QED
    BY <1>2, <2>1, <2>2, <2>3, <2>4, <2>5, <2>6 DEF PollerStep
<1>3. ASSUME NEW p \in Pollers, Crash(p)
      PROVE  Abstract!Next \/ UNCHANGED Abstract!jobs
  BY <1>3, CrashRefines DEF Abstract!Next
<1>4. CASE UNCHANGED vars
  <2>1. \A j \in Jobs : Owner(j)' = Owner(j)
    BY <1>4, OwnerKept DEF vars, Works
  <2> QED
    BY <1>4, <2>1, Stutters DEF vars, table
<1> QED
  BY <1>1, <1>2, <1>3, <1>4 DEF Next

(* A claim of two statements and a commit, among row locks, crashes and    *)
(* marks of rows nobody claimed, is the one step that claim_next_job       *)
(* promises: it takes a queued job out of nobody's hands, with claims to   *)
(* spare, and only the worker that took it can put it back.                *)
THEOREM RefinesClaims == Spec => ClaimIsAtomic
<1>1. Spec => Abstract!Init
  BY InitRefines DEF Spec
<1> QED
  BY <1>1, IInvHolds, StepRefines, PTL DEF Spec, ClaimIsAtomic, Abstract!Spec
====

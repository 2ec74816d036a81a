---------------------------- MODULE JobLifecycle ----------------------------
(***************************************************************************)
(* What the job store promises about one job, whoever calls it and         *)
(* whatever the clocks say: the life of a job as reconciler/README.md      *)
(* draws it, without rows, leases, errors or progress.  A claim may move   *)
(* several jobs at once, so a step moves any set of jobs.                  *)
(***************************************************************************)
EXTENDS Integers

CONSTANTS
  Destinations,   \* the keys a job can have
  MaxAttempts     \* how many times a job may be started

VARIABLES
  phase,          \* where each destination's job stands
  attempt         \* how many times it has been started

vars == <<phase, attempt>>

Phases == {"absent", "queuing", "running", "succeeded", "failed"}

TypeOK ==
  /\ phase \in [Destinations -> Phases]
  /\ attempt \in [Destinations -> 0..MaxAttempts]

Init ==
  /\ phase = [d \in Destinations |-> "absent"]
  /\ attempt = [d \in Destinations |-> 0]

-----------------------------------------------------------------------------
\* The moves of one job from phase p and attempt a to phase q and attempt b.

Created(p, a, q, b)   == p = "absent" /\ q = "queuing" /\ b = a

Started(p, a, q, b)   == /\ p \in {"queuing", "running"}
                         /\ q = "running"
                         /\ a < MaxAttempts
                         /\ b = a + 1

Succeeded(p, a, q, b) == p = "running" /\ q = "succeeded" /\ b = a

GivenBack(p, a, q, b) == /\ p = "running" /\ q = "queuing"
                         /\ a < MaxAttempts
                         /\ b = a

Exhausted(p, a, q, b) == /\ p = "running" /\ q = "failed"
                         /\ a = MaxAttempts
                         /\ b = a

Move(p, a, q, b) ==
  \/ Created(p, a, q, b)
  \/ Started(p, a, q, b)
  \/ Succeeded(p, a, q, b)
  \/ GivenBack(p, a, q, b)
  \/ Exhausted(p, a, q, b)

Next ==
  \E S \in SUBSET Destinations :
    /\ phase' \in [Destinations -> Phases]
    /\ attempt' \in [Destinations -> 0..MaxAttempts]
    /\ \A d \in S : Move(phase[d], attempt[d], phase'[d], attempt'[d])
    /\ \A d \in Destinations \ S :
         phase'[d] = phase[d] /\ attempt'[d] = attempt[d]

Spec == Init /\ [][Next]_vars
=============================================================================

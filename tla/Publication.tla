---------------------------- MODULE Publication ----------------------------
(***************************************************************************)
(* What the Lance datasets hold while the reconcilers of Reconciler work   *)
(* on them.  A conversion publishes twice: the Lance writer commits the    *)
(* rows, as an Overwrite of whatever is there, and then the indexes are    *)
(* committed (in one step here).  Nothing of this is fenced: the store     *)
(* refuses the reports of a worker that lost its lease, but the dataset    *)
(* takes its commits until the worker notices.                             *)
(*                                                                         *)
(* The store keys jobs by the text of the destination URI, and the writer  *)
(* gets that text; which dataset it names is for the storage to say.       *)
(* Lance accepts an Overwrite of any version, and refuses an index for a   *)
(* version that has been overwritten.                                      *)
(***************************************************************************)
EXTENDS Reconciler

CONSTANT Names      \* the dataset that each destination URI names

ASSUME DestinationsNameDatasets == DOMAIN Names = Destinations

VARIABLES
  stage,      \* how far the conversion of each attempt of each job is
  dataset     \* the attempt that wrote a dataset's rows, and if it is indexed

pvars == <<rvars, stage, dataset>>

Attempts == Destinations \X (1..MaxAttempts)

PInit ==
  /\ RInit
  /\ stage = [c \in Attempts |-> "writing"]
  /\ dataset = [x \in {Names[d] : d \in Destinations} |->
                  [by |-> <<>>, indexed |-> FALSE]]

Writer(t) == <<t.d, t.a>>

CommitRows(t) ==
  /\ t.state = "converting"
  /\ stage[Writer(t)] = "writing"
  /\ stage' = [stage EXCEPT ![Writer(t)] = "indexing"]
  /\ dataset' = [dataset EXCEPT ![Names[t.d]] = [by |-> Writer(t), indexed |-> FALSE]]
  /\ UNCHANGED rvars

CommitIndexes(t) ==
  /\ t.state = "converting"
  /\ stage[Writer(t)] = "indexing"
  /\ dataset[Names[t.d]].by = Writer(t)
  /\ stage' = [stage EXCEPT ![Writer(t)] = "published"]
  /\ dataset' = [dataset EXCEPT ![Names[t.d]].indexed = TRUE]
  /\ UNCHANGED rvars

\* Mutant of MayResolve: indexes are created in the background.
MayResolveUnindexed(t) == t.state = "converted" => stage[Writer(t)] # "writing"

\* convert returns Ok only after the indexes, and Err at any time.
MayResolve(t) == t.state = "converted" => stage[Writer(t)] = "published"

\* All else a reconciler does.
Step ==
  /\ RNext
  /\ \A p \in Processes : \A t \in tasks'[p] : MayResolve(t)
  /\ UNCHANGED <<stage, dataset>>

PNext ==
  \/ Step
  \/ \E p \in Processes : \E t \in tasks[p] : CommitRows(t) \/ CommitIndexes(t)

PSpec == PInit /\ [][PNext]_pvars
-----------------------------------------------------------------------------
\* Properties.

\* A succeeded job's dataset holds what its successful attempt wrote, with the
\* indexes it created, and stays so: no conversion that was given up, by its
\* worker or by the store, overwrites it later.
SucceededIsPublished ==
  \A d \in DOMAIN jobs :
    jobs[d].status = "succeeded" =>
      dataset[Names[d]] = [by |-> <<d, jobs[d].attempt>>, indexed |-> TRUE]

\* When timers are served in time and no two destination URIs name one dataset,
\* no two conversions write to a dataset at a time: nobody reclaims a job while
\* its worker still converts.
OneWriterPerDataset ==
  Timely =>
    \A p, q \in Processes : \A t \in Unfinished(p), u \in Unfinished(q) :
      Names[t.d] = Names[u.d] => t = u
=============================================================================

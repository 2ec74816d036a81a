----------------------------- MODULE MCWebPages -----------------------------
(* One filter that can be set and cleared, and two changes of the table, after
   which its list is empty, has rows, and is empty again.  A path as source, and
   a Hugging Face dataset that may be typed with and without its revision. *)
EXTENDS WebPages

CONSTANTS all, failed, path, images, main, old

MCHasJobs(f, v) == (f = all /\ v > 0) \/ v = 1
MCIsHf(name) == name # path
MCInputs == {[name |-> path, revision |-> None], [name |-> images, revision |-> None],
             [name |-> images, revision |-> old]}
=============================================================================

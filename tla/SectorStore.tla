---------------------------- MODULE SectorStore ----------------------------
(***************************************************************************)
(* What a diskette drive promises a program that moves sectors through it:  *)
(* jobs are done one at a time, a sector is rewritten as a whole or not at  *)
(* all, only the sectors a job names are rewritten, and a job that is       *)
(* reported done is done.  A job may fail at any moment (the diskette is    *)
(* out, protected, refused by its host, the program gave up), with any of   *)
(* its sectors already stored.                                              *)
(***************************************************************************)
CONSTANTS
  Jobs,         \* records with op ("read", "write", "format"), unit, track,
                \* sectors (a set) and data (per sector, what a write stores)
  JobBytes(_, _),  \* the bytes a read job returns from a given store
  NoJob

VARIABLES
  store,        \* [unit -> [track -> [sector -> contents]]]
  job,
  outcome       \* what the last job that ended reported

Failed == [ok |-> FALSE, data |-> <<>>]

Init == job = NoJob /\ outcome = Failed

Accept(j) ==
  /\ job = NoJob /\ job' = j
  /\ UNCHANGED <<store, outcome>>

Commit(s) ==
  /\ job # NoJob /\ job.op # "read" /\ s \in job.sectors
  /\ store' = [store EXCEPT ![job.unit][job.track][s] = job.data[s]]
  /\ UNCHANGED <<job, outcome>>

Done ==
  /\ job # NoJob /\ job' = NoJob
  /\ \/ /\ job.op = "read"
        /\ outcome' = [ok |-> TRUE, data |-> JobBytes(store, job)]
     \/ /\ job.op # "read"
        /\ \A s \in job.sectors : store[job.unit][job.track][s] = job.data[s]
        /\ outcome' = [ok |-> TRUE, data |-> <<>>]
  /\ UNCHANGED store

Fail ==
  /\ job # NoJob /\ job' = NoJob
  /\ outcome' = Failed
  /\ UNCHANGED store

Next == \/ \E j \in Jobs : Accept(j)
        \/ job # NoJob /\ \E s \in job.sectors : Commit(s)
        \/ Done
        \/ Fail

Spec == Init /\ [][Next]_<<store, job, outcome>>
=============================================================================

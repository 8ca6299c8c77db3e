---------------------------- MODULE ArchivalJob ----------------------------
(***************************************************************************)
(* The archival job of the Rust server (paymaster-server/src/archive.rs,   *)
(* started by main.rs in every process): rows past the cutoff are read in  *)
(* batches, written to one S3 object per batch and deleted one by one.     *)
(* The name of the object is the second and the number of the batch.  Each *)
(* call may fail, which ends the run; the process may stop and start       *)
(* again.  S3 and the database are external.                               *)
(***************************************************************************)
EXTENDS Integers, FiniteSets, SequencesExt, FiniteSetsExt

CONSTANTS Archivers,              \* processes of the server
          NRows, ArchiveBatch,    \* old rows, in the order of createdAt; BATCH_SIZE
          MaxSeconds,             \* bound: seconds that pass
          MaxArchiveRuns          \* bound: runs of the job per process

ASSUME ArchiveAssumption ==
    /\ NRows \in Nat /\ ArchiveBatch \in Nat \ {0}
    /\ MaxSeconds \in Nat /\ MaxArchiveRuns \in Nat \ {0}

Rows == 1 .. NRows

VARIABLES table,        \* rows still in "Transaction"
          objects,      \* S3: object name -> rows in it
          archiver,     \* archiver[a]: [at, rows, left, batch_num, key, runs]
          second,
          overwritten   \* history: an object was written over by another batch

archiveVars == <<table, objects, archiver, second, overwritten>>

Resting(n) == [at |-> "idle", rows |-> {}, left |-> {}, batch_num |-> 0, key |-> <<>>, runs |-> n]

ArchiveInit ==
    /\ table = Rows /\ objects = <<>> /\ second = 0 /\ overwritten = FALSE
    /\ archiver = [a \in Archivers |-> Resting(0)]

\* run_archival_job begins: at startup and every 30 days.
StartRun(a) ==
    /\ archiver[a].at = "idle" /\ archiver[a].runs < MaxArchiveRuns
    /\ archiver' = [archiver EXCEPT ![a] = [@ EXCEPT !.at = "fetch", !.runs = archiver[a].runs + 1, !.batch_num = 0]]
    /\ UNCHANGED <<table, objects, second, overwritten>>

\* The oldest rows, at most ArchiveBatch; none ends the run.
Oldest == {r \in table : Cardinality({s \in table : s <= r}) <= ArchiveBatch}

FetchBatch(a) ==
    /\ archiver[a].at = "fetch"
    /\ archiver' = [archiver EXCEPT ![a] =
         IF Oldest = {} THEN Resting(@.runs)
         ELSE [@ EXCEPT !.at = "put", !.rows = Oldest, !.left = Oldest,
                        !.key = <<second, archiver[a].batch_num>>]]
    /\ UNCHANGED <<table, objects, second, overwritten>>

\* put_object replaces an object of the same name.
PutObject(a) ==
    /\ archiver[a].at = "put"
    /\ objects' = [k \in DOMAIN objects \cup {archiver[a].key} |->
                      IF k = archiver[a].key THEN archiver[a].rows ELSE objects[k]]
    /\ overwritten' = (overwritten \/ archiver[a].key \in DOMAIN objects)
    /\ archiver' = [archiver EXCEPT ![a].at = "delete"]
    /\ UNCHANGED <<table, second>>

\* Mutant: the oldest rows are deleted, not the ones that were written.
DeletesOldest(a) == IF table = {} THEN {} ELSE {Min(table)}

DeletesNext(a) == {Min(archiver[a].left)}

\* DELETE ... WHERE id = $1 for each row of the batch, then the next batch.
DeleteRow(a) ==
    LET b == archiver[a]
    IN  /\ b.at = "delete"
        /\ table' = table \ DeletesNext(a)
        /\ archiver' = [archiver EXCEPT ![a] =
             IF Cardinality(b.left) = 1
             THEN [b EXCEPT !.at = "fetch", !.left = {}, !.batch_num = @ + 1]
             ELSE [b EXCEPT !.left = @ \ {Min(b.left)}]]
        /\ UNCHANGED <<objects, second, overwritten>>

\* A call fails or the process stops: the run ends where it is.
RunFails(a) ==
    /\ archiver[a].at # "idle"
    /\ archiver' = [archiver EXCEPT ![a] = Resting(@.runs)]
    /\ UNCHANGED <<table, objects, second, overwritten>>

ClockTicks ==
    /\ second < MaxSeconds /\ second' = second + 1
    /\ UNCHANGED <<table, objects, archiver, overwritten>>

ArchiveNext ==
    \/ \E a \in Archivers : StartRun(a) \/ FetchBatch(a) \/ PutObject(a) \/ DeleteRow(a) \/ RunFails(a)
    \/ ClockTicks

ArchiveSpec == ArchiveInit /\ [][ArchiveNext]_archiveVars
-----------------------------------------------------------------------------
ArchiveTypeOK ==
    /\ table \subseteq Rows /\ second \in 0 .. MaxSeconds
    /\ \A k \in DOMAIN objects : objects[k] \subseteq Rows
    /\ \A a \in Archivers : archiver[a].left \subseteq archiver[a].rows

\* Every row is in the table or in an object, whatever call fails and however
\* many processes archive the same rows at once, as long as no two batches get
\* the same name (the second and the batch number do not tell processes apart).
NoRowLost == ~overwritten => table \cup UNION Range(objects) = Rows

\* The job's state has its type and archiving loses nothing (run_archive_job).
ArchiveInv == ArchiveTypeOK /\ NoRowLost
=============================================================================

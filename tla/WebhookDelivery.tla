-------------------------- MODULE WebhookDelivery --------------------------
(***************************************************************************)
(* Queued webhook deliveries (server/src/services/webhook.ts) and the      *)
(* dead-letter queue with its admin handlers (handlers/adminDlq.ts).       *)
(* A delivery is a row in the database and a BullMQ job; each is written   *)
(* by itself.  BullMQ is external: a failed attempt is repeated up to      *)
(* MaxAttempts times, a job whose worker died is given to another one      *)
(* once, and the failed event is handled after the job has left the queue. *)
(* Faults (a crash, a database call that throws) are bounded.              *)
(*                                                                         *)
(* The worker runs where startWebhookWorker has been called.  Nothing in   *)
(* server/src calls it, and queueWebhook has the replay for its only       *)
(* caller, so the service takes these steps only in a process that starts  *)
(* the worker itself; no progress is claimed and no fairness assumed.      *)
(***************************************************************************)
EXTENDS Integers, FiniteSets

CONSTANTS Deliveries, Admins,
          MaxAttempts,       \* WEBHOOK_RETRY_CONFIG.maxAttempts
          MaxHookFaults      \* bound: crashes and calls that throw

ASSUME WebhookAssumption == MaxAttempts \in Nat \ {0} /\ MaxHookFaults \in Nat

VARIABLES delivery,      \* delivery[d]: status of the WebhookDelivery row
          job,           \* job[d]: state of the BullMQ job
          postAttempts, workerStalls,
          phase,         \* phase[d]: where the worker is with an active job
          adding,        \* rows whose job is about to be added
          moving,        \* jobs whose failed event is about to be handled
          dlq,           \* deliveries with a WebhookDlq row
          replay,        \* replay[a]: the item admin a replays and how far it is
          hookFaults,
          received,      \* history: received[d], posts that reached the receiver
          copies,        \* history: deliveries queued again under a new id
          givenUp        \* history: givenUp[d], how a delivery was given up

hookVars == <<delivery, job, postAttempts, workerStalls, phase, adding, moving, dlq, replay,
              hookFaults, received, copies, givenUp>>
jobVars == <<delivery, job, postAttempts, workerStalls, phase, received>>

NoReplay == [pc |-> "none"]

HookInit ==
    /\ delivery = [d \in Deliveries |-> "none"] /\ job = [d \in Deliveries |-> "none"]
    /\ postAttempts = [d \in Deliveries |-> 0] /\ workerStalls = [d \in Deliveries |-> 0]
    /\ phase = [d \in Deliveries |-> "load"]
    /\ adding = {} /\ moving = {} /\ dlq = {} /\ copies = {}
    /\ replay = [a \in Admins |-> NoReplay]
    /\ hookFaults = 0
    /\ received = [d \in Deliveries |-> 0] /\ givenUp = [d \in Deliveries |-> "no"]

Fault == hookFaults < MaxHookFaults /\ hookFaults' = hookFaults + 1

\* queueWebhook: the row, and after an await the job.
CreateRow(d) ==
    /\ delivery[d] = "none"
    /\ delivery' = [delivery EXCEPT ![d] = "pending"]
    /\ adding' = adding \cup {d}

queueWebhook(d) ==
    /\ CreateRow(d)
    /\ UNCHANGED <<job, postAttempts, workerStalls, phase, moving, dlq, replay, hookFaults,
                   received, copies, givenUp>>

AddJob(d) ==
    /\ d \in adding
    /\ adding' = adding \ {d}
    /\ job' = [job EXCEPT ![d] = "waiting"]
    /\ UNCHANGED <<delivery, postAttempts, workerStalls, phase, moving, dlq, replay, hookFaults,
                   received, copies, givenUp>>

\* webhookQueue.add throws: the row is left without a job, and a replay that
\* waited for it keeps the dead-letter row.
AddFails(d) ==
    /\ d \in adding /\ Fault
    /\ adding' = adding \ {d}
    /\ givenUp' = [givenUp EXCEPT ![d] = "not_queued"]
    /\ replay' = [a \in Admins |-> IF replay[a].pc = "delete" /\ replay[a].item[2] = d
                                   THEN NoReplay ELSE replay[a]]
    /\ UNCHANGED <<jobVars, moving, dlq, copies>>

TakeJob(d) ==
    /\ job[d] = "waiting"
    /\ job' = [job EXCEPT ![d] = "active"]
    /\ phase' = [phase EXCEPT ![d] = "load"]
    /\ UNCHANGED <<delivery, postAttempts, workerStalls, adding, moving, dlq, replay, hookFaults,
                   received, copies, givenUp>>

\* The worker reads the row; a tenant without a secret ends the job for good, and
\* a query that throws here, outside the try block, ends the attempt.
Load(d) ==
    /\ job[d] = "active" /\ phase[d] = "load"
    /\ \/ phase' = [phase EXCEPT ![d] = "post"] /\ UNCHANGED <<delivery, job, givenUp, hookFaults>>
       \/ Fault /\ phase' = [phase EXCEPT ![d] = "throw"] /\ UNCHANGED <<delivery, job, givenUp>>
       \/ /\ delivery' = [delivery EXCEPT ![d] = "failed"]
          /\ job' = [job EXCEPT ![d] = "completed"]
          /\ givenUp' = [givenUp EXCEPT ![d] = "no_secret"]
          /\ UNCHANGED <<phase, hookFaults>>
    /\ UNCHANGED <<postAttempts, workerStalls, adding, moving, dlq, replay, received, copies>>

\* axios.post: answered, refused, or received without an answer in time.
Post(d) ==
    /\ job[d] = "active" /\ phase[d] = "post"
    /\ \E st \in {"update", "fail"} : phase' = [phase EXCEPT ![d] = st]
    /\ \/ received' = [received EXCEPT ![d] = @ + 1]
       \/ phase'[d] = "fail" /\ UNCHANGED received
    /\ UNCHANGED <<delivery, job, postAttempts, workerStalls, adding, moving, dlq, replay,
                   hookFaults, copies, givenUp>>

\* The row becomes success; when that update throws, the post is taken for failed.
UpdateSuccess(d) ==
    /\ job[d] = "active" /\ phase[d] = "update"
    /\ \/ /\ delivery' = [delivery EXCEPT ![d] = "success"]
          /\ job' = [job EXCEPT ![d] = "completed"]
          /\ UNCHANGED <<phase, hookFaults>>
       \/ Fault /\ phase' = [phase EXCEPT ![d] = "fail"] /\ UNCHANGED <<delivery, job>>
    /\ UNCHANGED <<postAttempts, workerStalls, adding, moving, dlq, replay, received,
                   copies, givenUp>>

AttemptsLeft(d) == postAttempts[d] + 1 < MaxAttempts

\* The catch block marks the row, unless that update throws as well, and the
\* attempt ends with an error; BullMQ retries or gives up.
FailAttempt(d) ==
    /\ job[d] = "active"
    /\ \/ /\ phase[d] = "fail"
          /\ delivery' = [delivery EXCEPT ![d] = "failed"] /\ UNCHANGED hookFaults
       \/ phase[d] = "fail" /\ Fault /\ UNCHANGED delivery
       \/ phase[d] = "throw" /\ UNCHANGED <<delivery, hookFaults>>
    /\ postAttempts' = [postAttempts EXCEPT ![d] = @ + 1]
    /\ IF AttemptsLeft(d)
       THEN job' = [job EXCEPT ![d] = "waiting"] /\ UNCHANGED moving
       ELSE job' = [job EXCEPT ![d] = "dead"] /\ moving' = moving \cup {d}
    /\ UNCHANGED <<workerStalls, phase, adding, dlq, replay, received, copies, givenUp>>

\* The failed event: the dead-letter row is written, or writing it fails and the
\* error is logged.
MoveToDlq(d) ==
    /\ d \in moving
    /\ moving' = moving \ {d}
    /\ \/ dlq' = dlq \cup {d} /\ UNCHANGED <<hookFaults, givenUp>>
       \/ Fault /\ givenUp' = [givenUp EXCEPT ![d] = "dlq_write"] /\ UNCHANGED dlq
    /\ UNCHANGED <<jobVars, adding, replay, copies>>

\* The worker of an active job dies.  The job runs again, once; the second time
\* it fails with fewer than MaxAttempts attempts and the event handler ignores it.
StallJob(d) ==
    /\ job[d] = "active" /\ Fault
    /\ workerStalls' = [workerStalls EXCEPT ![d] = @ + 1]
    /\ IF workerStalls[d] = 0
       THEN job' = [job EXCEPT ![d] = "waiting"] /\ UNCHANGED givenUp
       ELSE job' = [job EXCEPT ![d] = "dead"] /\ givenUp' = [givenUp EXCEPT ![d] = "stalled"]
    /\ UNCHANGED <<delivery, postAttempts, phase, adding, moving, dlq, replay, received, copies>>

\* The server dies between the two writes of a delivery, before a failed event
\* is handled, or in the middle of a replay.
ServerCrash ==
    /\ Fault
    /\ adding \cup moving # {} \/ \E a \in Admins : replay[a] # NoReplay
    /\ givenUp' = [d \in Deliveries |-> IF d \in adding \cup moving THEN "crash" ELSE givenUp[d]]
    /\ adding' = {} /\ moving' = {}
    /\ replay' = [a \in Admins |-> NoReplay]
    /\ UNCHANGED <<jobVars, dlq, copies>>

\* Mutant: the dead-letter row is deleted when it is read.
ReplayTakes(a, d) ==
    /\ replay[a] = NoReplay /\ d \in dlq
    /\ replay' = [replay EXCEPT ![a] = [pc |-> "queue", item |-> d]]
    /\ dlq' = dlq \ {d}
    /\ UNCHANGED <<jobVars, adding, moving, hookFaults, copies, givenUp>>

\* replayDlqHandler on one item: read, queue a copy, delete the dead-letter row.
ReplayRead(a, d) ==
    /\ replay[a] = NoReplay /\ d \in dlq
    /\ replay' = [replay EXCEPT ![a] = [pc |-> "queue", item |-> d]]
    /\ UNCHANGED <<jobVars, adding, moving, dlq, hookFaults, copies, givenUp>>

ReplayQueue(a, d) ==
    /\ replay[a].pc = "queue"
    /\ CreateRow(d)
    /\ copies' = copies \cup {replay[a].item}
    /\ replay' = [replay EXCEPT ![a] = [pc |-> "delete", item |-> <<replay[a].item, d>>]]
    /\ UNCHANGED <<job, postAttempts, workerStalls, phase, moving, dlq, hookFaults,
                   received, givenUp>>

\* Deleting a row that another admin has deleted throws, which ends the item too.
ReplayDelete(a) ==
    /\ replay[a].pc = "delete" /\ replay[a].item[2] \notin adding
    /\ dlq' = dlq \ {replay[a].item[1]}
    /\ replay' = [replay EXCEPT ![a] = NoReplay]
    /\ UNCHANGED <<jobVars, adding, moving, hookFaults, copies, givenUp>>

deleteDlq(d) ==
    /\ d \in dlq
    /\ dlq' = dlq \ {d}
    /\ givenUp' = [givenUp EXCEPT ![d] = "deleted"]
    /\ UNCHANGED <<jobVars, adding, moving, replay, hookFaults, copies>>

HookWorker(d) ==
    AddJob(d) \/ TakeJob(d) \/ Load(d) \/ Post(d) \/ UpdateSuccess(d) \/ FailAttempt(d)
      \/ MoveToDlq(d)

HookNext ==
    \/ ServerCrash
    \/ \E d \in Deliveries :
         queueWebhook(d) \/ AddFails(d) \/ HookWorker(d) \/ StallJob(d) \/ deleteDlq(d)
    \/ \E a \in Admins :
         ReplayDelete(a) \/ \E d \in Deliveries : ReplayRead(a, d) \/ ReplayQueue(a, d)

HookSpec == HookInit /\ [][HookNext]_hookVars
-----------------------------------------------------------------------------
HookTypeOK ==
    /\ delivery \in [Deliveries -> {"none", "pending", "success", "failed"}]
    /\ job \in [Deliveries -> {"none", "waiting", "active", "completed", "dead"}]
    /\ phase \in [Deliveries -> {"load", "post", "update", "fail", "throw"}]
    /\ adding \cup moving \cup dlq \cup copies \subseteq Deliveries
    /\ hookFaults \in 0 .. MaxHookFaults

\* A delivery that never reached its receiver is still being worked on, or waits
\* in the dead-letter queue, or was queued again, or was given up in one of the
\* ways the code has: no secret, deleted by an admin, or a crash, a stall or a
\* failing write at the wrong moment.  In particular a replay, interrupted or
\* made by two admins at once, loses nothing (lines 80 to 86 of adminDlq.ts).
NoSilentLoss ==
    \A d \in Deliveries :
      delivery[d] # "none" /\ received[d] = 0 =>
        \/ d \in adding \cup moving \cup dlq \cup copies
        \/ job[d] \in {"waiting", "active"}
        \/ givenUp[d] # "no"

\* A receiver sees one delivery at most once per attempt and once more: a job whose
\* worker died after the post runs again without using up an attempt, once.  With
\* the five attempts of defaultJobOptions that is six times.
ReceivedBounded == \A d \in Deliveries : received[d] <= MaxAttempts + 1

\* Deliveries are neither lost without a trace nor repeated without bound.
HookInv == HookTypeOK /\ NoSilentLoss /\ ReceivedBounded
=============================================================================

-------------------------- MODULE IncidentMonitor --------------------------
(***************************************************************************)
(* The incident monitor (server/src/workers/incidentMonitor.ts) and what   *)
(* it sends to PagerDuty (services/pagerDutyNotifier.ts, configured): one  *)
(* cycle at a time checks the signer pool, then Horizon, then whether the  *)
(* restart is over, while the report of the restart runs beside it.  Which *)
(* incidents are open is kept in Redis, with a map of the process as the   *)
(* fallback of a call that fails.                                          *)
(*                                                                         *)
(* Each call of Redis or of PagerDuty is a step, except that the time of   *)
(* the first failed check is read and set in one: only a cycle touches it. *)
(* A call may fail and the process may restart (bounded faults).           *)
(***************************************************************************)
EXTENDS Integers

CONSTANTS OUTAGE_THRESHOLD,     \* HORIZON_OUTAGE_THRESHOLD_MS, in ticks
          MaxChanges,           \* bound: changes of Horizon and of the signers
          MaxIncidentFaults     \* bound: calls that fail, and restarts

ASSUME IncidentAssumption ==
    OUTAGE_THRESHOLD \in Nat /\ MaxChanges \in Nat /\ MaxIncidentFaults \in Nat

VARIABLES signersActive, horizonUp,     \* what is watched
          book, since,                  \* Redis: open incidents, ticks since the first failure
          bookMem, sinceMem,            \* the map of the process
          paged,                        \* the incidents open at PagerDuty
          incJob,                       \* the next call of the cycle and of the report
          restartPending,
          failedFor,                    \* history: ticks since the checks began to fail
          staleSince,                   \* history: a write of "since" failed
          misbooked,                    \* history: incidents an event or its entry was lost of
          restartLeft,                  \* history: restartPending dropped, the incident open or due
          incFaults, incChanges

incVars == <<signersActive, horizonUp, book, since, bookMem, sinceMem, paged, incJob,
             restartPending, failedFor, staleSince, misbooked, restartLeft, incFaults,
             incChanges>>
incWatched == <<signersActive, horizonUp, incChanges>>
incOutage == <<since, sinceMem, failedFor, staleSince>>

IncidentTypes == {"signer_pool_empty", "horizon_unreachable", "server_restart"}
NoTime == -1
Age(t) == IF t \in 0 .. OUTAGE_THRESHOLD - 1 THEN t + 1 ELSE t

At(stage) == [at |-> stage, type |-> "none", action |-> "none"]
Call(type, action) == [at |-> "read", type |-> type, action |-> action]

\* start(): the report of the restart and the first cycle.
Started == [cycle |-> At("idle"), boot |-> Call("server_restart", "trigger")]

IncInit ==
    /\ signersActive = TRUE /\ horizonUp = TRUE
    /\ book = {} /\ since = NoTime /\ bookMem = {} /\ sinceMem = NoTime /\ paged = {}
    /\ incJob = Started /\ restartPending = TRUE
    /\ failedFor = NoTime /\ staleSince = FALSE /\ misbooked = {} /\ restartLeft = FALSE
    /\ incFaults = 0 /\ incChanges = 0

\* A call ends well, or it is one of the bounded faults.
Outcome(fault) ==
    /\ fault => incFaults < MaxIncidentFaults
    /\ incFaults' = IF fault THEN incFaults + 1 ELSE incFaults

After(set, type, action) == IF action = "trigger" THEN set \cup {type} ELSE set \ {type}

\* triggerIncident or resolveIncident of job k returns: the cycle goes on to the
\* next check, and behind the last one the restart counts as resolved.
IncidentReturns(k) ==
    LET j == incJob[k]
        next == CASE k = "boot" -> "idle"
                  [] j.type = "signer_pool_empty" -> "horizon"
                  [] j.type = "horizon_unreachable" /\ j.action = "resolve" -> "restart"
                  [] OTHER -> "idle"
        last == k = "cycle" /\ j.type = "server_restart"
    IN
    /\ incJob' = [incJob EXCEPT ![k] = At(next)]
    /\ restartPending' = (restartPending /\ ~last)
    /\ restartLeft' = \/ restartLeft
                      \/ last /\ ("server_restart" \in paged' \/ incJob.boot.at # "idle")

checkSignerPool ==
    /\ incJob.cycle.at = "idle"
    /\ incJob' = [incJob EXCEPT !.cycle =
         Call("signer_pool_empty", IF signersActive THEN "resolve" ELSE "trigger")]
    /\ UNCHANGED <<incWatched, incOutage, book, bookMem, paged, restartPending, misbooked,
                   restartLeft, incFaults>>

\* Mutant: a check that succeeds leaves the time of the first failure.
HorizonAnswersKeepsSince ==
    /\ incJob.cycle.at = "horizon" /\ horizonUp
    /\ failedFor' = NoTime
    /\ incJob' = [incJob EXCEPT !.cycle = Call("horizon_unreachable", "resolve")]
    /\ UNCHANGED <<incWatched, since, sinceMem, staleSince, book, bookMem, paged,
                   restartPending, misbooked, restartLeft, incFaults>>

\* A check that succeeds forgets the outage before it resolves the incident.
HorizonAnswers ==
    /\ incJob.cycle.at = "horizon" /\ horizonUp
    /\ \E fault \in BOOLEAN :
         /\ Outcome(fault)
         /\ since' = IF fault THEN since ELSE NoTime
         /\ sinceMem' = IF fault THEN NoTime ELSE sinceMem
         /\ staleSince' = (staleSince \/ fault)
    /\ failedFor' = NoTime
    /\ incJob' = [incJob EXCEPT !.cycle = Call("horizon_unreachable", "resolve")]
    /\ UNCHANGED <<incWatched, book, bookMem, paged, restartPending, misbooked, restartLeft>>

\* A check that fails: the time of the first failure is read, or set to now, and
\* the incident is opened when the threshold is over.
HorizonFails ==
    /\ incJob.cycle.at = "horizon" /\ ~horizonUp
    /\ \E fault \in {"none", "read", "write"} :
         LET first == IF fault = "read" THEN sinceMem ELSE since IN
         /\ Outcome(fault # "none")
         /\ fault = "write" => first = NoTime
         /\ since' = IF first = NoTime /\ fault # "write" THEN 0 ELSE since
         /\ sinceMem' = IF fault = "write" THEN 0 ELSE sinceMem
         /\ staleSince' = (staleSince \/ fault = "write")
         /\ incJob' = [incJob EXCEPT !.cycle =
              IF (IF first = NoTime THEN 0 ELSE first) >= OUTAGE_THRESHOLD
              THEN Call("horizon_unreachable", "trigger") ELSE At("idle")]
    /\ failedFor' = IF failedFor = NoTime THEN 0 ELSE failedFor
    /\ UNCHANGED <<incWatched, book, bookMem, paged, restartPending, misbooked, restartLeft>>

\* The restart is over when Horizon answered and a signer is active.
CheckRestart ==
    /\ incJob.cycle.at = "restart"
    /\ incJob' = [incJob EXCEPT !.cycle =
         IF restartPending /\ signersActive THEN Call("server_restart", "resolve")
         ELSE At("idle")]
    /\ UNCHANGED <<incWatched, incOutage, book, bookMem, paged, restartPending, misbooked,
                   restartLeft, incFaults>>

\* isOpen: an incident is not opened twice, nor resolved when it is not open.
IsOpen(k) ==
    LET j == incJob[k] IN
    /\ j.at = "read" /\ UNCHANGED paged
    /\ \E fault \in BOOLEAN :
         /\ Outcome(fault)
         /\ IF (j.type \in IF fault THEN bookMem ELSE book) # (j.action = "trigger")
            THEN /\ incJob' = [incJob EXCEPT ![k].at = "send"]
                 /\ UNCHANGED <<restartPending, restartLeft>>
            ELSE IncidentReturns(k)
         /\ misbooked' = IF /\ incJob'[k].at = "send"
                            /\ \E o \in DOMAIN incJob \ {k} :
                                 incJob[o].type = j.type /\ incJob[o].at # "read"
                         THEN misbooked \cup {j.type} ELSE misbooked
    /\ UNCHANGED <<incWatched, incOutage, book, bookMem>>

\* sendEvent: the event is delivered, or it is lost, or its answer is.
SendEvent(k) ==
    LET j == incJob[k] IN
    /\ j.at = "send"
    /\ \E fault, arrives \in BOOLEAN :
         /\ Outcome(fault) /\ (fault \/ arrives)
         /\ paged' = IF arrives THEN After(paged, j.type, j.action) ELSE paged
         /\ misbooked' = IF fault /\ arrives THEN misbooked \cup {j.type} ELSE misbooked
         /\ IF fault THEN IncidentReturns(k)
            ELSE /\ incJob' = [incJob EXCEPT ![k].at = "write"]
                 /\ UNCHANGED <<restartPending, restartLeft>>
    /\ UNCHANGED <<incWatched, incOutage, book, bookMem>>

\* setOpen: in Redis, or in the map alone.
SetOpen(k) ==
    LET j == incJob[k] IN
    /\ j.at = "write"
    /\ \E fault \in BOOLEAN :
         /\ Outcome(fault)
         /\ book' = IF fault THEN book ELSE After(book, j.type, j.action)
         /\ bookMem' = IF fault THEN After(bookMem, j.type, j.action) ELSE bookMem
         /\ misbooked' = IF fault THEN misbooked \cup {j.type} ELSE misbooked
    /\ UNCHANGED paged /\ IncidentReturns(k)
    /\ UNCHANGED <<incWatched, incOutage>>

\* A new process: its map is empty, and what was under way is not finished.
IncRestart ==
    /\ Outcome(TRUE)
    /\ incJob' = Started /\ restartPending' = TRUE /\ restartLeft' = FALSE
    /\ bookMem' = {} /\ sinceMem' = NoTime
    /\ misbooked' = misbooked \cup
         {incJob[k].type : k \in {o \in DOMAIN incJob : incJob[o].at = "write"}}
    /\ UNCHANGED <<incWatched, since, failedFor, staleSince, book, paged>>

Watched ==
    /\ incChanges < MaxChanges /\ incChanges' = incChanges + 1
    /\ \/ signersActive' = ~signersActive /\ UNCHANGED horizonUp
       \/ horizonUp' = ~horizonUp /\ UNCHANGED signersActive
    /\ UNCHANGED <<incOutage, book, bookMem, paged, incJob, restartPending, misbooked,
                   restartLeft, incFaults>>

IncTick ==
    /\ since' = Age(since) /\ sinceMem' = Age(sinceMem) /\ failedFor' = Age(failedFor)
    /\ UNCHANGED <<incWatched, staleSince, book, bookMem, paged, incJob, restartPending,
                   misbooked, restartLeft, incFaults>>

IncStep(k) == IsOpen(k) \/ SendEvent(k) \/ SetOpen(k)
CycleStep ==
    checkSignerPool \/ HorizonAnswers \/ HorizonFails \/ CheckRestart \/ IncStep("cycle")

IncNext == CycleStep \/ IncStep("boot") \/ IncRestart \/ Watched \/ IncTick

IncSpec == IncInit /\ [][IncNext]_incVars
IncFairSpec == /\ IncSpec /\ WF_incVars(CycleStep) /\ WF_incVars(IncStep("boot"))
               /\ WF_incVars(IncTick)
-----------------------------------------------------------------------------
Times == {NoTime} \cup 0 .. OUTAGE_THRESHOLD

IncTypeOK ==
    /\ signersActive \in BOOLEAN /\ horizonUp \in BOOLEAN /\ restartPending \in BOOLEAN
    /\ book \cup bookMem \cup paged \cup misbooked \subseteq IncidentTypes
    /\ since \in Times /\ sinceMem \in Times /\ failedFor \in Times
    /\ incFaults \in 0 .. MaxIncidentFaults /\ incChanges \in 0 .. MaxChanges

\* Redis names the incidents PagerDuty has open, but for one whose entry is on
\* its way, or that an answer, an entry or a process was lost of.
BookAgrees ==
    \A t \in IncidentTypes \ misbooked :
       (t \in book) = (t \in paged) \/ \E k \in DOMAIN incJob : incJob[k].type = t

\* Nobody is paged for Horizon before every check of the whole threshold failed,
\* across restarts too, unless Redis refused a write of the first failure's time.
PagedAfterOutage ==
    incJob.cycle.type = "horizon_unreachable" /\ incJob.cycle.action = "trigger" =>
       failedFor = OUTAGE_THRESHOLD \/ staleSince

\* The books of the incident monitor are sound: see the two properties above.
IncidentInv == IncTypeOK /\ BookAgrees /\ PagedAfterOutage

ConditionOver(t) == CASE t = "signer_pool_empty" -> signersActive
              [] t = "horizon_unreachable" -> horizonUp
              [] OTHER -> signersActive /\ horizonUp

\* Incidents open without their condition, and conditions without an incident, but
\* for those whose books went wrong and for the incident of a restart that the
\* process took for over while it was open or its report still on its way.  That
\* happens when the report is late, and when the one call that resolves it fails:
\* a refused or lost event, or a failing read of Redis before it.  restartPending
\* is cleared all the same and the process never tries again.
Unsettled ==
    {t \in IncidentTypes \ misbooked :
       \/ t \in paged /\ ConditionOver(t) /\ (t = "server_restart" => ~restartLeft)
       \/ t \notin paged /\ ~ConditionOver(t) /\ t # "server_restart"}

\* An incident is closed once its condition is over, and a condition that lasts is
\* paged, whatever fails, unless it is one of the exceptions of Unsettled.
IncidentsFollow == Unsettled # {} ~> Unsettled = {}
=============================================================================

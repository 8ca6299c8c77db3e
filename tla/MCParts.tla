------------------------------ MODULE MCParts ------------------------------
(***************************************************************************)
(* Parts of the system on their own, for TLC: the Rust server's signer     *)
(* pool, Horizon cluster and archival job; of the Node server one job of   *)
(* the fee-bump queue, the in-memory stores and the services around the    *)
(* fee-bump path; and the client's offline queue.  They share no state     *)
(* here, so a behaviour picks one of them and the state space is the sum   *)
(* of theirs.  No symmetry, since liveness is checked.                     *)
(***************************************************************************)
EXTENDS SignerPool, HorizonCluster, ArchivalJob, FeeBumpQueue, IdempotencyService,
        RateLimit, SignerRegistry, PaymasterQueue, CrossChainSettlement, WebhookDelivery,
        LedgerMonitor, ApiKeyAuth, QuotaTopUp, SandboxGuard, BatchFeeBump, TreasurySweeper,
        TenantRegistration, IncidentMonitor, BalanceAlerts

CONSTANT Parts      \* the parts the instance is about

VARIABLE part

partsVars == <<poolVars, clusterVars, archiveVars, vars, idemVars, rateVars, regVars, pqVars,
               settleVars, hookVars, monitorVars, authVars, topUpVars, sbxVars, batchVars,
               sweepVars, signupVars, incVars, balVars, part>>

PartsInit ==
    /\ PoolInit /\ ClusterInit /\ ArchiveInit /\ Init /\ IdemInit /\ RateInit /\ RegInit
    /\ PQInit /\ SettleInit /\ HookInit /\ MonitorInit /\ AuthInit /\ TopUpInit /\ SbxInit
    /\ BatchInit /\ SweepInit /\ SignupInit /\ IncInit /\ BalInit
    /\ part \in Parts
    \* one initial state of the parts at rest
    /\ part # "cluster" => strategy = "priority"
    /\ part # "queue" => \A j \in Jobs : kind[j] = "submit"
    /\ part # "client" => online
    /\ part # "auth" => keyRow = "unborn"
    /\ part # "topup" => verifies

\* Everything that is not the state of part p.
Others(p) ==
    /\ p # "pool"     => UNCHANGED poolVars
    /\ p # "cluster"  => UNCHANGED clusterVars
    /\ p # "archive"  => UNCHANGED archiveVars
    /\ p # "queue"    => UNCHANGED vars
    /\ p # "idem"     => UNCHANGED idemVars
    /\ p # "rate"     => UNCHANGED rateVars
    /\ p # "registry" => UNCHANGED regVars
    /\ p # "client"   => UNCHANGED pqVars
    /\ p # "settle"   => UNCHANGED settleVars
    /\ p # "hook"     => UNCHANGED hookVars
    /\ p # "monitor"  => UNCHANGED monitorVars
    /\ p # "auth"     => UNCHANGED authVars
    /\ p # "topup"    => UNCHANGED topUpVars
    /\ p # "sandbox"  => UNCHANGED sbxVars
    /\ p # "batch"    => UNCHANGED batchVars
    /\ p # "sweep"    => UNCHANGED sweepVars
    /\ p # "signup"   => UNCHANGED signupVars
    /\ p # "incident" => UNCHANGED incVars
    /\ p # "balance"  => UNCHANGED balVars
    /\ UNCHANGED part

\* The client's items differ in nothing but their names: they are saved in one order.
InOrder == saved' # {} => (CHOOSE i \in Items : TRUE) \in saved'

PartsNext ==
    \/ part = "pool"     /\ PoolNext    /\ Others("pool")
    \/ part = "cluster"  /\ ClusterNext /\ Others("cluster")
    \/ part = "archive"  /\ ArchiveNext /\ Others("archive")
    \/ part = "queue"    /\ Next        /\ Others("queue")
    \/ part = "idem"     /\ IdemNext    /\ Others("idem")
    \/ part = "rate"     /\ RateNext    /\ Others("rate")
    \/ part = "registry" /\ RegNext     /\ Others("registry")
    \/ part = "client"   /\ PQNext      /\ Others("client")   /\ InOrder
    \/ part = "settle"   /\ SettleNext  /\ Others("settle")
    \/ part = "hook"     /\ HookNext    /\ Others("hook")
    \/ part = "monitor"  /\ MonitorNext /\ Others("monitor")
    \/ part = "auth"     /\ AuthNext    /\ Others("auth")
    \/ part = "topup"    /\ TopUpNext   /\ Others("topup")
    \/ part = "sandbox"  /\ SbxNext     /\ Others("sandbox")
    \/ part = "batch"    /\ BatchNext   /\ Others("batch")
    \/ part = "sweep"    /\ SweepNext   /\ Others("sweep")
    \/ part = "signup"   /\ SignupNext  /\ Others("signup")
    \/ part = "incident" /\ IncNext     /\ Others("incident")
    \/ part = "balance"  /\ BalNext     /\ Others("balance")

\* The fairness of each module's specification, for the part that runs.
PartsFairness ==
    /\ WF_poolVars(part = "pool" /\ Revalidate)
    /\ \A i \in Accounts :
         SF_poolVars(part = "pool" /\ next = i /\ \E b \in Balances : RevalidateApply(b))
    /\ \A j \in Jobs :
         /\ WF_vars(part = "queue" /\ Start(j))
         /\ WF_vars(part = "queue" /\ Attempt(j))
         /\ WF_vars(part = "queue" /\ Promote(j))
         /\ WF_vars(part = "queue" /\ RequeueStalled(j))
         /\ WF_vars(part = "queue" /\ Respond(j))
         /\ WF_vars(part = "queue" /\ TimesOut(j))
    /\ WF_vars(part = "queue" /\ Tick)
    /\ \A t \in Tabs : /\ WF_pqVars(part = "client" /\ onOnline(t))
                       /\ WF_pqVars(part = "client" /\ ItemStep(t))
    /\ \A p \in Pollers : /\ WF_settleVars(part = "settle" /\ processPendingSettlements(p))
                          /\ WF_settleVars(part = "settle" /\ processSettlement(p))
    /\ WF_monitorVars(part = "monitor" /\ MonitorWork)
    /\ WF_authVars(part = "auth" /\ CacheAges)
    /\ \A r \in AuthReplicas : WF_authVars(part = "auth" /\ Redis(r))
    /\ WF_sbxVars(part = "sandbox" /\ SbxTick)
    /\ \A q \in SbxRequests : WF_sbxVars(part = "sandbox" /\ SbxStep(q))
    /\ WF_incVars(part = "incident" /\ CycleStep)
    /\ WF_incVars(part = "incident" /\ IncStep("boot"))
    /\ WF_incVars(part = "incident" /\ IncTick)
    /\ WF_balVars(part = "balance" /\ MonitorCycle)
    /\ WF_balVars(part = "balance" /\ BalTick)
    /\ \A t \in Transfers : WF_balVars(part = "balance" /\ TransferStep(t))

PartsSpec == PartsInit /\ [][PartsNext]_partsVars
PartsFairSpec == PartsSpec /\ PartsFairness

\* What is kept for a tenant is sound: how it came to be, its API key, its sandbox
\* counter and the quota it bought.
TenantInv == SignupInv /\ AuthTypeOK /\ SbxTypeOK /\ TopUpInv

\* The monitors keep sound books: a transaction is reported once per tracking and
\* wrongly only after a lookup that missed, with the exceptions named there, and the
\* open incidents agree with what PagerDuty was told.
MonitorsInv == MonitorInv /\ IncidentInv

\* The treasury is sound: sweeps on their own leave what is to be retained, less
\* fees, and a transfer that was begun is accounted for.
TreasuryInv == SweepInv /\ BalInv

\* Both queues drain: every job of the server's ends and is answered, and what the
\* client kept leaves while a page that is not dead hears that the network is back.
QueuesDrain == EveryJobEnds /\ QueueDrains

\* The operators hear of what lasts: an incident is paged and closed after its
\* condition, and a fee payer that stays low is alerted.
AlertsFollow == IncidentsFollow /\ LowIsAlerted

\* Batches that share transactions: one that fits the quota, one that is only
\* signed, and one that is longer than the quota.
MCItemsOf == [b1 |-> <<"x", "y">>, b2 |-> <<"y">>, b3 |-> <<"y", "z", "x">>]
MCSubmitOf == [b1 |-> TRUE, b2 |-> FALSE, b3 |-> TRUE]

\* An account is empty or funded.
MCBalances == {0, 5}

\* A submission, an account lookup and a transaction lookup.
MCKindOf(c) == CASE c = "a" -> "auth" [] c = "l" -> "lookup" [] OTHER -> "submit"

=============================================================================

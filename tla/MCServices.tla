----------------------------- MODULE MCServices -----------------------------
(***************************************************************************)
(* The parts of the node that must keep making progress, one instance of   *)
(* each: the lifecycle gate, the webhook pipeline, the process shutdown,   *)
(* the private Unix socket and the version probe.  They share no state, so *)
(* a behaviour is a behaviour of one of them, chosen in the initial state, *)
(* while the others stay where they began.  The webhook pipeline is run    *)
(* twice, without start notices and without configuration requests.        *)
(***************************************************************************)
EXTENDS LifecycleGate, WebhookPipeline, NodeShutdown, UnixSocket, VersionProbe

VARIABLE part   \* the part that runs

svVars == <<vars, whVars, nsVars, usVars, vpVars, part>>

SvInit ==
    /\ part \in {"gate", "webhook", "notice", "shutdown", "socket", "version"}
    /\ Init /\ WhInit /\ NsInit /\ UsInit /\ VpInit
    /\ part = "socket" \/ usPath = <<"none">>
    /\ part = "version" \/ vpCached = NoVersion

SvNext ==
    /\ part' = part
    /\ \/ part = "gate" /\ Next /\ UNCHANGED <<whVars, nsVars, usVars, vpVars>>
       \/ part = "webhook" /\ WhNext /\ UNCHANGED <<whNotices, vars, nsVars, usVars, vpVars>>
       \/ /\ part = "notice" /\ WhNext /\ UNCHANGED <<vars, nsVars, usVars, vpVars>>
          /\ \A c \in Configs : whReq'[c] = "new"
       \/ part = "shutdown" /\ NsNext /\ UNCHANGED <<vars, whVars, usVars, vpVars>>
       \/ part = "socket" /\ UsNext /\ UNCHANGED <<vars, whVars, nsVars, vpVars>>
       \/ part = "version" /\ VpNext /\ UNCHANGED <<vars, whVars, nsVars, usVars>>

WhRuns == part \in {"webhook", "notice"}

\* The fairness of every part, while it is the one that runs.
SvFairness ==
    /\ \A r \in Requests : WF_vars(part = "gate" /\ Step(r))
    /\ \A c \in Configs : /\ WF_whVars(WhRuns /\ WhTakeWebhookSlot(c))
                          /\ WF_whVars(WhRuns /\ WhTakeTotalSlot(c))
                          /\ WF_whVars(WhRuns /\ WhReadConfig(c))
    /\ \A w \in Webhooks : /\ WF_whVars(WhRuns /\ WhSendAborted(w))
                           /\ WF_whVars(WhRuns /\ WhAnswer(w))
    /\ WF_whVars(WhRuns /\ WhWorkerStep)
    /\ WF_whVars(WhRuns /\ WhDelivered)
    /\ WF_whVars(WhRuns /\ WhCloseStep)
    /\ WF_nsVars(part = "shutdown" /\ NsRunNode) /\ WF_nsVars(part = "shutdown" /\ NsExpire)
    /\ WF_vpVars(part = "version" /\ VpBackground) /\ WF_vpVars(part = "version" /\ VpJoin)

SvSpec == SvInit /\ [][SvNext]_svVars /\ SvFairness
=============================================================================

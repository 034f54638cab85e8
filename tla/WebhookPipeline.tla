-------------------------- MODULE WebhookPipeline --------------------------
(***************************************************************************)
(* The internal Unix-socket server's handlers and the torrent webhook      *)
(* pipeline behind them (internal/unixconfig, plugin/torrent.go,           *)
(* plugin/webhook.go, plugin/poststart.go): the handler slots, the         *)
(* admission lock, the bounded queue, the single worker that processes an  *)
(* item under the plugin operation gate, the bounded outbound deliveries,  *)
(* and the part of CloseContext that stops all of it.                      *)
(*                                                                         *)
(* A request passes webhook slot -> total slot -> handler.  A webhook      *)
(* handler takes the admission lock for reading, and waits in one select   *)
(* for room in the queue, the stop channel or its own deadline.            *)
(***************************************************************************)
EXTENDS Naturals, Sequences, FiniteSets

CONSTANTS Webhooks,   \* POST /internal/webhook requests
          Configs,    \* GET /internal/get-config and /internal/health requests
          Notices,    \* how many post-start notifications may be offered
          MaxActive,  \* maxConcurrentUnixHandlers
          QueueCap,   \* capacity of webhookQueue
          OutCap      \* capacity of outboundWebhookSlots

ASSUME WhAssumption == /\ MaxActive \in Nat \ {0, 1} /\ QueueCap \in Nat \ {0}
                       /\ OutCap \in Nat \ {0} /\ Notices \in Nat

VARIABLES whReq,      \* where each request stands
          whLive,     \* requests whose context is not done
          whQueue,    \* webhookQueue: payloads by their request, or "notice"
          whWorker,   \* runWebhookWorker: [pc, item]
          whGate,     \* holder of the plugin operationGate
          whOut,      \* deliveries in flight
          whNotices,  \* notifications still to come
          whStopped,  \* webhookStopped
          whStop,     \* the stop channel is closed, webhookContext cancelled
          whClose,    \* CloseContext: [pc, err]
          whFate      \* what became of each payload (history)

whVars == <<whReq, whLive, whQueue, whWorker, whGate, whOut, whNotices,
            whStopped, whStop, whClose, whFate>>

WhRequests == Webhooks \cup Configs
WhDone == {"ok", "refused"}

WhInit ==
    /\ whReq = [r \in WhRequests |-> "new"]
    /\ whLive = WhRequests
    /\ whQueue = <<>>
    /\ whWorker = [pc |-> "top", item |-> "none"]
    /\ whGate = "free"
    /\ whOut = 0
    /\ whNotices = Notices
    /\ whStopped = FALSE
    /\ whStop = FALSE
    /\ whClose = [pc |-> "idle", err |-> FALSE]
    /\ whFate = [w \in Webhooks |-> "none"]

-----------------------------------------------------------------------------
\* Handler slots.

\* Only the webhook path takes a webhook slot.
WhNeedsWebhookSlot(r) == r \in Webhooks

WhWebhookCapacity == MaxActive - 1

WhInHandler == {r \in WhRequests : whReq[r] \in {"handler", "send", "sent"}}
WhHoldsWebhookSlot ==
    {r \in WhRequests : WhNeedsWebhookSlot(r)
                        /\ whReq[r] \in {"total", "handler", "send", "sent"}}

\* A handler that returns cancels its request context.
WhGoto(r, pc) == /\ whReq' = [whReq EXCEPT ![r] = pc]
                 /\ whLive' = IF pc \in WhDone THEN whLive \ {r} ELSE whLive

WhHandlerFrame == UNCHANGED <<whQueue, whWorker, whGate, whOut, whNotices,
                              whStopped, whStop, whClose, whFate>>

WhArrive(r) ==
    /\ whReq[r] = "new"
    /\ WhGoto(r, IF WhNeedsWebhookSlot(r) THEN "webhook" ELSE "total")
    /\ WhHandlerFrame

WhTakeWebhookSlot(r) ==
    /\ whReq[r] = "webhook" /\ r \in whLive
    /\ Cardinality(WhHoldsWebhookSlot) < WhWebhookCapacity
    /\ WhGoto(r, "total")
    /\ WhHandlerFrame

WhTakeTotalSlot(r) ==
    /\ whReq[r] = "total" /\ r \in whLive
    /\ Cardinality(WhInHandler) < MaxActive
    /\ WhGoto(r, "handler")
    /\ WhHandlerFrame

\* A request whose context ends while it waits for a slot is answered 503.
WhNoCapacity(r) ==
    /\ whReq[r] \in {"webhook", "total"} /\ r \notin whLive
    /\ WhGoto(r, "refused")
    /\ WhHandlerFrame

\* The request timeout, the client going away, or the server's context.
WhExpire(r) ==
    /\ r \in whLive /\ whReq[r] # "new"
    /\ whLive' = whLive \ {r}
    /\ UNCHANGED <<whReq, whQueue, whWorker, whGate, whOut, whNotices,
                   whStopped, whStop, whClose, whFate>>

WhReadConfig(c) ==
    /\ whReq[c] = "handler"
    /\ WhGoto(c, "ok")
    /\ WhHandlerFrame

-----------------------------------------------------------------------------
\* Admission of a webhook.

\* A wrong method or token is refused; a payload that does not decode is
\* logged and answered 200 without being queued.
WhTurnAway(w) ==
    /\ whReq[w] = "handler"
    /\ \E answer \in WhDone : WhGoto(w, answer)
    /\ WhHandlerFrame

\* RLock waits behind CloseContext's pending Lock.
WhAdmit(w) ==
    /\ whReq[w] = "handler"
    /\ whClose.pc # "barrier"
    /\ WhGoto(w, IF whStopped \/ w \notin whLive THEN "refused" ELSE "send")
    /\ WhHandlerFrame

WhSend(w) ==
    /\ whReq[w] = "send"
    /\ Len(whQueue) < QueueCap
    /\ whQueue' = Append(whQueue, w)
    /\ whFate' = [whFate EXCEPT ![w] = "queued"]
    /\ WhGoto(w, "sent")
    /\ UNCHANGED <<whWorker, whGate, whOut, whNotices, whStopped, whStop, whClose>>

WhSendAborted(w) ==
    /\ whReq[w] = "send"
    /\ whStop \/ w \notin whLive
    /\ WhGoto(w, "refused")
    /\ WhHandlerFrame

WhAnswer(w) ==
    /\ whReq[w] = "sent"
    /\ WhGoto(w, IF whStopped THEN "refused" ELSE "ok")
    /\ WhHandlerFrame

\* NotifyCoreStarted queues a delivery, or drops it when the queue is full.
WhNotify ==
    /\ whNotices > 0
    /\ whClose.pc # "barrier"
    /\ whNotices' = whNotices - 1
    /\ whQueue' = IF whStopped \/ Len(whQueue) >= QueueCap
                  THEN whQueue ELSE Append(whQueue, "notice")
    /\ UNCHANGED <<whReq, whLive, whWorker, whGate, whOut, whStopped, whStop, whClose, whFate>>

-----------------------------------------------------------------------------
\* The worker.

WhWorkerGoto(pc, item) == whWorker' = [pc |-> pc, item |-> item]

WhWorkerFrame == UNCHANGED <<whReq, whLive, whNotices, whStopped, whStop, whClose>>

WhDiscard == whFate' = [w \in Webhooks |-> IF w = whWorker.item THEN "discarded" ELSE whFate[w]]

WhWorkerTop ==
    /\ whWorker.pc = "top"
    /\ WhWorkerGoto(IF whStop THEN "drain" ELSE "take", "none")
    /\ UNCHANGED <<whQueue, whGate, whOut, whFate>> /\ WhWorkerFrame

\* The select: a closed stop channel and a queued item may both be ready.
WhWorkerTakes ==
    /\ whWorker.pc = "take" /\ whQueue # <<>>
    /\ whQueue' = Tail(whQueue)
    /\ WhWorkerGoto(IF Head(whQueue) = "notice" THEN "dispatch" ELSE "gate", Head(whQueue))
    /\ UNCHANGED <<whGate, whOut, whFate>> /\ WhWorkerFrame

WhWorkerStops ==
    /\ whWorker.pc \in {"take", "gate"} /\ whStop
    /\ WhDiscard
    /\ WhWorkerGoto("drain", "none")
    /\ UNCHANGED <<whQueue, whGate, whOut>> /\ WhWorkerFrame

WhWorkerEnters ==
    /\ whWorker.pc = "gate" /\ whGate = "free"
    /\ whGate' = "worker"
    /\ WhWorkerGoto("recheck", whWorker.item)
    /\ UNCHANGED <<whQueue, whOut, whFate>> /\ WhWorkerFrame

WhWorkerRechecks ==
    /\ whWorker.pc = "recheck"
    /\ IF whStop
       THEN whGate' = "free" /\ WhDiscard /\ WhWorkerGoto("drain", "none")
       ELSE UNCHANGED <<whGate, whFate>> /\ WhWorkerGoto("process", whWorker.item)
    /\ UNCHANGED <<whQueue, whOut>> /\ WhWorkerFrame

\* processXrayWebhookLocked: with or without a delivery to make.
WhWorkerProcesses ==
    /\ whWorker.pc = "process"
    /\ whGate' = "free"
    /\ whFate' = [whFate EXCEPT ![whWorker.item] = "processed"]
    /\ \E pc \in {"top", "dispatch"} : WhWorkerGoto(pc, whWorker.item)
    /\ UNCHANGED <<whQueue, whOut>> /\ WhWorkerFrame

WhHasOutboundSlot == ~whStop /\ whOut < OutCap

\* dispatchWebhook: dropped when cancelled or when no slot is free.
WhWorkerDispatches ==
    /\ whWorker.pc = "dispatch"
    /\ whOut' = IF WhHasOutboundSlot THEN whOut + 1 ELSE whOut
    /\ WhWorkerGoto("top", "none")
    /\ UNCHANGED <<whQueue, whGate, whFate>> /\ WhWorkerFrame

\* sendWebhook returns: answered, failed, timed out or cancelled.
WhDelivered ==
    /\ whOut > 0
    /\ whOut' = whOut - 1
    /\ UNCHANGED <<whReq, whLive, whQueue, whWorker, whGate, whNotices,
                   whStopped, whStop, whClose, whFate>>

WhWorkerExits ==
    /\ whWorker.pc = "drain" /\ whOut = 0
    /\ WhWorkerGoto("done", "none")
    /\ UNCHANGED <<whQueue, whGate, whOut, whFate>> /\ WhWorkerFrame

\* A plugin mutation holds the operation gate for as long as it likes.
WhMutation ==
    /\ \/ whGate = "free" /\ whGate' = "mutation"
       \/ whGate = "mutation" /\ whGate' = "free"
    /\ UNCHANGED <<whReq, whLive, whQueue, whWorker, whOut, whNotices,
                   whStopped, whStop, whClose, whFate>>

-----------------------------------------------------------------------------
\* CloseContext.

WhCloseFrame == UNCHANGED <<whReq, whLive, whWorker, whOut, whNotices>>
WhCloseGoto(pc, err) == whClose' = [pc |-> pc, err |-> err]

WhCloseBegin ==
    /\ whClose.pc = "idle"
    /\ whStopped' = TRUE
    /\ WhCloseGoto("signal", FALSE)
    /\ UNCHANGED <<whQueue, whGate, whStop, whFate>> /\ WhCloseFrame

\* Mutant: the admission lock is taken before the stop channel is closed.
WhCloseLocksFirst ==
    /\ whClose.pc = "signal"
    /\ WhCloseGoto("barrier", FALSE)
    /\ UNCHANGED <<whQueue, whGate, whStopped, whStop, whFate>> /\ WhCloseFrame

WhCloseSignal ==
    /\ whClose.pc = "signal"
    /\ whStop' = TRUE
    /\ WhCloseGoto("barrier", FALSE)
    /\ UNCHANGED <<whQueue, whGate, whStopped, whFate>> /\ WhCloseFrame

WhAdmitting == {w \in Webhooks : whReq[w] \in {"send", "sent"}}

WhCloseBarrier ==
    /\ whClose.pc = "barrier" /\ WhAdmitting = {}
    /\ WhCloseGoto("gate", FALSE)
    /\ UNCHANGED <<whQueue, whGate, whStopped, whStop, whFate>> /\ WhCloseFrame

WhCloseEnters ==
    /\ whClose.pc = "gate" /\ whGate = "free"
    /\ whGate' = "close"
    /\ WhCloseGoto("cleanup", FALSE)
    /\ UNCHANGED <<whQueue, whStopped, whStop, whFate>> /\ WhCloseFrame

\* nft.Close under the gate; its error is joined to the worker's.
WhCloseCleans ==
    /\ whClose.pc = "cleanup"
    /\ whGate' = "free"
    /\ \E err \in BOOLEAN : WhCloseGoto("join", err)
    /\ UNCHANGED <<whQueue, whStopped, whStop, whFate>> /\ WhCloseFrame

\* finishWebhookShutdown: the worker is gone, what is left is thrown away.
WhCloseJoins ==
    /\ whClose.pc = "join" /\ whWorker.pc = "done"
    /\ whQueue' = <<>>
    /\ whFate' = [w \in Webhooks |-> IF whFate[w] = "queued" THEN "discarded" ELSE whFate[w]]
    /\ WhCloseGoto(IF whClose.err THEN "failed" ELSE "closed", FALSE)
    /\ UNCHANGED <<whGate, whStopped, whStop>> /\ WhCloseFrame

WhCloseTimesOut ==
    /\ whClose.pc \in {"gate", "join"}
    /\ WhCloseGoto("failed", FALSE)
    /\ UNCHANGED <<whQueue, whGate, whStopped, whStop, whFate>> /\ WhCloseFrame

\* A later Close finds the stop already signalled.
WhCloseRetry ==
    /\ whClose.pc = "failed"
    /\ WhCloseGoto("gate", FALSE)
    /\ UNCHANGED <<whQueue, whGate, whStopped, whStop, whFate>> /\ WhCloseFrame

-----------------------------------------------------------------------------
WhWorkerStep == \/ WhWorkerTop \/ WhWorkerTakes \/ WhWorkerStops \/ WhWorkerEnters
                \/ WhWorkerRechecks \/ WhWorkerProcesses \/ WhWorkerDispatches \/ WhWorkerExits

WhCloseStep == \/ WhCloseSignal \/ WhCloseBarrier \/ WhCloseEnters \/ WhCloseCleans
               \/ WhCloseJoins \/ WhCloseTimesOut

WhNext ==
    \/ \E r \in WhRequests : \/ WhArrive(r) \/ WhTakeWebhookSlot(r) \/ WhTakeTotalSlot(r)
                             \/ WhNoCapacity(r) \/ WhExpire(r)
    \/ \E c \in Configs : WhReadConfig(c)
    \/ \E w \in Webhooks : WhTurnAway(w) \/ WhAdmit(w) \/ WhSend(w) \/ WhSendAborted(w) \/ WhAnswer(w)
    \/ WhNotify \/ WhDelivered \/ WhMutation
    \/ WhWorkerStep
    \/ WhCloseBegin \/ WhCloseStep \/ WhCloseRetry

\* Running goroutines get scheduled, deliveries and CloseContext have
\* deadlines.  Nothing is assumed of clients, of request deadlines, or of
\* whoever holds the operation gate.
WhFairness ==
    /\ \A c \in Configs : /\ WF_whVars(WhTakeWebhookSlot(c)) /\ WF_whVars(WhTakeTotalSlot(c))
                          /\ WF_whVars(WhReadConfig(c))
    /\ \A w \in Webhooks : WF_whVars(WhSendAborted(w)) /\ WF_whVars(WhAnswer(w))
    /\ WF_whVars(WhWorkerStep) /\ WF_whVars(WhDelivered) /\ WF_whVars(WhCloseStep)

WhSpec == WhInit /\ [][WhNext]_whVars /\ WhFairness

-----------------------------------------------------------------------------
\* Type correctness; whOut counts the occupied outbound slots.
WhTypeOK ==
    /\ whReq \in [WhRequests -> {"new", "webhook", "total", "handler", "send", "sent"} \cup WhDone]
    /\ whLive \subseteq WhRequests
    /\ whQueue \in UNION {[1..n -> Webhooks \cup {"notice"}] : n \in 0..QueueCap}
    /\ whWorker \in [pc : {"top", "take", "gate", "recheck", "process", "dispatch", "drain", "done"},
                     item : Webhooks \cup {"notice", "none"}]
    /\ whGate \in {"free", "mutation", "worker", "close"}
    /\ whOut \in 0..OutCap
    /\ whNotices \in 0..Notices
    /\ whStopped \in BOOLEAN /\ whStop \in BOOLEAN
    /\ whClose \in [pc : {"idle", "signal", "barrier", "gate", "cleanup", "join", "closed", "failed"},
                    err : BOOLEAN]
    /\ whFate \in [Webhooks -> {"none", "queued", "processed", "discarded"}]

\* Once CloseContext has returned without error nothing is left running: the
\* worker is gone, no delivery is in flight, no admission is under way and
\* the queue is empty and stays so (the admission barrier in
\* signalWebhookStop, the worker's final Wait, the drain).
WhClosedIsQuiet ==
    whClose.pc = "closed" =>
        /\ whWorker.pc = "done" /\ whOut = 0
        /\ whQueue = <<>> /\ WhAdmitting = {}

\* A webhook answered 200 for a queued payload has not already lost that
\* payload to shutdown (the re-check of webhookStopped after the send).
WhAcceptedNotDiscarded ==
    [][\A w \in Webhooks : whReq[w] = "sent" /\ whReq'[w] = "ok" => whFate[w] # "discarded"]_whVars

\* CloseContext returns, whoever is blocked in an admission or in the gate
\* (the stop channel is closed before the admission lock is taken).
WhCloseReturns == whClose.pc = "signal" ~> whClose.pc \in {"closed", "failed"}

\* A configuration or health request is served however many webhooks are
\* blocked on a full queue: they never hold the last handler slot.
WhConfigIsServed ==
    \A c \in Configs : whReq[c] \in {"webhook", "total"} ~> (whReq[c] \in WhDone \/ c \notin whLive)

\* What the pipeline promises: an accepted webhook is not lost to shutdown,
\* nobody starves behind a full queue, and Close ends with nothing running.
WhPromise ==
    /\ [](WhTypeOK /\ WhClosedIsQuiet)
    /\ WhAcceptedNotDiscarded
    /\ WhCloseReturns
    /\ WhConfigIsServed
=============================================================================

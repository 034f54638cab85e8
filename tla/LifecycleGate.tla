---------------------------- MODULE LifecycleGate ----------------------------
(***************************************************************************)
(* xrayLifecycleGate (internal/httpserver/lifecycle_gate.go): the lease    *)
(* every panel request takes before it reaches Manager or the plugins.     *)
(* Starts share it; stop, plugin, user and reset-capable stats requests    *)
(* hold it alone, and a waiting one keeps later starts out.                *)
(*                                                                         *)
(* Each critical section on gate.mu is one action.  A waiter sleeps on the *)
(* channel `changed` it read under the mutex; notifyLocked closes that     *)
(* channel, so exactly the requests that sleep at that moment are woken.   *)
(***************************************************************************)
EXTENDS Naturals, FiniteSets

CONSTANTS Starts, Exclusives    \* requests in flight, by the lease they take

ASSUME RequestsAssumption ==
    /\ Starts \cap Exclusives = {}
    /\ IsFiniteSet(Starts) /\ IsFiniteSet(Exclusives)

Requests == Starts \cup Exclusives

VARIABLES
    mode, activeStarts, waitingExclusive,   \* the gate
    pc,          \* where each request is
    woken,       \* sleepers whose channel has been closed
    ctxDone      \* requests whose context has ended

gateVars == <<mode, activeStarts, waitingExclusive>>
vars == <<gateVars, pc, woken, ctxDone>>

\* "sleep": in the select; "check": admitted, before the context check;
\* "abandon": woken by the context, about to lock gate.mu.
Pcs == {"idle", "try", "sleep", "abandon", "check", "held"}

Init ==
    /\ mode = "idle" /\ activeStarts = 0 /\ waitingExclusive = 0
    /\ pc = [r \in Requests |-> "idle"]
    /\ woken = {} /\ ctxDone = {}

Goto(r, to) == pc' = [pc EXCEPT ![r] = to]

\* notifyLocked
Notify == woken' = {r \in Requests : pc[r] = "sleep"}

\* A request arrives; its context may end at any time until it is answered.
Arrive(r) ==
    /\ pc[r] = "idle"
    /\ r \in Starts
    /\ Goto(r, "try")
    /\ UNCHANGED <<gateVars, woken, ctxDone>>

Cancel(r) ==
    /\ pc[r] # "idle" /\ r \notin ctxDone
    /\ ctxDone' = ctxDone \cup {r}
    /\ UNCHANGED <<gateVars, pc, woken>>

Return(r) == Goto(r, "idle") /\ ctxDone' = ctxDone \ {r}

\* The select of either acquire: the channel was closed, or the context ended.
Wake(r) ==
    /\ pc[r] = "sleep"
    /\ \/ r \in woken /\ Goto(r, "try") /\ UNCHANGED ctxDone
       \/ r \in ctxDone /\ r \in Exclusives /\ Goto(r, "abandon") /\ UNCHANGED ctxDone
       \/ r \in ctxDone /\ r \in Starts /\ Return(r)
    /\ woken' = woken \ {r}
    /\ UNCHANGED gateVars

Admits == waitingExclusive = 0 /\ mode \in {"idle", "starts"}

\* One iteration of acquireStart.
TryStart(r) ==
    /\ r \in Starts /\ pc[r] = "try"
    /\ IF Admits
       THEN /\ mode' = "starts"
            /\ activeStarts' = activeStarts + 1
            /\ Goto(r, "check")
            /\ UNCHANGED waitingExclusive
       ELSE /\ Goto(r, "sleep")
            /\ UNCHANGED gateVars
    /\ UNCHANGED <<woken, ctxDone>>

Registered(r) == IF pc[r] = "idle" THEN waitingExclusive + 1 ELSE waitingExclusive

\* acquireExclusive registers itself and tries in one critical section; woken,
\* it tries again.
TryExclusive(r) ==
    /\ r \in Exclusives /\ pc[r] \in {"idle", "try"}
    /\ IF mode = "idle"
       THEN /\ mode' = "exclusive"
            /\ waitingExclusive' = Registered(r) - 1
            /\ Goto(r, "check")
       ELSE /\ waitingExclusive' = Registered(r)
            /\ Goto(r, "sleep")
            /\ UNCHANGED mode
    /\ UNCHANGED <<activeStarts, woken, ctxDone>>

\* A plausible bug: a waiter that gives up tells nobody.
AbandonSilently(r) ==
    /\ r \in Exclusives /\ pc[r] = "abandon"
    /\ waitingExclusive' = waitingExclusive - 1
    /\ Return(r)
    /\ UNCHANGED <<mode, activeStarts, woken>>

\* A cancelled exclusive waiter leaves the queue.
Abandon(r) ==
    /\ r \in Exclusives /\ pc[r] = "abandon"
    /\ waitingExclusive' = waitingExclusive - 1
    /\ IF mode = "idle" /\ waitingExclusive = 1 THEN Notify ELSE UNCHANGED woken
    /\ Return(r)
    /\ UNCHANGED <<mode, activeStarts>>

\* releaseStart
ReleaseStart ==
    /\ activeStarts' = activeStarts - 1
    /\ IF activeStarts = 1 THEN mode' = "idle" /\ Notify ELSE UNCHANGED <<mode, woken>>
    /\ UNCHANGED waitingExclusive

\* A plausible bug: the lease is given back without waking anybody.
ReleaseSilently == mode' = "idle" /\ UNCHANGED <<woken, activeStarts, waitingExclusive>>

\* releaseExclusive
ReleaseExclusive == mode' = "idle" /\ Notify /\ UNCHANGED <<activeStarts, waitingExclusive>>

Release(r) == (IF r \in Starts THEN ReleaseStart ELSE ReleaseExclusive) /\ Return(r)

\* Admitted: a context that ended meanwhile gives the lease straight back.
CheckContext(r) ==
    /\ pc[r] = "check"
    /\ IF r \in ctxDone THEN Release(r)
       ELSE Goto(r, "held") /\ UNCHANGED <<gateVars, woken, ctxDone>>

\* The handler returns and releases its lease.
Finish(r) == pc[r] = "held" /\ Release(r)

Step(r) == Wake(r) \/ TryStart(r) \/ (pc[r] = "try" /\ TryExclusive(r)) \/ Abandon(r)
           \/ CheckContext(r) \/ Finish(r)

Next == \E r \in Requests : Arrive(r) \/ Cancel(r) \/ TryExclusive(r) \/ Step(r)

Spec == Init /\ [][Next]_vars

\* Goroutines run and handlers return; nobody has to arrive or be cancelled.
Fairness == \A r \in Requests : WF_vars(Step(r))
FairSpec == Spec /\ Fairness

-----------------------------------------------------------------------------
Holders == {r \in Requests : pc[r] \in {"check", "held"}}
Waiters == {r \in Exclusives : pc[r] \in {"try", "sleep", "abandon"}}

\* Every variable holds a value of its Go type.
TypeOK ==
    /\ mode \in {"idle", "starts", "exclusive"}
    /\ activeStarts \in Nat /\ waitingExclusive \in Nat
    /\ pc \in [Requests -> Pcs]
    /\ woken \subseteq Requests /\ ctxDone \subseteq Requests

\* An exclusive lease excludes every other lease: a plugin sync, a user
\* mutation or a stop never overlaps an admitted start or each other.
Exclusion ==
    \A r \in Holders \cap Exclusives : Holders = {r}

\* The gate's counters are the truth, so a lease is never leaked by a
\* cancellation and neither release can reach its panic.
CountersExact ==
    /\ activeStarts = Cardinality(Holders \cap Starts)
    /\ waitingExclusive = Cardinality(Waiters)
    /\ mode = "starts" <=> activeStarts > 0
    /\ mode = "exclusive" <=> Holders \cap Exclusives # {}

\* No request sleeps beside an idle gate it could take: it has been woken, or an
\* exclusive request that has been woken will take the gate or notify in turn.
NoLostWakeup ==
    mode = "idle" =>
        \A r \in Requests : pc[r] = "sleep" /\ r \notin woken =>
            r \in Starts /\ Waiters \cap {w \in Exclusives : pc[w] # "sleep" \/ w \in woken} # {}

HeldStarts == Holders \cap Starts
HeldExclusives == Holders \cap Exclusives
OneExclusive == \A r, q \in HeldExclusives : r = q

\* The gate's inductive invariant: its counters speak for the holders and the
\* waiters, one exclusive request at most is in, and no wakeup is lost beside an
\* idle gate.  Exclusion follows from it.
GateInv == TypeOK /\ CountersExact /\ OneExclusive /\ NoLostWakeup

\* "Start takes a shared lease ... so the second request can receive the
\* officially compatible `Request already in progress` result"
\* (docs/architecture.md section 7.1): a start the gate would admit does not sleep.
AdmissibleStartIsWoken ==
    \A r \in Starts : pc[r] = "sleep" /\ r \notin woken => ~Admits

\* Once requests stop arriving, every waiter gets its lease or returns cancelled:
\* no wakeup is lost for good, whatever mixture of releases and cancellations
\* happened.  (While they keep arriving, exclusives may pass waiting starts, and
\* one another, for ever: the gate keeps no queue.)
Quiet == <>[][\A r \in Requests : pc[r] = "idle" => pc'[r] = "idle"]_vars
Served == Quiet => \A r \in Requests : pc[r] \in {"try", "sleep"} ~> pc[r] \in {"held", "idle"}
=============================================================================

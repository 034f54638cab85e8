--------------------------- MODULE UserMutations ---------------------------
(***************************************************************************)
(* The user mutations of the Panel API (internal/nodehandler/handler.go):  *)
(* AddUser, AddUsers, RemoveUser and RemoveUsers, each a sequence of RPCs  *)
(* to rw-core under one mutation gate, with the connection drops that      *)
(* follow a removal.                                                       *)
(*                                                                         *)
(* A request is processed user by user: look its addresses up, remove it   *)
(* from every known inbound, then drop its connections or add it back.     *)
(* Every RPC may fail, with or without having taken effect, and the        *)
(* request's context may end between two of them.                          *)
(***************************************************************************)
EXTENDS Naturals, Sequences, FiniteSets

CONSTANTS Users, Creds, NoCred,
          Tags,        \* the provider's inbound tags
          IPs,         \* client addresses
          Whitelist,   \* addresses the dropper leaves alone
          Requests,    \* request names
          MaxRequests, \* bound: requests that arrive
          MaxConnections, \* bound: addresses a user is connected from at once
          Form         \* what each asks: [kind, users, cred, tags, replace]

ASSUME UmAssumption ==
    /\ NoCred \notin Creds /\ Whitelist \subseteq IPs /\ "free" \notin Requests
    /\ \A r \in Requests :
        Form[r] \in [kind : {"addUser", "addUsers", "removeUser", "removeUsers"}, users : Seq(Users), cred : Creds,
                    tags : SUBSET Tags, replace : BOOLEAN]

VARIABLES umCore,    \* credentials rw-core holds, by tag and user
          umConn,    \* addresses each user is connected from
          umGate,    \* holder of mutationGate
          umReq      \* progress of each request (seen: what its lookups returned,
                     \* kept for UmSuccessDrops)

umVars == <<umCore, umConn, umGate, umReq>>

UmFresh == [pc |-> "new", live |-> TRUE, i |-> 1, left |-> {}, ok |-> TRUE,
            userOK |-> TRUE, looked |-> {}, plan |-> {}, seen |-> {}]

UmInit ==
    /\ \E c \in Creds \cup {NoCred} : umCore = [t \in Tags |-> [u \in Users |-> c]]
    /\ umConn = [u \in Users |-> {}]
    /\ umGate = "free"
    /\ umReq = [r \in Requests |-> UmFresh]

UmUser(r) == Form[r].users[umReq[r].i]
UmAdds(r) == Form[r].kind \in {"addUser", "addUsers"}

UmSet(r, rec) == umReq' = [umReq EXCEPT ![r] = rec]
UmAt(r, pc) == umReq[r].pc = pc

\* The deferred releases: response, then the gate.
UmReturn(r, ok) ==
    /\ UmSet(r, [UmFresh EXCEPT !.pc = "done", !.ok = ok])
    /\ umGate' = "free"

-----------------------------------------------------------------------------
\* Steps between two RPCs.

\* Where the work on the next user begins.
UmUserPc(r) == IF Form[r].kind = "addUsers" \/ (Form[r].kind = "addUser" /\ ~Form[r].replace)
               THEN "remove" ELSE "lookup"

UmEnterUser(r, rec, i) ==
    [rec EXCEPT !.i = i, !.pc = UmUserPc(r), !.left = Tags, !.userOK = TRUE, !.looked = {}]

\* After the last user: RemoveUser(s) drop what they planned to drop.
UmNextUser(r, rec) ==
    IF rec.i < Len(Form[r].users) THEN UmEnterUser(r, rec, rec.i + 1)
    ELSE [rec EXCEPT !.pc = IF UmAdds(r) THEN "answer" ELSE "drop"]

\* A new request waits for the gate; an empty one is answered at once,
\* AddUser with a failure, the batches with success.
UmArrive(r) ==
    /\ UmAt(r, "new") /\ Cardinality({x \in Requests : ~UmAt(x, "new")}) < MaxRequests
    /\ UmSet(r, IF Form[r].users # <<>> THEN [umReq[r] EXCEPT !.pc = "gate"]
                ELSE [umReq[r] EXCEPT !.pc = "done", !.ok = Form[r].kind # "addUser"])
    /\ UNCHANGED <<umCore, umConn, umGate>>

UmGateFree == umGate = "free"

\* acquireMutation, then BeginMutation, which fails when the core is offline.
UmAcquire(r) ==
    /\ UmAt(r, "gate") /\ umReq[r].live /\ UmGateFree
    /\ \/ umGate' = r /\ UmSet(r, UmEnterUser(r, umReq[r], 1))
       \/ UmReturn(r, FALSE)
    /\ UNCHANGED <<umCore, umConn>>

UmGiveUp(r) ==
    /\ UmAt(r, "gate") /\ ~umReq[r].live
    /\ UmSet(r, [umReq[r] EXCEPT !.pc = "done", !.ok = FALSE])
    /\ UNCHANGED <<umCore, umConn, umGate>>

\* The context may end at any time; past the gate UmStops shows it.
UmExpire(r) ==
    /\ umReq[r].live /\ UmAt(r, "gate")
    /\ UmSet(r, [umReq[r] EXCEPT !.live = FALSE])
    /\ UNCHANGED <<umCore, umConn, umGate>>

\* StopForContext before an RPC; also a recovered panic.
UmStops(r) ==
    /\ umReq[r].pc \in {"lookup", "remove", "add", "drop"}
    /\ UmReturn(r, FALSE)
    /\ UNCHANGED <<umCore, umConn>>

-----------------------------------------------------------------------------
\* prepareUserIPDrop reads the addresses without resetting them.

\* Mutant: RemoveUsers plans the drop before the removal is known to succeed.
UmPlanEarly(r, rec) == [rec EXCEPT !.pc = "remove", !.looked = umConn[UmUser(r)],
                                   !.plan = @ \cup umConn[UmUser(r)]]

UmPlan(r, rec) == [rec EXCEPT !.pc = "remove", !.looked = umConn[UmUser(r)]]

UmLookup(r) ==
    /\ UmAt(r, "lookup")
    /\ UmSet(r, [UmPlan(r, umReq[r]) EXCEPT !.seen = @ \cup ({UmUser(r)} \X umConn[UmUser(r)])])
    /\ UNCHANGED <<umCore, umConn, umGate>>

\* A failed lookup: AddUser goes on without a drop, RemoveUser gives up,
\* RemoveUsers leaves this user alone and goes on with the next.
UmLookupFails(r) ==
    /\ UmAt(r, "lookup")
    /\ CASE Form[r].kind = "addUser" ->
              UmSet(r, [umReq[r] EXCEPT !.pc = "remove", !.looked = {}]) /\ UNCHANGED umGate
         [] Form[r].kind = "removeUser" -> UmReturn(r, FALSE)
         [] OTHER -> UmSet(r, UmNextUser(r, [umReq[r] EXCEPT !.ok = FALSE])) /\ UNCHANGED umGate
    /\ UNCHANGED <<umCore, umConn>>

\* HandlerRemoveUser: "not found" counts as success.  A failed call may or
\* may not have reached the core.
UmRemove(r) ==
    /\ UmAt(r, "remove")
    /\ \E t \in umReq[r].left, ok, applied \in BOOLEAN :
        /\ ok => applied
        /\ umCore' = IF applied THEN [umCore EXCEPT ![t][UmUser(r)] = NoCred] ELSE umCore
        /\ UmSet(r, [umReq[r] EXCEPT !.left = @ \ {t}, !.ok = @ /\ ok, !.userOK = @ /\ ok])
    /\ UNCHANGED <<umConn, umGate>>

UmCleaned(r) == umReq[r].userOK

UmPlanned(rec) == rec.plan \cup rec.looked

\* Every inbound was visited.
UmRemoved(r) ==
    /\ UmAt(r, "remove") /\ umReq[r].left = {}
    /\ LET rec == umReq[r] IN
       IF ~UmCleaned(r)
       THEN IF Form[r].kind \in {"addUser", "removeUser"} THEN UmReturn(r, FALSE)
            ELSE UmSet(r, UmNextUser(r, rec)) /\ UNCHANGED umGate
       ELSE /\ UNCHANGED umGate
            /\ UmSet(r, IF UmAdds(r)
                        THEN [rec EXCEPT !.pc = IF rec.looked = {} THEN "add" ELSE "replace",
                                         !.left = Form[r].tags]
                        ELSE UmNextUser(r, [rec EXCEPT !.plan = UmPlanned(rec)]))
    /\ UNCHANGED <<umCore, umConn>>

\* DropIPs closes every connection of the addresses it is given, except
\* those of whitelisted ones.
UmDropped(ips) == umConn' = [u \in Users |-> umConn[u] \ (ips \ Whitelist)]

\* AddUser drops the replaced user's connections; a failure is only logged.
UmReplace(r) ==
    /\ UmAt(r, "replace")
    /\ UmSet(r, [umReq[r] EXCEPT !.pc = "add"])
    /\ UmDropped(umReq[r].looked) \/ UNCHANGED umConn
    /\ UNCHANGED <<umCore, umGate>>

\* addSingleUser, addBatchUser: "already exists" counts as success and
\* leaves the credentials the core has.
UmAdd(r) ==
    /\ UmAt(r, "add")
    /\ \E t \in umReq[r].left, ok, applied \in BOOLEAN :
        /\ ok => applied
        /\ umCore' = IF applied /\ umCore[t][UmUser(r)] = NoCred
                     THEN [umCore EXCEPT ![t][UmUser(r)] = Form[r].cred] ELSE umCore
        /\ UmSet(r, [umReq[r] EXCEPT !.left = @ \ {t}, !.ok = @ /\ ok])
    /\ UNCHANGED <<umConn, umGate>>

UmAdded(r) ==
    /\ UmAt(r, "add") /\ umReq[r].left = {}
    /\ UmSet(r, UmNextUser(r, umReq[r]))
    /\ UNCHANGED <<umCore, umConn, umGate>>

\* applyUserIPDrops and the response.
UmDrop(r) ==
    /\ UmAt(r, "drop")
    /\ \E ok \in BOOLEAN :
        /\ umReq[r].plan = {} => ok
        /\ IF ok THEN UmDropped(umReq[r].plan) ELSE UNCHANGED umConn
        /\ UmReturn(r, umReq[r].ok /\ ok)
    /\ UNCHANGED umCore

UmAnswer(r) ==
    /\ UmAt(r, "answer")
    /\ UmReturn(r, umReq[r].ok)
    /\ UNCHANGED <<umCore, umConn>>

\* A client of a known user connects.
UmConnect(u) ==
    /\ \E t \in Tags : umCore[t][u] # NoCred
    /\ Cardinality(umConn[u]) < MaxConnections
    /\ \E ip \in IPs : umConn' = [umConn EXCEPT ![u] = @ \cup {ip}]
    /\ UNCHANGED <<umCore, umGate, umReq>>

-----------------------------------------------------------------------------
UmStep(r) == \/ UmAcquire(r) \/ UmGiveUp(r) \/ UmLookup(r) \/ UmLookupFails(r)
             \/ UmRemove(r) \/ UmRemoved(r) \/ UmReplace(r) \/ UmAdd(r) \/ UmAdded(r)
             \/ UmDrop(r) \/ UmAnswer(r)

UmNext == \/ \E r \in Requests : UmArrive(r) \/ UmStep(r) \/ UmStops(r) \/ UmExpire(r)
          \/ \E u \in Users : UmConnect(u)

UmSpec == UmInit /\ [][UmNext]_umVars

-----------------------------------------------------------------------------
UmSucceeds(r) == umReq[r].pc # "done" /\ umReq'[r].pc = "done" /\ umReq'[r].ok

\* The response does not lie.  A successful AddUser(s) leaves every named
\* user in exactly the named inbounds with the new credentials, although
\* "already exists" is accepted without looking at them; a successful
\* RemoveUser(s) leaves it in none.
UmSuccessIsApplied ==
    [][\A r \in Requests : UmSucceeds(r) =>
         \A i \in 1..Len(Form[r].users), t \in Tags :
             umCore'[t][Form[r].users[i]] =
                 IF UmAdds(r) /\ t \in Form[r].tags THEN Form[r].cred ELSE NoCred]_umVars

\* Connections are dropped for addresses of removed users only: whoever has
\* lost its last connection from an address, some user with that address is
\* in no inbound at that moment.
UmDropFollowsRemoval ==
    [][\A ip \in IPs : (\E u \in Users : ip \in umConn[u] \ umConn'[u]) =>
         \E u \in Users : ip \in umConn[u] /\ \A t \in Tags : umCore[t][u] = NoCred]_umVars

\* A successful RemoveUser(s) has closed every connection it had seen, the
\* whitelisted ones apart: several plans are applied in one drop.
UmSuccessDrops ==
    [][\A r \in Requests : UmSucceeds(r) /\ ~UmAdds(r) =>
         \A s \in umReq[r].seen : s[2] \in umConn'[s[1]] => s[2] \in Whitelist]_umVars

\* No user is known to the core under two credentials: a user whose old entry
\* could not be removed from every inbound is not added to any.
UmOneCredential ==
    \A u \in Users : Cardinality({umCore[t][u] : t \in Tags} \ {NoCred}) <= 1

\* What the four mutation handlers promise: the answer, the users in the core
\* and the connections that are dropped agree.
UmPromise ==
    /\ []UmOneCredential
    /\ UmSuccessIsApplied
    /\ UmDropFollowsRemoval
    /\ UmSuccessDrops

-----------------------------------------------------------------------------
(* The inductive invariant behind UmPromise *)

UmRecs ==
    [pc : {"new", "gate", "lookup", "remove", "replace", "add", "drop", "answer", "done"}, live : BOOLEAN,
     i : Nat \ {0}, left : SUBSET Tags, ok : BOOLEAN, userOK : BOOLEAN, looked : SUBSET IPs, plan : SUBSET IPs,
     seen : SUBSET (Users \X IPs)]
UmTypeOK ==
    /\ umCore \in [Tags -> [Users -> Creds \cup {NoCred}]] /\ umConn \in [Users -> SUBSET IPs]
    /\ umGate \in Requests \cup {"free"} /\ umReq \in [Requests -> UmRecs]

UmOutside == {"new", "gate", "done"}

\* The user being worked on, the users done with, and what a success makes of them.
UmCurrent(r, rec) == Form[r].users[rec.i]
UmBehind(r, rec) ==
    IF rec.pc \in {"drop", "answer"} THEN {Form[r].users[j] : j \in 1..Len(Form[r].users)}
    ELSE {Form[r].users[j] : j \in 1..rec.i - 1} \ {UmCurrent(r, rec)}
UmWanted(r, t) == IF UmAdds(r) /\ t \in Form[r].tags THEN Form[r].cred ELSE NoCred
UmServed(r, u) == \A t \in Tags : umCore[t][u] = UmWanted(r, t)
UmAbsent(u) == \A t \in Tags : umCore[t][u] = NoCred

\* How far the core is with the current user.
UmProgress(r, rec) ==
    LET u == UmCurrent(r, rec) IN
    /\ rec.pc = "lookup" => rec.userOK /\ rec.left = Tags
    /\ rec.pc = "remove" =>
        /\ rec.ok => rec.userOK
        /\ rec.userOK => \A t \in Tags \ rec.left : umCore[t][u] = NoCred
    /\ rec.pc = "replace" => UmAbsent(u) /\ rec.left = Form[r].tags
    /\ rec.pc = "add" =>
        /\ rec.left \subseteq Form[r].tags
        /\ \A t \in Tags : umCore[t][u] \in {NoCred, Form[r].cred}
        /\ \A t \in Tags : t \in rec.left \/ t \notin Form[r].tags => umCore[t][u] = NoCred
        /\ rec.ok => \A t \in Form[r].tags \ rec.left : umCore[t][u] = Form[r].cred
    /\ rec.pc \in {"replace", "add", "answer"} => UmAdds(r)
    /\ rec.pc = "drop" => ~UmAdds(r)

\* Whose connections are to be dropped, and which of those seen will be.
UmDrops(r, rec) ==
    /\ rec.pc = "lookup" => rec.looked = {}
    /\ rec.pc \in {"remove", "replace"} => rec.looked \subseteq umConn[UmCurrent(r, rec)]
    /\ ~UmAdds(r) =>
        /\ \A ip \in rec.plan : \E u \in Users : ip \in umConn[u] /\ UmAbsent(u)
        /\ rec.ok => \A s \in rec.seen : s[2] \in rec.plan \/ (rec.pc = "remove" /\ s[2] \in rec.looked)

UmKnows(r, rec) ==
    /\ rec.pc \in {"new", "gate"} => rec.seen = {} /\ rec.plan = {} /\ rec.ok
    /\ rec.pc = "gate" => Form[r].users # <<>>
    /\ rec.pc \notin UmOutside =>
        /\ rec.i \in 1..Len(Form[r].users)
        /\ rec.ok => \A u \in UmBehind(r, rec) : UmServed(r, u)
        /\ UmProgress(r, rec)
        /\ UmDrops(r, rec)

UmAlike == \A u \in Users, s, t \in Tags : NoCred \in {umCore[s][u], umCore[t][u]} \/ umCore[s][u] = umCore[t][u]

UmInv ==
    /\ UmTypeOK /\ UmAlike
    /\ \A r \in Requests : umReq[r].pc \notin UmOutside <=> umGate = r
    /\ \A r \in Requests : UmKnows(r, umReq[r])
=============================================================================

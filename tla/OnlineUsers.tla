----------------------------- MODULE OnlineUsers -----------------------------
(***************************************************************************)
(* Which addresses are online (internal/xrayrpc/stats.go GetUsersIPList,   *)
(* called through xray/grpc.go): the RPC of a newer rw-core, the cached    *)
(* answer to whether it exists, and for an older rw-core one lookup per    *)
(* user by concurrent workers that share a cursor and stop at the first    *)
(* error, while rw-core may be replaced or die.                            *)
(***************************************************************************)
EXTENDS Naturals, Sequences, FiniteSets

CONSTANTS OuUsers,      \* sequence of users rw-core reports online
          OuWorkers,    \* lookup workers (legacyIPLookupWorkers)
          MaxCores      \* bound: rw-core processes

ASSUME OuAssumption == OuUsers \in Seq(STRING) /\ OuWorkers # {} /\ MaxCores \in Nat \ {0}

VARIABLES ouCore,    \* [epoch, up, native]: the current rw-core
          ouCap,     \* epoch -> statsCapabilities.usersStats
          ouList,    \* the address list request [pc, epoch]
          ouLook     \* its lookups [users, next, at, found, err, cancel, expired]

ouVars == <<ouCore, ouCap, ouList, ouLook>>

OuFresh == [users |-> <<>>, next |-> 1, at |-> [w \in OuWorkers |-> 0], found |-> {}, online |-> {},
            err |-> FALSE, cancel |-> FALSE, expired |-> FALSE]

OuInit ==
    /\ \E native \in BOOLEAN : ouCore = [epoch |-> 1, up |-> TRUE, native |-> native]
    /\ ouCap = [e \in 1 .. MaxCores |-> "unknown"]
    /\ ouList = [pc |-> "idle", epoch |-> 0] /\ ouLook = OuFresh

-----------------------------------------------------------------------------
\* Start replaces the process; reading takes no lease that would delay it.
OuReplace ==
    /\ ouCore.epoch < MaxCores
    /\ \E native \in BOOLEAN : ouCore' = [epoch |-> ouCore.epoch + 1, up |-> TRUE, native |-> native]
    /\ UNCHANGED <<ouCap, ouList, ouLook>>

OuCrash ==
    /\ ouCore.up /\ ouCore' = [ouCore EXCEPT !.up = FALSE]
    /\ UNCHANGED <<ouCap, ouList, ouLook>>

-----------------------------------------------------------------------------
\* GetUsersIPList binds to the process it finds online; it takes no lease.
OuListStart ==
    /\ ouList.pc = "idle" /\ ouCore.up
    /\ ouList' = [pc |-> IF ouCap[ouCore.epoch] = "legacy" THEN "users" ELSE "native", epoch |-> ouCore.epoch]
    /\ UNCHANGED <<ouCore, ouCap, ouLook>>

OuReachable == ouCore.up /\ ouCore.epoch = ouList.epoch

\* Mutant: the capability is remembered for whichever process runs now.
OuCacheCurrent(epoch) == ouCore.epoch

OuCacheOf(epoch) == epoch

\* getUsersIPListNative: answered, Unimplemented, or failed.
OuNative ==
    /\ ouList.pc = "native"
    /\ \/ OuReachable /\ ouCore.native /\ ouList' = [ouList EXCEPT !.pc = "full"] /\ UNCHANGED ouCap
       \/ OuReachable /\ ~ouCore.native /\ ouList' = [ouList EXCEPT !.pc = "unimplemented"] /\ UNCHANGED ouCap
       \/ ouList' = [ouList EXCEPT !.pc = "failed"] /\ UNCHANGED ouCap
    /\ UNCHANGED <<ouCore, ouLook>>

\* The answer is cached with the process it came from.
OuCacheAnswer ==
    /\ ouList.pc \in {"full", "unimplemented"}
    /\ LET answer == IF ouList.pc = "full" THEN "supported" ELSE "legacy" IN
       ouCap' = [ouCap EXCEPT ![OuCacheOf(ouList.epoch)] = answer]
    /\ ouList' = [ouList EXCEPT !.pc = IF @ = "full" THEN "ok" ELSE "users"]
    /\ UNCHANGED <<ouCore, ouLook>>

\* GetAllOnlineUsers, uniqueOnlineUserIDs.
OuOnline ==
    /\ ouList.pc = "users"
    /\ \/ /\ OuReachable
          /\ \E n \in 0 .. Len(OuUsers) :
               /\ ouLook' = [OuFresh EXCEPT !.users = SubSeq(OuUsers, 1, n)]
               /\ ouList' = [ouList EXCEPT !.pc = IF n = 0 THEN "ok" ELSE "lookup"]
       \/ ouList' = [ouList EXCEPT !.pc = "failed"] /\ UNCHANGED ouLook
    /\ UNCHANGED <<ouCore, ouCap>>

OuPastEnd(i) == i > Len(ouLook.users)

OuGone == Len(OuUsers) + 1

\* A worker takes the next index off the shared cursor, or leaves.
OuTake(w) ==
    /\ ouList.pc = "lookup" /\ ouLook.at[w] = 0
    /\ LET i == ouLook.next IN
       ouLook' = [ouLook EXCEPT !.next = IF i < OuGone THEN i + 1 ELSE i,
                    !.at[w] = IF OuPastEnd(i) \/ ouLook.cancel \/ ouLook.expired THEN OuGone ELSE i]
    /\ UNCHANGED <<ouCore, ouCap, ouList>>

OuFirstError(look) == IF look.expired THEN look ELSE [look EXCEPT !.err = TRUE, !.cancel = TRUE]

\* Its lookup returns addresses, none (the user has left), or an error.
OuLookup(w) ==
    /\ ouList.pc = "lookup" /\ ouLook.at[w] \in 1 .. Len(OuUsers)
    /\ LET u == ouLook.users[ouLook.at[w]] IN
       \/ /\ OuReachable /\ ~ouLook.cancel /\ ~ouLook.expired
          /\ \/ ouLook' = [ouLook EXCEPT !.at[w] = 0, !.found = @ \cup {u}, !.online = @ \cup {u}]
             \/ ouLook' = [ouLook EXCEPT !.at[w] = 0, !.found = @ \cup {u}]
       \/ ouLook' = [OuFirstError(ouLook) EXCEPT !.at[w] = OuGone]
    /\ UNCHANGED <<ouCore, ouCap, ouList>>

OuExpire ==
    /\ ouList.pc = "lookup" /\ ~ouLook.expired /\ ouLook' = [ouLook EXCEPT !.expired = TRUE]
    /\ UNCHANGED <<ouCore, ouCap, ouList>>

\* wg.Wait, then the context's error, then the first error.
OuJoin ==
    /\ ouList.pc = "lookup" /\ \A w \in OuWorkers : ouLook.at[w] = OuGone
    /\ ouList' = [ouList EXCEPT !.pc = IF ouLook.expired \/ ouLook.err THEN "failed" ELSE "ok"]
    /\ UNCHANGED <<ouCore, ouCap, ouLook>>

OuListEnd ==
    /\ ouList.pc \in {"ok", "failed"}
    /\ ouList' = [pc |-> "idle", epoch |-> 0] /\ ouLook' = OuFresh
    /\ UNCHANGED <<ouCore, ouCap>>

OuNext ==
    \/ OuReplace \/ OuCrash
    \/ OuListStart \/ OuNative \/ OuCacheAnswer \/ OuOnline \/ OuExpire \/ OuJoin \/ OuListEnd
    \/ \E w \in OuWorkers : OuTake(w) \/ OuLookup(w)

OuSpec == OuInit /\ [][OuNext]_ouVars

-----------------------------------------------------------------------------
\* An address list that succeeds has looked up every online user: none was
\* skipped by the shared cursor, and none dropped because another worker's
\* lookup failed or the request's time ran out.
OuListComplete ==
    ouList.pc = "ok" => ouLook.found = {ouLook.users[i] : i \in DOMAIN ouLook.users}

\* What is remembered about a process was answered by that process: an
\* answer that arrives after a restart does not mislabel the new rw-core.
OuCapabilityIsItsOwn == ouCap[ouCore.epoch] # "unknown" => (ouCap[ouCore.epoch] = "supported") = ouCore.native

\* What the lookups promise: complete lists, from the process they are about.
OuPromise ==
    /\ OuListComplete
    /\ OuCapabilityIsItsOwn
-----------------------------------------------------------------------------
(* The inductive invariant behind OuPromise *)

OuLooks ==
    [users : Seq(STRING), next : Nat, at : [OuWorkers -> 0 .. Len(OuUsers) + 1], found : SUBSET STRING,
     online : SUBSET STRING, err : BOOLEAN, cancel : BOOLEAN, expired : BOOLEAN]
OuTypeOK ==
    /\ ouCore \in [epoch : 1 .. MaxCores, up : BOOLEAN, native : BOOLEAN]
    /\ ouCap \in [1 .. MaxCores -> {"unknown", "supported", "legacy"}]
    /\ ouList \in [pc : {"idle", "native", "full", "unimplemented", "users", "lookup", "ok", "failed"},
                   epoch : 0 .. MaxCores]
    /\ ouLook \in OuLooks

\* Nothing is known of a process to come, and an answer that is not cached yet
\* is the process's own.
OuKnown ==
    /\ OuCapabilityIsItsOwn
    /\ ouList.epoch <= ouCore.epoch /\ \A e \in 1 .. MaxCores : e > ouCore.epoch => ouCap[e] = "unknown"
    /\ ouList.epoch = ouCore.epoch =>
        (ouList.pc = "full" => ouCore.native) /\ (ouList.pc = "unimplemented" => ~ouCore.native)

\* While nothing has gone wrong, every user the cursor has passed was looked up
\* or is with a worker, and nobody leaves before the cursor is past the end.
OuPassed(look) ==
    /\ Len(look.users) <= Len(OuUsers) /\ look.next \in 1 .. Len(OuUsers) + 1
    /\ look.cancel => look.err
    /\ \A w \in OuWorkers : look.at[w] \in 1 .. Len(OuUsers) => look.at[w] <= Len(look.users)
    /\ \A u \in look.found : \E i \in 1 .. Len(look.users) : look.users[i] = u
    /\ ~look.err /\ ~look.expired =>
        /\ \A i \in 1 .. Len(look.users) :
               i < look.next => look.users[i] \in look.found \/ \E w \in OuWorkers : look.at[w] = i
        /\ \A w \in OuWorkers : look.at[w] = OuGone => look.next > Len(look.users)

OuInv ==
    /\ OuTypeOK /\ OuKnown /\ OuListComplete
    /\ ouList.pc \in {"idle", "native", "full", "unimplemented", "users"} => ouLook = OuFresh
    /\ ouList.pc = "lookup" => OuPassed(ouLook)
=============================================================================

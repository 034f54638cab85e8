----------------------------- MODULE UnixSocket -----------------------------
(***************************************************************************)
(* Ownership of the internal socket's path (internal/unixconfig/server.go, *)
(* ListenAndServe and its helpers): several node processes, each holding   *)
(* the directory lock while it prepares the path, listens, serves and      *)
(* cleans up.  A crashed process drops its lock and its listener and       *)
(* leaves its socket file behind.                                          *)
(***************************************************************************)
EXTENDS Naturals

CONSTANTS Nodes,       \* processes that want to serve the path
          MaxCrashes   \* how often each may crash and come back

ASSUME UsAssumption == MaxCrashes \in Nat /\ "none" \notin Nodes   \* whom usLock names

VARIABLES usPath,    \* what the path names: "none", "file", "live" or a socket
          usLock,    \* who holds the directory lock
          usPc,      \* where each process stands
          usSeen,    \* the socket it inspected, then the one it owns
          usLife     \* incarnation of each process

usVars == <<usPath, usLock, usPc, usSeen, usLife>>

\* A listener's socket is named by the incarnation that bound it; "stale"
\* is a file some earlier process left.
UsSocket(p) == <<p, usLife[p]>>
UsSockets == (Nodes \X (0..MaxCrashes)) \cup {<<"stale">>, <<"live">>}
UsBound == {"stat", "chmod", "serve"}
\* The sockets that accept connections.
UsListening == {UsSocket(p) : p \in {q \in Nodes : usPc[q] \in UsBound}} \cup {<<"live">>}

UsInit ==
    /\ usPath \in {<<"none">>, <<"file">>, <<"live">>, <<"stale">>}
    /\ usLock = "none"
    /\ usPc = [p \in Nodes |-> "start"]
    /\ usSeen = [p \in Nodes |-> <<"none">>]
    /\ usLife = [p \in Nodes |-> 0]

UsGoto(p, pc) == usPc' = [usPc EXCEPT ![p] = pc]

\* lockUnixSocketDirectory: LOCK_EX | LOCK_NB.
UsTakeLock(p) ==
    /\ usPc[p] = "start"
    /\ IF usLock = "none" THEN usLock' = p /\ UsGoto(p, "inspect")
       ELSE usLock' = usLock /\ UsGoto(p, "failed")
    /\ UNCHANGED <<usPath, usSeen, usLife>>

\* prepareUnixSocketPath, one system call at a time.
UsInspect(p) ==
    /\ usPc[p] = "inspect"
    /\ CASE usPath = <<"none">> -> UsGoto(p, "bind") /\ UNCHANGED usSeen
         [] usPath = <<"file">> -> UsGoto(p, "unlock") /\ UNCHANGED usSeen
         [] OTHER -> UsGoto(p, "probe") /\ usSeen' = [usSeen EXCEPT ![p] = usPath]
    /\ UNCHANGED <<usPath, usLock, usLife>>

\* Mutant: any socket found at the path is taken for a stale one.
UsSkipsProbe(p) ==
    /\ usPc[p] = "probe"
    /\ UsGoto(p, "recheck")
    /\ UNCHANGED <<usPath, usLock, usSeen, usLife>>

UsProbe(p) ==
    /\ usPc[p] = "probe"
    /\ UsGoto(p, IF usPath \in UsListening \cup {<<"none">>, <<"file">>}
                 THEN "unlock" ELSE "recheck")
    /\ UNCHANGED <<usPath, usLock, usSeen, usLife>>

UsRecheck(p) ==
    /\ usPc[p] = "recheck"
    /\ UsGoto(p, IF usPath = usSeen[p] THEN "unlink" ELSE "unlock")
    /\ UNCHANGED <<usPath, usLock, usSeen, usLife>>

UsUnlinkStale(p) ==
    /\ usPc[p] = "unlink"
    /\ usPath' = <<"none">>
    /\ UsGoto(p, "bind")
    /\ UNCHANGED <<usLock, usSeen, usLife>>

\* listenUnixSocket: bind, Lstat, chmod and a second Lstat.
UsBind(p) ==
    /\ usPc[p] = "bind"
    /\ IF usPath = <<"none">>
       THEN usPath' = UsSocket(p) /\ UsGoto(p, "stat")
       ELSE usPath' = usPath /\ UsGoto(p, "unlock")
    /\ UNCHANGED <<usLock, usSeen, usLife>>

UsStat(p) ==
    /\ usPc[p] = "stat"
    /\ IF usPath \in UsSockets
       THEN usSeen' = [usSeen EXCEPT ![p] = usPath] /\ UsGoto(p, "chmod")
       ELSE usSeen' = usSeen /\ UsGoto(p, "unlock")
    /\ UNCHANGED <<usPath, usLock, usLife>>

UsChmod(p) ==
    /\ usPc[p] = "chmod"
    /\ \E ok \in BOOLEAN : UsGoto(p, IF ok /\ usPath = usSeen[p] THEN "serve" ELSE "owned")
    /\ UNCHANGED <<usPath, usLock, usSeen, usLife>>

UsStopServing(p) ==
    /\ usPc[p] = "serve"
    /\ UsGoto(p, "owned")
    /\ UNCHANGED <<usPath, usLock, usSeen, usLife>>

\* removeOwnedUnixSocket: Lstat, compare, Remove.
UsCompareOwned(p) ==
    /\ usPc[p] = "owned"
    /\ UsGoto(p, IF usPath = usSeen[p] THEN "remove" ELSE "unlock")
    /\ UNCHANGED <<usPath, usLock, usSeen, usLife>>

UsRemoveOwned(p) ==
    /\ usPc[p] = "remove"
    /\ usPath' = <<"none">>
    /\ UsGoto(p, "unlock")
    /\ UNCHANGED <<usLock, usSeen, usLife>>

\* The deferred dirLock.Close.
UsUnlock(p) ==
    /\ usPc[p] = "unlock"
    /\ usLock' = IF usLock = p THEN "none" ELSE usLock
    /\ UsGoto(p, "failed")
    /\ UNCHANGED <<usPath, usSeen, usLife>>

\* The process dies and is started again; so is one that gave up.
UsCrash(p) ==
    /\ usLife[p] < MaxCrashes
    /\ usLock' = IF usLock = p THEN "none" ELSE usLock
    /\ usLife' = [usLife EXCEPT ![p] = @ + 1]
    /\ usSeen' = [usSeen EXCEPT ![p] = <<"none">>]
    /\ UsGoto(p, "start")
    /\ UNCHANGED usPath

UsStep(p) ==
    \/ UsTakeLock(p) \/ UsInspect(p) \/ UsProbe(p) \/ UsRecheck(p) \/ UsUnlinkStale(p)
    \/ UsBind(p) \/ UsStat(p) \/ UsChmod(p) \/ UsCompareOwned(p) \/ UsRemoveOwned(p) \/ UsUnlock(p)

UsNext == \E p \in Nodes : UsStep(p) \/ UsStopServing(p) \/ UsCrash(p)

UsSpec == UsInit /\ [][UsNext]_usVars

-----------------------------------------------------------------------------
\* A process that serves is reachable at the path: no other process, however
\* it started, crashed or cleaned up, has removed or replaced its socket
\* (the directory lock spans preparation and cleanup).
UsServingIsReachable == \A p \in Nodes : usPc[p] = "serve" => usPath = UsSocket(p)

\* A file that is not a socket, and a socket somebody is listening on, are
\* never removed (prepareUnixSocketPath's refusals).
UsForeignKept == [][(usPath \in {<<"file">>, <<"live">>}) => (usPath' = usPath)]_usVars

\* A start gives the path up only because another process holds the lock,
\* something that is not ours to remove is there, or chmod failed: a socket
\* left by a crash never prevents it.
UsStaleNeverBlocks ==
    [][\A p \in Nodes : usPc[p] \in {"inspect", "probe", "recheck", "bind", "stat"}
                        /\ usPc'[p] = "unlock" => usPath \in {<<"file">>, <<"live">>}]_usVars

\* What the private socket promises, over any starts, crashes and cleanups of
\* several processes: who serves is reachable, what is foreign is kept, and
\* what a crash left is no obstacle.
UsPromise ==
    /\ []UsServingIsReachable
    /\ UsForeignKept
    /\ UsStaleNeverBlocks

-----------------------------------------------------------------------------
(* The inductive invariant behind UsPromise *)

UsPaths == UsSockets \cup {<<"none">>, <<"file">>}
UsLocked == {"inspect", "probe", "recheck", "unlink", "bind", "stat", "chmod", "serve", "owned",
             "remove", "unlock"}
UsTypeOK ==
    /\ usPath \in UsPaths
    /\ usPc \in [Nodes -> UsLocked \cup {"start", "failed"}]
    /\ usSeen \in [Nodes -> UsPaths]
    /\ usLife \in [Nodes -> 0..MaxCrashes]

\* Who is past the lock holds it, so what it knows of the path stays true: the
\* socket it probed is still there, the path it cleared is still free, and
\* what it bound is still its own.
UsKnows(p) ==
    /\ usPc[p] \in UsLocked => usLock = p
    /\ usPc[p] \in {"probe", "recheck", "unlink"} =>
           usPath = usSeen[p] /\ usPath \notin {<<"none">>, <<"file">>}
    /\ usPc[p] \in {"recheck", "unlink"} => usPath # <<"live">>
    /\ usPc[p] = "bind" => usPath = <<"none">>
    /\ usPc[p] \in {"stat", "chmod", "serve", "owned", "remove"} => usPath = UsSocket(p)
    /\ usPc[p] \in {"chmod", "serve", "owned", "remove"} => usSeen[p] = usPath

UsInv == UsTypeOK /\ \A p \in Nodes : UsKnows(p)
=============================================================================

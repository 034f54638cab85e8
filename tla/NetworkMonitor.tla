--------------------------- MODULE NetworkMonitor ---------------------------
(***************************************************************************)
(* The rate sampler of internal/system/network.go: a goroutine that reads  *)
(* the interface counters, then the routing table, publishes the rate of   *)
(* the default interface, and is stopped synchronously, while interfaces   *)
(* come and go, counters wrap or restart, and the default route moves.     *)
(* One counter stands for the receive and the transmit counter.            *)
(***************************************************************************)
EXTENDS Integers, Sequences

CONSTANTS Ifaces, NmModulus,   \* counters wrap at NmModulus (2^64 in the code)
          NmRoutes,            \* routing tables: sequences of [iface, usable, metric]
          MaxPolls, MaxBurst   \* bounds: polls, bytes carried between two polls

NmNone == ""   \* no interface

ASSUME NmAssumption ==
    /\ NmNone \notin Ifaces /\ NmModulus \in Nat \ {0} /\ MaxPolls \in Nat /\ MaxBurst \in Nat
    /\ \A table \in NmRoutes : table \in Seq([iface : Ifaces, usable : BOOLEAN, metric : Nat])

VARIABLES nmCounter,   \* interface -> its counter, or -1 when it is absent
          nmCarried,   \* history: bytes it carried since the last samples
          nmTable,     \* /proc/net/route
          nmPrev,      \* m.previous
          nmRead,      \* the samples of this poll, and nmCarried when they were read
          nmCur,       \* m.current: [iface, delta, real], iface NmNone for nil
          nmLoop,      \* the goroutine: "top", "wait", "tick", "apply", "done"
          nmStop,      \* "no", "asked" or "returned"
          nmPolls, nmLate   \* polls begun; those begun after the stop

nmVars == <<nmCounter, nmCarried, nmTable, nmPrev, nmRead, nmCur, nmLoop, nmStop, nmPolls, nmLate>>
nmHost == <<nmCounter, nmCarried, nmTable>>

NmNothing == [iface |-> NmNone, delta |-> 0, real |-> 0]
NmZero == [i \in Ifaces |-> 0]
NmNoRead == [sample |-> NmZero, carried |-> NmZero]

NmInit ==
    /\ nmCounter = NmZero /\ nmCarried = NmZero /\ nmTable \in NmRoutes
    /\ nmPrev = nmCounter /\ nmRead = NmNoRead
    /\ nmCur = NmNothing /\ nmLoop = "top" /\ nmStop = "no" /\ nmPolls = 0 /\ nmLate = 0

\* The host: traffic, and an interface that is removed or created.
NmTraffic ==
    /\ \E i \in Ifaces :
        \/ /\ nmCounter[i] # -1 /\ nmCarried[i] < MaxBurst
           /\ nmCounter' = [nmCounter EXCEPT ![i] = (@ + 1) % NmModulus]
           /\ nmCarried' = [nmCarried EXCEPT ![i] = @ + 1]
        \/ nmCounter' = [nmCounter EXCEPT ![i] = IF @ = -1 THEN 0 ELSE -1] /\ UNCHANGED nmCarried
    /\ UNCHANGED <<nmTable, nmPrev, nmRead, nmCur, nmLoop, nmStop, nmPolls, nmLate>>

NmReroute ==
    /\ nmTable' \in NmRoutes \ {nmTable}
    /\ UNCHANGED <<nmCounter, nmCarried, nmPrev, nmRead, nmCur, nmLoop, nmStop, nmPolls, nmLate>>

\* Mutant: unusable routes compete too.
NmAnyRoute(route) == TRUE

\* Up, not reject, a device, destination and mask zero.
NmUsable(route) == route.usable

\* parseDefaultInterface: the first usable default route of least metric.
NmDefault(table) ==
    LET usable == {k \in DOMAIN table : NmUsable(table[k])}
        before(k, j) == table[k].metric < table[j].metric \/ (table[k].metric = table[j].metric /\ k <= j) IN
    IF usable = {} THEN NmNone
    ELSE table[CHOOSE k \in usable : \A j \in usable : before(k, j)].iface

\* A smaller counter is a wrap or a reset: the sample is skipped.
NmMonotone(prev, cur) == cur >= prev

NmRate(iface, cur) ==
    IF /\ iface # NmNone /\ cur[iface] # -1 /\ nmPrev[iface] # -1
       /\ NmMonotone(nmPrev[iface], cur[iface])
    THEN [iface |-> iface, delta |-> (cur[iface] - nmPrev[iface]) % NmModulus, real |-> nmRead.carried[iface]]
    ELSE NmNothing

\* tick: readSamples first ...
NmReadSamples ==
    /\ nmLoop = "tick" /\ nmLoop' = "apply"
    /\ nmRead' = [sample |-> nmCounter, carried |-> nmCarried] /\ nmCarried' = NmZero
    /\ UNCHANGED <<nmCounter, nmTable, nmPrev, nmCur, nmStop, nmPolls, nmLate>>

\* ... then resolveIface and updateSamplesForInterface.
NmApply ==
    /\ nmLoop = "apply" /\ nmLoop' = "top"
    /\ nmCur' = NmRate(NmDefault(nmTable), nmRead.sample) /\ nmPrev' = nmRead.sample
    /\ nmRead' = NmNoRead
    /\ UNCHANGED <<nmHost, nmStop, nmPolls, nmLate>>

\* The first select prefers the stop channel to a queued tick.
NmPrefersStop == nmLoop' = IF nmStop # "no" THEN "done" ELSE "wait"

\* loop
NmLoop ==
    /\ \/ nmLoop = "top" /\ NmPrefersStop /\ UNCHANGED <<nmPolls, nmLate>>
       \/ /\ nmLoop = "wait" /\ nmPolls < MaxPolls /\ nmLoop' = "tick" /\ nmPolls' = nmPolls + 1
          /\ nmLate' = IF nmStop = "no" THEN 0 ELSE nmLate + 1
       \/ nmLoop = "wait" /\ nmStop # "no" /\ nmLoop' = "done" /\ UNCHANGED <<nmPolls, nmLate>>
    /\ UNCHANGED <<nmHost, nmPrev, nmRead, nmCur, nmStop>>

\* Stop closes the channel and waits for the goroutine.
NmStop ==
    /\ \/ nmStop = "no" /\ nmStop' = "asked"
       \/ nmStop = "asked" /\ nmLoop = "done" /\ nmStop' = "returned"
    /\ UNCHANGED <<nmHost, nmPrev, nmRead, nmCur, nmLoop, nmPolls, nmLate>>

NmNext == NmTraffic \/ NmReroute \/ NmReadSamples \/ NmApply \/ NmLoop \/ NmStop

NmSpec == NmInit /\ [][NmNext]_nmVars

-----------------------------------------------------------------------------
\* The rate shown never exceeds what the interface really carried between
\* the two samples it is taken from, whatever wraps, resets and re-creations
\* of the interface happened in between.
NmNeverOverstates == nmCur.delta <= nmCur.real

\* Whatever is published is the rate of an interface the kernel uses for its
\* default route at that moment: no unusable route, none of a larger metric.
NmFollowsRoute ==
    [][nmLoop = "apply" /\ nmLoop' = "top" /\ nmCur'.iface # NmNone =>
        \E k \in DOMAIN nmTable :
            /\ nmTable[k].usable /\ nmTable[k].iface = nmCur'.iface
            /\ \A j \in DOMAIN nmTable : nmTable[j].usable => nmTable[k].metric <= nmTable[j].metric]_nmVars

\* Stop waits for at most one poll that began after it was asked, however
\* many ticks are queued.
NmStopIsBounded == nmLate <= 1

\* What the monitor promises: a rate that was there, of the interface that
\* carries the default route, and a Stop that does not wait for a backlog.
NmPromise ==
    /\ [](NmNeverOverstates /\ NmStopIsBounded)
    /\ NmFollowsRoute
-----------------------------------------------------------------------------
(* The inductive invariant behind NmPromise *)

NmCounts == [Ifaces -> -1 .. NmModulus - 1]
NmTypeOK ==
    /\ nmCounter \in NmCounts /\ nmPrev \in NmCounts /\ nmCarried \in [Ifaces -> Nat]
    /\ nmRead \in [sample : NmCounts, carried : [Ifaces -> Nat]]
    /\ nmTable \in NmRoutes /\ nmLoop \in {"top", "wait", "tick", "apply", "done"}
    /\ nmStop \in {"no", "asked", "returned"} /\ nmLate \in Nat /\ nmPolls \in Nat

\* A counter that started anew since the last sample shows no more than was
\* carried, and one that did not has grown by no more.
NmTrack(cur, prev, carried) ==
    \A i \in Ifaces : cur[i] # -1 =>
        cur[i] <= carried[i] \/ (prev[i] # -1 /\ cur[i] - prev[i] <= carried[i])

NmTracks ==
    /\ NmTrack(nmCounter, IF nmLoop = "apply" THEN nmRead.sample ELSE nmPrev, nmCarried)
    /\ nmLoop = "apply" => NmTrack(nmRead.sample, nmPrev, nmRead.carried)

\* A poll after the stop is the last one.
NmLastPoll == (nmStop = "no" \/ nmLoop = "wait" => nmLate = 0) /\ NmStopIsBounded

NmInv == NmTypeOK /\ NmTracks /\ NmLastPoll /\ NmNeverOverstates
=============================================================================

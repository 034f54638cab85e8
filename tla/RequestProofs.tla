--------------------------- MODULE RequestProofs ----------------------------
(***************************************************************************)
(* What stands between a request and its handler keeps its promise, for    *)
(* every number of requests and workers and every limit: the lifecycle     *)
(* gate, admission, the geocheck helper and the budget of a body.          *)
(*                                                                         *)
(* The gate excludes, its counters are exact (so the panics of its two     *)
(* releases are unreachable), and no wakeup is lost beside an idle gate.   *)
(* Exclusion is not inductive alone: an exclusive request enters on mode = *)
(* "idle", so the mode has to speak for the holders, which is what         *)
(* CountersExact adds.                                                     *)
(***************************************************************************)
EXTENDS LifecycleGate, RequestAdmission, Geocheck, BodyBudget, FiniteSetTheorems, TLAPS

(* The lifecycle gate *)

\* The sets the counters count are finite.
LEMMA FiniteSides ==
    IsFiniteSet(HeldStarts) /\ IsFiniteSet(Waiters)
<1>1. HeldStarts \in SUBSET Starts /\ Waiters \in SUBSET Exclusives
  BY DEF HeldStarts, Waiters
<1> QED BY <1>1, FS_Subset, RequestsAssumption

\* Nothing is counted in the initial state.
LEMMA GateInit == Init => TypeOK /\ Exclusion /\ CountersExact /\ NoLostWakeup
<1> SUFFICES ASSUME Init PROVE TypeOK /\ Exclusion /\ CountersExact /\ NoLostWakeup
  OBVIOUS
<1>1. TypeOK BY DEF Init, TypeOK, Pcs
<1>2. Holders = {} /\ Waiters = {} BY DEF Init, Holders, Waiters, Requests
<1>3. Exclusion BY <1>2 DEF Exclusion
<1>4. CountersExact BY <1>2, FS_EmptySet DEF CountersExact, Init
<1>5. NoLostWakeup BY DEF NoLostWakeup, Init
<1> QED BY <1>1, <1>3, <1>4, <1>5

\* Every step keeps the types; a counter is decremented only when it is positive.
LEMMA GateTypes ==
    TypeOK /\ CountersExact /\ [Next]_vars => TypeOK'
<1> SUFFICES ASSUME TypeOK, CountersExact, [Next]_vars PROVE TypeOK'
  OBVIOUS
<1> USE DEF TypeOK, Pcs, gateVars
<1>1. CASE UNCHANGED vars BY <1>1 DEF vars
<1>2. ASSUME NEW r \in Requests, Arrive(r) PROVE TypeOK'
  BY <1>2 DEF Arrive, Goto
<1>3. ASSUME NEW r \in Requests, Cancel(r) PROVE TypeOK'
  BY <1>3 DEF Cancel
<1>4. ASSUME NEW r \in Requests, Wake(r) PROVE TypeOK'
  BY <1>4 DEF Wake, Goto, Return
<1>5. ASSUME NEW r \in Requests, TryStart(r) PROVE TypeOK'
  BY <1>5 DEF TryStart, Goto
<1>6. ASSUME NEW r \in Requests, TryExclusive(r) PROVE TypeOK'
  <2>1. pc[r] = "try" => waitingExclusive > 0
    <3>1. pc[r] = "try" => Waiters # {} BY <1>6 DEF Waiters, TryExclusive, Registered
    <3> QED BY <3>1, FiniteSides, FS_EmptySet DEF CountersExact
  <2> QED BY <1>6, <2>1 DEF TryExclusive, Registered, Goto
<1>7. ASSUME NEW r \in Requests, Abandon(r) PROVE TypeOK'
  <2>1. waitingExclusive > 0
    <3>1. Waiters # {} BY <1>7 DEF Waiters, Abandon
    <3> QED BY <3>1, FiniteSides, FS_EmptySet DEF CountersExact
  <2> QED BY <1>7, <2>1 DEF Abandon, Goto, Return, Notify
<1>8. ASSUME NEW r \in Requests, Release(r), pc[r] \in {"check", "held"} PROVE TypeOK'
  <2>1. r \in Starts => activeStarts > 0
    <3>1. r \in Starts => HeldStarts # {} BY <1>8 DEF HeldStarts, Holders
    <3> QED BY <3>1, FiniteSides, FS_EmptySet DEF CountersExact, HeldStarts
  <2> QED BY <1>8, <2>1 DEF Release, ReleaseStart, ReleaseExclusive, Return, Goto, Notify
<1>9. ASSUME NEW r \in Requests, CheckContext(r) \/ Finish(r) PROVE TypeOK'
  BY <1>8, <1>9 DEF CheckContext, Finish, Goto
<1> QED
  BY <1>1, <1>2, <1>3, <1>4, <1>5, <1>6, <1>7, <1>9 DEF Next, Step

\* What the counters count moves by at most the request that steps.
LEMMA Moves ==
    ASSUME TypeOK, NEW r \in Requests,
           \A q \in Requests : q # r => pc'[q] = pc[q]
    PROVE  /\ HeldStarts' = IF r \in Starts /\ pc'[r] \in {"check", "held"}
                            THEN HeldStarts \cup {r} ELSE HeldStarts \ {r}
           /\ HeldExclusives' = IF r \in Exclusives /\ pc'[r] \in {"check", "held"}
                                THEN HeldExclusives \cup {r} ELSE HeldExclusives \ {r}
           /\ Waiters' = IF r \in Exclusives /\ pc'[r] \in {"try", "sleep", "abandon"}
                         THEN Waiters \cup {r} ELSE Waiters \ {r}
BY DEF HeldStarts, HeldExclusives, Holders, Waiters, Requests

\* Beside an idle gate with a registered exclusive request, one is awake.
LEMMA SomeoneIsAwake ==
    ASSUME NoLostWakeup, mode = "idle", NEW w \in Waiters
    PROVE  pc[w] # "sleep" \/ w \in woken
BY RequestsAssumption DEF NoLostWakeup, Waiters, Requests

\* The inductive invariant gives mutual exclusion.
LEMMA InvExcludes == GateInv => Exclusion
<1> SUFFICES ASSUME GateInv, NEW r \in Holders, r \in Exclusives PROVE Holders = {r}
  BY DEF Exclusion
<1>1. HeldStarts = {}
  BY FiniteSides, FS_EmptySet, FS_CardinalityType
  DEF GateInv, CountersExact, TypeOK, HeldStarts
<1>2. \A q \in Holders : q \in HeldExclusives
  BY <1>1 DEF HeldStarts, HeldExclusives, Holders, Requests
<1> QED BY <1>2 DEF GateInv, OneExclusive, HeldExclusives

\* Entering or leaving moves the cardinality by one.
LEMMA Counting ==
    ASSUME NEW S, IsFiniteSet(S), NEW r
    PROVE  /\ r \notin S => Cardinality(S \cup {r}) = Cardinality(S) + 1
           /\ r \in S => Cardinality(S \ {r}) = Cardinality(S) - 1
           /\ Cardinality(S) \in Nat /\ (Cardinality(S) = 0 <=> S = {})
BY FS_AddElement, FS_RemoveElement, FS_CardinalityType, FS_EmptySet

\* Every step preserves the invariant: one step per action.
LEMMA GateNext == GateInv /\ [Next]_vars => GateInv'
<1> SUFFICES ASSUME GateInv, [Next]_vars PROVE GateInv'
  OBVIOUS
<1>t. TypeOK' BY GateTypes DEF GateInv
<1>f. Cardinality(Waiters) \in Nat /\ (Cardinality(Waiters) = 0 <=> Waiters = {})
  BY FiniteSides, Counting
<1> DEFINE Counters == /\ activeStarts = Cardinality(HeldStarts)
                       /\ waitingExclusive = Cardinality(Waiters)
                       /\ mode = "starts" <=> activeStarts > 0
                       /\ mode = "exclusive" <=> HeldExclusives # {}
<1>c. Counters BY DEF GateInv, CountersExact, HeldStarts, HeldExclusives
<1>s. SUFFICES Counters' /\ OneExclusive' /\ NoLostWakeup'
  BY <1>t DEF GateInv, CountersExact, HeldStarts, HeldExclusives
<1> DEFINE Goal == Counters' /\ OneExclusive' /\ NoLostWakeup'
<1>1. CASE UNCHANGED vars
  BY <1>1, <1>c DEF vars, gateVars, HeldStarts, HeldExclusives, Holders, Waiters, OneExclusive, NoLostWakeup, GateInv
<1>2. ASSUME NEW r \in Requests, Arrive(r) PROVE Goal
  <2>1. \A q \in Requests : q # r => pc'[q] = pc[q]
    BY <1>2 DEF Arrive, Goto, GateInv, TypeOK
  <2>2. pc'[r] \in Pcs /\ pc[r] \in Pcs BY <1>t DEF GateInv, TypeOK
  <2>3. /\ HeldStarts' = HeldStarts
        /\ HeldExclusives' = HeldExclusives
        /\ Waiters' = Waiters
    BY <1>2, <2>1, <2>2, Moves, RequestsAssumption
    DEF Arrive, Goto, GateInv, TypeOK, HeldStarts, HeldExclusives, Holders, Waiters, Requests
  <2>5. Counters'
    BY <1>2, <1>f, <1>c, <2>3 DEF Arrive, Goto, gateVars, GateInv, TypeOK, OneExclusive
  <2>6. OneExclusive'
    BY <1>2, <1>c, <2>3 DEF Arrive, OneExclusive, GateInv
  <2>4. NoLostWakeup'
    BY <1>2, <1>t, <1>f, <1>c, <2>1, <2>2, Moves, SomeoneIsAwake, RequestsAssumption
    DEF Arrive, Goto, GateInv, TypeOK, NoLostWakeup, Waiters, Requests, gateVars
  <2> QED BY <2>4, <2>5, <2>6
<1>3. ASSUME NEW r \in Requests, Cancel(r) PROVE Goal
  BY <1>3, <1>c DEF Cancel, gateVars, HeldStarts, HeldExclusives, Holders, Waiters, OneExclusive, NoLostWakeup, GateInv
<1>4. ASSUME NEW r \in Requests, Wake(r) PROVE Goal
  <2>1. \A q \in Requests : q # r => pc'[q] = pc[q]
    BY <1>4 DEF Wake, Goto, Return, GateInv, TypeOK
  <2>2. pc'[r] \in Pcs /\ pc[r] \in Pcs BY <1>t DEF GateInv, TypeOK
  <2>3. /\ HeldStarts' = HeldStarts
        /\ HeldExclusives' = HeldExclusives
        /\ Waiters' = Waiters
    BY <1>4, <2>1, <2>2, Moves, RequestsAssumption
    DEF Wake, Goto, Return, GateInv, TypeOK, HeldStarts, HeldExclusives, Holders, Waiters, Requests
  <2>5. Counters'
    BY <1>4, <1>f, <1>c, <2>3 DEF Wake, Goto, Return, gateVars, GateInv, TypeOK, OneExclusive
  <2>6. OneExclusive'
    BY <1>4, <1>c, <2>3 DEF Wake, OneExclusive, GateInv
  <2>4. NoLostWakeup'
    BY <1>4, <1>t, <1>f, <1>c, <2>1, <2>2, Moves, SomeoneIsAwake, RequestsAssumption
    DEF Wake, Goto, Return, GateInv, TypeOK, NoLostWakeup, Waiters, Requests, gateVars
  <2> QED BY <2>4, <2>5, <2>6
<1>5. ASSUME NEW r \in Requests, TryStart(r) PROVE Goal
  <2>1. \A q \in Requests : q # r => pc'[q] = pc[q]
    BY <1>5 DEF TryStart, Goto, Admits, GateInv, TypeOK
  <2>2. pc'[r] \in Pcs /\ pc[r] \in Pcs BY <1>t DEF GateInv, TypeOK
  <2>3. /\ HeldStarts' = IF Admits THEN HeldStarts \cup {r} ELSE HeldStarts
        /\ HeldExclusives' = HeldExclusives
        /\ Waiters' = Waiters
        /\ r \notin HeldStarts
    BY <1>5, <2>1, <2>2, Moves, RequestsAssumption
    DEF TryStart, Goto, Admits, GateInv, TypeOK, HeldStarts, HeldExclusives, Holders, Waiters, Requests
  <2>7. /\ Cardinality(HeldStarts') = (IF Admits THEN Cardinality(HeldStarts) + 1 ELSE Cardinality(HeldStarts))
        /\ Cardinality(HeldStarts) \in Nat
    BY <1>5, <1>c, <2>3, FiniteSides, Counting DEF GateInv, TypeOK
  <2>5. Counters'
    BY <1>5, <1>c, <2>3, <2>7 DEF TryStart, Goto, Admits, gateVars, GateInv, TypeOK, OneExclusive
  <2>6. OneExclusive'
    BY <1>5, <1>c, <2>3 DEF TryStart, OneExclusive, GateInv
  <2>4. NoLostWakeup'
    BY <1>5, <1>t, <1>f, <1>c, <2>1, <2>2, Moves, SomeoneIsAwake, RequestsAssumption
    DEF TryStart, Goto, Admits, GateInv, TypeOK, NoLostWakeup, Waiters, Requests, gateVars
  <2> QED BY <2>4, <2>5, <2>6
<1>6. ASSUME NEW r \in Requests, TryExclusive(r) PROVE Goal
  <2>1. \A q \in Requests : q # r => pc'[q] = pc[q]
    BY <1>6 DEF TryExclusive, Registered, Goto, GateInv, TypeOK
  <2>2. pc'[r] \in Pcs /\ pc[r] \in Pcs BY <1>t DEF GateInv, TypeOK
  <2>3. /\ HeldStarts' = HeldStarts
        /\ HeldExclusives' = IF mode = "idle" THEN HeldExclusives \cup {r} ELSE HeldExclusives
        /\ Waiters' = IF mode = "idle" THEN Waiters \ {r} ELSE Waiters \cup {r}
        /\ (pc[r] = "idle" <=> r \notin Waiters)
    BY <1>6, <2>1, <2>2, Moves, RequestsAssumption
    DEF TryExclusive, Registered, Goto, GateInv, TypeOK, HeldStarts, HeldExclusives, Holders, Waiters, Requests
  <2>7. /\ Cardinality(Waiters') = Cardinality(Waiters) + (IF pc[r] = "idle" THEN 1 ELSE 0) - (IF mode = "idle" THEN 1 ELSE 0)
        /\ Cardinality(Waiters) \in Nat
    <3>1. Cardinality(Waiters) \in Nat BY FiniteSides, FS_CardinalityType
    <3>2. CASE r \in Waiters
      <4>1. pc[r] # "idle" BY <2>3, <3>2
      <4>2. Cardinality(Waiters \ {r}) = Cardinality(Waiters) - 1 BY <3>2, FiniteSides, Counting
      <4>3. mode # "idle" => Waiters' = Waiters BY <2>3, <3>2
      <4>4. CASE mode = "idle"
        <5>1. Waiters' = Waiters \ {r} BY <2>3, <4>4
        <5> QED BY <3>1, <4>1, <4>2, <4>4, <5>1
      <4>5. CASE mode # "idle" BY <3>1, <4>1, <4>3, <4>5
      <4> QED BY <4>4, <4>5
    <3>3. CASE r \notin Waiters
      <4>1. pc[r] = "idle" BY <2>3, <3>3
      <4>2. Cardinality(Waiters \cup {r}) = Cardinality(Waiters) + 1 BY <3>3, FiniteSides, Counting
      <4>3. mode = "idle" => Waiters' = Waiters BY <2>3, <3>3
      <4>4. CASE mode = "idle" BY <3>1, <4>1, <4>3, <4>4
      <4>5. CASE mode # "idle"
        <5>1. Waiters' = Waiters \cup {r} BY <2>3, <4>5
        <5> QED BY <3>1, <4>1, <4>2, <4>5, <5>1
      <4> QED BY <4>4, <4>5
    <3> QED BY <3>2, <3>3
  <2>5. Counters'
    BY <1>6, <1>c, <2>3, <2>7 DEF TryExclusive, Registered, Goto, gateVars, GateInv, TypeOK, OneExclusive
  <2>6. OneExclusive'
    BY <1>6, <1>c, <2>3 DEF TryExclusive, Registered, OneExclusive, GateInv
  <2>4. NoLostWakeup'
    BY <1>6, <1>t, <1>f, <1>c, <2>1, <2>2, Moves, SomeoneIsAwake, RequestsAssumption
    DEF TryExclusive, Registered, Goto, GateInv, TypeOK, NoLostWakeup, Waiters, Requests, gateVars
  <2> QED BY <2>4, <2>5, <2>6
<1>7. ASSUME NEW r \in Requests, Abandon(r) PROVE Goal
  <2>1. \A q \in Requests : q # r => pc'[q] = pc[q]
    BY <1>7 DEF Abandon, Goto, Return, Notify, GateInv, TypeOK
  <2>2. pc'[r] \in Pcs /\ pc[r] \in Pcs BY <1>t DEF GateInv, TypeOK
  <2>3. /\ HeldStarts' = HeldStarts
        /\ HeldExclusives' = HeldExclusives
        /\ Waiters' = Waiters \ {r}
        /\ r \in Waiters
    BY <1>7, <2>1, <2>2, Moves, RequestsAssumption
    DEF Abandon, Goto, Return, Notify, GateInv, TypeOK, HeldStarts, HeldExclusives, Holders, Waiters, Requests
  <2>7. /\ Cardinality(Waiters') = Cardinality(Waiters) - 1
    BY <1>7, <1>c, <2>3, FiniteSides, Counting DEF GateInv, TypeOK
  <2>5. Counters'
    BY <1>7, <1>c, <2>3, <2>7 DEF Abandon, Goto, Return, Notify, gateVars, GateInv, TypeOK, OneExclusive
  <2>6. OneExclusive'
    BY <1>7, <1>c, <2>3 DEF Abandon, OneExclusive, GateInv
  <2>4. NoLostWakeup'
    <3>1. CASE mode = "idle" /\ waitingExclusive = 1
      BY <1>7, <2>1, <2>2, <3>1 DEF Abandon, Notify, NoLostWakeup, Return, Goto, GateInv, TypeOK
    <3>2. CASE mode = "idle" /\ waitingExclusive # 1
      <4>1. Cardinality(Waiters') # 0 BY <1>c, <2>7, <3>2 DEF GateInv, TypeOK
      <4>0. Waiters' # {} BY <4>1, FS_EmptySet
      <4>2. PICK w \in Waiters : w # r BY <2>3, <4>0
      <4>3. pc[w] # "sleep" \/ w \in woken BY <3>2, <4>2, SomeoneIsAwake DEF GateInv
      <4>4. w \in Waiters' /\ (pc'[w] # "sleep" \/ w \in woken')
        BY <1>7, <2>1, <2>3, <3>2, <4>2, <4>3 DEF Abandon, Waiters, Requests
      <4>5. \A q \in Requests : pc'[q] = "sleep" /\ q \notin woken' => q \in Starts
        BY <1>7, <2>1, <2>2, <3>2 DEF Abandon, Return, Goto, NoLostWakeup, GateInv, TypeOK
      <4> QED BY <4>4, <4>5 DEF NoLostWakeup, Waiters
    <3>3. CASE mode # "idle"
      BY <1>7, <3>3 DEF Abandon, NoLostWakeup
    <3> QED BY <3>1, <3>2, <3>3
  <2> QED BY <2>4, <2>5, <2>6
<1>8. ASSUME NEW r \in Requests, Release(r), pc[r] \in {"check", "held"} PROVE Goal
  <2>1. \A q \in Requests : q # r => pc'[q] = pc[q]
    BY <1>8 DEF Release, ReleaseStart, ReleaseExclusive, Goto, Return, Notify, GateInv, TypeOK
  <2>2. pc'[r] \in Pcs /\ pc[r] \in Pcs BY <1>t DEF GateInv, TypeOK
  <2>3. /\ HeldStarts' = HeldStarts \ {r}
        /\ HeldExclusives' = HeldExclusives \ {r}
        /\ Waiters' = Waiters
        /\ (r \in Starts <=> r \in HeldStarts) /\ (r \in Exclusives <=> r \in HeldExclusives) /\ (r \in Starts \/ r \in Exclusives) /\ ~(r \in Starts /\ r \in Exclusives)
    BY <1>8, <2>1, <2>2, Moves, RequestsAssumption
    DEF Release, ReleaseStart, ReleaseExclusive, Goto, Return, Notify, GateInv, TypeOK, HeldStarts, HeldExclusives, Holders, Waiters, Requests
  <2>7. /\ Cardinality(HeldStarts') = Cardinality(HeldStarts) - (IF r \in Starts THEN 1 ELSE 0)
        /\ Cardinality(HeldStarts) \in Nat
    <3>1. CASE r \in HeldStarts BY <3>1, <2>3, FiniteSides, Counting
    <3>2. CASE r \notin HeldStarts
      <4>1. HeldStarts' = HeldStarts /\ r \notin Starts BY <2>3, <3>2
      <4>2. Cardinality(HeldStarts) \in Nat BY FiniteSides, FS_CardinalityType
      <4> QED BY <4>1, <4>2
    <3> QED BY <3>1, <3>2
  <2>5. Counters'
    BY <1>8, <1>c, <2>3, <2>7 DEF Release, ReleaseStart, ReleaseExclusive, Goto, Return, Notify, gateVars, GateInv, TypeOK, OneExclusive
  <2>6. OneExclusive'
    BY <1>8, <1>c, <2>3 DEF Release, OneExclusive, GateInv
  <2>4. NoLostWakeup'
    BY <1>8, <1>t, <1>f, <1>c, <2>1, <2>2, Moves, SomeoneIsAwake, RequestsAssumption
    DEF Release, ReleaseStart, ReleaseExclusive, Goto, Return, Notify, GateInv, TypeOK, NoLostWakeup, Waiters, Requests, gateVars
  <2> QED BY <2>4, <2>5, <2>6
<1>9. ASSUME NEW r \in Requests, CheckContext(r), r \notin ctxDone PROVE Goal
  <2>1. \A q \in Requests : q # r => pc'[q] = pc[q]
    BY <1>9 DEF CheckContext, Goto, GateInv, TypeOK
  <2>2. pc'[r] \in Pcs /\ pc[r] \in Pcs BY <1>t DEF GateInv, TypeOK
  <2>3. /\ HeldStarts' = HeldStarts
        /\ HeldExclusives' = HeldExclusives
        /\ Waiters' = Waiters
    BY <1>9, <2>1, <2>2, Moves, RequestsAssumption
    DEF CheckContext, Goto, GateInv, TypeOK, HeldStarts, HeldExclusives, Holders, Waiters, Requests
  <2>5. Counters'
    BY <1>9, <1>f, <1>c, <2>3 DEF CheckContext, Goto, gateVars, GateInv, TypeOK, OneExclusive
  <2>6. OneExclusive'
    BY <1>9, <1>c, <2>3 DEF CheckContext, OneExclusive, GateInv
  <2>4. NoLostWakeup'
    BY <1>9, <1>t, <1>f, <1>c, <2>1, <2>2, Moves, SomeoneIsAwake, RequestsAssumption
    DEF CheckContext, Goto, GateInv, TypeOK, NoLostWakeup, Waiters, Requests, gateVars
  <2> QED BY <2>4, <2>5, <2>6
<1> QED
  BY <1>1, <1>2, <1>3, <1>4, <1>5, <1>6, <1>7, <1>8, <1>9 DEF Next, Step, CheckContext, Finish

\* The gate's inductive invariant holds in every reachable state, for any number
\* of requests.
THEOREM GateInvariant == Spec => []GateInv
<1>1. Init => GateInv
  <2>1. Init => OneExclusive BY DEF Init, OneExclusive, HeldExclusives, Holders, Requests
  <2> QED BY <2>1, GateInit DEF GateInv
<1> QED BY <1>1, GateNext, PTL DEF Spec

\* An exclusive lease of the gate is alone, for any number of requests.
THEOREM GateExcludes == Spec => []Exclusion
BY GateInvariant, InvExcludes, PTL

\* The gate's counters equal the leases held and the requests waiting, and its
\* mode follows: neither release panics, and cancellation leaks nothing.
THEOREM GateCounts == Spec => []CountersExact
<1>1. GateInv => CountersExact BY DEF GateInv
<1> QED BY <1>1, GateInvariant, PTL

\* No request sleeps for good beside an idle gate, for any number of requests.
THEOREM GateWakes == Spec => []NoLostWakeup
<1>1. GateInv => NoLostWakeup BY DEF GateInv
<1> QED BY <1>1, GateInvariant, PTL

(* Admission *)

\* An element of a sequence, and a sequence without repetitions.
Has(seq, t)   == \E i \in 1..Len(seq) : seq[i] = t
Distinct(seq) == \A i, j \in 1..Len(seq) : seq[i] = seq[j] => i = j

LEMMA ElementType ==
    ASSUME NEW S, NEW seq \in Seq(S), NEW k \in DOMAIN seq
    PROVE  seq[k] \in S
OBVIOUS

LEMMA SubSeqType ==
    ASSUME NEW S, NEW seq \in Seq(S), NEW n \in 0 .. Len(seq)
    PROVE  /\ SubSeq(seq, 1, n) \in Seq(S) /\ Len(SubSeq(seq, 1, n)) = n
           /\ Len(seq) \in Nat /\ n \in Nat /\ n <= Len(seq)
OBVIOUS

LEMMA Appended ==
    ASSUME NEW S, NEW seq \in Seq(S), NEW x \in S
    PROVE  \A t : Has(Append(seq, x), t) <=> Has(seq, t) \/ t = x
<1>1. Len(Append(seq, x)) = Len(seq) + 1 /\ Len(seq) \in Nat
  OBVIOUS
<1>2. Append(seq, x)[Len(seq) + 1] = x /\ \A i \in 1..Len(seq) : Append(seq, x)[i] = seq[i]
  OBVIOUS
<1>3. \A i \in 1..Len(seq) + 1 : i \in 1..Len(seq) \/ i = Len(seq) + 1
  BY <1>1
<1>4. Len(seq) + 1 \in 1..Len(seq) + 1 /\ \A i \in 1..Len(seq) : i \in 1..Len(seq) + 1
  BY <1>1
<1> QED  BY <1>1, <1>2, <1>3, <1>4, Zenon DEF Has

LEMMA Joined ==
    ASSUME NEW S, NEW a \in Seq(S), NEW b \in Seq(S), Distinct(a), Distinct(b), \A t : ~(Has(a, t) /\ Has(b, t))
    PROVE  /\ a \o b \in Seq(S) /\ Distinct(a \o b)
           /\ \A t : Has(a \o b, t) <=> Has(a, t) \/ Has(b, t)
<1> DEFINE c == a \o b
<1>1. c \in Seq(S) /\ Len(c) = Len(a) + Len(b) /\ Len(a) \in Nat /\ Len(b) \in Nat
  OBVIOUS
<1>2. \A i \in 1..Len(a) : i \in 1..Len(c) /\ c[i] = a[i]
  BY <1>1
<1>3. \A i \in 1..Len(b) : Len(a) + i \in 1..Len(c) /\ c[Len(a) + i] = b[i]
  BY <1>1
<1>4. \A k \in 1..Len(c) : k \in 1..Len(a) \/ \E i \in 1..Len(b) : k = Len(a) + i
  <2> TAKE k \in 1..Len(c)
  <2>1. CASE k <= Len(a)
    BY <1>1, <2>1
  <2>2. CASE k > Len(a)
    <3>1. k - Len(a) \in 1..Len(b) /\ k = Len(a) + (k - Len(a))
      BY <1>1, <2>2
    <3> QED  BY <3>1, Zenon
  <2> QED  BY <1>1, <2>1, <2>2
<1> HIDE DEF c
<1>5. \A t : Has(c, t) <=> Has(a, t) \/ Has(b, t)
  BY <1>2, <1>3, <1>4, Zenon DEF Has
<1>6. Distinct(c)
  <2> SUFFICES ASSUME NEW i \in 1..Len(c), NEW j \in 1..Len(c), c[i] = c[j] PROVE i = j
    BY Zenon DEF Distinct
  <2>1. CASE i \in 1..Len(a) /\ j \in 1..Len(a)
    BY <1>2, <2>1, Zenon DEF Distinct
  <2>2. ASSUME NEW m \in 1..Len(b), NEW n \in 1..Len(b), i = Len(a) + m, j = Len(a) + n PROVE i = j
    BY <1>3, <2>2, Zenon DEF Distinct
  <2>3. ASSUME NEW m \in 1..Len(a), NEW n \in 1..Len(b), c[m] = c[Len(a) + n] PROVE FALSE
    <3>1. a[m] = b[n]
      BY <1>2, <1>3, <2>3, Zenon
    <3> QED  BY <3>1, Zenon DEF Has
  <2> QED  BY <1>4, <2>1, <2>2, <2>3, Zenon
<1> QED  BY <1>1, <1>5, <1>6, Zenon DEF c

\* At most one slot.
LEMMA OneSlot ==
    ASSUME NEW s \in AdSlots, NEW b, b = <<s>> \/ b = <<>>
    PROVE  b \in Seq(AdSlots) /\ Distinct(b) /\ \A t : Has(b, t) => t = s
<1>1. CASE b = <<s>>
  BY <1>1 DEF Has, Distinct
<1>2. CASE b = <<>>
  BY <1>2 DEF Has, Distinct
<1> QED  BY <1>1, <1>2, Zenon

\* The limits nest without repetition, and a read's own is the outermost.
LEMMA SlotPath ==
    ASSUME NEW c \in AdClasses
    PROVE  /\ AdPath(c) \in Seq(AdSlots) /\ Distinct(AdPath(c))
           /\ c.route \in AdReadOnly => AdPath(c) # <<>> /\ Head(AdPath(c)) = "read"
<1> DEFINE b1 == IF c.route \in AdBulkBody \ {"start"} THEN <<"bulk">> ELSE <<>>
           b2 == IF c.route = "start" THEN <<"start">> ELSE <<>>
           b3 == IF c.route \in AdReadOnly THEN <<"read">> ELSE <<>>
           b4 == <<"total">>
           b5 == IF c.packed THEN <<"decoder">> ELSE <<>>
           b6 == IF AdNeedsGate(c) THEN <<"gate">> ELSE <<>>
           p2 == b1 \o b2
           p3 == p2 \o b3
           p4 == p3 \o b4
           p5 == p4 \o b5
           p6 == p5 \o b6
<1>1. AdPath(c) = p6
  BY Zenon DEF AdPath
<1>2. c.route \in AdReadOnly => b1 = <<>> /\ b2 = <<>> /\ b3 = <<"read">>
  BY Zenon DEF AdReadOnly, AdResets, AdBulkBody
<1>3. /\ b1 = <<"bulk">> \/ b1 = <<>>
      /\ b2 = <<"start">> \/ b2 = <<>>
      /\ b3 = <<"read">> \/ b3 = <<>>
      /\ b5 = <<"decoder">> \/ b5 = <<>>
      /\ b6 = <<"gate">> \/ b6 = <<>>
  BY Zenon
<1> HIDE DEF b1, b2, b3, b5, b6
<1>4. /\ "bulk" \in AdSlots /\ "start" \in AdSlots /\ "read" \in AdSlots /\ "total" \in AdSlots
      /\ "decoder" \in AdSlots /\ "gate" \in AdSlots
  BY Zenon DEF AdSlots
<1>5. /\ b1 \in Seq(AdSlots) /\ Distinct(b1) /\ \A t : Has(b1, t) => t = "bulk"
      /\ b2 \in Seq(AdSlots) /\ Distinct(b2) /\ \A t : Has(b2, t) => t = "start"
      /\ b3 \in Seq(AdSlots) /\ Distinct(b3) /\ \A t : Has(b3, t) => t = "read"
  BY <1>3, <1>4, OneSlot, Zenon
<1>6. /\ b4 \in Seq(AdSlots) /\ Distinct(b4) /\ \A t : Has(b4, t) => t = "total"
      /\ b5 \in Seq(AdSlots) /\ Distinct(b5) /\ \A t : Has(b5, t) => t = "decoder"
      /\ b6 \in Seq(AdSlots) /\ Distinct(b6) /\ \A t : Has(b6, t) => t = "gate"
  BY <1>3, <1>4, OneSlot, Zenon
<1> HIDE DEF b4
<1>7. p2 \in Seq(AdSlots) /\ Distinct(p2) /\ \A t : Has(p2, t) => t \in {"bulk", "start"}
  BY <1>5, Joined, Zenon
<1>8. c.route \in AdReadOnly => p2 = <<>>
  BY <1>2
<1> HIDE DEF p2
<1>9. p3 \in Seq(AdSlots) /\ Distinct(p3) /\ \A t : Has(p3, t) => t \in {"bulk", "start", "read"}
  BY <1>5, <1>7, Joined, Zenon
<1>10. c.route \in AdReadOnly => Len(p3) >= 1 /\ p3[1] = "read"
  <2>1. c.route \in AdReadOnly => Len(p2) = 0 /\ Len(b3) = 1 /\ b3[1] = "read"
    BY <1>2, <1>8
  <2> QED  BY <1>5, <1>7, <2>1
<1> HIDE DEF p3
<1>11. p4 \in Seq(AdSlots) /\ Distinct(p4) /\ \A t : Has(p4, t) => t \in {"bulk", "start", "read", "total"}
  BY <1>6, <1>9, Joined, Zenon
<1>12. c.route \in AdReadOnly => Len(p4) >= 1 /\ p4[1] = "read"
  BY <1>6, <1>9, <1>10
<1> HIDE DEF p4
<1>13. p5 \in Seq(AdSlots) /\ Distinct(p5) /\ \A t : Has(p5, t) => t \in {"bulk", "start", "read", "total", "decoder"}
  BY <1>6, <1>11, Joined, Zenon
<1>14. c.route \in AdReadOnly => Len(p5) >= 1 /\ p5[1] = "read"
  BY <1>6, <1>11, <1>12
<1> HIDE DEF p5
<1>15. p6 \in Seq(AdSlots) /\ Distinct(p6)
  BY <1>6, <1>13, Joined, Zenon
<1>16. c.route \in AdReadOnly => Len(p6) >= 1 /\ p6[1] = "read"
  BY <1>6, <1>13, <1>14
<1>17. c.route \in AdReadOnly => p6 # <<>> /\ Head(p6) = "read"
  BY <1>15, <1>16
<1> QED  BY <1>1, <1>15, <1>17, Zenon

LEMMA AdSetFrame ==
    ASSUME AdTypeOK, NEW r \in AdRequests, NEW rec \in AdRecs, AdSet(r, rec)
    PROVE  /\ adReq'[r] = rec /\ \A x \in AdRequests : x # r => adReq'[x] = adReq[x]
           /\ adReq' \in [AdRequests -> AdRecs]
BY Zenon DEF AdTypeOK, AdSet

\* A step in which a request takes and returns nothing.
LEMMA AdStays ==
    ASSUME AdInv, NEW r \in AdRequests, NEW rec \in AdRecs, AdSet(r, rec), UNCHANGED adUsed,
           rec.held = adReq[r].held, rec.class = adReq[r].class, AdOnce(rec), AdRunInv(rec),
           AdRead(r) /\ rec.pc \in {"slots", "recheck"} =>
               AdHolds(r, "read") \/ (rec.todo # <<>> /\ Head(rec.todo) = "read")
    PROVE  AdInv'
<1>1. /\ adReq'[r] = rec /\ \A x \in AdRequests : x # r => adReq'[x] = adReq[x]
      /\ adReq' \in [AdRequests -> AdRecs]
  BY AdSetFrame, Zenon DEF AdInv
<1>2. \A x \in AdRequests : adReq'[x].held = adReq[x].held /\ adReq'[x].class = adReq[x].class
  BY <1>1, Zenon
<1>3. \A x \in AdRequests : AdRead(x)' <=> AdRead(x)
  BY <1>2, Zenon DEF AdRead
<1>4. \A x \in AdRequests : \A s : AdHolds(x, s)' <=> AdHolds(x, s)
  BY <1>2, Zenon DEF AdHolds
<1>5. AdSlotsExact'
  <2>1. ASSUME NEW s \in AdSlots PROVE adUsed'[s] = Cardinality({x \in AdRequests : AdHolds(x, s)'})
    <3>1. {x \in AdRequests : AdHolds(x, s)'} = {x \in AdRequests : AdHolds(x, s)}
      BY <1>4, Zenon
    <3> QED  BY <3>1, Zenon DEF AdInv, AdSlotsExact
  <2> QED  BY <2>1, Zenon DEF AdSlotsExact
<1>6. ASSUME NEW x \in AdRequests PROVE AdOnce(adReq[x])' /\ AdReadFirst(x)' /\ AdRunInv(adReq[x])'
  <2>1. CASE x = r
    <3>1. AdHolds(r, "total") /\ AdRead(r) => AdHolds(r, "read")
      BY Zenon DEF AdInv, AdReadFirst
    <3>2. AdReadFirst(r)'
      BY <1>1, <1>3, <1>4, <3>1, Zenon DEF AdReadFirst
    <3> QED  BY <1>1, <2>1, <3>2, Zenon
  <2>2. CASE x # r
    <3>1. AdReadFirst(x)'
      BY <1>1, <1>3, <1>4, <2>2, Zenon DEF AdInv, AdReadFirst
    <3> QED  BY <1>1, <2>2, <3>1, Zenon DEF AdInv
  <2> QED  BY <2>1, <2>2, Zenon
<1>7. AdTypeOK' /\ \A s \in AdSlots : adUsed'[s] <= AdCapacity(s)
  BY <1>1, Zenon DEF AdInv, AdTypeOK
<1> QED  BY <1>5, <1>6, <1>7, Zenon DEF AdInv

\* How the occupancy of a slot and its holders change together.
LEMMA AdCounts ==
    ASSUME NEW n, NEW T \in SUBSET AdRequests, n = Cardinality(T), NEW r \in AdRequests
    PROVE  /\ n \in Nat
           /\ r \notin T => n + 1 = Cardinality(T \cup {r})
           /\ r \in T => n - 1 = Cardinality(T \ {r}) /\ n - 1 \in Nat
<1>1. IsFiniteSet(T)
  BY AdAssumption, FS_Subset, Zenon
<1>2. Cardinality(T) \in Nat /\ Cardinality(T \ {r}) \in Nat
  BY <1>1, FS_CardinalityType, FS_RemoveElement, Zenon
<1>3. /\ r \notin T => Cardinality(T \cup {r}) = Cardinality(T) + 1
      /\ r \in T => Cardinality(T \ {r}) = Cardinality(T) - 1
  BY <1>1, FS_AddElement, FS_RemoveElement, Zenon
<1> QED  BY <1>2, <1>3, Zenon

LEMMA AdTakes ==
    ASSUME AdInv, NEW r \in AdRequests, AdTake(r)
    PROVE  AdInv'
<1> DEFINE s   == Head(adReq[r].todo)
           rec == [adReq[r] EXCEPT !.pc = "recheck", !.held = Append(@, s), !.todo = Tail(@)]
<1>1. /\ AdTypeOK /\ AdSlotsExact /\ AdOnce(adReq[r]) /\ AdReadFirst(r) /\ AdRunInv(adReq[r])
      /\ adReq[r] \in AdRecs /\ adReq[r].pc = "slots" /\ adReq[r].todo # <<>>
      /\ adUsed[s] < AdCapacity(s) /\ adUsed' = [adUsed EXCEPT ![s] = @ + 1] /\ AdSet(r, rec)
  BY Zenon DEF AdTake, AdIsAt, AdFree, AdInv, AdTypeOK
<1>2. /\ adReq[r].todo \in Seq(AdSlots) /\ adReq[r].held \in Seq(AdSlots)
      /\ Len(adReq[r].todo) \in Nat \ {0} /\ s = adReq[r].todo[1] /\ s \in AdSlots
  BY <1>1 DEF AdRecs
<1>3. /\ Tail(adReq[r].todo) \in Seq(AdSlots) /\ Len(Tail(adReq[r].todo)) = Len(adReq[r].todo) - 1
      /\ \A i \in 1..Len(Tail(adReq[r].todo)) : i + 1 \in 1..Len(adReq[r].todo) /\ Tail(adReq[r].todo)[i] = adReq[r].todo[i + 1]
  BY <1>2
<1>4. /\ rec.pc = "recheck" /\ rec.held = Append(adReq[r].held, s) /\ rec.todo = Tail(adReq[r].todo)
      /\ rec.class = adReq[r].class /\ rec.ran = adReq[r].ran /\ rec.answer = adReq[r].answer /\ rec \in AdRecs
  <2>1. Append(adReq[r].held, s) \in Seq(AdSlots)
    BY <1>2
  <2> HIDE DEF s
  <2>2. /\ rec.pc = "recheck" /\ rec.held = Append(adReq[r].held, s) /\ rec.todo = Tail(adReq[r].todo)
        /\ rec.class = adReq[r].class /\ rec.ran = adReq[r].ran /\ rec.answer = adReq[r].answer
    BY <1>1, Zenon DEF AdRecs
  <2>3. rec \in AdRecs
    BY <1>1, <1>3, <2>1, Zenon DEF AdRecs
  <2> QED  BY <2>2, <2>3, Zenon
<1>5. ~AdHolds(r, s)
  <2>1. 1 \in 1..Len(adReq[r].todo)
    BY <1>2
  <2> QED  BY <1>1, <1>2, <2>1, Zenon DEF AdOnce, AdHolds
<1> HIDE DEF rec, s
<1>6. /\ adReq'[r] = rec /\ \A x \in AdRequests : x # r => adReq'[x] = adReq[x]
      /\ adReq' \in [AdRequests -> AdRecs]
  BY <1>1, <1>4, AdSetFrame, Zenon
<1>7. /\ \A t : AdHolds(r, t)' <=> AdHolds(r, t) \/ t = s
      /\ \A x \in AdRequests : x # r => \A t : AdHolds(x, t)' <=> AdHolds(x, t)
  <2>1. \A t : Has(rec.held, t) <=> Has(adReq[r].held, t) \/ t = s
    <3>1. \A t : Has(Append(adReq[r].held, s), t) <=> Has(adReq[r].held, t) \/ t = s
      BY <1>2, Appended
    <3> QED  BY <1>4, <3>1, Zenon
  <2> QED  BY <1>6, <2>1, Zenon DEF AdHolds, Has
<1>8. \A t \in AdSlots : adUsed'[t] = (IF t = s THEN adUsed[t] + 1 ELSE adUsed[t])
  BY <1>1, <1>2, Zenon DEF AdTypeOK
<1>9. ASSUME NEW t \in AdSlots PROVE adUsed'[t] = Cardinality({x \in AdRequests : AdHolds(x, t)'}) /\ adUsed'[t] \in Nat
  <2>1. adUsed[t] = Cardinality({x \in AdRequests : AdHolds(x, t)})
    BY <1>1, Zenon DEF AdSlotsExact
  <2>2. CASE t = s
    <3>1. {x \in AdRequests : AdHolds(x, t)'} = {x \in AdRequests : AdHolds(x, t)} \cup {r}
      BY <1>7, <2>2, Zenon
    <3>2. r \notin {x \in AdRequests : AdHolds(x, t)}
      BY <1>5, <2>2, Zenon
    <3>3. adUsed[t] \in Nat /\ adUsed[t] + 1 = Cardinality({x \in AdRequests : AdHolds(x, t)} \cup {r})
      BY <2>1, <3>2, AdCounts, Zenon
    <3>4. adUsed'[t] = adUsed[t] + 1
      BY <1>8, <2>2, Zenon
    <3>5. adUsed[t] + 1 \in Nat
      BY <3>3
    <3> QED  BY <3>1, <3>3, <3>4, <3>5, Zenon
  <2>3. CASE t # s
    <3>1. {x \in AdRequests : AdHolds(x, t)'} = {x \in AdRequests : AdHolds(x, t)}
      BY <1>7, <2>3, Zenon
    <3> QED  BY <1>1, <1>8, <2>1, <2>3, <3>1, Zenon DEF AdTypeOK
  <2> QED  BY <2>2, <2>3, Zenon
<1>10. AdSlotsExact'
  BY <1>9, Zenon DEF AdSlotsExact
<1>11. AdTypeOK'
  <2>1. adUsed' = [t \in AdSlots |-> adUsed'[t]]
    BY <1>1, Zenon DEF AdTypeOK
  <2> QED  BY <1>6, <1>9, <2>1, Zenon DEF AdTypeOK
<1>12. \A t \in AdSlots : adUsed'[t] <= AdCapacity(t)
  <2>1. adUsed[s] + 1 <= AdCapacity(s)
    <3>1. AdCapacity(s) \in Nat /\ adUsed[s] \in Nat
      BY <1>1, <1>2, AdAssumption DEF AdCapacity, AdReadCapacity, AdSlots, AdTypeOK
    <3> QED  BY <1>1, <3>1
  <2> QED  BY <1>8, <2>1, Zenon DEF AdInv
<1>13. AdOnce(rec) /\ AdRunInv(rec)
  <2>1. ASSUME NEW i \in 1..Len(rec.held), NEW j \in 1..Len(rec.todo) PROVE rec.held[i] # rec.todo[j]
    <3>1. rec.todo[j] = adReq[r].todo[j + 1] /\ j + 1 \in 1..Len(adReq[r].todo) /\ j + 1 # 1
      BY <1>3, <1>4
    <3>2. Has(adReq[r].held, rec.held[i]) \/ rec.held[i] = s
      <4>1. Has(rec.held, rec.held[i])
        BY Zenon DEF Has
      <4>2. \A t : Has(rec.held, t) => Has(adReq[r].held, t) \/ t = s
        BY <1>2, <1>4, Appended
      <4> QED  BY <4>1, <4>2, Zenon
    <3>3. rec.todo[j] # s
      <4>1. 1 \in 1..Len(adReq[r].todo)
        BY <1>2
      <4> QED  BY <1>1, <1>2, <3>1, <4>1, Zenon DEF AdOnce
    <3> QED  BY <1>1, <3>1, <3>2, <3>3, Zenon DEF AdOnce, Has
  <2>2. ASSUME NEW i \in 1..Len(rec.todo), NEW j \in 1..Len(rec.todo), rec.todo[i] = rec.todo[j] PROVE i = j
    <3>1. /\ i + 1 \in 1..Len(adReq[r].todo) /\ rec.todo[i] = adReq[r].todo[i + 1]
          /\ j + 1 \in 1..Len(adReq[r].todo) /\ rec.todo[j] = adReq[r].todo[j + 1]
      BY <1>3, <1>4, Zenon
    <3>2. i + 1 = j + 1
      BY <1>1, <2>2, <3>1, Zenon DEF AdOnce
    <3> QED  BY <1>3, <1>4, <3>2
  <2> QED  BY <1>1, <1>4, <2>1, <2>2, Zenon DEF AdOnce, AdRunInv
<1>14. ASSUME NEW x \in AdRequests PROVE AdOnce(adReq[x])' /\ AdReadFirst(x)' /\ AdRunInv(adReq[x])'
  <2>1. CASE x = r
    <3>1. AdRead(r)' <=> AdRead(r)
      BY <1>4, <1>6, Zenon DEF AdRead
    <3>2. AdRead(r) => AdHolds(r, "read")'
      BY <1>1, <1>7, Zenon DEF AdReadFirst, s
    <3> QED  BY <1>6, <1>13, <2>1, <3>1, <3>2, Zenon DEF AdReadFirst
  <2>2. CASE x # r
    <3>1. AdRead(x)' <=> AdRead(x)
      BY <1>6, <2>2, Zenon DEF AdRead
    <3>2. AdReadFirst(x)'
      BY <1>6, <1>7, <2>2, <3>1, Zenon DEF AdInv, AdReadFirst
    <3> QED  BY <1>6, <2>2, <3>2, Zenon DEF AdInv
  <2> QED  BY <2>1, <2>2, Zenon
<1> QED  BY <1>10, <1>11, <1>12, <1>14, Zenon DEF AdInv

LEMMA AdReleases ==
    ASSUME AdInv, NEW r \in AdRequests, AdRelease(r)
    PROVE  AdInv'
<1> DEFINE rec == [adReq[r] EXCEPT !.pc = "done", !.held = <<>>, !.ctx = "live"]
<1>1. /\ AdTypeOK /\ AdSlotsExact /\ AdOnce(adReq[r]) /\ AdRunInv(adReq[r])
      /\ adReq[r] \in AdRecs /\ adReq[r].pc = "leave" /\ AdSet(r, rec)
      /\ adUsed' = [s \in AdSlots |-> adUsed[s] - (IF AdHolds(r, s) THEN 1 ELSE 0)]
  BY Zenon DEF AdRelease, AdIsAt, AdInv, AdTypeOK
<1>2. /\ rec.pc = "done" /\ rec.held = <<>> /\ rec.todo = adReq[r].todo /\ rec.ran = adReq[r].ran
      /\ rec.answer = adReq[r].answer
  BY <1>1, Zenon DEF AdRecs
<1>3. rec \in AdRecs
  <2>1. <<>> \in Seq(AdSlots)
    OBVIOUS
  <2> QED  BY <1>1, <2>1, Zenon DEF AdRecs
<1> HIDE DEF rec
<1>4. /\ adReq'[r] = rec /\ \A x \in AdRequests : x # r => adReq'[x] = adReq[x]
      /\ adReq' \in [AdRequests -> AdRecs]
  BY <1>1, <1>3, AdSetFrame, Zenon
<1>5. /\ \A t : ~AdHolds(r, t)'
      /\ \A x \in AdRequests : x # r => \A t : AdHolds(x, t)' <=> AdHolds(x, t)
  <2>1. adReq'[r].held = <<>>
    BY <1>2, <1>4, Zenon
  <2>2. \A t : ~AdHolds(r, t)'
    <3>1. 1..Len(adReq'[r].held) = {}
      BY <2>1
    <3> QED  BY <3>1, Zenon DEF AdHolds
  <2> QED  BY <1>4, <2>2, Zenon DEF AdHolds
<1>6. ASSUME NEW t \in AdSlots
      PROVE  /\ adUsed'[t] = Cardinality({x \in AdRequests : AdHolds(x, t)'}) /\ adUsed'[t] \in Nat
             /\ adUsed'[t] <= AdCapacity(t)
  <2>1. /\ adUsed[t] = Cardinality({x \in AdRequests : AdHolds(x, t)}) /\ adUsed[t] \in Nat
        /\ adUsed[t] <= AdCapacity(t)
    BY <1>1, Zenon DEF AdInv, AdSlotsExact, AdTypeOK
  <2>2. AdCapacity(t) \in Nat
    BY AdAssumption DEF AdCapacity, AdReadCapacity, AdSlots
  <2>3. CASE AdHolds(r, t)
    <3>1. {x \in AdRequests : AdHolds(x, t)'} = {x \in AdRequests : AdHolds(x, t)} \ {r}
      BY <1>5, Zenon
    <3>2. /\ adUsed[t] - 1 = Cardinality({x \in AdRequests : AdHolds(x, t)} \ {r})
          /\ adUsed[t] - 1 \in Nat
      BY <2>1, <2>3, AdCounts, Zenon
    <3>3. adUsed'[t] = adUsed[t] - 1
      BY <1>1, <2>3, Zenon
    <3>4. adUsed[t] - 1 <= AdCapacity(t)
      BY <2>1, <2>2
    <3> QED  BY <3>1, <3>2, <3>3, <3>4, Zenon
  <2>4. CASE ~AdHolds(r, t)
    <3>1. {x \in AdRequests : AdHolds(x, t)'} = {x \in AdRequests : AdHolds(x, t)}
      BY <1>5, <2>4, Zenon
    <3>2. adUsed'[t] = adUsed[t]
      <4>1. adUsed'[t] = adUsed[t] - 0
        BY <1>1, <2>4, Zenon
      <4> QED  BY <2>1, <4>1
    <3> QED  BY <2>1, <3>1, <3>2, Zenon
  <2> QED  BY <2>3, <2>4, Zenon
<1>7. AdSlotsExact' /\ \A t \in AdSlots : adUsed'[t] <= AdCapacity(t)
  BY <1>6, Zenon DEF AdSlotsExact
<1>8. AdTypeOK'
  <2>1. adUsed' = [t \in AdSlots |-> adUsed'[t]]
    BY <1>1, Zenon
  <2> QED  BY <1>4, <1>6, <2>1, Zenon DEF AdTypeOK
<1>9. AdOnce(rec) /\ AdRunInv(rec)
  <2>1. \A i \in 1..Len(rec.held) : FALSE
    BY <1>2
  <2> QED  BY <1>1, <1>2, <2>1, Zenon DEF AdOnce, AdRunInv
<1>10. ASSUME NEW x \in AdRequests PROVE AdOnce(adReq[x])' /\ AdReadFirst(x)' /\ AdRunInv(adReq[x])'
  <2>1. CASE x = r
    BY <1>2, <1>4, <1>5, <1>9, <2>1, Zenon DEF AdReadFirst
  <2>2. CASE x # r
    <3>1. AdRead(x)' <=> AdRead(x)
      BY <1>4, <2>2, Zenon DEF AdRead
    <3>2. AdReadFirst(x)'
      BY <1>4, <1>5, <2>2, <3>1, Zenon DEF AdInv, AdReadFirst
    <3> QED  BY <1>4, <2>2, <3>2, Zenon DEF AdInv
  <2> QED  BY <2>1, <2>2, Zenon
<1> QED  BY <1>7, <1>8, <1>10, Zenon DEF AdInv

\* A way out before the releases keeps what is held and asks for no more.
LEMMA AdLeaves ==
    ASSUME AdInv, NEW r \in AdRequests, NEW answer \in {"abort", "503", "4xx", "result"},
           AdLeave(r, answer), UNCHANGED adUsed, answer = "503" => ~adReq[r].ran
    PROVE  AdInv'
<1> DEFINE rec == [adReq[r] EXCEPT !.pc = "leave", !.answer = answer, !.todo = <<>>]
<1>1. adReq[r] \in AdRecs /\ AdSet(r, rec)
  BY Zenon DEF AdLeave, AdInv, AdTypeOK
<1>2. /\ rec.pc = "leave" /\ rec.held = adReq[r].held /\ rec.todo = <<>> /\ rec.ran = adReq[r].ran
      /\ rec.answer = answer /\ rec.class = adReq[r].class
  BY <1>1, Zenon DEF AdRecs
<1>3. rec \in AdRecs
  <2>1. <<>> \in Seq(AdSlots)
    OBVIOUS
  <2> QED  BY <1>1, <2>1, Zenon DEF AdRecs
<1> HIDE DEF rec
<1>4. AdOnce(rec) /\ AdRunInv(rec)
  <2>1. \A i \in 1..Len(rec.todo) : FALSE
    BY <1>2
  <2> QED  BY <1>2, <2>1, Zenon DEF AdOnce, AdRunInv
<1> QED  BY <1>1, <1>2, <1>3, <1>4, AdStays, Zenon

LEMMA AdSameSlots ==
    ASSUME NEW a, NEW b, b.held = a.held, b.todo = a.todo, b.pc = "new" => a.pc = "new", AdOnce(a)
    PROVE  AdOnce(b)
BY SMT DEF AdOnce

LEMMA AdArrives ==
    ASSUME AdInv, NEW r \in AdRequests, AdArrive(r)
    PROVE  AdInv'
<1>1. CASE AdLeave(r, "abort")
  BY <1>1, AdLeaves, Zenon DEF AdArrive
<1>2. CASE AdSet(r, [adReq[r] EXCEPT !.pc = "slots", !.todo = AdPath(adReq[r].class)])
  <2> DEFINE rec == [adReq[r] EXCEPT !.pc = "slots", !.todo = AdPath(adReq[r].class)]
  <2>1. /\ adReq[r] \in AdRecs /\ AdSet(r, rec) /\ adReq[r].pc = "new" /\ UNCHANGED adUsed
        /\ AdOnce(adReq[r]) /\ AdRunInv(adReq[r])
    BY <1>2, Zenon DEF AdArrive, AdIsAt, AdInv, AdTypeOK
  <2>2. adReq[r].class \in AdClasses
    BY <2>1, Zenon DEF AdRecs
  <2>3. /\ rec.pc = "slots" /\ rec.held = adReq[r].held /\ rec.todo = AdPath(adReq[r].class)
        /\ rec.ran = adReq[r].ran /\ rec.answer = adReq[r].answer /\ rec.class = adReq[r].class
    BY <2>1, Zenon DEF AdRecs
  <2>4. /\ AdPath(adReq[r].class) \in Seq(AdSlots) /\ Distinct(AdPath(adReq[r].class))
        /\ AdRead(r) => AdPath(adReq[r].class) # <<>> /\ Head(AdPath(adReq[r].class)) = "read"
    BY <2>2, SlotPath, Zenon DEF AdRead
  <2>5. rec \in AdRecs
    BY <2>1, <2>4, Zenon DEF AdRecs
  <2> HIDE DEF rec
  <2>6. AdOnce(rec) /\ AdRunInv(rec)
    <3>1. \A i \in 1..Len(rec.held) : FALSE
      BY <2>1, <2>3 DEF AdOnce
    <3> QED  BY <2>1, <2>3, <2>4, <3>1, Zenon DEF AdOnce, AdRunInv, Distinct
  <2> QED  BY <2>1, <2>3, <2>4, <2>5, <2>6, AdStays, Zenon
<1> QED  BY <1>1, <1>2, Zenon DEF AdArrive

\* The deadline moves nothing but the context.
LEMMA AdEnding ==
    ASSUME AdInv, NEW r \in AdRequests, AdEnds(r)
    PROVE  AdInv'
<1>1. PICK c \in {"canceled", "expired"} : AdSet(r, [adReq[r] EXCEPT !.ctx = c])
  BY Zenon DEF AdEnds
<1> DEFINE rec == [adReq[r] EXCEPT !.ctx = c]
<1>2. /\ adReq[r] \in AdRecs /\ AdSet(r, rec) /\ UNCHANGED adUsed
      /\ AdOnce(adReq[r]) /\ AdRunInv(adReq[r]) /\ AdReadFirst(r)
  BY <1>1, Zenon DEF AdEnds, AdInv, AdTypeOK
<1>3. /\ rec.pc = adReq[r].pc /\ rec.held = adReq[r].held /\ rec.todo = adReq[r].todo
      /\ rec.ran = adReq[r].ran /\ rec.answer = adReq[r].answer /\ rec.class = adReq[r].class
  BY <1>2, Zenon DEF AdRecs
<1>4. rec \in AdRecs
  BY <1>2, Zenon DEF AdRecs
<1> HIDE DEF rec
<1>5. AdOnce(rec) /\ AdRunInv(rec)
  <2>1. AdOnce(rec)
    BY <1>2, <1>3, AdSameSlots, Zenon
  <2> QED  BY <1>2, <1>3, <2>1, Zenon DEF AdRunInv
<1> QED  BY <1>2, <1>3, <1>4, <1>5, AdStays, Zenon DEF AdReadFirst

LEMMA AdRechecks ==
    ASSUME AdInv, NEW r \in AdRequests, AdRecheck(r)
    PROVE  AdInv'
<1> DEFINE on  == [adReq[r] EXCEPT !.pc = "slots"]
           off == [adReq[r] EXCEPT !.pc = "leave", !.todo = <<>>, !.held = AdRaceLost(adReq[r]), !.answer = AdWaitAnswer(r)]
<1>1. /\ adReq[r] \in AdRecs /\ UNCHANGED adUsed /\ adReq[r].pc = "recheck"
      /\ AdOnce(adReq[r]) /\ AdRunInv(adReq[r]) /\ AdReadFirst(r) /\ (AdSet(r, on) \/ AdSet(r, off))
  BY Zenon DEF AdRecheck, AdIsAt, AdInv, AdTypeOK
<1>2. CASE AdSet(r, on)
  <2>1. /\ on.pc = "slots" /\ on.held = adReq[r].held /\ on.todo = adReq[r].todo
        /\ on.ran = adReq[r].ran /\ on.answer = adReq[r].answer /\ on.class = adReq[r].class
    BY <1>1, Zenon DEF AdRecs
  <2>2. on \in AdRecs
    BY <1>1, Zenon DEF AdRecs
  <2> HIDE DEF on
  <2>3. AdOnce(on) /\ AdRunInv(on)
    <3>1. AdOnce(on)
      BY <1>1, <2>1, AdSameSlots, Zenon
    <3> QED  BY <1>1, <2>1, <3>1, Zenon DEF AdRunInv
  <2> QED  BY <1>1, <1>2, <2>1, <2>2, <2>3, AdStays, Zenon DEF AdReadFirst
<1>3. CASE AdSet(r, off)
  <2>1. /\ off.pc = "leave" /\ off.held = adReq[r].held /\ off.todo = <<>>
        /\ off.ran = adReq[r].ran /\ off.answer = AdWaitAnswer(r) /\ off.class = adReq[r].class
    BY <1>1, Zenon DEF AdRecs, AdRaceLost
  <2>2. off \in AdRecs
    <3>1. <<>> \in Seq(AdSlots) /\ AdRaceLost(adReq[r]) \in Seq(AdSlots)
      BY <1>1 DEF AdRecs, AdRaceLost
    <3>2. AdWaitAnswer(r) \in {"none", "abort", "503", "4xx", "result"}
      BY Zenon DEF AdWaitAnswer
    <3> QED  BY <1>1, <3>1, <3>2, Zenon DEF AdRecs
  <2> HIDE DEF off
  <2>3. AdOnce(off) /\ AdRunInv(off)
    <3>1. \A i \in 1..Len(off.todo) : FALSE
      BY <2>1
    <3> QED  BY <1>1, <2>1, <3>1, Zenon DEF AdOnce, AdRunInv
  <2> QED  BY <1>1, <1>3, <2>1, <2>2, <2>3, AdStays, Zenon
<1> QED  BY <1>1, <1>2, <1>3, Zenon

LEMMA AdServes ==
    ASSUME AdInv, NEW r \in AdRequests, AdServe(r)
    PROVE  AdInv'
<1> DEFINE rec == [adReq[r] EXCEPT !.pc = "service", !.ran = TRUE]
<1>1. /\ adReq[r] \in AdRecs /\ UNCHANGED adUsed /\ adReq[r].pc = "slots" /\ AdSet(r, rec)
      /\ AdOnce(adReq[r]) /\ AdRunInv(adReq[r])
  BY Zenon DEF AdServe, AdIsAt, AdInv, AdTypeOK
<1>2. /\ rec.pc = "service" /\ rec.held = adReq[r].held /\ rec.todo = adReq[r].todo
      /\ rec.answer = adReq[r].answer /\ rec.class = adReq[r].class
  BY <1>1, Zenon DEF AdRecs
<1>3. rec \in AdRecs
  BY <1>1, Zenon DEF AdRecs
<1> HIDE DEF rec
<1>4. AdOnce(rec) /\ AdRunInv(rec)
  <2>1. AdOnce(rec)
    BY <1>1, <1>2, AdSameSlots, Zenon
  <2> QED  BY <1>1, <1>2, <2>1, Zenon DEF AdRunInv
<1> QED  BY <1>1, <1>2, <1>3, <1>4, AdStays, Zenon

LEMMA AdInvNext == AdInv /\ [AdNext]_adVars => AdInv'
<1> SUFFICES ASSUME AdInv, [AdNext]_adVars PROVE AdInv'
  OBVIOUS
<1>1. CASE UNCHANGED adVars
  BY <1>1 DEF adVars, AdInv, AdTypeOK, AdSlotsExact, AdOnce, AdReadFirst, AdRunInv, AdRead, AdHolds
<1>2. ASSUME NEW r \in AdRequests, AdArrive(r) \/ AdEnds(r) \/ AdBadBody(r) \/ AdStep(r) PROVE AdInv'
  <2>1. CASE AdArrive(r)
    BY <2>1, AdArrives, Zenon
  <2>2. CASE AdEnds(r)
    BY <2>2, AdEnding, Zenon
  <2>3. CASE AdBadBody(r)
    BY <2>3, AdLeaves, Zenon DEF AdBadBody
  <2>4. CASE AdTake(r)
    BY <2>4, AdTakes, Zenon
  <2>5. CASE AdRecheck(r)
    BY <2>5, AdRechecks, Zenon
  <2>6. CASE AdWaitFails(r)
    <3>1. AdWaitAnswer(r) \in {"abort", "503", "4xx", "result"}
      BY Zenon DEF AdWaitAnswer
    <3>2. ~adReq[r].ran
      BY <2>6, Zenon DEF AdWaitFails, AdIsAt, AdInv, AdRunInv
    <3> QED  BY <2>6, <3>1, <3>2, AdLeaves, Zenon DEF AdWaitFails
  <2>7. CASE AdServe(r)
    BY <2>7, AdServes, Zenon
  <2>8. CASE AdWrite(r)
    BY <2>8, AdLeaves, Zenon DEF AdWrite, AdWritten
  <2>9. CASE AdRelease(r)
    BY <2>9, AdReleases, Zenon
  <2> QED  BY <1>2, <2>1, <2>2, <2>3, <2>4, <2>5, <2>6, <2>7, <2>8, <2>9, Zenon DEF AdStep
<1> QED  BY <1>1, <1>2, Zenon DEF AdNext

LEMMA AdStarts == AdInit => AdInv
<1> SUFFICES ASSUME AdInit PROVE AdInv
  OBVIOUS
<1>1. PICK mix \in AdMixes :
        adReq = [r \in AdRequests |-> [class |-> mix[r], pc |-> "new", todo |-> <<>>, held |-> <<>>,
                                      ctx |-> "live", ran |-> FALSE, answer |-> "none"]]
  BY Zenon DEF AdInit
<1>2. ASSUME NEW r \in AdRequests
      PROVE  /\ adReq[r] \in AdRecs /\ adReq[r].held = <<>> /\ adReq[r].todo = <<>> /\ adReq[r].pc = "new"
             /\ ~adReq[r].ran /\ adReq[r].answer = "none"
  <2>1. mix[r] \in AdClasses
    BY AdAssumption, Zenon
  <2>2. <<>> \in Seq(AdSlots)
    OBVIOUS
  <2>3. adReq[r] = [class |-> mix[r], pc |-> "new", todo |-> <<>>, held |-> <<>>,
                    ctx |-> "live", ran |-> FALSE, answer |-> "none"]
    BY <1>1, Zenon
  <2>4. adReq[r] \in AdRecs
    BY <2>1, <2>2, <2>3 DEF AdRecs
  <2> QED  BY <2>3, <2>4
<1>3. \A r \in AdRequests : \A t : ~AdHolds(r, t)
  <2>1. 1..Len(<<>>) = {}
    OBVIOUS
  <2> QED  BY <1>2, <2>1, Zenon DEF AdHolds
<1>4. ASSUME NEW s \in AdSlots PROVE adUsed[s] = Cardinality({r \in AdRequests : AdHolds(r, s)}) /\ adUsed[s] = 0
  <2>1. {r \in AdRequests : AdHolds(r, s)} = {}
    BY <1>3, Zenon
  <2>2. adUsed[s] = 0
    BY Zenon DEF AdInit
  <2> QED  BY <2>1, <2>2, FS_EmptySet, Zenon
<1>5. AdTypeOK
  <2>1. adReq \in [AdRequests -> AdRecs]
    BY <1>1, <1>2, Zenon
  <2>2. adUsed \in [AdSlots -> Nat]
    BY Zenon DEF AdInit
  <2> QED  BY <2>1, <2>2, Zenon DEF AdTypeOK
<1>6. \A s \in AdSlots : adUsed[s] <= AdCapacity(s)
  <2>1. \A s \in AdSlots : 0 <= AdCapacity(s)
    BY AdAssumption DEF AdCapacity, AdReadCapacity, AdSlots
  <2> QED  BY <1>4, <2>1, Zenon
<1>7. ASSUME NEW r \in AdRequests PROVE AdOnce(adReq[r]) /\ AdReadFirst(r) /\ AdRunInv(adReq[r])
  <2>1. 1..Len(<<>>) = {}
    OBVIOUS
  <2>2. AdOnce(adReq[r])
    BY <1>2, <2>1, Zenon DEF AdOnce
  <2> QED  BY <1>2, <1>3, <2>2, Zenon DEF AdReadFirst, AdRunInv
<1> QED  BY <1>4, <1>5, <1>6, <1>7, Zenon DEF AdInv, AdSlotsExact

\* Reads hold at most as many handlers as they have slots of their own, which
\* are fewer.
LEMMA AdRoom == AdInv => AdReadsLeaveRoom
<1> SUFFICES ASSUME AdInv, MaxHandlers > 1
             PROVE  Cardinality({r \in AdRequests : AdRead(r) /\ AdHolds(r, "total")}) < MaxHandlers
  BY Zenon DEF AdReadsLeaveRoom
<1> DEFINE T == {r \in AdRequests : AdRead(r) /\ AdHolds(r, "total")}
           S == {r \in AdRequests : AdHolds(r, "read")}
<1>1. T \subseteq S
  BY Zenon DEF AdInv, AdReadFirst
<1>2. IsFiniteSet(S)
  BY AdAssumption, FS_Subset, Zenon
<1> HIDE DEF T, S
<1>3. Cardinality(T) <= Cardinality(S) /\ Cardinality(T) \in Nat /\ Cardinality(S) \in Nat
  BY <1>1, <1>2, FS_Subset, FS_CardinalityType, Zenon
<1>4. Cardinality(S) <= AdCapacity("read")
  <2>1. "read" \in AdSlots
    BY Zenon DEF AdSlots
  <2> QED  BY <2>1, Zenon DEF AdInv, AdSlotsExact, S
<1>5. AdCapacity("read") = MaxHandlers - 1
  BY AdAssumption, Zenon DEF AdCapacity, AdReadCapacity
<1>6. Cardinality(T) < MaxHandlers
  BY <1>3, <1>4, <1>5, AdAssumption
<1> QED  BY <1>6, Zenon DEF T

\* Whatever the requests, the handlers and the interleaving: no slot leaks or is
\* returned twice, reads leave a handler to mutations, and no request is told to
\* retry what its service has done.
THEOREM AdmissionIsExact == AdSpec => []AdPromise
<1>1. AdInv => AdPromise
  <2>1. AdInv => AdRetryIsSafe
    BY Zenon DEF AdInv, AdRunInv, AdRetryIsSafe
  <2> QED  BY <2>1, AdRoom, Zenon DEF AdInv, AdPromise
<1> QED  BY AdStarts, AdInvNext, <1>1, PTL DEF AdSpec

-----------------------------------------------------------------------------

(* The geocheck helper *)

\* What a step of one caller must leave true of the service.
LEMMA GcKeeps ==
    ASSUME GcInv, NEW c \in GcCallers, NEW rec \in GcRecs, gcCall' = [gcCall EXCEPT ![c] = rec],
           NEW child \in BOOLEAN, gcChild' = [gcChild EXCEPT ![c] = child], gcBusy' \in BOOLEAN,
           GcWhole(rec), child => rec.at = "running",
           rec.at \in {"running", "ended"} => gcBusy' /\ (GcRuns(c) \/ ~gcBusy),
           gcBusy => gcBusy' \/ GcRuns(c)
    PROVE  GcInv'
<1>1. /\ gcCall'[c] = rec /\ gcCall' \in [GcCallers -> GcRecs]
      /\ gcChild'[c] = child /\ gcChild' \in [GcCallers -> BOOLEAN]
      /\ \A d \in GcCallers : d # c => gcCall'[d] = gcCall[d] /\ gcChild'[d] = gcChild[d]
  BY Zenon DEF GcInv, GcTypeOK
<1>2. /\ GcRuns(c)' <=> rec.at \in {"running", "ended"}
      /\ \A d \in GcCallers : d # c => (GcRuns(d)' <=> GcRuns(d))
  BY <1>1, Zenon DEF GcRuns
<1>3. \A d \in GcCallers : GcRuns(d) => gcBusy
  BY Zenon DEF GcInv, GcAlone
<1>4. \A d, e \in GcCallers : GcRuns(d) /\ GcRuns(e) => d = e
  BY Zenon DEF GcInv, GcAlone
<1>5. \A d \in GcCallers : d # c /\ GcRuns(d) => ~GcRuns(c)'
  BY <1>2, <1>3, <1>4, Zenon
<1>6. \A d \in GcCallers : GcRuns(d)' => gcBusy'
  <2>1. \A d \in GcCallers : d # c /\ GcRuns(d) => gcBusy'
    BY <1>3, <1>4, Zenon
  <2> QED  BY <1>2, <2>1, Zenon
<1>7. \A d, e \in GcCallers : GcRuns(d)' /\ GcRuns(e)' => d = e
  BY <1>2, <1>4, <1>5, Zenon
<1>8. \A d \in GcCallers : gcChild'[d] => gcCall'[d].at = "running"
  BY <1>1, Zenon DEF GcInv, GcAlone
<1>9. \A d \in GcCallers : GcWhole(gcCall'[d])
  BY <1>1, Zenon DEF GcInv
<1> QED  BY <1>1, <1>6, <1>7, <1>8, <1>9, Zenon DEF GcInv, GcTypeOK, GcAlone

LEMMA GcAnswers ==
    ASSUME GcInv, NEW c \in GcCallers, NEW answer \in {"failed", "report"}, GcAnswer(c, answer),
           UNCHANGED gcChild, ~gcChild[c], gcBusy' \in BOOLEAN, gcBusy => gcBusy' \/ GcRuns(c),
           answer = "report" => GcJudge(gcCall[c]) /\ gcCall[c].at = "ended"
    PROVE  GcInv'
<1> DEFINE rec == [gcCall[c] EXCEPT !.at = "done", !.answer = answer]
<1>1. gcCall[c] \in GcRecs /\ gcCall \in [GcCallers -> GcRecs] /\ gcChild \in [GcCallers -> BOOLEAN] /\ GcWhole(gcCall[c])
  BY Zenon DEF GcInv, GcTypeOK
<1>2. gcCall' = [gcCall EXCEPT ![c] = rec]
  BY <1>1, Zenon DEF GcAnswer
<1>3. gcChild' = [gcChild EXCEPT ![c] = FALSE]
  BY <1>1, Zenon
<1>4. rec \in GcRecs
  BY <1>1, Zenon DEF GcRecs
<1>5. /\ rec.at = "done" /\ rec.answer = answer /\ rec.out = gcCall[c].out /\ rec.write = gcCall[c].write
      /\ rec.cutOut = gcCall[c].cutOut /\ rec.cutErr = gcCall[c].cutErr
  BY <1>1, Zenon DEF GcRecs
<1> HIDE DEF rec
<1>6. GcWhole(rec)
  BY <1>1, <1>5, Zenon DEF GcWhole, GcJudge, GcValid
<1> QED  BY <1>2, <1>3, <1>4, <1>5, <1>6, GcKeeps, Zenon

LEMMA GcRunning ==
    ASSUME GcInv, NEW c \in GcCallers, GcRun(c)
    PROVE  GcInv'
<1>1. /\ gcCall[c] \in GcRecs /\ gcCall \in [GcCallers -> GcRecs] /\ gcChild \in [GcCallers -> BOOLEAN]
      /\ GcWhole(gcCall[c]) /\ gcCall[c].at = "idle" /\ ~gcBusy /\ gcBusy' = TRUE /\ ~gcChild[c]
  BY Zenon DEF GcInv, GcTypeOK, GcRun, GcAlone
<1>2. PICK write \in GcOutputs :
          \/ /\ gcCall' = [gcCall EXCEPT ![c].at = "running", ![c].write = write]
             /\ gcChild' = [gcChild EXCEPT ![c] = TRUE]
          \/ /\ gcCall' = [gcCall EXCEPT ![c].at = "ended", ![c].over = TRUE]
             /\ UNCHANGED gcChild
  BY Zenon DEF GcRun
<1>3. write \in [out : Seq(STRING), err : Seq(STRING)]
  BY GcAssumption, Zenon
<1>4. CASE gcCall' = [gcCall EXCEPT ![c].at = "running", ![c].write = write] /\ gcChild' = [gcChild EXCEPT ![c] = TRUE]
  <2> DEFINE rec == [gcCall[c] EXCEPT !.at = "running", !.write = write]
  <2>1. gcCall' = [gcCall EXCEPT ![c] = rec]
    BY <1>1, <1>4, Zenon
  <2>2. rec \in GcRecs /\ rec.at = "running" /\ rec.answer = gcCall[c].answer
    BY <1>1, <1>3, Zenon DEF GcRecs
  <2> HIDE DEF rec
  <2>3. GcWhole(rec)
    BY <1>1, <2>2, Zenon DEF GcWhole
  <2> QED  BY <1>1, <1>4, <2>1, <2>2, <2>3, GcKeeps, Zenon
<1>5. CASE gcCall' = [gcCall EXCEPT ![c].at = "ended", ![c].over = TRUE] /\ UNCHANGED gcChild
  <2> DEFINE rec == [gcCall[c] EXCEPT !.at = "ended", !.over = TRUE]
  <2>1. gcCall' = [gcCall EXCEPT ![c] = rec] /\ gcChild' = [gcChild EXCEPT ![c] = FALSE]
    BY <1>1, <1>5, Zenon
  <2>2. rec \in GcRecs /\ rec.at = "ended" /\ rec.answer = gcCall[c].answer /\ rec.over
    BY <1>1, Zenon DEF GcRecs
  <2> HIDE DEF rec
  <2>3. GcWhole(rec)
    BY <1>1, <2>2, Zenon DEF GcWhole
  <2> QED  BY <1>1, <2>1, <2>2, <2>3, GcKeeps, Zenon
<1> QED  BY <1>2, <1>4, <1>5, Zenon

LEMMA GcKeptType ==
    ASSUME NEW S, NEW seq \in Seq(S), seq # <<>>, NEW data \in Seq(S)
    PROVE  Tail(seq) \in Seq(S) /\ GcKept(data, Head(seq)) \in Seq(S)
<1>1. Tail(seq) \in Seq(S) /\ Append(data, Head(seq)) \in Seq(S)
  OBVIOUS
<1> QED  BY <1>1, Zenon DEF GcKept

LEMMA GcWriting ==
    ASSUME GcInv, NEW c \in GcCallers, GcWrite(c)
    PROVE  GcInv'
<1>1. /\ gcCall[c] \in GcRecs /\ gcCall \in [GcCallers -> GcRecs] /\ gcChild \in [GcCallers -> BOOLEAN]
      /\ GcWhole(gcCall[c]) /\ gcCall[c].at = "running" /\ gcBusy /\ gcBusy \in BOOLEAN /\ gcChild[c] /\ UNCHANGED <<gcBusy, gcChild>>
  BY Zenon DEF GcInv, GcTypeOK, GcWrite, GcAlone, GcRuns
<1>2. gcChild' = [gcChild EXCEPT ![c] = TRUE]
  BY <1>1, Zenon
<1>4. /\ gcCall[c].write \in [out : Seq(STRING), err : Seq(STRING)] /\ gcCall[c].out \in Seq(STRING)
      /\ gcCall[c].err \in Seq(STRING) /\ gcCall[c].write.out \in Seq(STRING) /\ gcCall[c].write.err \in Seq(STRING)
  BY <1>1, Zenon DEF GcRecs
<1>5. CASE /\ gcCall[c].write.out # <<>>
           /\ gcCall' = [gcCall EXCEPT ![c].write.out = Tail(@),
                                      ![c].out = GcKept(@, Head(gcCall[c].write.out)),
                                      ![c].cutOut = @ \/ Len(gcCall[c].out) = GcLimit]
  <2> DEFINE rec == [gcCall[c] EXCEPT !.write.out = Tail(@), !.out = GcKept(@, Head(gcCall[c].write.out)),
                                      !.cutOut = @ \/ Len(gcCall[c].out) = GcLimit]
  <2>1. gcCall' = [gcCall EXCEPT ![c] = rec]
    BY <1>1, <1>5, Zenon
  <2>2. /\ Tail(gcCall[c].write.out) \in Seq(STRING)
        /\ GcKept(gcCall[c].out, Head(gcCall[c].write.out)) \in Seq(STRING)
    BY <1>4, <1>5, GcKeptType, Zenon
  <2>3. rec \in GcRecs /\ rec.at = "running" /\ rec.answer = gcCall[c].answer
    BY <1>1, <1>4, <2>2, Zenon DEF GcRecs
  <2> HIDE DEF rec
  <2>4. GcWhole(rec)
    BY <1>1, <2>3, Zenon DEF GcWhole
  <2> QED  BY <1>1, <1>2, <2>1, <2>3, <2>4, GcKeeps, Zenon DEF GcRuns
<1>6. CASE /\ gcCall[c].write.err # <<>>
           /\ gcCall' = [gcCall EXCEPT ![c].write.err = Tail(@),
                                      ![c].err = GcKept(@, Head(gcCall[c].write.err)),
                                      ![c].cutErr = @ \/ Len(gcCall[c].err) = GcLimit]
  <2> DEFINE rec == [gcCall[c] EXCEPT !.write.err = Tail(@), !.err = GcKept(@, Head(gcCall[c].write.err)),
                                      !.cutErr = @ \/ Len(gcCall[c].err) = GcLimit]
  <2>1. gcCall' = [gcCall EXCEPT ![c] = rec]
    BY <1>1, <1>6, Zenon
  <2>2. /\ Tail(gcCall[c].write.err) \in Seq(STRING)
        /\ GcKept(gcCall[c].err, Head(gcCall[c].write.err)) \in Seq(STRING)
    BY <1>4, <1>6, GcKeptType, Zenon
  <2>3. rec \in GcRecs /\ rec.at = "running" /\ rec.answer = gcCall[c].answer
    BY <1>1, <1>4, <2>2, Zenon DEF GcRecs
  <2> HIDE DEF rec
  <2>4. GcWhole(rec)
    BY <1>1, <2>3, Zenon DEF GcWhole
  <2> QED  BY <1>1, <1>2, <2>1, <2>3, <2>4, GcKeeps, Zenon DEF GcRuns
<1> QED  BY <1>5, <1>6, Zenon DEF GcWrite

LEMMA GcExits ==
    ASSUME GcInv, NEW c \in GcCallers, GcExit(c)
    PROVE  GcInv'
<1>1. /\ gcCall[c] \in GcRecs /\ gcCall \in [GcCallers -> GcRecs] /\ gcChild \in [GcCallers -> BOOLEAN]
      /\ GcWhole(gcCall[c]) /\ gcCall[c].at = "running" /\ gcBusy /\ gcBusy \in BOOLEAN /\ UNCHANGED gcBusy
      /\ gcChild' = [gcChild EXCEPT ![c] = FALSE]
  BY Zenon DEF GcInv, GcTypeOK, GcExit, GcAlone, GcRuns
<1>2. CASE /\ gcCall[c].write.out = <<>> /\ gcCall[c].write.err = <<>>
           /\ gcCall' = [gcCall EXCEPT ![c].at = "ended"]
  <2> DEFINE rec == [gcCall[c] EXCEPT !.at = "ended"]
  <2>1. gcCall' = [gcCall EXCEPT ![c] = rec]
    BY <1>1, <1>2, Zenon
  <2>2. rec \in GcRecs /\ rec.at = "ended" /\ rec.answer = gcCall[c].answer /\ rec.write = gcCall[c].write
    BY <1>1, Zenon DEF GcRecs
  <2>3. gcCall[c].write = [out |-> <<>>, err |-> <<>>]
    <3>1. gcCall[c].write \in [out : Seq(STRING), err : Seq(STRING)]
      BY <1>1, Zenon DEF GcRecs
    <3> QED  BY <1>2, <3>1, Zenon
  <2> HIDE DEF rec
  <2>4. GcWhole(rec)
    BY <1>1, <2>2, <2>3, Zenon DEF GcWhole
  <2> QED  BY <1>1, <2>1, <2>2, <2>4, GcKeeps, Zenon DEF GcRuns
<1>3. CASE gcCall' = [gcCall EXCEPT ![c].at = "ended", ![c].over = TRUE]
  <2> DEFINE rec == [gcCall[c] EXCEPT !.at = "ended", !.over = TRUE]
  <2>1. gcCall' = [gcCall EXCEPT ![c] = rec]
    BY <1>1, <1>3, Zenon
  <2>2. rec \in GcRecs /\ rec.at = "ended" /\ rec.answer = gcCall[c].answer /\ rec.over
    BY <1>1, Zenon DEF GcRecs
  <2> HIDE DEF rec
  <2>3. GcWhole(rec)
    BY <1>1, <2>2, Zenon DEF GcWhole
  <2> QED  BY <1>1, <2>1, <2>2, <2>3, GcKeeps, Zenon DEF GcRuns
<1> QED  BY <1>2, <1>3, Zenon DEF GcExit

LEMMA GcIdles == GcIdle \in GcRecs /\ GcIdle.at = "idle" /\ GcWhole(GcIdle)
BY DEF GcIdle, GcRecs, GcWhole

LEMMA GcInvNext == GcInv /\ [GcNext]_gcVars => GcInv'
<1> SUFFICES ASSUME GcInv, [GcNext]_gcVars PROVE GcInv'
  OBVIOUS
<1>1. CASE UNCHANGED gcVars
  BY <1>1, Zenon DEF gcVars, GcInv, GcTypeOK, GcAlone, GcRuns
<1>2. ASSUME NEW c \in GcCallers,
             \/ GcInvalid(c) \/ GcRefused(c) \/ GcRun(c) \/ GcWrite(c) \/ GcExit(c) \/ GcReturn(c) \/ GcAgain(c)
      PROVE  GcInv'
  <2>1. gcBusy \in BOOLEAN /\ (gcCall[c].at # "running" => ~gcChild[c]) /\ gcChild \in [GcCallers -> BOOLEAN]
    BY Zenon DEF GcInv, GcTypeOK, GcAlone
  <2>2. CASE GcInvalid(c) \/ GcRefused(c)
    BY <2>1, <2>2, GcAnswers, Zenon DEF GcInvalid, GcRefused
  <2>3. CASE GcReturn(c)
    <3> DEFINE answer == IF gcCall[c].at = "ended" /\ GcJudge(gcCall[c]) THEN "report" ELSE "failed"
    <3>1. answer \in {"failed", "report"} /\ (answer = "report" => gcCall[c].at = "ended" /\ GcJudge(gcCall[c]))
      BY Zenon
    <3>2. GcAnswer(c, answer) /\ gcBusy' = FALSE /\ UNCHANGED gcChild /\ gcCall[c].at = "ended"
      BY <2>3, Zenon DEF GcReturn, GcReturnable
    <3> HIDE DEF answer
    <3> QED  BY <2>1, <3>1, <3>2, GcAnswers, Zenon DEF GcRuns
  <2>4. CASE GcAgain(c)
    <3>1. gcChild' = [gcChild EXCEPT ![c] = FALSE]
      BY <2>1, <2>4, Zenon DEF GcAgain
    <3> QED  BY <2>1, <2>4, <3>1, GcIdles, GcKeeps, Zenon DEF GcAgain
  <2> QED  BY <1>2, <2>2, <2>3, <2>4, GcRunning, GcWriting, GcExits, Zenon
<1> QED  BY <1>1, <1>2, Zenon DEF GcNext

\* However many requests ask for a check, and whatever the helper writes: one
\* helper at a time, and a report is forwarded only when it is whole.
THEOREM GeocheckIsExclusive == GcSpec => []GcPromise
<1>1. GcInit => GcInv
  BY GcIdles, Zenon DEF GcInit, GcInv, GcTypeOK, GcAlone, GcRuns
<1>2. GcInv => GcPromise
  BY Zenon DEF GcInv, GcAlone, GcRuns, GcWhole, GcPromise, GcOneHelper, GcReportIsWhole
<1> QED  BY <1>1, <1>2, GcInvNext, PTL DEF GcSpec

-----------------------------------------------------------------------------

(* Request bodies *)

LEMMA MinOfTwo ==
    ASSUME NEW a \in Nat, NEW b \in Nat
    PROVE  Min({a, b}) \in Nat /\ Min({a, b}) <= a /\ Min({a, b}) <= b
<1>1. \E x \in {a, b} : \A y \in {a, b} : x <= y
  OBVIOUS
<1>2. Min({a, b}) \in {a, b} /\ \A y \in {a, b} : Min({a, b}) <= y
  BY <1>1, Zenon DEF Min
<1> QED  BY <1>2, Zenon

LEMMA MinOfThree ==
    ASSUME NEW a \in Nat, NEW b \in Nat, NEW c \in Nat
    PROVE  Min({a, b, c}) \in Nat /\ Min({a, b, c}) <= b /\ Min({a, b, c}) <= c
<1>1. \E x \in {a, b, c} : \A y \in {a, b, c} : x <= y
  OBVIOUS
<1>2. Min({a, b, c}) \in {a, b, c} /\ \A y \in {a, b, c} : Min({a, b, c}) <= y
  BY <1>1, Zenon DEF Min
<1> QED  BY <1>2, Zenon

\* A part of the body that needs more of the wire than is allowed for all of it.
LEMMA BbShare ==
    ASSUME NEW a \in Nat, NEW b \in Nat, NEW c \in Nat, NEW d \in Nat, a <= b, a * c > d * b
    PROVE  c > d
<1> SUFFICES ASSUME c <= d PROVE FALSE
  OBVIOUS
<1>1. a * c <= b * c
  OBVIOUS
<1>2. b * c <= b * d
  OBVIOUS
<1>3. b * d = d * b /\ a * c \in Nat /\ b * c \in Nat /\ b * d \in Nat
  OBVIOUS
<1> QED  BY <1>1, <1>2, <1>3

LEMMA BbBodyType ==
    ASSUME NEW body \in BbBodies
    PROVE  /\ body.size \in Nat /\ body.wire \in Nat /\ body.window \in Nat
           /\ body.encoding \in BbCodings \cup {"identity", "other"}
<1>1. body \in [encoding : BbCodings \cup {"identity", "other"}, size : BbSizes, wire : BbSizes, window : BbSizes, sound : BOOLEAN]
  BY Zenon DEF BbBodies
<1>2. /\ body.size \in BbSizes /\ body.wire \in BbSizes /\ body.window \in BbSizes
      /\ body.encoding \in BbCodings \cup {"identity", "other"}
  BY <1>1, Zenon
<1> QED  BY <1>2, BbAssumption, Zenon

LEMMA BbLimits ==
    ASSUME NEW limit \in Nat
    PROVE  BbWireLimit(limit) \in Nat /\ BbWindowLimit(limit) \in Nat
BY BbAssumption, MinOfTwo, Zenon DEF BbWireLimit, BbWindowLimit

LEMMA BbStarts == BbInit => BbInv
<1> SUFFICES ASSUME BbInit PROVE BbInv
  OBVIOUS
<1>1. PICK low \in BOOLEAN, configured \in 0 .. BbMaxConfigured + 1 : bbBudget = BbBudgetOf(low, configured)
  BY Zenon DEF BbInit
<1>2. configured \in Nat /\ bbBudget \in Nat
  BY <1>1, BbAssumption DEF BbBudgetOf
<1>3. bbLimit = 0 /\ bbGot = 0 /\ bbStage = "new" /\ bbAnswer = "none" /\ bbBody \in BbBodies
  BY Zenon DEF BbInit
<1>4. BbTypeOK /\ BbWithin
  <2>1. 0 \in Nat /\ 0 <= bbBudget /\ 0 <= 0
    BY <1>2
  <2> QED  BY <1>2, <1>3, <2>1, Zenon DEF BbTypeOK, BbWithin
<1> QED  BY <1>3, <1>4, Zenon DEF BbInv, BbFitsExactly

LEMMA BbOpenNext ==
    ASSUME BbInv, NEW route \in BbRouteLimits, BbOpen(route)
    PROVE  BbInv'
<1>1. /\ BbTypeOK /\ bbStage = "new" /\ bbGot = 0 /\ bbAnswer = "none" /\ bbLimit' = BbRequestLimit(route, bbBudget)
      /\ UNCHANGED <<bbBudget, bbBody>>
  BY Zenon DEF BbOpen, BbInv, BbWithin
<1>2. /\ bbBody.size \in Nat /\ bbBody.wire \in Nat /\ bbBody.window \in Nat /\ bbBudget \in Nat
  BY <1>1, BbBodyType, Zenon DEF BbTypeOK
<1>3. bbLimit' \in Nat /\ bbLimit' <= bbBudget
  <2>1. (IF route = 0 THEN 1 ELSE route) \in Nat
    BY BbAssumption, Zenon
  <2> QED  BY <1>1, <1>2, <2>1, MinOfTwo, Zenon DEF BbRequestLimit
<1>4. BbWindowLimit(bbLimit') \in Nat
  BY <1>3, BbLimits, Zenon
<1>5. CASE bbBody.encoding = "zstd" /\ bbBody.window > BbWindowLimit(bbLimit') /\ BbAnswers("413")
  <2>1. ~(bbBody.window <= BbWindowLimit(bbLimit')) /\ 0 <= bbLimit' /\ 0 \in Nat
    BY <1>2, <1>3, <1>4, <1>5
  <2>2. bbStage' = "done" /\ bbAnswer' = "413" /\ bbGot' = 0
    BY <1>1, <1>5, Zenon DEF BbAnswers
  <2>3. BbTypeOK' /\ BbWithin'
    BY <1>1, <1>3, <2>1, <2>2, Zenon DEF BbTypeOK, BbWithin
  <2>4. BbFitsExactly'
    BY <1>1, <1>5, <2>1, <2>2, Zenon DEF BbFitsExactly
  <2> QED  BY <2>3, <2>4, Zenon DEF BbInv
<1>6. CASE BbAnswers("415") \/ BbAnswers("400")
  <2>1. 0 <= bbLimit' /\ 0 \in Nat
    BY <1>3
  <2>2. bbStage' = "done" /\ bbAnswer' \in {"400", "415"} /\ bbGot' = 0
    BY <1>1, <1>6, Zenon DEF BbAnswers
  <2> QED  BY <1>1, <1>3, <2>1, <2>2, Zenon DEF BbInv, BbTypeOK, BbWithin, BbFitsExactly
<1>7. CASE /\ bbBody.encoding # "other" /\ ~(bbBody.encoding = "zstd" /\ bbBody.window > BbWindowLimit(bbLimit'))
           /\ bbStage' = "read" /\ UNCHANGED <<bbGot, bbAnswer>>
  <2>1. /\ 0 <= bbLimit' /\ 0 <= bbBody.size /\ 0 \in Nat
        /\ bbBody.encoding = "zstd" => bbBody.window <= BbWindowLimit(bbLimit')
    BY <1>2, <1>3, <1>4, <1>7
  <2> QED  BY <1>1, <1>3, <1>7, <2>1, Zenon DEF BbInv, BbTypeOK, BbWithin, BbFitsExactly
<1> QED  BY <1>5, <1>6, <1>7, Zenon DEF BbOpen

\* An answer while the body is being read.
LEMMA BbJudges ==
    ASSUME BbInv, bbStage = "read", NEW answer \in {"whole", "413"}, BbAnswers(answer),
           UNCHANGED <<bbBudget, bbBody, bbLimit>>,
           answer = "whole" =>
               /\ bbGot = bbBody.size /\ bbBody.size <= bbLimit
               /\ bbBody.encoding \in BbCodings => bbBody.wire <= BbWireLimit(bbLimit),
           answer = "413" =>
               ~(/\ bbBody.size <= bbLimit
                 /\ bbBody.encoding \in BbCodings => bbBody.wire <= BbWireLimit(bbLimit))
    PROVE  BbInv'
<1>1. bbStage' = "done" /\ bbAnswer' = answer /\ UNCHANGED <<bbGot, bbBudget, bbBody, bbLimit>>
  BY Zenon DEF BbAnswers
<1>2. BbTypeOK' /\ BbWithin'
  BY <1>1, Zenon DEF BbInv, BbTypeOK, BbWithin
<1>3. bbBody.encoding = "zstd" => bbBody.window <= BbWindowLimit(bbLimit)
  BY Zenon DEF BbInv, BbWithin
<1>4. BbFitsExactly'
  BY <1>1, <1>3, Zenon DEF BbFitsExactly
<1> QED  BY <1>2, <1>4, Zenon DEF BbInv

LEMMA BbReadNext ==
    ASSUME BbInv, NEW asked \in 1 .. 2, BbRead(asked)
    PROVE  BbInv'
<1> DEFINE n == Min({asked, bbLimit - bbGot, bbBody.size - bbGot})
<1>1. /\ BbTypeOK /\ BbWithin /\ bbStage = "read" /\ UNCHANGED <<bbBudget, bbBody, bbLimit>>
  BY Zenon DEF BbRead, BbInv
<1>2. /\ bbBody.size \in Nat /\ bbBody.wire \in Nat /\ bbLimit \in Nat /\ bbGot \in Nat /\ bbGot <= bbLimit
      /\ bbGot <= bbBody.size /\ BbWireLimit(bbLimit) \in Nat /\ asked \in Nat
  <2>1. asked \in Nat
    OBVIOUS
  <2> QED  BY <1>1, <2>1, BbBodyType, BbLimits, Zenon DEF BbTypeOK, BbWithin
<1>3. bbBody.encoding # "identity" => bbBody.encoding \in BbCodings
  BY <1>1, BbBodyType, Zenon DEF BbTypeOK, BbWithin
<1>4. CASE BbTooMuch /\ BbAnswers("413")
  <2>1. ~(bbBody.size <= bbLimit)
    BY <1>2, <1>4 DEF BbTooMuch
  <2> QED  BY <1>1, <1>4, <2>1, BbJudges, Zenon
<1>5. CASE bbGot = bbBody.size /\ BbWireFails(bbGot) /\ BbAnswers("413")
  <2>1. bbBody.encoding \in BbCodings /\ bbBody.wire > BbWireLimit(bbLimit)
    BY <1>3, <1>5, Zenon DEF BbWireFails
  <2>2. ~(bbBody.wire <= BbWireLimit(bbLimit))
    BY <1>2, <2>1
  <2> QED  BY <1>1, <1>5, <2>1, <2>2, BbJudges, Zenon
<1>6. CASE bbGot = bbBody.size /\ ~BbWireFails(bbGot) /\ BbAnswers("whole")
  <2>1. "identity" \notin BbCodings
    BY Zenon DEF BbCodings
  <2>2. bbBody.encoding \in BbCodings => ~(bbBody.wire > BbWireLimit(bbLimit))
    BY <1>6, <2>1, Zenon DEF BbWireFails
  <2>3. bbBody.encoding \in BbCodings => bbBody.wire <= BbWireLimit(bbLimit)
    BY <1>2, <2>2
  <2> QED  BY <1>1, <1>2, <1>6, <2>3, BbJudges, Zenon
<1>7. /\ n \in Nat /\ bbGot + n <= bbLimit /\ bbGot + n <= bbBody.size /\ bbGot + n \in Nat
  <2>1. bbLimit - bbGot \in Nat /\ bbBody.size - bbGot \in Nat
    BY <1>2
  <2>2. n \in Nat /\ n <= bbLimit - bbGot /\ n <= bbBody.size - bbGot
    BY <1>2, <2>1, MinOfThree, Zenon
  <2> HIDE DEF n
  <2> QED  BY <1>2, <2>2
<1> HIDE DEF n
<1>8. CASE bbGot # bbBody.size /\ BbWireFails(bbGot + n) /\ BbAnswers("413")
  <2>1. bbBody.encoding \in BbCodings
    BY <1>3, <1>8, Zenon DEF BbWireFails
  <2>2. bbBody.wire > BbWireLimit(bbLimit)
    <3>1. CASE bbGot + n = bbBody.size
      BY <1>8, <3>1, Zenon DEF BbWireFails
    <3>2. CASE bbGot + n # bbBody.size
      <4>1. (bbGot + n) * bbBody.wire > BbWireLimit(bbLimit) * bbBody.size
        BY <1>8, <3>2, Zenon DEF BbWireFails
      <4> QED  BY <1>2, <1>7, <4>1, BbShare, Zenon
    <3> QED  BY <3>1, <3>2, Zenon
  <2>3. ~(bbBody.wire <= BbWireLimit(bbLimit))
    BY <1>2, <2>2
  <2> QED  BY <1>1, <1>8, <2>1, <2>3, BbJudges, Zenon
<1>9. CASE bbGot' = bbGot + n /\ UNCHANGED <<bbStage, bbAnswer>>
  BY <1>1, <1>7, <1>9, Zenon DEF BbInv, BbTypeOK, BbWithin, BbFitsExactly
<1> QED  BY <1>4, <1>5, <1>6, <1>8, <1>9, Zenon DEF BbRead, n

LEMMA BbInvNext == BbInv /\ [BbNext]_bbVars => BbInv'
<1> SUFFICES ASSUME BbInv, [BbNext]_bbVars PROVE BbInv'
  OBVIOUS
<1>1. CASE UNCHANGED bbVars
  BY <1>1, Zenon DEF bbVars, BbInv, BbTypeOK, BbWithin, BbFitsExactly
<1> QED  BY <1>1, BbOpenNext, BbReadNext, Zenon DEF BbNext

\* Whatever the limits, the encoding and the sizes of the reads: no handler gets
\* a byte beyond the budget, and a body is refused as too large exactly when it,
\* its compressed form or its window is.
THEOREM BudgetIsExact == BbSpec => []BbPromise
<1>1. BbInv => BbPromise
  <2>1. BbInv => BbNeverOver
    BY DEF BbInv, BbTypeOK, BbWithin, BbNeverOver
  <2> QED  BY <2>1, Zenon DEF BbInv, BbPromise
<1> QED  BY BbStarts, BbInvNext, <1>1, PTL DEF BbSpec

=============================================================================

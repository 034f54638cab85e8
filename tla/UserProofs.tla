----------------------------- MODULE UserProofs -----------------------------
(***************************************************************************)
(* What the handlers of a node's users promise, for every number of users, *)
(* inbounds, addresses and requests: the list of online addresses, the     *)
(* dropping of connections and the user mutations.                         *)
(***************************************************************************)
EXTENDS OnlineUsers, ConnectionDrop, UserMutations, FiniteSetTheorems, TLAPS

(* Online users *)

\* An element of a sequence, and a sequence cut off at the end.
LEMMA ElementType ==
    ASSUME NEW S, NEW seq \in Seq(S), NEW k \in DOMAIN seq
    PROVE  seq[k] \in S
OBVIOUS

LEMMA SubSeqType ==
    ASSUME NEW S, NEW seq \in Seq(S), NEW n \in 0 .. Len(seq)
    PROVE  /\ SubSeq(seq, 1, n) \in Seq(S) /\ Len(SubSeq(seq, 1, n)) = n
           /\ Len(seq) \in Nat /\ n \in Nat /\ n <= Len(seq)
OBVIOUS

LEMMA OuFreshType == OuFresh \in OuLooks /\ OuFresh.users = <<>> /\ OuFresh.found = {} /\ OuPassed(OuFresh)
<1>1. Len(OuUsers) \in Nat
  BY OuAssumption
<1>2. <<>> \in Seq(STRING) /\ Len(<<>>) = 0
  OBVIOUS
<1>3. /\ OuFresh.users = <<>> /\ OuFresh.found = {} /\ OuFresh.next = 1 /\ ~OuFresh.cancel
      /\ \A w \in OuWorkers : OuFresh.at[w] = 0
  BY Zenon DEF OuFresh
<1>4. [w \in OuWorkers |-> 0] \in [OuWorkers -> 0 .. Len(OuUsers) + 1]
  BY <1>1
<1>5. 1 \in Nat /\ {} \in SUBSET STRING
  OBVIOUS
<1>6. OuFresh \in OuLooks
  BY <1>2, <1>4, <1>5, Zenon DEF OuFresh, OuLooks
<1>7. OuPassed(OuFresh)
  <2>1. 0 <= Len(OuUsers) /\ 1 \in 1 .. Len(OuUsers) + 1 /\ 0 \notin 1 .. Len(OuUsers) /\ 0 # OuGone /\ 1 .. 0 = {}
    BY <1>1 DEF OuGone
  <2> QED  BY <1>2, <1>3, <2>1, Zenon DEF OuPassed
<1> QED  BY <1>3, <1>6, <1>7, Zenon

LEMMA OuStarts == OuInit => OuInv
<1> SUFFICES ASSUME OuInit PROVE OuInv
  OBVIOUS
<1>1. PICK native \in BOOLEAN : ouCore = [epoch |-> 1, up |-> TRUE, native |-> native]
  BY Zenon DEF OuInit
<1>2. ouCore.epoch = 1 /\ ouCap[1] = "unknown" /\ ouList.epoch = 0 /\ ouList.pc = "idle" /\ ouLook = OuFresh
  BY <1>1, OuAssumption DEF OuInit
<1>3. OuTypeOK
  <2>1. 1 \in 1 .. MaxCores /\ 0 \in 0 .. MaxCores
    BY OuAssumption
  <2>2. ouLook \in OuLooks
    BY <1>2, OuFreshType, Zenon
  <2> QED  BY <1>1, <2>1, <2>2, Zenon DEF OuInit, OuTypeOK
<1>4. OuKnown
  <2>1. \A e \in 1 .. MaxCores : ouCap[e] = "unknown"
    BY Zenon DEF OuInit
  <2>2. 0 <= 1
    OBVIOUS
  <2> QED  BY <1>2, <2>1, <2>2, Zenon DEF OuKnown, OuCapabilityIsItsOwn
<1> QED  BY <1>2, <1>3, <1>4, Zenon DEF OuInv, OuListComplete

LEMMA OuReplaceNext ==
    ASSUME OuInv, OuReplace
    PROVE  OuInv'
<1>1. /\ OuTypeOK /\ OuKnown /\ ouCore.epoch < MaxCores /\ UNCHANGED <<ouCap, ouList, ouLook>>
  BY Zenon DEF OuReplace, OuInv
<1>2. PICK native \in BOOLEAN : ouCore' = [epoch |-> ouCore.epoch + 1, up |-> TRUE, native |-> native]
  BY Zenon DEF OuReplace
<1>3. /\ ouCore.epoch \in 1 .. MaxCores /\ MaxCores \in Nat /\ ouList.epoch \in 0 .. MaxCores
      /\ ouList.epoch <= ouCore.epoch
  BY <1>1, OuAssumption, Zenon DEF OuTypeOK, OuKnown
<1>4. ouCore'.epoch = ouCore.epoch + 1
  BY <1>2, Zenon
<1>5. /\ ouCore.epoch + 1 \in 1 .. MaxCores /\ ouCore.epoch + 1 > ouCore.epoch /\ ouList.epoch <= ouCore.epoch + 1
      /\ ouList.epoch # ouCore.epoch + 1 /\ \A e \in 1 .. MaxCores : e > ouCore.epoch + 1 => e > ouCore.epoch
  BY <1>1, <1>3
<1>6. OuTypeOK'
  BY <1>1, <1>2, <1>5, Zenon DEF OuTypeOK
<1>7. OuKnown'
  BY <1>1, <1>4, <1>5, Zenon DEF OuKnown, OuCapabilityIsItsOwn
<1> QED  BY <1>1, <1>6, <1>7, Zenon DEF OuInv, OuListComplete

LEMMA OuCrashNext ==
    ASSUME OuInv, OuCrash
    PROVE  OuInv'
<1>1. OuTypeOK /\ OuKnown /\ UNCHANGED <<ouCap, ouList, ouLook>> /\ ouCore' = [ouCore EXCEPT !.up = FALSE]
  BY Zenon DEF OuCrash, OuInv
<1>2. ouCore'.epoch = ouCore.epoch /\ ouCore'.native = ouCore.native
      /\ ouCore' \in [epoch : 1 .. MaxCores, up : BOOLEAN, native : BOOLEAN]
  BY <1>1, Zenon DEF OuTypeOK
<1>3. OuTypeOK'
  BY <1>1, <1>2, Zenon DEF OuTypeOK
<1>4. OuKnown'
  BY <1>1, <1>2, Zenon DEF OuKnown, OuCapabilityIsItsOwn
<1> QED  BY <1>1, <1>3, <1>4, Zenon DEF OuInv, OuListComplete

\* A step of the request that leaves rw-core and its capabilities alone.
LEMMA OuMoves ==
    ASSUME OuInv, UNCHANGED <<ouCore, ouCap>>, ouLook' \in OuLooks,
           NEW pc \in {"idle", "native", "full", "unimplemented", "users", "lookup", "ok", "failed"},
           NEW epoch \in 0 .. MaxCores, ouList' = [pc |-> pc, epoch |-> epoch], epoch <= ouCore.epoch,
           epoch = ouCore.epoch => (pc = "full" => ouCore.native) /\ (pc = "unimplemented" => ~ouCore.native),
           pc \in {"idle", "native", "full", "unimplemented", "users"} => ouLook' = OuFresh,
           pc = "lookup" => OuPassed(ouLook'), pc = "ok" => OuListComplete'
    PROVE  OuInv'
<1>1. ouList'.pc = pc /\ ouList'.epoch = epoch
  OBVIOUS
<1>2. ouList' \in [pc : {"idle", "native", "full", "unimplemented", "users", "lookup", "ok", "failed"}, epoch : 0 .. MaxCores]
  BY Zenon
<1>3. OuTypeOK'
  BY <1>2, Zenon DEF OuInv, OuTypeOK
<1>4. OuKnown'
  BY <1>1, Zenon DEF OuInv, OuKnown, OuCapabilityIsItsOwn
<1>5. OuListComplete'
  BY <1>1, Zenon DEF OuListComplete
<1> QED  BY <1>1, <1>3, <1>4, <1>5, Zenon DEF OuInv

\* The request's place changes, its process does not.
LEMMA OuGoto ==
    ASSUME OuTypeOK, NEW pc, ouList' = [ouList EXCEPT !.pc = pc]
    PROVE  ouList' = [pc |-> pc, epoch |-> ouList.epoch] /\ ouList.epoch \in 0 .. MaxCores
BY Zenon DEF OuTypeOK

LEMMA OuListNext ==
    ASSUME OuInv, OuListStart \/ OuNative \/ OuListEnd
    PROVE  OuInv'
<1>1. /\ OuTypeOK /\ OuKnown /\ ouLook \in OuLooks /\ ouList.epoch \in 0 .. MaxCores
      /\ ouList.epoch <= ouCore.epoch
  BY Zenon DEF OuInv, OuTypeOK, OuKnown
<1>2. /\ ouCore.epoch \in 0 .. MaxCores /\ ouCore.epoch <= ouCore.epoch
      /\ 0 \in 0 .. MaxCores /\ 0 <= ouCore.epoch
  BY <1>1, OuAssumption DEF OuTypeOK
<1>3. CASE OuListStart
  <2> DEFINE pc == IF ouCap[ouCore.epoch] = "legacy" THEN "users" ELSE "native"
  <2>1. pc \in {"users", "native"}
    BY Zenon
  <2>2. ouList' = [pc |-> pc, epoch |-> ouCore.epoch] /\ ouLook' = OuFresh /\ UNCHANGED <<ouCore, ouCap>>
    BY <1>3, Zenon DEF OuListStart, OuInv
  <2> HIDE DEF pc
  <2> QED  BY <1>2, <2>1, <2>2, OuFreshType, OuMoves, Zenon
<1>4. CASE OuNative
  <2>1. /\ ouList.pc = "native" /\ UNCHANGED <<ouCore, ouCap, ouLook>> /\ ouLook = OuFresh
        /\ \/ OuReachable /\ ouCore.native /\ ouList' = [ouList EXCEPT !.pc = "full"]
           \/ OuReachable /\ ~ouCore.native /\ ouList' = [ouList EXCEPT !.pc = "unimplemented"]
           \/ ouList' = [ouList EXCEPT !.pc = "failed"]
    BY <1>4, Zenon DEF OuNative, OuInv
  <2>2. \/ ouCore.native /\ ouList' = [pc |-> "full", epoch |-> ouList.epoch]
        \/ ~ouCore.native /\ ouList' = [pc |-> "unimplemented", epoch |-> ouList.epoch]
        \/ ouList' = [pc |-> "failed", epoch |-> ouList.epoch]
    BY <1>1, <2>1, OuGoto, Zenon
  <2>3. CASE ouCore.native /\ ouList' = [pc |-> "full", epoch |-> ouList.epoch]
    BY <1>1, <2>1, <2>3, OuMoves, Zenon
  <2>4. CASE ~ouCore.native /\ ouList' = [pc |-> "unimplemented", epoch |-> ouList.epoch]
    BY <1>1, <2>1, <2>4, OuMoves, Zenon
  <2>5. CASE ouList' = [pc |-> "failed", epoch |-> ouList.epoch]
    BY <1>1, <2>1, <2>5, OuMoves, Zenon
  <2> QED  BY <2>2, <2>3, <2>4, <2>5, Zenon
<1>5. CASE OuListEnd
  BY <1>2, <1>5, OuFreshType, OuMoves, Zenon DEF OuListEnd
<1> QED  BY <1>3, <1>4, <1>5, Zenon

LEMMA OuCacheNext ==
    ASSUME OuInv, OuCacheAnswer
    PROVE  OuInv'
<1> DEFINE answer == IF ouList.pc = "full" THEN "supported" ELSE "legacy"
           pc == IF ouList.pc = "full" THEN "ok" ELSE "users"
<1>1. /\ OuTypeOK /\ OuKnown /\ ouList.pc \in {"full", "unimplemented"} /\ UNCHANGED <<ouCore, ouLook>> /\ ouLook = OuFresh
      /\ ouCap' = [ouCap EXCEPT ![ouList.epoch] = answer] /\ ouList' = [ouList EXCEPT !.pc = IF @ = "full" THEN "ok" ELSE "users"]
  BY Zenon DEF OuCacheAnswer, OuCacheOf, OuInv
<1>2. /\ ouList'.pc = pc /\ ouList'.epoch = ouList.epoch /\ pc \in {"ok", "users"}
      /\ ouList' \in [pc : {"idle", "native", "full", "unimplemented", "users", "lookup", "ok", "failed"}, epoch : 0 .. MaxCores]
  BY <1>1, Zenon DEF OuTypeOK
<1>3. answer \in {"supported", "legacy"} /\ (answer = "supported" <=> ouList.pc = "full") /\ answer # "unknown"
  BY Zenon
<1> HIDE DEF answer, pc
<1>4. /\ ouCap \in [1 .. MaxCores -> {"unknown", "supported", "legacy"}] /\ ouCore.epoch \in 1 .. MaxCores
      /\ ouList.epoch \in 0 .. MaxCores /\ ouList.epoch <= ouCore.epoch /\ ouCore.native \in BOOLEAN
  BY <1>1, Zenon DEF OuTypeOK, OuKnown
<1>5. /\ ouCap' \in [1 .. MaxCores -> {"unknown", "supported", "legacy"}]
      /\ \A e \in 1 .. MaxCores : ouCap'[e] = IF e = ouList.epoch THEN answer ELSE ouCap[e]
  BY <1>1, <1>3, <1>4, Zenon
<1>6. OuTypeOK'
  BY <1>1, <1>2, <1>5, Zenon DEF OuTypeOK
<1>7. \A e \in 1 .. MaxCores : e > ouCore.epoch => ouCap'[e] = "unknown"
  <2>1. \A e \in 1 .. MaxCores : e > ouCore.epoch => e # ouList.epoch
    BY <1>4, OuAssumption
  <2> QED  BY <1>1, <1>5, <2>1, Zenon DEF OuKnown
<1>8. OuCapabilityIsItsOwn'
  <2>1. CASE ouList.epoch = ouCore.epoch
    <3>1. ouList.pc = "full" <=> ouCore.native
      BY <1>1, <2>1, Zenon DEF OuKnown
    <3>2. ouCap'[ouCore.epoch] = answer
      BY <1>4, <1>5, <2>1, Zenon
    <3> QED  BY <1>1, <1>3, <1>4, <3>1, <3>2, Zenon DEF OuCapabilityIsItsOwn
  <2>2. CASE ouList.epoch # ouCore.epoch
    <3>1. ouCap'[ouCore.epoch] = ouCap[ouCore.epoch]
      BY <1>4, <1>5, <2>2, Zenon
    <3> QED  BY <1>1, <3>1, Zenon DEF OuKnown, OuCapabilityIsItsOwn
  <2> QED  BY <2>1, <2>2, Zenon
<1>9. OuKnown'
  BY <1>1, <1>2, <1>4, <1>7, <1>8, Zenon DEF OuKnown
<1>10. OuListComplete'
  <2>1. DOMAIN <<>> = {}
    OBVIOUS
  <2>2. ouLook'.found = {} /\ ouLook'.users = <<>>
    BY <1>1, OuFreshType, Zenon
  <2>3. {ouLook'.users[i] : i \in DOMAIN ouLook'.users} = {}
    BY <2>1, <2>2, Zenon
  <2> QED  BY <2>2, <2>3, Zenon DEF OuListComplete
<1> QED  BY <1>1, <1>2, <1>6, <1>9, <1>10, Zenon DEF OuInv

LEMMA OuOnlineNext ==
    ASSUME OuInv, OuOnline
    PROVE  OuInv'
<1>1. /\ OuTypeOK /\ ouList.pc = "users" /\ UNCHANGED <<ouCore, ouCap>> /\ ouLook = OuFresh /\ ouList.epoch \in 0 .. MaxCores
      /\ ouList.epoch <= ouCore.epoch
  BY Zenon DEF OuOnline, OuInv, OuTypeOK, OuKnown
<1>2. CASE ouList' = [ouList EXCEPT !.pc = "failed"] /\ UNCHANGED ouLook
  <2>1. ouList' = [pc |-> "failed", epoch |-> ouList.epoch]
    BY <1>1, <1>2, OuGoto, Zenon
  <2> QED  BY <1>1, <1>2, <2>1, OuFreshType, OuMoves, Zenon
<1>3. ASSUME NEW n \in 0 .. Len(OuUsers),
             ouLook' = [OuFresh EXCEPT !.users = SubSeq(OuUsers, 1, n)],
             ouList' = [ouList EXCEPT !.pc = IF n = 0 THEN "ok" ELSE "lookup"]
      PROVE  OuInv'
  <2> DEFINE users == SubSeq(OuUsers, 1, n)
             look  == [OuFresh EXCEPT !.users = users]
  <2>1. users \in Seq(STRING) /\ Len(users) = n /\ Len(OuUsers) \in Nat /\ n \in Nat /\ n <= Len(OuUsers)
    <3>1. OuUsers \in Seq(STRING)
      BY OuAssumption, Zenon
    <3> QED  BY <3>1, SubSeqType, Zenon
  <2> HIDE DEF users
  <2>2. /\ look.users = users /\ look.next = 1 /\ look.found = {} /\ ~look.cancel /\ \A w \in OuWorkers : look.at[w] = 0
    BY Zenon DEF OuFresh
  <2>3. look \in OuLooks
    BY <2>1, OuFreshType, Zenon DEF OuLooks
  <2> HIDE DEF look
  <2>4. ouLook' = look
    BY <1>3, Zenon DEF look, users
  <2>5. OuPassed(look)
    <3>1. /\ Len(users) <= Len(OuUsers) /\ 1 \in 1 .. Len(OuUsers) + 1 /\ 0 \notin 1 .. Len(OuUsers) /\ 0 # OuGone
          /\ \A i \in 1 .. Len(users) : ~(i < 1)
      BY <2>1 DEF OuGone
    <3> QED  BY <2>2, <3>1, Zenon DEF OuPassed
  <2>6. CASE n = 0
    <3>1. ouList' = [pc |-> "ok", epoch |-> ouList.epoch]
      BY <1>1, <1>3, <2>6, OuGoto, Zenon
    <3>2. {look.users[i] : i \in DOMAIN look.users} = {}
      <4>1. DOMAIN users = {}
        BY <2>1, <2>6
      <4> QED  BY <2>2, <4>1, Zenon
    <3>3. OuListComplete'
      BY <2>2, <2>4, <3>2, Zenon DEF OuListComplete
    <3> QED  BY <1>1, <2>3, <2>4, <3>1, <3>3, OuMoves, Zenon
  <2>7. CASE n # 0
    <3>1. ouList' = [pc |-> "lookup", epoch |-> ouList.epoch]
      BY <1>1, <1>3, <2>7, OuGoto, Zenon
    <3> QED  BY <1>1, <2>3, <2>4, <2>5, <3>1, OuMoves, Zenon
  <2> QED  BY <2>6, <2>7, Zenon
<1> QED  BY <1>2, <1>3, Zenon DEF OuOnline

\* A step of a worker or of the clock, at the lookups.
LEMMA OuLooksOn ==
    ASSUME OuInv, ouList.pc = "lookup", UNCHANGED <<ouCore, ouCap, ouList>>, ouLook' \in OuLooks, OuPassed(ouLook')
    PROVE  OuInv'
<1>1. ouList = [pc |-> "lookup", epoch |-> ouList.epoch] /\ ouList.epoch \in 0 .. MaxCores /\ ouList.epoch <= ouCore.epoch
  BY Zenon DEF OuInv, OuTypeOK, OuKnown
<1> QED  BY <1>1, OuMoves, Zenon

LEMMA OuJoinNext ==
    ASSUME OuInv, OuJoin
    PROVE  OuInv'
<1> DEFINE pc == IF ouLook.expired \/ ouLook.err THEN "failed" ELSE "ok"
<1>1. /\ OuTypeOK /\ ouList.pc = "lookup" /\ UNCHANGED <<ouCore, ouCap, ouLook>> /\ ouLook \in OuLooks /\ OuPassed(ouLook)
      /\ \A w \in OuWorkers : ouLook.at[w] = OuGone
      /\ ouList' = [ouList EXCEPT !.pc = pc] /\ ouList.epoch <= ouCore.epoch
  BY Zenon DEF OuJoin, OuInv, OuTypeOK, OuKnown
<1>2. ouList' = [pc |-> pc, epoch |-> ouList.epoch] /\ ouList.epoch \in 0 .. MaxCores
  BY <1>1, OuGoto, Zenon
<1>3. pc \in {"ok", "failed"} /\ (pc = "ok" => ~ouLook.expired /\ ~ouLook.err)
  BY Zenon
<1> HIDE DEF pc
<1>4. ASSUME pc = "ok" PROVE OuListComplete'
  <2>1. /\ ouLook.users \in Seq(STRING) /\ ouLook.next \in Nat /\ Len(ouLook.users) \in Nat
        /\ DOMAIN ouLook.users = 1 .. Len(ouLook.users) /\ Len(OuUsers) \in Nat
    <3>1. ouLook.users \in Seq(STRING) /\ ouLook.next \in Nat
      BY <1>1, Zenon DEF OuLooks
    <3> QED  BY <3>1, OuAssumption
  <2>2. ouLook.next > Len(ouLook.users) /\ Len(ouLook.users) <= Len(OuUsers)
    BY <1>1, <1>3, <1>4, OuAssumption, Zenon DEF OuPassed
  <2>3. \A i \in 1 .. Len(ouLook.users) : ouLook.users[i] \in ouLook.found
    <3>1. \A i \in 1 .. Len(ouLook.users) : i < ouLook.next /\ OuGone # i
      BY <2>1, <2>2 DEF OuGone
    <3> QED  BY <1>1, <1>3, <1>4, <3>1, Zenon DEF OuPassed
  <2>4. \A u \in ouLook.found : \E i \in 1 .. Len(ouLook.users) : ouLook.users[i] = u
    BY <1>1, Zenon DEF OuPassed
  <2>5. ouLook.found = {ouLook.users[i] : i \in DOMAIN ouLook.users}
    BY <2>1, <2>3, <2>4, Zenon
  <2> QED  BY <1>1, <2>5, Zenon DEF OuListComplete
<1> QED  BY <1>1, <1>2, <1>3, <1>4, OuMoves, Zenon

LEMMA OuTakeNext ==
    ASSUME OuInv, NEW w \in OuWorkers, OuTake(w)
    PROVE  OuInv'
<1> DEFINE i == ouLook.next
           n == IF i < OuGone THEN i + 1 ELSE i
           p == IF OuPastEnd(i) \/ ouLook.cancel \/ ouLook.expired THEN OuGone ELSE i
<1>1. /\ OuTypeOK /\ OuPassed(ouLook) /\ ouLook \in OuLooks /\ ouList.pc = "lookup" /\ UNCHANGED <<ouCore, ouCap, ouList>>
      /\ ouLook.at[w] = 0 /\ ouLook' = [ouLook EXCEPT !.next = n, !.at[w] = p]
  BY Zenon DEF OuTake, OuInv, OuTypeOK
<1>2. /\ Len(OuUsers) \in Nat /\ Len(ouLook.users) \in Nat /\ Len(ouLook.users) <= Len(OuUsers)
      /\ i \in 1 .. Len(OuUsers) + 1 /\ OuGone = Len(OuUsers) + 1
  <2>1. ouLook.users \in Seq(STRING)
    BY <1>1, Zenon DEF OuLooks
  <2> QED  BY <1>1, <2>1, OuAssumption DEF OuPassed, OuGone
<1>3. /\ n \in 1 .. Len(OuUsers) + 1 /\ p \in 1 .. Len(OuUsers) + 1 /\ n \in Nat /\ n >= i
      /\ p \in 1 .. Len(OuUsers) => p <= Len(ouLook.users)
      /\ ~ouLook.cancel /\ ~ouLook.expired =>
            /\ \A j \in 1 .. Len(ouLook.users) : j < n => j < i \/ j = p
            /\ p = OuGone => n > Len(ouLook.users)
  BY <1>2 DEF OuPastEnd
<1> HIDE DEF n, p
<1>4. /\ ouLook'.next = n /\ ouLook'.users = ouLook.users /\ ouLook'.found = ouLook.found /\ ouLook'.err = ouLook.err
      /\ ouLook'.cancel = ouLook.cancel /\ ouLook'.expired = ouLook.expired
      /\ ouLook'.at = [ouLook.at EXCEPT ![w] = p]
  BY <1>1, Zenon DEF OuLooks
<1>5. /\ ouLook.at \in [OuWorkers -> 0 .. Len(OuUsers) + 1] /\ p \in 0 .. Len(OuUsers) + 1
  <2>1. ouLook.at \in [OuWorkers -> 0 .. Len(OuUsers) + 1]
    BY <1>1, Zenon DEF OuLooks
  <2> QED  BY <1>2, <1>3, <2>1
<1>6. /\ ouLook'.at \in [OuWorkers -> 0 .. Len(OuUsers) + 1] /\ ouLook'.at[w] = p
      /\ \A v \in OuWorkers : v # w => ouLook'.at[v] = ouLook.at[v]
  BY <1>4, <1>5, Zenon
<1>7. ouLook' \in OuLooks
  <2>1. ouLook' = [ouLook EXCEPT !.next = n, !.at = ouLook'.at]
    BY <1>1, <1>4, Zenon DEF OuLooks
  <2> QED  BY <1>1, <1>3, <1>6, <2>1, Zenon DEF OuLooks
<1>8. ASSUME ~ouLook.err, ~ouLook.expired
      PROVE  /\ \A j \in 1 .. Len(ouLook.users) :
                  j < n => ouLook.users[j] \in ouLook.found \/ \E v \in OuWorkers : ouLook'.at[v] = j
             /\ \A v \in OuWorkers : ouLook'.at[v] = OuGone => n > Len(ouLook.users)
  <2>1. ~ouLook.cancel
    BY <1>1, <1>8, Zenon DEF OuPassed
  <2>2. ASSUME NEW j \in 1 .. Len(ouLook.users), j < n
        PROVE  ouLook.users[j] \in ouLook.found \/ \E v \in OuWorkers : ouLook'.at[v] = j
    <3>1. CASE j = p
      BY <1>6, <3>1, Zenon
    <3>2. CASE j < i /\ ouLook.users[j] \notin ouLook.found
      <4>1. PICK v \in OuWorkers : ouLook.at[v] = j
        BY <1>1, <1>8, <3>2, Zenon DEF OuPassed
      <4>2. v # w
        <5>1. j # 0
          BY <1>2
        <5> QED  BY <1>1, <4>1, <5>1, Zenon
      <4> QED  BY <1>6, <4>1, <4>2, Zenon
    <3> QED  BY <1>3, <1>8, <2>1, <2>2, <3>1, <3>2, Zenon
  <2>3. ASSUME NEW v \in OuWorkers, ouLook'.at[v] = OuGone PROVE n > Len(ouLook.users)
    <3>1. CASE v = w
      BY <1>3, <1>6, <1>8, <2>1, <2>3, <3>1, Zenon
    <3>2. CASE v # w
      <4>1. i > Len(ouLook.users)
        BY <1>1, <1>6, <1>8, <2>3, <3>2, Zenon DEF OuPassed
      <4> QED  BY <1>2, <1>3, <4>1
    <3> QED  BY <3>1, <3>2, Zenon
  <2> QED  BY <2>2, <2>3, Zenon
<1>9. \A v \in OuWorkers : ouLook'.at[v] \in 1 .. Len(OuUsers) => ouLook'.at[v] <= Len(ouLook.users)
  <2> SUFFICES ASSUME NEW v \in OuWorkers, ouLook'.at[v] \in 1 .. Len(OuUsers)
               PROVE  ouLook'.at[v] <= Len(ouLook.users)
    BY Zenon
  <2>1. CASE v = w
    BY <1>3, <1>6, <2>1, Zenon
  <2>2. CASE v # w
    <3>1. ouLook'.at[v] = ouLook.at[v]
      BY <1>6, <2>2, Zenon
    <3> QED  BY <1>1, <3>1, Zenon DEF OuPassed
  <2> QED  BY <2>1, <2>2, Zenon
<1>10. OuPassed(ouLook')
  BY <1>1, <1>3, <1>4, <1>8, <1>9 DEF OuPassed
<1> QED  BY <1>1, <1>7, <1>10, OuLooksOn, Zenon

LEMMA OuExpireNext ==
    ASSUME OuInv, OuExpire
    PROVE  OuInv'
<1>1. /\ OuPassed(ouLook) /\ ouLook \in OuLooks /\ ouList.pc = "lookup" /\ UNCHANGED <<ouCore, ouCap, ouList>>
      /\ ouLook' = [ouLook EXCEPT !.expired = TRUE]
  BY Zenon DEF OuExpire, OuInv, OuTypeOK
<1>2. /\ ouLook'.next = ouLook.next /\ ouLook'.users = ouLook.users /\ ouLook'.found = ouLook.found /\ ouLook'.err = ouLook.err
      /\ ouLook'.cancel = ouLook.cancel /\ ouLook'.expired /\ ouLook'.at = ouLook.at
  BY <1>1, Zenon DEF OuLooks
<1>3. ouLook' \in OuLooks
  BY <1>1, Zenon DEF OuLooks
<1>4. OuPassed(ouLook')
  BY <1>1, <1>2, Zenon DEF OuPassed
<1> QED  BY <1>1, <1>3, <1>4, OuLooksOn, Zenon

\* Whatever else a worker's lookup does, a user is with a worker until it has
\* been looked up.
LEMMA OuLookupNext ==
    ASSUME OuInv, NEW w \in OuWorkers, OuLookup(w)
    PROVE  OuInv'
<1> DEFINE u == ouLook.users[ouLook.at[w]]
<1>1. /\ OuTypeOK /\ OuPassed(ouLook) /\ ouLook \in OuLooks /\ ouList.pc = "lookup" /\ UNCHANGED <<ouCore, ouCap, ouList>>
      /\ ouLook.at[w] \in 1 .. Len(OuUsers)
      /\ \/ ouLook' = [ouLook EXCEPT !.at[w] = 0, !.found = @ \cup {u}, !.online = @ \cup {u}]
         \/ ouLook' = [ouLook EXCEPT !.at[w] = 0, !.found = @ \cup {u}]
         \/ ouLook' = [OuFirstError(ouLook) EXCEPT !.at[w] = OuGone]
  BY Zenon DEF OuLookup, OuInv, OuTypeOK
<1>2. /\ Len(OuUsers) \in Nat /\ Len(ouLook.users) \in Nat /\ OuGone = Len(OuUsers) + 1
      /\ ouLook.users \in Seq(STRING)
  <2>1. ouLook.users \in Seq(STRING)
    BY <1>1, Zenon DEF OuLooks
  <2> QED  BY <2>1, OuAssumption DEF OuGone
<1>3. ouLook.at[w] \in 1 .. Len(ouLook.users)
  <2>1. ouLook.at[w] <= Len(ouLook.users)
    BY <1>1, Zenon DEF OuPassed
  <2> QED  BY <1>1, <1>2, <2>1
<1>4. u \in STRING
  BY <1>2, <1>3, ElementType
<1>5. /\ ouLook.at \in [OuWorkers -> 0 .. Len(OuUsers) + 1] /\ ouLook.found \in SUBSET STRING /\ ouLook.online \in SUBSET STRING
  BY <1>1, Zenon DEF OuLooks
<1>6. 0 \in 0 .. Len(OuUsers) + 1 /\ OuGone \in 0 .. Len(OuUsers) + 1 /\ 0 \notin 1 .. Len(OuUsers) /\ OuGone \notin 1 .. Len(OuUsers) /\ 0 # OuGone
  BY <1>2
<1> HIDE DEF u
<1>7. CASE \/ ouLook' = [ouLook EXCEPT !.at[w] = 0, !.found = @ \cup {u}, !.online = @ \cup {u}]
           \/ ouLook' = [ouLook EXCEPT !.at[w] = 0, !.found = @ \cup {u}]
  <2>1. /\ ouLook'.next = ouLook.next /\ ouLook'.users = ouLook.users /\ ouLook'.found = ouLook.found \cup {u}
        /\ ouLook'.err = ouLook.err /\ ouLook'.cancel = ouLook.cancel /\ ouLook'.expired = ouLook.expired
        /\ ouLook'.at = [ouLook.at EXCEPT ![w] = 0] /\ ouLook'.online \in {ouLook.online, ouLook.online \cup {u}}
    BY <1>1, <1>7, Zenon DEF OuLooks
  <2>2. /\ ouLook'.at \in [OuWorkers -> 0 .. Len(OuUsers) + 1] /\ ouLook'.at[w] = 0
        /\ \A v \in OuWorkers : v # w => ouLook'.at[v] = ouLook.at[v]
    BY <1>5, <1>6, <2>1, Zenon
  <2>3. ouLook' \in OuLooks
    <3>1. ouLook'.found \in SUBSET STRING /\ ouLook'.online \in SUBSET STRING
      BY <1>4, <1>5, <2>1, Zenon
    <3>2. ouLook' = [ouLook EXCEPT !.at = ouLook'.at, !.found = ouLook'.found, !.online = ouLook'.online]
      BY <1>1, <1>7, <2>1, Zenon DEF OuLooks
    <3> QED  BY <1>1, <2>2, <3>1, <3>2, Zenon DEF OuLooks
  <2>4. \A j \in 1 .. Len(ouLook.users) :
          ouLook.users[j] \in ouLook.found \/ (\E v \in OuWorkers : ouLook.at[v] = j) =>
              ouLook.users[j] \in ouLook'.found \/ \E v \in OuWorkers : ouLook'.at[v] = j
    BY <2>1, <2>2, Zenon DEF u
  <2>5. \A x \in ouLook'.found : \E j \in 1 .. Len(ouLook.users) : ouLook.users[j] = x
    BY <1>1, <1>3, <2>1, Zenon DEF OuPassed, u
  <2>6. /\ \A v \in OuWorkers : ouLook'.at[v] \in 1 .. Len(OuUsers) => ouLook'.at[v] = ouLook.at[v]
        /\ \A v \in OuWorkers : ouLook'.at[v] = OuGone => ouLook.at[v] = OuGone
    BY <1>6, <2>2, Zenon
  <2>7. OuPassed(ouLook')
    <3>1. ASSUME ~ouLook.err, ~ouLook.expired
          PROVE  /\ \A j \in 1 .. Len(ouLook.users) : j < ouLook.next =>
                        ouLook.users[j] \in ouLook'.found \/ \E v \in OuWorkers : ouLook'.at[v] = j
                 /\ \A v \in OuWorkers : ouLook'.at[v] = OuGone => ouLook.next > Len(ouLook.users)
      BY <1>1, <2>4, <2>6, <3>1, Zenon DEF OuPassed
    <3>2. \A v \in OuWorkers : ouLook'.at[v] \in 1 .. Len(OuUsers) => ouLook'.at[v] <= Len(ouLook.users)
      BY <1>1, <2>6, Zenon DEF OuPassed
    <3>3. Len(ouLook.users) <= Len(OuUsers) /\ ouLook.next \in 1 .. Len(OuUsers) + 1 /\ (ouLook.cancel => ouLook.err)
      BY <1>1, Zenon DEF OuPassed
    <3> QED  BY <2>1, <2>5, <3>1, <3>2, <3>3, Zenon DEF OuPassed
  <2> QED  BY <1>1, <2>3, <2>7, OuLooksOn, Zenon
<1>8. CASE ouLook' = [OuFirstError(ouLook) EXCEPT !.at[w] = OuGone]
  <2>1. /\ ouLook'.next = ouLook.next /\ ouLook'.users = ouLook.users /\ ouLook'.found = ouLook.found
        /\ ouLook'.expired = ouLook.expired /\ (ouLook'.expired \/ ouLook'.err)
        /\ (ouLook'.cancel => ouLook'.err \/ ouLook.cancel) /\ (ouLook.err => ouLook'.err)
        /\ ouLook'.at = [ouLook.at EXCEPT ![w] = OuGone]
    BY <1>1, <1>8, Zenon DEF OuLooks, OuFirstError
  <2>2. /\ ouLook'.at \in [OuWorkers -> 0 .. Len(OuUsers) + 1] /\ ouLook'.at[w] = OuGone
        /\ \A v \in OuWorkers : v # w => ouLook'.at[v] = ouLook.at[v]
    BY <1>5, <1>6, <2>1, Zenon
  <2>3. ouLook' \in OuLooks
    <3>1. OuFirstError(ouLook) \in OuLooks
      BY <1>1, Zenon DEF OuLooks, OuFirstError
    <3>2. ouLook' = [OuFirstError(ouLook) EXCEPT !.at = ouLook'.at]
      BY <1>8, <3>1, Zenon DEF OuLooks
    <3> QED  BY <2>2, <3>1, <3>2, Zenon DEF OuLooks
  <2>4. \A v \in OuWorkers : ouLook'.at[v] \in 1 .. Len(OuUsers) => ouLook'.at[v] = ouLook.at[v]
    BY <1>6, <2>2, Zenon
  <2>5. OuPassed(ouLook')
    BY <1>1, <2>1, <2>4 DEF OuPassed
  <2> QED  BY <1>1, <2>3, <2>5, OuLooksOn, Zenon
<1> QED  BY <1>1, <1>7, <1>8, Zenon

LEMMA OuInvNext == OuInv /\ [OuNext]_ouVars => OuInv'
<1> SUFFICES ASSUME OuInv, [OuNext]_ouVars PROVE OuInv'
  OBVIOUS
<1>1. CASE UNCHANGED ouVars
  BY <1>1 DEF ouVars, OuInv, OuTypeOK, OuKnown, OuListComplete, OuCapabilityIsItsOwn
<1> QED  BY <1>1, OuReplaceNext, OuCrashNext, OuListNext, OuCacheNext, OuOnlineNext, OuExpireNext, OuJoinNext,
            OuTakeNext, OuLookupNext, Zenon DEF OuNext

\* However many users and workers, and however often rw-core is replaced: an
\* address list that succeeds is complete, and what is remembered of a process
\* was said by it.
THEOREM OnlineListIsComplete == OuSpec => []OuPromise
<1>1. OuInv => OuPromise
  BY Zenon DEF OuInv, OuKnown, OuPromise
<1> QED  BY OuStarts, OuInvNext, <1>1, PTL DEF OuSpec

-----------------------------------------------------------------------------

(* Dropping connections *)

\* Unmapping keeps the address, and makes a usable spelling the plain one.
LEMMA CdUnmaps ==
    ASSUME NEW s \in CdSpellings
    PROVE  /\ CdUnmap(s).addr = s.addr
           /\ s.form \in {"plain", "mapped"} =>
                CdUnmap(s) = [addr |-> s.addr, form |-> "plain"] /\ [s EXCEPT !.form = "plain"] = CdUnmap(s)
           /\ CdUnmap(s) \in {s, [s EXCEPT !.form = "plain"]}
BY DEF CdSpellings, CdUnmap

\* A connection with an end that is a target matches.
LEMMA CdMatching ==
    ASSUME NEW k \in Socks
    PROVE  /\ CdMatches(k) <=> (k.local.addr \in cdCall.targets \/ k.peer.addr \in cdCall.targets)
           /\ k.fam \in {4, 6}
<1>1. k.local \in CdSpellings /\ k.peer \in CdSpellings /\ k.fam \in {4, 6}
  BY CdAssumption
<1>2. CdUnmap(k.local).addr = k.local.addr /\ CdUnmap(k.peer).addr = k.peer.addr
  BY <1>1, CdUnmaps, Zenon
<1> QED  BY <1>1, <1>2, Zenon DEF CdMatches

\* With nothing refused and no matching connection left, a request for which
\* every address counted is complete.
LEMMA CdCompletes ==
    ASSUME CdTypeOK, NEW raws \in SUBSET CdSpellings, CdRefused(raws) = {},
           \A k \in cdOpen \cap cdCall.start : \A a \in CdTargets(raws) : a \notin {k.local.addr, k.peer.addr}
    PROVE  \A s \in raws :
             \/ s \in Whitelisted \/ [s EXCEPT !.form = "plain"] \in Whitelisted
             \/ /\ s.form \in {"plain", "mapped"} /\ s.addr \notin Protected \cup cdLocal
                /\ \A k \in cdOpen \cap cdCall.start : s.addr \notin {k.local.addr, k.peer.addr}
<1> SUFFICES ASSUME NEW s \in raws
             PROVE  \/ s \in Whitelisted \/ [s EXCEPT !.form = "plain"] \in Whitelisted
                    \/ /\ s.form \in {"plain", "mapped"} /\ s.addr \notin Protected \cup cdLocal
                       /\ \A k \in cdOpen \cap cdCall.start : s.addr \notin {k.local.addr, k.peer.addr}
  BY Zenon
<1>1. CdValid(s) /\ (CdWhite(s) \/ ~CdIsProtected(s.addr))
  BY Zenon DEF CdRefused
<1>2. CASE CdWhite(s)
  BY <1>2, CdUnmaps, Zenon DEF CdWhite
<1>3. CASE ~CdWhite(s)
  <2>1. s.addr \in CdTargets(raws)
    BY <1>1, <1>3, Zenon DEF CdTargets
  <2> QED  BY <1>1, <1>3, <2>1, Zenon DEF CdValid, CdIsProtected
<1> QED  BY <1>2, <1>3, Zenon

\* A call that returns a failure keeps the invariant.
LEMMA CdReturns ==
    ASSUME CdInv, CdReturn(FALSE), UNCHANGED <<cdOpen, cdLocal>>
    PROVE  CdInv'
<1>1. cdCall \in CdCalls
  BY Zenon DEF CdInv, CdTypeOK
<1>2. /\ cdCall' \in CdCalls /\ cdCall'.pc = "done" /\ ~cdCall'.ok
      /\ cdCall'.raws = cdCall.raws /\ cdCall'.given = cdCall.given
  BY <1>1 DEF CdReturn, CdSet, CdCalls
<1> QED  BY <1>2, Zenon DEF CdInv, CdTypeOK, CdChosen, CdKilling, CdNoneMissed, CdSuccessIsComplete

\* The choice of the targets.
LEMMA CdChoosing ==
    ASSUME CdInv, CdDropUsers \/ CdDropIPs
    PROVE  CdInv'
<1>1. /\ cdCall \in CdCalls /\ cdOpen' = cdOpen /\ cdLocal' = cdLocal /\ cdOpen \subseteq Socks /\ cdLocal \in LocalSets
      /\ cdCall.fam = 6 /\ cdCall.raws \subseteq cdCall.given
  BY Zenon DEF CdDropUsers, CdDropIPs, CdInv, CdTypeOK, CdChosen
<1> cdCall.given \subseteq CdSpellings /\ cdCall.raws \subseteq CdSpellings
  BY <1>1 DEF CdCalls
<1>2. CASE CdDropUsers
  <2>1. PICK failed \in SUBSET cdCall.given :
          LET raws == cdCall.given \ failed IN
          cdCall' = [cdCall EXCEPT !.ok = failed = {}, !.raws = raws,
                                   !.pc = IF raws = {} THEN "done" ELSE "ips"]
    BY <1>2, Zenon DEF CdDropUsers, CdSet
  <2> DEFINE raws == cdCall.given \ failed
  <2>2. raws \subseteq CdSpellings /\ raws \subseteq cdCall.given /\ (failed = {} => raws = cdCall.given)
    BY <1>1, <2>1
  <2> HIDE DEF raws
  <2>3. /\ cdCall' \in CdCalls /\ cdCall'.pc = (IF raws = {} THEN "done" ELSE "ips") /\ cdCall'.raws = raws
        /\ cdCall'.given = cdCall.given /\ cdCall'.fam = 6 /\ cdCall'.ok = (failed = {})
    BY <1>1, <2>1, <2>2 DEF CdCalls, raws
  <2>4. CdChosen' /\ CdNoneMissed'
    BY <2>2, <2>3, Zenon DEF CdChosen, CdKilling, CdNoneMissed
  <2>5. CdSuccessIsComplete'
    BY <2>2, <2>3, Zenon DEF CdSuccessIsComplete
  <2> QED  BY <1>1, <2>3, <2>4, <2>5, Zenon DEF CdInv, CdTypeOK
<1>3. CASE CdDropIPs
  <2> DEFINE ok == cdCall.ok /\ CdRefused(cdCall.raws) = {}
             targets == CdTargets(cdCall.raws)
  <2>1. cdCall.pc = "ips" /\ (cdCall.ok => cdCall.raws = cdCall.given)
    BY <1>3, Zenon DEF CdDropIPs, CdInv, CdChosen
  <2>2. CASE CdReturn(FALSE)
    BY <1>1, <2>2, CdReturns, Zenon
  <2>3. CASE targets = {} /\ CdReturn(ok)
    <3>1. /\ cdCall' \in CdCalls /\ cdCall'.pc = "done" /\ cdCall'.ok = ok /\ cdCall'.given = cdCall.given
          /\ cdCall'.start = cdCall.start /\ cdCall'.raws = cdCall.raws
      BY <1>1, <2>3 DEF CdReturn, CdSet, CdCalls
    <3>2. CdSuccessIsComplete'
      <4>1. ok => \A s \in cdCall.raws :
             \/ s \in Whitelisted \/ [s EXCEPT !.form = "plain"] \in Whitelisted
             \/ /\ s.form \in {"plain", "mapped"} /\ s.addr \notin Protected \cup cdLocal
                /\ \A k \in cdOpen \cap cdCall.start : s.addr \notin {k.local.addr, k.peer.addr}
        BY <1>1, <2>3, CdCompletes, Zenon DEF CdInv
      <4> QED  BY <1>1, <2>1, <3>1, <4>1, Zenon DEF CdSuccessIsComplete
    <3> QED  BY <1>1, <2>1, <3>1, <3>2, Zenon DEF CdInv, CdTypeOK, CdChosen, CdKilling, CdNoneMissed
  <2>4. CASE cdCall' = [cdCall EXCEPT !.pc = "request", !.ok = ok, !.targets = targets, !.start = cdOpen]
    <3>1. targets \subseteq Addrs
      BY <1>1 DEF CdTargets, CdSpellings
    <3>2. ok \in BOOLEAN
      BY Zenon
    <3> HIDE DEF targets, ok
    <3>3. /\ cdCall' \in CdCalls /\ cdCall'.pc = "request" /\ cdCall'.ok = ok /\ cdCall'.given = cdCall.given
          /\ cdCall'.start = cdOpen /\ cdCall'.raws = cdCall.raws /\ cdCall'.targets = targets /\ cdCall'.fam = 6
      BY <1>1, <2>4, <3>1, <3>2 DEF CdCalls
    <3>4. CdRefused(cdCall.raws)' = CdRefused(cdCall.raws) /\ CdTargets(cdCall.raws)' = CdTargets(cdCall.raws)
      BY <1>1, <3>3, Zenon DEF CdRefused, CdTargets, CdIsProtected
    <3>5. CdChosen'
      BY <1>1, <2>1, <3>3, <3>4, Zenon DEF CdChosen, CdKilling, ok, targets
    <3>6. ASSUME NEW k \in cdOpen PROVE CdAhead(k)'
      <4>1. k.fam \in {4, 6}
        BY <1>1, CdMatching
      <4> QED  BY <3>3, <4>1, Zenon DEF CdAhead
    <3>7. CdNoneMissed'
      BY <1>1, <3>3, <3>6, Zenon DEF CdNoneMissed
    <3> QED  BY <1>1, <3>3, <3>5, <3>7, Zenon DEF CdInv, CdTypeOK, CdSuccessIsComplete
  <2> QED  BY <1>3, <2>2, <2>3, <2>4, Zenon DEF CdDropIPs, CdSet
<1> QED  BY <1>2, <1>3, Zenon

\* A step of the dump keeps the choice of targets.
LEMMA CdKeepsChoice ==
    ASSUME CdInv, CdKilling, cdLocal' = cdLocal, cdCall' \in CdCalls, cdCall'.raws = cdCall.raws,
           cdCall'.given = cdCall.given, cdCall'.targets = cdCall.targets, cdCall'.ok = cdCall.ok, CdKilling'
    PROVE  CdChosen' /\ CdSuccessIsComplete' /\ \A k : CdMatches(k)' <=> CdMatches(k)
<1>1. CdRefused(cdCall.raws)' = CdRefused(cdCall.raws) /\ CdTargets(cdCall.raws)' = CdTargets(cdCall.raws)
  BY Zenon DEF CdRefused, CdTargets, CdIsProtected
<1>2. CdChosen'
  BY <1>1, Zenon DEF CdInv, CdChosen, CdKilling
<1> QED  BY <1>2, Zenon DEF CdSuccessIsComplete, CdKilling, CdMatches

\* The dump of a family: a request, its datagrams, and the next family.
LEMMA CdDumping ==
    ASSUME CdInv, CdRequest \/ CdReceive \/ CdMore \/ CdDone
    PROVE  CdInv'
<1>1. /\ cdCall \in CdCalls /\ cdOpen' = cdOpen /\ cdLocal' = cdLocal /\ cdOpen \subseteq Socks /\ cdLocal \in LocalSets
      /\ CdKilling /\ CdChosen /\ CdNoneMissed
  BY Zenon DEF CdRequest, CdReceive, CdMore, CdDone, CdKilling, CdInv, CdTypeOK
<1>2. CASE CdRequest
  <2> DEFINE todo == {s \in cdOpen : s.fam = cdCall.fam}
  <2>1. cdCall.pc = "request" /\ cdCall' = [cdCall EXCEPT !.pc = "receive", !.todo = todo] /\ todo \subseteq Socks
    BY <1>1, <1>2, Zenon DEF CdRequest, CdSet
  <2>2. /\ cdCall' \in CdCalls /\ cdCall'.pc = "receive" /\ cdCall'.todo = todo /\ cdCall'.raws = cdCall.raws /\ cdCall'.given = cdCall.given
        /\ cdCall'.targets = cdCall.targets /\ cdCall'.ok = cdCall.ok /\ cdCall'.fam = cdCall.fam /\ cdCall'.start = cdCall.start
    BY <1>1, <2>1 DEF CdCalls
  <2>3. CdChosen' /\ CdSuccessIsComplete' /\ \A k : CdMatches(k)' <=> CdMatches(k)
    BY <1>1, <2>2, CdKeepsChoice, Zenon DEF CdKilling
  <2>4. \A k \in cdOpen : CdAhead(k) => CdAhead(k)'
    BY <2>1, <2>2, Zenon DEF CdAhead
  <2>5. CdNoneMissed'
    BY <1>1, <2>2, <2>3, <2>4, Zenon DEF CdNoneMissed
  <2> QED  BY <1>1, <2>2, <2>3, <2>5, Zenon DEF CdInv, CdTypeOK
<1>3. CASE CdReceive /\ ~CdReturn(FALSE)
  <2>1. PICK d \in CdDatagrams :
          /\ CdGenuine(d) /\ CdIntact(d)
          /\ cdCall' = [cdCall EXCEPT !.pc = "walk", !.packet = d.recs, !.last = d.done,
                                      !.todo = @ \ {d.recs[i] : i \in 1..Len(d.recs)}]
    BY <1>3, Zenon DEF CdReceive, CdSet
  <2>2. PICK n \in 0..MaxBatch : \E recs \in [1..n -> cdCall.todo], done \in BOOLEAN, intr \in BOOLEAN :
          d = [recs |-> recs, done |-> done, intr |-> intr]
    <3>1. PICK recs \in UNION {[1..n -> cdCall.todo] : n \in 0..MaxBatch}, done \in BOOLEAN, intr \in BOOLEAN :
            d = [recs |-> recs, done |-> done, intr |-> intr]
      BY <2>1 DEF CdDatagrams
    <3> QED  BY <3>1
  <2>a. PICK recs \in [1..n -> cdCall.todo], done \in BOOLEAN, intr \in BOOLEAN :
          d = [recs |-> recs, done |-> done, intr |-> intr]
    BY <2>2, Zenon
  <2>3. n \in Nat /\ cdCall.todo \subseteq Socks
    BY <1>1, CdAssumption DEF CdCalls
  <2>4. recs \in Seq(Socks) /\ Len(recs) = n
    <3>1. recs \in [1..n -> Socks]
      BY <2>a, <2>3, Zenon
    <3> QED  BY <2>3, <3>1
  <2> DEFINE todo == cdCall.todo \ {recs[i] : i \in 1..Len(recs)}
  <2>5. d.recs = recs /\ d.done = done /\ d.intr = intr
    BY <2>a
  <2>6. done => todo = {}
    BY <2>1, <2>5, Zenon DEF CdGenuine, CdIntact
  <2>7. cdCall' = [cdCall EXCEPT !.pc = "walk", !.packet = recs, !.last = done, !.todo = todo] /\ cdCall.pc = "receive"
    BY <1>3, <2>1, <2>5, Zenon DEF CdReceive
  <2>8. \A k \in cdCall.todo : k \in todo \/ \E i \in 1..Len(recs) : k = recs[i]
    BY Zenon
  <2>9. todo \subseteq Socks
    BY <2>3, Zenon
  <2> HIDE DEF todo
  <2>10. /\ cdCall' \in CdCalls /\ cdCall'.pc = "walk" /\ cdCall'.todo = todo /\ cdCall'.raws = cdCall.raws /\ cdCall'.given = cdCall.given
         /\ cdCall'.targets = cdCall.targets /\ cdCall'.ok = cdCall.ok /\ cdCall'.fam = cdCall.fam /\ cdCall'.start = cdCall.start
         /\ cdCall'.packet = recs /\ cdCall'.last = done
    BY <1>1, <2>4, <2>7, <2>9 DEF CdCalls
  <2>11. CdChosen' /\ CdSuccessIsComplete' /\ \A k : CdMatches(k)' <=> CdMatches(k)
    BY <1>1, <2>10, CdKeepsChoice, Zenon DEF CdKilling
  <2>12. \A k \in cdOpen : CdAhead(k) => CdAhead(k)'
    BY <2>7, <2>8, <2>10, Zenon DEF CdAhead
  <2>13. CdNoneMissed'
    BY <1>1, <2>6, <2>10, <2>11, <2>12, Zenon DEF CdNoneMissed
  <2> QED  BY <1>1, <2>10, <2>11, <2>13, Zenon DEF CdInv, CdTypeOK
<1>4. CASE CdMore
  <2>1. cdCall.pc = "walk" /\ cdCall' = [cdCall EXCEPT !.pc = "receive"] /\ cdCall.packet = <<>>
    BY <1>4, Zenon DEF CdMore, CdSet
  <2>2. /\ cdCall' \in CdCalls /\ cdCall'.pc = "receive" /\ cdCall'.todo = cdCall.todo /\ cdCall'.raws = cdCall.raws
        /\ cdCall'.given = cdCall.given /\ cdCall'.targets = cdCall.targets /\ cdCall'.ok = cdCall.ok /\ cdCall'.fam = cdCall.fam
        /\ cdCall'.start = cdCall.start
    BY <1>1, <2>1 DEF CdCalls
  <2>3. CdChosen' /\ CdSuccessIsComplete' /\ \A k : CdMatches(k)' <=> CdMatches(k)
    BY <1>1, <2>2, CdKeepsChoice, Zenon DEF CdKilling
  <2>4. ~\E i \in 1..Len(cdCall.packet) : TRUE
    BY <2>1
  <2>5. \A k \in cdOpen : CdAhead(k) => CdAhead(k)'
    BY <2>1, <2>2, <2>4, Zenon DEF CdAhead
  <2>6. CdNoneMissed'
    BY <1>1, <2>2, <2>3, <2>5, Zenon DEF CdNoneMissed
  <2> QED  BY <1>1, <2>2, <2>3, <2>6, Zenon DEF CdInv, CdTypeOK
<1>5. CASE CdDone
  <2>1. cdCall.pc = "walk" /\ cdCall.packet = <<>> /\ cdCall.last /\ cdCall.todo = {}
    BY <1>1, <1>5, Zenon DEF CdDone, CdNoneMissed
  <2>2. ~\E i \in 1..Len(cdCall.packet) : TRUE
    BY <2>1
  <2>3. \A k \in cdOpen : CdAhead(k) => cdCall.fam = 6 /\ k.fam = 4
    BY <2>1, <2>2, Zenon DEF CdAhead
  <2>4. CASE cdCall.fam = 6
    <3>1. cdCall' = [cdCall EXCEPT !.pc = "request", !.fam = 4]
      BY <1>5, <2>4, Zenon DEF CdDone, CdSet
    <3>2. /\ cdCall' \in CdCalls /\ cdCall'.pc = "request" /\ cdCall'.raws = cdCall.raws
          /\ cdCall'.given = cdCall.given /\ cdCall'.targets = cdCall.targets /\ cdCall'.ok = cdCall.ok /\ cdCall'.fam = 4
          /\ cdCall'.start = cdCall.start
      BY <1>1, <3>1 DEF CdCalls
    <3>3. CdChosen' /\ CdSuccessIsComplete' /\ \A k : CdMatches(k)' <=> CdMatches(k)
      BY <1>1, <3>2, CdKeepsChoice, Zenon DEF CdKilling
    <3>4. \A k \in cdOpen : CdAhead(k) => CdAhead(k)'
      BY <2>3, <3>2, Zenon DEF CdAhead
    <3>5. CdNoneMissed'
      BY <1>1, <3>2, <3>3, <3>4, Zenon DEF CdNoneMissed
    <3> QED  BY <1>1, <3>2, <3>3, <3>5, Zenon DEF CdInv, CdTypeOK
  <2>5. CASE cdCall.fam # 6
    <3>1. CdReturn(cdCall.ok)
      BY <1>5, <2>5, Zenon DEF CdDone
    <3>2. /\ cdCall' \in CdCalls /\ cdCall'.pc = "done" /\ cdCall'.raws = cdCall.raws /\ cdCall'.given = cdCall.given
          /\ cdCall'.ok = cdCall.ok /\ cdCall'.start = cdCall.start /\ cdCall.raws \subseteq CdSpellings
      BY <1>1, <3>1 DEF CdReturn, CdSet, CdCalls
    <3>3. /\ cdCall.raws \subseteq cdCall.given /\ (cdCall.ok => cdCall.raws = cdCall.given /\ CdRefused(cdCall.raws) = {})
          /\ cdCall.targets = CdTargets(cdCall.raws)
      BY <1>1, <2>1, Zenon DEF CdChosen
    <3>4. ASSUME NEW k \in cdOpen \cap cdCall.start, NEW a \in CdTargets(cdCall.raws) PROVE a \notin {k.local.addr, k.peer.addr}
      <4>1. ~CdMatches(k)
        BY <1>1, <2>3, <2>5, Zenon DEF CdNoneMissed
      <4> QED  BY <1>1, <3>3, <4>1, CdMatching, Zenon
    <3>5. CdSuccessIsComplete'
      <4>1. cdCall.ok => \A s \in cdCall.raws :
             \/ s \in Whitelisted \/ [s EXCEPT !.form = "plain"] \in Whitelisted
             \/ /\ s.form \in {"plain", "mapped"} /\ s.addr \notin Protected \cup cdLocal
                /\ \A k \in cdOpen \cap cdCall.start : s.addr \notin {k.local.addr, k.peer.addr}
        BY <3>2, <3>3, <3>4, CdCompletes, Zenon DEF CdInv
      <4> QED  BY <1>1, <3>2, <3>3, <4>1, Zenon DEF CdSuccessIsComplete
    <3> QED  BY <1>1, <3>2, <3>3, <3>5, Zenon DEF CdInv, CdTypeOK, CdChosen, CdKilling, CdNoneMissed
  <2> QED  BY <2>4, <2>5, Zenon
<1> QED  BY <1>1, <1>2, <1>3, <1>4, <1>5, CdReturns, Zenon

\* What is in a datagram is at its head or behind it.
LEMMA CdHeadOrTail ==
    ASSUME NEW packet \in Seq(Socks), packet # <<>>
    PROVE  /\ Tail(packet) \in Seq(Socks) /\ Head(packet) \in Socks
           /\ \A i \in 1..Len(packet) :
                packet[i] = Head(packet) \/ \E j \in 1..Len(Tail(packet)) : packet[i] = Tail(packet)[j]
<1>1. Tail(packet) \in Seq(Socks) /\ Head(packet) \in Socks /\ Head(packet) = packet[1]
  OBVIOUS
<1>2. ASSUME NEW i \in 1..Len(packet), i # 1 PROVE i - 1 \in 1..Len(Tail(packet)) /\ packet[i] = Tail(packet)[i - 1]
  BY <1>2
<1> QED  BY <1>1, <1>2, Zenon

\* A record of a datagram is skipped, or its socket destroyed.
LEMMA CdWalking ==
    ASSUME CdInv, CdSkip \/ CdDestroy
    PROVE  CdInv'
<1>1. /\ cdCall \in CdCalls /\ cdLocal' = cdLocal /\ cdOpen \subseteq Socks /\ cdLocal \in LocalSets
      /\ CdKilling /\ CdChosen /\ CdNoneMissed /\ cdCall.pc = "walk" /\ cdCall.packet # <<>>
  BY Zenon DEF CdSkip, CdDestroy, CdKilling, CdInv, CdTypeOK
<1>2. CASE CdReturn(FALSE) /\ UNCHANGED cdOpen
  BY <1>1, <1>2, CdReturns, Zenon
<1>3. CASE ~(CdReturn(FALSE) /\ UNCHANGED cdOpen)
  <2>1. /\ cdCall' = [cdCall EXCEPT !.packet = Tail(@)] /\ cdOpen' \subseteq cdOpen
        /\ Head(cdCall.packet) \in cdOpen' => ~CdMatches(Head(cdCall.packet))
    BY <1>3, Zenon DEF CdSkip, CdDestroy, CdSet
  <2>2. cdCall.packet \in Seq(Socks)
    BY <1>1 DEF CdCalls
  <2>3. /\ Tail(cdCall.packet) \in Seq(Socks)
        /\ \A i \in 1..Len(cdCall.packet) :
                \/ cdCall.packet[i] = Head(cdCall.packet)
                \/ \E j \in 1..Len(Tail(cdCall.packet)) : cdCall.packet[i] = Tail(cdCall.packet)[j]
    BY <1>1, <2>2, CdHeadOrTail, Zenon
  <2>4. /\ cdCall' \in CdCalls /\ cdCall'.pc = "walk" /\ cdCall'.todo = cdCall.todo /\ cdCall'.raws = cdCall.raws
        /\ cdCall'.given = cdCall.given /\ cdCall'.targets = cdCall.targets /\ cdCall'.ok = cdCall.ok /\ cdCall'.fam = cdCall.fam
        /\ cdCall'.start = cdCall.start /\ cdCall'.packet = Tail(cdCall.packet) /\ cdCall'.last = cdCall.last
    BY <1>1, <2>1, <2>3 DEF CdCalls
  <2>5. CdChosen' /\ CdSuccessIsComplete' /\ \A k : CdMatches(k)' <=> CdMatches(k)
    BY <1>1, <2>4, CdKeepsChoice, Zenon DEF CdKilling
  <2>6. \A k \in cdOpen' : CdMatches(k) /\ CdAhead(k) => CdAhead(k)'
    BY <1>1, <2>1, <2>3, <2>4, Zenon DEF CdAhead
  <2>7. CdNoneMissed'
    BY <1>1, <2>1, <2>4, <2>5, <2>6, Zenon DEF CdNoneMissed
  <2>8. cdOpen' \subseteq Socks
    BY <1>1, <2>1, Zenon
  <2> QED  BY <1>1, <2>4, <2>5, <2>7, <2>8, Zenon DEF CdInv, CdTypeOK
<1> QED  BY <1>2, <1>3, Zenon

LEMMA CdInvNext == CdInv /\ [CdNext]_cdVars => CdInv'
<1> SUFFICES ASSUME CdInv, [CdNext]_cdVars PROVE CdInv'
  OBVIOUS
<1>1. ASSUME cdCall' = cdCall, cdLocal' = cdLocal, cdOpen' \subseteq cdOpen PROVE CdInv'
  <2>1. CdTypeOK'
    BY <1>1, Zenon DEF CdInv, CdTypeOK
  <2>2. CdRefused(cdCall.raws)' = CdRefused(cdCall.raws) /\ CdTargets(cdCall.raws)' = CdTargets(cdCall.raws)
    BY <1>1, Zenon DEF CdRefused, CdTargets, CdIsProtected
  <2>3. CdChosen'
    BY <1>1, <2>2, Zenon DEF CdInv, CdChosen, CdKilling
  <2>4. CdNoneMissed'
    BY <1>1, Zenon DEF CdInv, CdNoneMissed, CdKilling, CdMatches, CdAhead
  <2>5. CdSuccessIsComplete'
    BY <1>1, Zenon DEF CdInv, CdSuccessIsComplete
  <2> QED  BY <2>1, <2>3, <2>4, <2>5, Zenon DEF CdInv
<1>2. CASE UNCHANGED cdVars
  BY <1>1, <1>2, Zenon DEF cdVars
<1>3. CASE CdClientCloses
  BY <1>1, <1>3, Zenon DEF CdClientCloses
<1>4. CASE CdFails
  BY <1>4, CdReturns, Zenon DEF CdFails
<1> QED  BY <1>2, <1>3, <1>4, CdChoosing, CdDumping, CdWalking, Zenon DEF CdNext

\* A step of the call closes a socket only for a target.
LEMMA CdClosesTargets ==
    ASSUME CdInv, [CdNext]_cdVars, NEW k \in cdOpen \ cdOpen', cdCall' # cdCall
    PROVE  \E a \in {k.local.addr, k.peer.addr} :
             /\ a \in {s.addr : s \in cdCall.given} \ (Protected \cup cdLocal)
             /\ [addr |-> a, form |-> "plain"] \notin Whitelisted
<1>1. CdDestroy /\ k = Head(cdCall.packet)
  BY Zenon DEF CdNext, cdVars, CdDropUsers, CdDropIPs, CdRequest, CdReceive, CdSkip, CdDestroy, CdMore, CdDone,
               CdFails, CdClientCloses
<1>2. k \in Socks /\ cdCall \in CdCalls /\ cdCall.targets = CdTargets(cdCall.raws) /\ cdCall.raws \subseteq cdCall.given
  BY <1>1, Zenon DEF CdInv, CdTypeOK, CdChosen, CdKilling, CdDestroy
<1>3. PICK a \in {k.local.addr, k.peer.addr} : a \in CdTargets(cdCall.raws)
  BY <1>1, <1>2, CdMatching, Zenon DEF CdDestroy
<1>4. PICK x \in cdCall.raws : a = x.addr /\ CdValid(x) /\ ~CdWhite(x) /\ ~CdIsProtected(x.addr)
  BY <1>3, Zenon DEF CdTargets
<1>5. x \in CdSpellings
  BY <1>2, <1>4 DEF CdCalls
<1>6. [addr |-> a, form |-> "plain"] \notin Whitelisted
  BY <1>4, <1>5, CdUnmaps, Zenon DEF CdValid, CdWhite
<1>7. a \in {s.addr : s \in cdCall.given} \ (Protected \cup cdLocal)
  BY <1>2, <1>4, Zenon DEF CdIsProtected
<1> QED  BY <1>3, <1>6, <1>7, Zenon

\* Whatever clients do during the dumps: a success has closed every connection
\* it was asked to close, in any spelling and family, and nothing else is ever
\* closed.
THEOREM DropIsExact == CdSpec => CdPromise
<1>1. CdInit => CdInv
  <2> SUFFICES ASSUME CdInit PROVE CdInv
    OBVIOUS
  <2>1. PICK l \in Lists :
          cdCall = [pc |-> "users", given |-> l, raws |-> {}, ok |-> TRUE, targets |-> {},
                    start |-> {}, fam |-> 6, todo |-> {}, packet |-> <<>>, last |-> FALSE]
    BY Zenon DEF CdInit
  <2>2. l \subseteq CdSpellings
    BY CdAssumption, Zenon
  <2>3. cdCall \in CdCalls /\ cdCall.pc = "users" /\ cdCall.raws = {} /\ cdCall.fam = 6
    BY <2>1, <2>2 DEF CdCalls
  <2> QED  BY <2>3, Zenon DEF CdInit, CdInv, CdTypeOK, CdChosen, CdKilling, CdNoneMissed, CdSuccessIsComplete
<1>2. CdInv => CdSuccessIsComplete
  BY Zenon DEF CdInv
<1>3. CdInv /\ [CdNext]_cdVars =>
        \A k \in cdOpen \ cdOpen' : cdCall' = cdCall \/
          \E a \in {k.local.addr, k.peer.addr} :
            /\ a \in {s.addr : s \in cdCall.given} \ (Protected \cup cdLocal)
            /\ [addr |-> a, form |-> "plain"] \notin Whitelisted
  BY CdClosesTargets, Zenon
<1> QED  BY <1>1, <1>2, <1>3, CdInvNext, PTL DEF CdSpec, CdPromise, CdOnlyRequested

(* User mutations *)

\* What a request asks.
LEMMA UmAsks ==
    ASSUME NEW r \in Requests
    PROVE  /\ Form[r].users \in Seq(Users) /\ Form[r].tags \subseteq Tags /\ Form[r].cred \in Creds
           /\ Form[r].cred # NoCred /\ r # "free" /\ Len(Form[r].users) \in Nat
           /\ \A i \in 1..Len(Form[r].users) : Form[r].users[i] \in Users
           /\ UmAdds(r) \/ Form[r].kind \in {"removeUser", "removeUsers"}
<1>1. Form[r] \in [kind : {"addUser", "addUsers", "removeUser", "removeUsers"}, users : Seq(Users), cred : Creds,
                   tags : SUBSET Tags, replace : BOOLEAN]
  BY UmAssumption, Zenon
<1>2. Form[r].users \in Seq(Users) /\ Form[r].tags \subseteq Tags /\ Form[r].cred \in Creds
      /\ Form[r].kind \in {"addUser", "addUsers", "removeUser", "removeUsers"}
  BY <1>1, Zenon
<1>3. Len(Form[r].users) \in Nat /\ \A i \in 1..Len(Form[r].users) : Form[r].users[i] \in Users
  BY <1>2
<1> QED  BY <1>2, <1>3, UmAssumption, Zenon DEF UmAdds

\* The records of requests: a fresh one, one that returns, and one at its next user.
LEMMA UmShapes ==
    ASSUME NEW ok \in BOOLEAN
    PROVE  /\ UmFresh \in UmRecs /\ UmFresh.pc = "new" /\ UmFresh.seen = {} /\ UmFresh.plan = {} /\ UmFresh.ok
           /\ [UmFresh EXCEPT !.pc = "done", !.ok = ok] \in UmRecs
           /\ [UmFresh EXCEPT !.pc = "done", !.ok = ok].pc = "done"
           /\ [UmFresh EXCEPT !.pc = "done", !.ok = ok].ok = ok
<1>1. UmFresh \in UmRecs
  BY DEF UmFresh, UmRecs
<1>2. UmFresh.pc = "new" /\ UmFresh.seen = {} /\ UmFresh.plan = {} /\ UmFresh.ok
  BY DEF UmFresh
<1>3. /\ [UmFresh EXCEPT !.pc = "done", !.ok = ok] \in UmRecs
      /\ [UmFresh EXCEPT !.pc = "done", !.ok = ok].pc = "done"
      /\ [UmFresh EXCEPT !.pc = "done", !.ok = ok].ok = ok
  BY <1>1 DEF UmRecs
<1> QED  BY <1>1, <1>2, <1>3, Zenon

LEMMA UmEnters ==
    ASSUME NEW r \in Requests, NEW rec \in UmRecs, NEW i \in Nat \ {0}
    PROVE  /\ UmEnterUser(r, rec, i) \in UmRecs /\ UmEnterUser(r, rec, i).i = i
           /\ UmEnterUser(r, rec, i).pc = UmUserPc(r) /\ UmEnterUser(r, rec, i).left = Tags
           /\ UmEnterUser(r, rec, i).userOK /\ UmEnterUser(r, rec, i).looked = {}
           /\ UmEnterUser(r, rec, i).ok = rec.ok /\ UmEnterUser(r, rec, i).plan = rec.plan
           /\ UmEnterUser(r, rec, i).seen = rec.seen
           /\ UmUserPc(r) \in {"remove", "lookup"} /\ (UmUserPc(r) = "remove" => UmAdds(r))
<1>1. UmUserPc(r) \in {"remove", "lookup"} /\ (UmUserPc(r) = "remove" => UmAdds(r))
  BY Zenon DEF UmUserPc, UmAdds
<1> HIDE DEF UmUserPc
<1> QED  BY <1>1 DEF UmEnterUser, UmRecs

\* Core and connections keep their types, and the core its agreement, while
\* neither changes.
LEMMA UmStill ==
    ASSUME UmInv, UNCHANGED <<umCore, umConn>>
    PROVE  umCore' \in [Tags -> [Users -> Creds \cup {NoCred}]] /\ umConn' \in [Users -> SUBSET IPs] /\ UmAlike'
BY Zenon DEF UmInv, UmTypeOK, UmAlike

\* A step of the request that has the gate, or takes it.
LEMMA UmHolder ==
    ASSUME UmInv, NEW r \in Requests, umGate \in {r, "free"}, NEW rec \in UmRecs, umReq' = [umReq EXCEPT ![r] = rec],
           umCore' \in [Tags -> [Users -> Creds \cup {NoCred}]], umConn' \in [Users -> SUBSET IPs], UmAlike',
           UmKnows(r, rec)',
           \/ rec.pc \notin UmOutside /\ umGate' = r
           \/ rec.pc \in UmOutside /\ umGate' = "free"
    PROVE  UmInv'
<1>1. r # "free" /\ umReq \in [Requests -> UmRecs]
  BY UmAsks, Zenon DEF UmInv, UmTypeOK
<1>2. /\ umReq'[r] = rec /\ (\A q \in Requests \ {r} : umReq'[q] = umReq[q]) /\ umReq' \in [Requests -> UmRecs]
  BY <1>1, Zenon
<1>3. UmTypeOK'
  BY <1>2, Zenon DEF UmTypeOK
<1>4. ASSUME NEW q \in Requests, q # r PROVE umReq[q].pc \in UmOutside /\ umGate' # q
  <2>1. q # "free" /\ umGate # q /\ umGate' # q
    <3>1. q # "free"
      BY UmAsks
    <3> QED  BY <1>1, <1>4, <3>1
  <2> QED  BY <2>1, Zenon DEF UmInv
<1>5. ASSUME NEW q \in Requests PROVE (umReq[q].pc \notin UmOutside <=> umGate = q)' /\ UmKnows(q, umReq[q])'
  <2>1. CASE q = r
    <3>1. UmKnows(r, umReq[r])' <=> UmKnows(r, rec)'
      BY <1>2, Zenon DEF UmKnows, UmProgress, UmDrops, UmBehind, UmCurrent, UmServed, UmAbsent
    <3> QED  BY <1>1, <1>2, <2>1, <3>1, Zenon
  <2>2. CASE q # r
    <3>1. UmKnows(q, umReq[q])
      BY Zenon DEF UmInv
    <3> QED  BY <1>2, <1>4, <2>2, <3>1, Zenon DEF UmKnows
  <2> QED  BY <2>1, <2>2, Zenon
<1> QED  BY <1>3, <1>5, Zenon DEF UmInv

\* What is known of a request depends on its record, the core and the connections.
LEMMA UmSame ==
    ASSUME NEW q \in Requests, umReq'[q] = umReq[q], umCore' = umCore, umConn' = umConn
    PROVE  UmKnows(q, umReq[q])' <=> UmKnows(q, umReq[q])
<1>1. \A u : (UmServed(q, u)' <=> UmServed(q, u)) /\ (UmAbsent(u)' <=> UmAbsent(u))
  BY Zenon DEF UmServed, UmAbsent
<1>2. UmBehind(q, umReq[q])' = UmBehind(q, umReq[q]) /\ UmCurrent(q, umReq[q])' = UmCurrent(q, umReq[q])
  BY Zenon DEF UmBehind, UmCurrent
<1>3. UmProgress(q, umReq[q])' <=> UmProgress(q, umReq[q])
  BY <1>1, <1>2 DEF UmProgress
<1>4. UmDrops(q, umReq[q])' <=> UmDrops(q, umReq[q])
  BY <1>1, <1>2 DEF UmDrops
<1> QED  BY <1>1, <1>2, <1>3, <1>4 DEF UmKnows

\* A step before the gate, or past it.
LEMMA UmOutsider ==
    ASSUME UmInv, NEW r \in Requests, umReq[r].pc \in UmOutside, UNCHANGED <<umCore, umConn, umGate>>,
           NEW rec \in UmRecs, umReq' = [umReq EXCEPT ![r] = rec], rec.pc \in UmOutside, UmKnows(r, rec)
    PROVE  UmInv'
<1>1. umReq \in [Requests -> UmRecs] /\ umGate # r
  BY Zenon DEF UmInv, UmTypeOK
<1>2. /\ umReq'[r] = rec /\ (\A q \in Requests \ {r} : umReq'[q] = umReq[q]) /\ umReq' \in [Requests -> UmRecs]
  BY <1>1, Zenon
<1>3. UmTypeOK' /\ UmAlike'
  BY <1>2, UmStill, Zenon DEF UmInv, UmTypeOK
<1>4. ASSUME NEW q \in Requests PROVE (umReq[q].pc \notin UmOutside <=> umGate = q)' /\ UmKnows(q, umReq[q])'
  <2>1. CASE q = r
    BY <1>1, <1>2, <2>1, Zenon DEF UmKnows
  <2>2. CASE q # r
    <3>1. UmKnows(q, umReq[q]) /\ (umReq[q].pc \notin UmOutside <=> umGate = q)
      BY Zenon DEF UmInv
    <3>2. umReq'[q] = umReq[q]
      BY <1>2, <2>2, Zenon
    <3>3. umCore' = umCore /\ umConn' = umConn /\ umGate' = umGate
      BY Zenon
    <3>4. UmKnows(q, umReq[q])' <=> UmKnows(q, umReq[q])
      BY <3>2, <3>3, UmSame, Zenon
    <3> QED  BY <3>1, <3>2, <3>3, <3>4, Zenon
  <2> QED  BY <2>1, <2>2, Zenon
<1> QED  BY <1>3, <1>4, Zenon DEF UmInv

\* A request that returns.
LEMMA UmReturns ==
    ASSUME UmInv, NEW r \in Requests, umGate \in {r, "free"}, NEW ok \in BOOLEAN, UmReturn(r, ok),
           umCore' \in [Tags -> [Users -> Creds \cup {NoCred}]], umConn' \in [Users -> SUBSET IPs], UmAlike'
    PROVE  UmInv'
<1> DEFINE rec == [UmFresh EXCEPT !.pc = "done", !.ok = ok]
<1>1. rec \in UmRecs /\ rec.pc = "done"
  BY UmShapes, Zenon
<1>2. umReq' = [umReq EXCEPT ![r] = rec] /\ umGate' = "free"
  BY Zenon DEF UmReturn, UmSet
<1> HIDE DEF rec
<1>3. rec.pc \in UmOutside /\ UmKnows(r, rec)'
  BY <1>1, Zenon DEF UmOutside, UmKnows
<1> QED  BY <1>1, <1>2, <1>3, UmHolder, Zenon

\* What the invariant says of a request past the gate.
LEMMA UmInside ==
    ASSUME UmInv, NEW r \in Requests, umReq[r].pc \notin UmOutside
    PROVE  /\ umGate = r /\ umReq[r] \in UmRecs /\ UmKnows(r, umReq[r]) /\ UmCurrent(r, umReq[r]) = UmUser(r)
           /\ UmUser(r) \in Users /\ umReq[r].i \in 1..Len(Form[r].users)
           /\ umCore \in [Tags -> [Users -> Creds \cup {NoCred}]] /\ umConn \in [Users -> SUBSET IPs] /\ UmAlike
<1>1. /\ umGate = r /\ umReq[r] \in UmRecs /\ UmKnows(r, umReq[r])
      /\ umCore \in [Tags -> [Users -> Creds \cup {NoCred}]] /\ umConn \in [Users -> SUBSET IPs] /\ UmAlike
  BY Zenon DEF UmInv, UmTypeOK
<1>2. umReq[r].i \in 1..Len(Form[r].users)
  BY <1>1, Zenon DEF UmKnows
<1> QED  BY <1>1, <1>2, UmAsks, Zenon DEF UmCurrent, UmUser

\* The work on the next user, or the end, after a user that is done with.
LEMMA UmGoesOn ==
    ASSUME UmInv, NEW r \in Requests, umGate = r, UNCHANGED <<umCore, umConn, umGate>>,
           NEW rec \in UmRecs, rec.i \in 1..Len(Form[r].users), umReq' = [umReq EXCEPT ![r] = UmNextUser(r, rec)],
           rec.pc \notin {"drop", "answer"},
           rec.ok => UmServed(r, UmCurrent(r, rec)) /\ \A u \in UmBehind(r, rec) : UmServed(r, u),
           ~UmAdds(r) => \A ip \in rec.plan : \E u \in Users : ip \in umConn[u] /\ UmAbsent(u),
           ~UmAdds(r) /\ rec.ok => \A s \in rec.seen : s[2] \in rec.plan
    PROVE  UmInv'
<1> DEFINE us == Form[r].users
           next == UmNextUser(r, rec)
<1>1. Len(us) \in Nat /\ rec.i \in Nat /\ rec.i <= Len(us) /\ us \in Seq(Users)
  BY UmAsks
<1>2. \A u \in Users : UmServed(r, u)' <=> UmServed(r, u)
  BY Zenon DEF UmServed
<1>3. \A j \in 1..Len(us) : us[j] \in Users
  BY UmAsks, Zenon
<1>4. ASSUME NEW j \in 1..rec.i, rec.ok PROVE UmServed(r, us[j])
  <2>1. CASE us[j] = us[rec.i]
    BY <1>4, <2>1, Zenon DEF UmCurrent
  <2>2. CASE us[j] # us[rec.i]
    <3>1. j \in 1..rec.i - 1
      BY <1>1, <2>2
    <3> QED  BY <1>4, <2>2, <3>1, Zenon DEF UmBehind, UmCurrent
  <2> QED  BY <2>1, <2>2, Zenon
<1>7. umCore' \in [Tags -> [Users -> Creds \cup {NoCred}]] /\ umConn' \in [Users -> SUBSET IPs] /\ UmAlike'
  BY UmStill, Zenon
<1>5. CASE rec.i < Len(us)
  <2>1. next = UmEnterUser(r, rec, rec.i + 1)
    BY <1>5, Zenon DEF UmNextUser
  <2>2. UmUserPc(r) \in {"remove", "lookup"} /\ (UmUserPc(r) = "remove" => UmAdds(r))
    BY Zenon DEF UmUserPc, UmAdds
  <2>3. /\ next \in UmRecs /\ next.i = rec.i + 1 /\ next.pc = UmUserPc(r) /\ next.left = Tags /\ next.userOK
        /\ next.looked = {} /\ next.ok = rec.ok /\ next.plan = rec.plan /\ next.seen = rec.seen
    <3>1. rec.i + 1 \in Nat \ {0}
      BY <1>1
    <3>2. UmEnterUser(r, rec, rec.i + 1) \in UmRecs
      BY <3>1, UmEnters, Zenon
    <3> QED  BY <2>1, <3>1, <3>2, UmEnters
  <2> HIDE DEF next
  <2>4. next.i \in 1..Len(us) /\ 1..next.i - 1 = 1..rec.i
    BY <1>1, <1>5, <2>3
  <2>5. next.ok => \A u \in UmBehind(r, next) : UmServed(r, u)
    BY <1>4, <2>2, <2>3, <2>4, Zenon DEF UmBehind
  <2>6. UmBehind(r, next)' = UmBehind(r, next) /\ (UmBehind(r, next) \subseteq Users)
    <3>1. \A j \in 1..rec.i : us[j] \in Users
      BY <1>1, <1>3
    <3>2. UmBehind(r, next) \subseteq Users
      BY <2>2, <2>3, <2>4, <3>1, Zenon DEF UmBehind
    <3> QED  BY <3>2, Zenon DEF UmBehind, UmCurrent
  <2>7. UmProgress(r, next)'
    BY <2>2, <2>3, Zenon DEF UmProgress
  <2>8. UmDrops(r, next)'
    BY <2>2, <2>3, Zenon DEF UmDrops, UmAbsent
  <2>9. UmKnows(r, next)' /\ next.pc \notin UmOutside
    BY <1>2, <2>2, <2>3, <2>4, <2>5, <2>6, <2>7, <2>8, Zenon DEF UmKnows, UmOutside
  <2>10. umReq' = [umReq EXCEPT ![r] = next] /\ umGate' = r
    BY Zenon DEF next
  <2> QED  BY <1>7, <2>3, <2>9, <2>10, UmHolder, Zenon
<1>6. CASE ~(rec.i < Len(us))
  <2>1. next = [rec EXCEPT !.pc = IF UmAdds(r) THEN "answer" ELSE "drop"] /\ rec.i = Len(us)
    BY <1>1, <1>6 DEF UmNextUser
  <2>2. /\ next \in UmRecs /\ next.i = rec.i /\ next.pc = (IF UmAdds(r) THEN "answer" ELSE "drop")
        /\ next.ok = rec.ok /\ next.plan = rec.plan /\ next.seen = rec.seen
    BY <2>1 DEF UmRecs
  <2> HIDE DEF next
  <2>3. UmBehind(r, next)' = UmBehind(r, next) /\ UmBehind(r, next) = {us[j] : j \in 1..rec.i}
    BY <2>1, <2>2, Zenon DEF UmBehind
  <2>4. next.ok => \A u \in UmBehind(r, next) : UmServed(r, u)'
    BY <1>2, <1>3, <1>4, <2>1, <2>2, <2>3, Zenon
  <2>5. UmProgress(r, next)'
    BY <2>2, Zenon DEF UmProgress
  <2>6. UmDrops(r, next)'
    BY <2>2, Zenon DEF UmDrops, UmAbsent
  <2>7. UmKnows(r, next)' /\ next.pc \notin UmOutside
    BY <2>2, <2>3, <2>4, <2>5, <2>6, Zenon DEF UmKnows, UmOutside
  <2>8. umReq' = [umReq EXCEPT ![r] = next] /\ umGate' = r
    BY Zenon DEF next
  <2> QED  BY <1>7, <2>2, <2>7, <2>8, UmHolder, Zenon
<1> QED  BY <1>5, <1>6, Zenon


\* A step on the current user, which leaves the core as it is for the others.
LEMMA UmWorks ==
    ASSUME UmInv, NEW r \in Requests, umGate = r, umGate' = r, NEW b \in UmRecs, b = umReq[r],
           b.pc \in {"lookup", "remove", "replace", "add"}, NEW rec \in UmRecs, umReq' = [umReq EXCEPT ![r] = rec],
           rec.pc \in {"remove", "replace", "add"}, rec.i = b.i, rec.ok => b.ok,
           umCore' \in [Tags -> [Users -> Creds \cup {NoCred}]], umConn' \in [Users -> SUBSET IPs], UmAlike',
           \A v \in Users \ {UmCurrent(r, b)}, t \in Tags : umCore'[t][v] = umCore[t][v],
           UmProgress(r, rec)', UmDrops(r, rec)'
    PROVE  UmInv'
<1>1. UmKnows(r, b) /\ b.pc \notin UmOutside /\ rec.pc \notin UmOutside
  BY Zenon DEF UmInv, UmOutside
<1>2. rec.i \in 1..Len(Form[r].users) /\ (b.ok => \A u \in UmBehind(r, b) : UmServed(r, u))
  BY <1>1, Zenon DEF UmKnows
<1>3. UmBehind(r, rec) = UmBehind(r, b) /\ UmBehind(r, rec)' = UmBehind(r, rec)
  BY Zenon DEF UmBehind, UmCurrent
<1>4. UmBehind(r, b) \subseteq Users \ {UmCurrent(r, b)}
  <2>1. \A j \in 1..Len(Form[r].users) : Form[r].users[j] \in Users
    BY UmAsks, Zenon
  <2>2. Len(Form[r].users) \in Nat
    BY UmAsks, Zenon
  <2>3. \A j \in 1..b.i - 1 : j \in 1..Len(Form[r].users)
    BY <1>2, <2>2
  <2> QED  BY <2>1, <2>3, Zenon DEF UmBehind
<1>5. \A u \in Users \ {UmCurrent(r, b)} : UmServed(r, u) => UmServed(r, u)'
  BY DEF UmServed, UmWanted, UmAdds
<1>6. UmKnows(r, rec)'
  BY <1>1, <1>2, <1>3, <1>4, <1>5, Zenon DEF UmKnows, UmOutside
<1> QED  BY <1>1, <1>6, UmHolder, Zenon

\* Before the gate: a request arrives, its context ends, it gives up.
LEMMA UmWaiting ==
    ASSUME UmInv, NEW r \in Requests, UmArrive(r) \/ UmGiveUp(r) \/ UmExpire(r)
    PROVE  UmInv'
<1>1. /\ umReq[r] \in UmRecs /\ UmKnows(r, umReq[r]) /\ umReq[r].pc \in {"new", "gate"}
      /\ UNCHANGED <<umCore, umConn, umGate>>
  BY Zenon DEF UmInv, UmTypeOK, UmArrive, UmGiveUp, UmExpire, UmAt
<1>2. umReq[r].seen = {} /\ umReq[r].plan = {} /\ umReq[r].ok /\ umReq[r].pc \in UmOutside
  BY <1>1, Zenon DEF UmKnows, UmOutside
<1>3. ASSUME NEW rec \in UmRecs, umReq' = [umReq EXCEPT ![r] = rec], rec.pc \in {"gate", "done"},
             rec.pc = "gate" => rec.seen = {} /\ rec.plan = {} /\ rec.ok /\ Form[r].users # <<>>
      PROVE  UmInv'
  <2>1. rec.pc \in UmOutside /\ UmKnows(r, rec)
    BY <1>3, Zenon DEF UmOutside, UmKnows
  <2> QED  BY <1>1, <1>2, <1>3, <2>1, UmOutsider, Zenon
<1>4. CASE UmArrive(r)
  <2>1. CASE Form[r].users # <<>>
    <3>1. PICK rec : rec = [umReq[r] EXCEPT !.pc = "gate"]
      BY Zenon
    <3>2. rec \in UmRecs /\ rec.pc = "gate" /\ rec.seen = umReq[r].seen /\ rec.plan = umReq[r].plan /\ rec.ok = umReq[r].ok
      BY <1>1, <3>1 DEF UmRecs
    <3>3. umReq' = [umReq EXCEPT ![r] = rec]
      BY <1>4, <2>1, <3>1, Zenon DEF UmArrive, UmSet
    <3> QED  BY <1>2, <1>3, <2>1, <3>2, <3>3, Zenon
  <2>2. CASE Form[r].users = <<>>
    <3>1. PICK rec : rec = [umReq[r] EXCEPT !.pc = "done", !.ok = Form[r].kind # "addUser"]
      BY Zenon
    <3>2. rec \in UmRecs /\ rec.pc = "done"
      BY <1>1, <3>1 DEF UmRecs
    <3>3. umReq' = [umReq EXCEPT ![r] = rec]
      BY <1>4, <2>2, <3>1, Zenon DEF UmArrive, UmSet
    <3> QED  BY <1>3, <3>2, <3>3, Zenon
  <2> QED  BY <2>1, <2>2, Zenon
<1>5. CASE UmGiveUp(r)
  <2>1. PICK rec : rec = [umReq[r] EXCEPT !.pc = "done", !.ok = FALSE]
    BY Zenon
  <2>2. rec \in UmRecs /\ rec.pc = "done"
    BY <1>1, <2>1 DEF UmRecs
  <2>3. umReq' = [umReq EXCEPT ![r] = rec]
    BY <1>5, <2>1, Zenon DEF UmGiveUp, UmSet
  <2> QED  BY <1>3, <2>2, <2>3, Zenon
<1>6. CASE UmExpire(r)
  <2>1. PICK rec : rec = [umReq[r] EXCEPT !.live = FALSE]
    BY Zenon
  <2>2. rec \in UmRecs /\ rec.pc = umReq[r].pc /\ rec.seen = umReq[r].seen /\ rec.plan = umReq[r].plan /\ rec.ok = umReq[r].ok
    BY <1>1, <2>1 DEF UmRecs
  <2>3. umReq' = [umReq EXCEPT ![r] = rec] /\ umReq[r].pc = "gate" /\ Form[r].users # <<>>
    BY <1>1, <1>6, <2>1, Zenon DEF UmExpire, UmSet, UmAt, UmKnows
  <2> QED  BY <1>2, <1>3, <2>2, <2>3, Zenon
<1> QED  BY <1>4, <1>5, <1>6, Zenon

\* The gate: the request begins with its first user, or finds the core offline.
LEMMA UmAcquiring ==
    ASSUME UmInv, NEW r \in Requests, UmAcquire(r)
    PROVE  UmInv'
<1>1. /\ umReq[r] \in UmRecs /\ UmKnows(r, umReq[r]) /\ umReq[r].pc = "gate" /\ umGate = "free"
      /\ umCore' = umCore /\ umConn' = umConn
  BY Zenon DEF UmInv, UmTypeOK, UmAcquire, UmAt, UmGateFree
<1>2. /\ umCore' \in [Tags -> [Users -> Creds \cup {NoCred}]] /\ umConn' \in [Users -> SUBSET IPs] /\ UmAlike'
  BY <1>1, UmStill, Zenon
<1>3. CASE UmReturn(r, FALSE)
  BY <1>1, <1>2, <1>3, UmReturns, Zenon
<1>4. CASE umGate' = r /\ UmSet(r, UmEnterUser(r, umReq[r], 1))
  <2>1. umReq[r].seen = {} /\ umReq[r].plan = {} /\ Form[r].users # <<>>
    BY <1>1, Zenon DEF UmKnows
  <2>a. 1 \in Nat \ {0}
    OBVIOUS
  <2>2. PICK rec \in UmRecs :
          /\ umReq' = [umReq EXCEPT ![r] = rec] /\ rec.i = 1 /\ rec.pc = UmUserPc(r) /\ rec.left = Tags /\ rec.userOK
          /\ rec.looked = {} /\ rec.plan = {} /\ rec.seen = {}
    <3>1. UmEnterUser(r, umReq[r], 1) \in UmRecs
      BY <1>1, <2>a, UmEnters, Zenon
    <3> DEFINE next == UmEnterUser(r, umReq[r], 1)
    <3>2. /\ next \in UmRecs /\ next.i = 1 /\ next.pc = UmUserPc(r) /\ next.left = Tags /\ next.userOK
          /\ next.looked = {} /\ next.plan = umReq[r].plan /\ next.seen = umReq[r].seen
      BY <1>1, <2>a, UmEnters
    <3>3. umReq' = [umReq EXCEPT ![r] = next]
      BY <1>4, Zenon DEF UmSet
    <3> HIDE DEF next
    <3> QED  BY <2>1, <3>2, <3>3, Zenon
  <2>3. rec.pc \in {"remove", "lookup"}
    BY <1>1, <2>1, <2>a, <2>2, UmEnters, Zenon
  <2>4. rec.i \in 1..Len(Form[r].users) /\ 1..rec.i - 1 = {}
    <3>1. Form[r].users \in Seq(Users)
      BY UmAsks, Zenon
    <3> QED  BY <2>1, <2>2, <3>1
  <2>5. UmBehind(r, rec)' = {}
    BY <2>3, <2>4, Zenon DEF UmBehind
  <2>6. UmProgress(r, rec)'
    BY <2>2, <2>3, Zenon DEF UmProgress
  <2>7. UmDrops(r, rec)'
    BY <2>2, <2>3, Zenon DEF UmDrops
  <2>8. UmKnows(r, rec)' /\ rec.pc \notin UmOutside
    BY <2>3, <2>4, <2>5, <2>6, <2>7, Zenon DEF UmKnows, UmOutside
  <2> QED  BY <1>1, <1>2, <1>4, <2>2, <2>8, UmHolder, Zenon
<1> QED  BY <1>3, <1>4, Zenon DEF UmAcquire


\* What the lookup returned, or what its failure leads to.
LEMMA UmLooking ==
    ASSUME UmInv, NEW r \in Requests, UmLookup(r) \/ UmLookupFails(r)
    PROVE  UmInv'
<1>1. umReq[r].pc = "lookup" /\ umCore' = umCore /\ umConn' = umConn /\ umReq[r].pc \notin UmOutside
  BY Zenon DEF UmLookup, UmLookupFails, UmAt, UmOutside
<1>2. PICK b : b = umReq[r]
  BY Zenon
<1>3. /\ umGate = r /\ b \in UmRecs /\ UmKnows(r, b) /\ UmCurrent(r, b) = UmUser(r) /\ UmUser(r) \in Users
      /\ b.i \in 1..Len(Form[r].users) /\ umConn \in [Users -> SUBSET IPs]
  BY <1>1, <1>2, UmInside, Zenon
<1>4. /\ umCore' \in [Tags -> [Users -> Creds \cup {NoCred}]] /\ umConn' \in [Users -> SUBSET IPs] /\ UmAlike'
  BY <1>1, UmStill, Zenon
<1>5. b.pc = "lookup" /\ b.userOK /\ b.left = Tags /\ b.looked = {} /\ UmDrops(r, b)
  BY <1>1, <1>2, <1>3, Zenon DEF UmKnows, UmProgress, UmDrops
<1>6. ASSUME NEW rec \in UmRecs, umReq' = [umReq EXCEPT ![r] = rec], umGate' = r, rec.pc = "remove", rec.i = b.i,
             rec.ok = b.ok, rec.userOK, rec.left = Tags, rec.plan = b.plan,
             rec.looked \subseteq umConn[UmCurrent(r, b)],
             ~UmAdds(r) => \A s \in rec.seen : s \in b.seen \/ s[2] \in rec.looked
      PROVE  UmInv'
  <2>1. UmCurrent(r, rec)' = UmCurrent(r, b)
    BY <1>6, Zenon DEF UmCurrent
  <2>2. UmProgress(r, rec)'
    BY <1>6, Zenon DEF UmProgress
  <2>3. \A u : UmAbsent(u) => UmAbsent(u)'
    BY <1>1, Zenon DEF UmAbsent
  <2>4. UmDrops(r, rec)'
    BY <1>1, <1>5, <1>6, <2>1, <2>3, Zenon DEF UmDrops
  <2> QED  BY <1>1, <1>2, <1>3, <1>4, <1>5, <1>6, <2>2, <2>4, UmWorks, Zenon
<1>7. CASE UmLookup(r)
  <2> DEFINE ips == umConn[UmUser(r)]
             next == [[b EXCEPT !.pc = "remove", !.looked = ips] EXCEPT !.seen = @ \cup ({UmUser(r)} \X ips)]
  <2>1. umReq' = [umReq EXCEPT ![r] = next] /\ umGate' = r
    BY <1>2, <1>3, <1>7, Zenon DEF UmLookup, UmPlan, UmSet
  <2>2. ips \subseteq IPs /\ {UmUser(r)} \X ips \subseteq Users \X IPs
    BY <1>3
  <2>3. /\ next \in UmRecs /\ next.pc = "remove" /\ next.i = b.i /\ next.ok = b.ok /\ next.userOK = b.userOK
        /\ next.left = b.left /\ next.plan = b.plan /\ next.looked = ips /\ next.seen = b.seen \cup ({UmUser(r)} \X ips)
    BY <1>3, <2>2 DEF UmRecs
  <2> HIDE DEF next
  <2>4. \A s \in {UmUser(r)} \X ips : s[2] \in ips
    OBVIOUS
  <2>5. PICK rec \in UmRecs : rec = next
    BY <2>3, Zenon
  <2>6. \A s \in rec.seen : s \in b.seen \/ s[2] \in rec.looked
    BY <2>3, <2>4, <2>5, Zenon
  <2> QED  BY <1>3, <1>5, <1>6, <2>1, <2>3, <2>5, <2>6, Zenon
<1>8. CASE UmLookupFails(r) /\ Form[r].kind = "addUser"
  <2>1. PICK rec : rec = [b EXCEPT !.pc = "remove", !.looked = {}]
    BY Zenon
  <2>2. umReq' = [umReq EXCEPT ![r] = rec] /\ umGate' = r /\ UmAdds(r)
    BY <1>2, <1>3, <1>8, <2>1, Zenon DEF UmLookupFails, UmSet, UmAdds
  <2>3. /\ rec \in UmRecs /\ rec.pc = "remove" /\ rec.i = b.i /\ rec.ok = b.ok /\ rec.userOK = b.userOK
        /\ rec.left = b.left /\ rec.plan = b.plan /\ rec.looked = {}
    BY <1>3, <2>1 DEF UmRecs
  <2> QED  BY <1>5, <1>6, <2>2, <2>3, Zenon
<1>9. CASE UmLookupFails(r) /\ Form[r].kind = "removeUser"
  <2>1. UmReturn(r, FALSE)
    BY <1>9 DEF UmLookupFails
  <2> QED  BY <1>3, <1>4, <2>1, UmReturns, Zenon
<1>10. CASE UmLookupFails(r) /\ Form[r].kind \notin {"addUser", "removeUser"}
  <2>1. PICK rec : rec = [b EXCEPT !.ok = FALSE]
    BY Zenon
  <2>2. umReq' = [umReq EXCEPT ![r] = UmNextUser(r, rec)] /\ umGate' = umGate
    BY <1>2, <1>10, <2>1 DEF UmLookupFails, UmSet
  <2>3. rec \in UmRecs /\ rec.pc = "lookup" /\ rec.i = b.i /\ ~rec.ok /\ rec.plan = b.plan
    BY <1>3, <1>5, <2>1 DEF UmRecs
  <2>4. ~UmAdds(r) => \A ip \in rec.plan : \E u \in Users : ip \in umConn[u] /\ UmAbsent(u)
    BY <1>5, <2>3, Zenon DEF UmDrops
  <2> QED  BY <1>1, <1>3, <2>2, <2>3, <2>4, UmGoesOn, Zenon
<1> QED  BY <1>7, <1>8, <1>9, <1>10, Zenon

\* One entry of the core changes.
LEMMA UmWriting ==
    ASSUME umCore \in [Tags -> [Users -> Creds \cup {NoCred}]], NEW t \in Tags, NEW u \in Users,
           NEW c \in Creds \cup {NoCred}, umCore' = [umCore EXCEPT ![t][u] = c]
    PROVE  /\ umCore' \in [Tags -> [Users -> Creds \cup {NoCred}]] /\ umCore'[t][u] = c
           /\ \A s \in Tags, v \in Users : (s # t \/ v # u) => umCore'[s][v] = umCore[s][v]
<1>1. umCore[t] \in [Users -> Creds \cup {NoCred}]
  BY Zenon
<1>2. [umCore[t] EXCEPT ![u] = c] \in [Users -> Creds \cup {NoCred}] /\ [umCore[t] EXCEPT ![u] = c][u] = c
      /\ \A v \in Users \ {u} : [umCore[t] EXCEPT ![u] = c][v] = umCore[t][v]
  BY <1>1, Zenon
<1>3. umCore' = [umCore EXCEPT ![t] = [umCore[t] EXCEPT ![u] = c]]
  BY Zenon
<1>4. umCore' \in [Tags -> [Users -> Creds \cup {NoCred}]] /\ umCore'[t] = [umCore[t] EXCEPT ![u] = c]
      /\ \A s \in Tags \ {t} : umCore'[s] = umCore[s]
  BY <1>2, <1>3, Zenon
<1> QED  BY <1>2, <1>4, Zenon

\* HandlerRemoveUser in one inbound.
LEMMA UmRemoving ==
    ASSUME UmInv, NEW r \in Requests, UmRemove(r)
    PROVE  UmInv'
<1>1. umReq[r].pc = "remove" /\ umConn' = umConn /\ umGate' = umGate /\ umReq[r].pc \notin UmOutside
  BY Zenon DEF UmRemove, UmAt, UmOutside
<1>2. PICK b : b = umReq[r]
  BY Zenon
<1>3. /\ umGate = r /\ b \in UmRecs /\ UmKnows(r, b) /\ UmCurrent(r, b) = UmUser(r) /\ UmUser(r) \in Users
      /\ umConn \in [Users -> SUBSET IPs] /\ umCore \in [Tags -> [Users -> Creds \cup {NoCred}]] /\ UmAlike
  BY <1>1, <1>2, UmInside, Zenon
<1>4. /\ b.pc = "remove" /\ UmDrops(r, b) /\ (b.ok => b.userOK)
      /\ b.userOK => \A t \in Tags \ b.left : umCore[t][UmUser(r)] = NoCred
  BY <1>1, <1>2, <1>3, Zenon DEF UmKnows, UmProgress
<1>5. PICK t \in b.left, ok \in BOOLEAN, applied \in BOOLEAN :
        /\ ok => applied
        /\ umCore' = IF applied THEN [umCore EXCEPT ![t][UmUser(r)] = NoCred] ELSE umCore
        /\ umReq' = [umReq EXCEPT ![r] = [b EXCEPT !.left = @ \ {t}, !.ok = @ /\ ok, !.userOK = @ /\ ok]]
  BY <1>2, Zenon DEF UmRemove, UmSet
<1>6. PICK rec : rec = [b EXCEPT !.left = @ \ {t}, !.ok = @ /\ ok, !.userOK = @ /\ ok]
  BY Zenon
<1>7. /\ rec \in UmRecs /\ rec.pc = "remove" /\ rec.i = b.i /\ rec.left = b.left \ {t} /\ rec.ok = (b.ok /\ ok)
      /\ rec.userOK = (b.userOK /\ ok) /\ rec.plan = b.plan /\ rec.looked = b.looked /\ rec.seen = b.seen
  BY <1>3, <1>4, <1>6 DEF UmRecs
<1>8. t \in Tags
  BY <1>3, <1>5 DEF UmRecs
<1>9. /\ umCore' \in [Tags -> [Users -> Creds \cup {NoCred}]]
      /\ applied => umCore'[t][UmUser(r)] = NoCred
      /\ \A s \in Tags, v \in Users : umCore'[s][v] \in {umCore[s][v], NoCred}
      /\ \A s \in Tags, v \in Users : (s # t \/ v # UmUser(r)) => umCore'[s][v] = umCore[s][v]
  <2>1. CASE applied
    <3>1. umCore' = [umCore EXCEPT ![t][UmUser(r)] = NoCred] /\ NoCred \in Creds \cup {NoCred}
      BY <1>5, <2>1, Zenon
    <3>2. PICK w \in Users : w = UmUser(r)
      BY <1>3, Zenon
    <3>3. /\ umCore' \in [Tags -> [Users -> Creds \cup {NoCred}]] /\ umCore'[t][w] = NoCred
          /\ \A s \in Tags, v \in Users : (s # t \/ v # w) => umCore'[s][v] = umCore[s][v]
      BY <1>3, <1>8, <3>1, <3>2, UmWriting
    <3> QED  BY <3>2, <3>3, Zenon
  <2>2. CASE ~applied
    BY <1>3, <1>5, <2>2, Zenon
  <2> QED  BY <2>1, <2>2, Zenon
<1>10. UmAlike'
  BY <1>3, <1>9 DEF UmAlike
<1>11. \A u \in Users : UmAbsent(u) => UmAbsent(u)'
  BY <1>9, Zenon DEF UmAbsent
<1>12. UmCurrent(r, rec)' = UmUser(r)
  BY <1>3, <1>7, Zenon DEF UmCurrent
<1>13. UmProgress(r, rec)'
  <2>1. rec.userOK => \A s \in Tags \ rec.left : umCore'[s][UmUser(r)] = NoCred
    BY <1>3, <1>4, <1>5, <1>7, <1>8, <1>9, Zenon
  <2> QED  BY <1>4, <1>7, <1>12, <2>1, Zenon DEF UmProgress
<1>14. UmDrops(r, rec)'
  BY <1>1, <1>3, <1>4, <1>7, <1>11, <1>12, Zenon DEF UmDrops
<1>15. \A v \in Users \ {UmCurrent(r, b)}, s \in Tags : umCore'[s][v] = umCore[s][v]
  BY <1>3, <1>9, Zenon
<1>16. umReq' = [umReq EXCEPT ![r] = rec] /\ umGate' = r /\ umConn' \in [Users -> SUBSET IPs] /\ (rec.ok => b.ok)
  BY <1>1, <1>3, <1>5, <1>6, <1>7, Zenon
<1> QED  BY <1>2, <1>3, <1>4, <1>7, <1>9, <1>10, <1>13, <1>14, <1>15, <1>16, UmWorks


\* Every inbound was visited.
LEMMA UmCleaning ==
    ASSUME UmInv, NEW r \in Requests, UmRemoved(r)
    PROVE  UmInv'
<1>1. umReq[r].pc = "remove" /\ umReq[r].left = {} /\ umConn' = umConn /\ umCore' = umCore /\ umReq[r].pc \notin UmOutside
  BY Zenon DEF UmRemoved, UmAt, UmOutside
<1>2. PICK b : b = umReq[r]
  BY Zenon
<1>3. /\ umGate = r /\ b \in UmRecs /\ UmKnows(r, b) /\ UmCurrent(r, b) = UmUser(r) /\ UmUser(r) \in Users
      /\ b.i \in 1..Len(Form[r].users)
  BY <1>1, <1>2, UmInside, Zenon
<1>4. /\ umCore' \in [Tags -> [Users -> Creds \cup {NoCred}]] /\ umConn' \in [Users -> SUBSET IPs] /\ UmAlike'
  BY <1>1, UmStill, Zenon
<1>5. /\ b.pc = "remove" /\ UmDrops(r, b) /\ (b.ok => b.userOK) /\ b.looked \subseteq umConn[UmUser(r)]
      /\ b.userOK => UmAbsent(UmUser(r))
      /\ b.ok => \A u \in UmBehind(r, b) : UmServed(r, u)
  BY <1>1, <1>2, <1>3, Zenon DEF UmKnows, UmProgress, UmDrops, UmAbsent
<1>6. ~UmAdds(r) => \A ip \in b.plan : \E u \in Users : ip \in umConn[u] /\ UmAbsent(u)
  BY <1>5, Zenon DEF UmDrops
<1>7. CASE ~b.userOK /\ UmReturn(r, FALSE)
  BY <1>3, <1>4, <1>7, UmReturns, Zenon
<1>8. CASE ~b.userOK /\ umReq' = [umReq EXCEPT ![r] = UmNextUser(r, b)] /\ umGate' = umGate
  <2>1. ~b.ok /\ b.pc \notin {"drop", "answer"}
    BY <1>5, <1>8, Zenon
  <2> QED  BY <1>1, <1>3, <1>6, <1>8, <2>1, UmGoesOn, Zenon
<1>9. CASE b.userOK /\ UmAdds(r)
  <2>1. PICK rec : rec = [b EXCEPT !.pc = IF b.looked = {} THEN "add" ELSE "replace", !.left = Form[r].tags]
    BY Zenon
  <2>2. umReq' = [umReq EXCEPT ![r] = rec] /\ umGate' = r
    BY <1>2, <1>3, <1>9, <2>1, Zenon DEF UmRemoved, UmCleaned, UmSet
  <2>3. Form[r].tags \subseteq Tags /\ Form[r].cred \in Creds
    BY UmAsks, Zenon
  <2>4. /\ rec \in UmRecs /\ rec.pc \in {"add", "replace"} /\ rec.left = Form[r].tags /\ rec.i = b.i
        /\ rec.looked = b.looked /\ rec.ok = b.ok
    BY <1>3, <2>1, <2>3 DEF UmRecs
  <2>5. UmCurrent(r, rec)' = UmUser(r) /\ \A t \in Tags : umCore'[t][UmUser(r)] = NoCred
    BY <1>1, <1>3, <1>5, <1>9, <2>4, Zenon DEF UmCurrent, UmAbsent
  <2>6. UmProgress(r, rec)'
    BY <1>9, <2>3, <2>4, <2>5, Zenon DEF UmProgress, UmAbsent
  <2>7. UmDrops(r, rec)'
    BY <1>1, <1>3, <1>5, <1>9, <2>4, <2>5, Zenon DEF UmDrops
  <2> QED  BY <1>1, <1>2, <1>3, <1>4, <1>5, <2>2, <2>4, <2>6, <2>7, UmWorks, Zenon
<1>10. CASE b.userOK /\ ~UmAdds(r)
  <2>1. PICK rec : rec = [b EXCEPT !.plan = b.plan \cup b.looked]
    BY Zenon
  <2>2. umReq' = [umReq EXCEPT ![r] = UmNextUser(r, rec)] /\ umGate' = umGate
    BY <1>2, <1>3, <1>10, <2>1, Zenon DEF UmRemoved, UmCleaned, UmSet, UmPlanned
  <2>3. /\ rec \in UmRecs /\ rec.pc = "remove" /\ rec.i = b.i /\ rec.ok = b.ok /\ rec.seen = b.seen
        /\ rec.plan = b.plan \cup b.looked
    BY <1>3, <1>5, <2>1 DEF UmRecs
  <2>4. UmCurrent(r, rec) = UmUser(r) /\ UmBehind(r, rec) = UmBehind(r, b)
    BY <1>3, <1>5, <2>3, Zenon DEF UmCurrent, UmBehind
  <2>5. UmServed(r, UmUser(r))
    BY <1>5, <1>10, Zenon DEF UmServed, UmAbsent, UmWanted
  <2>6. \A ip \in rec.plan : \E u \in Users : ip \in umConn[u] /\ UmAbsent(u)
    BY <1>3, <1>5, <1>6, <1>10, <2>3, Zenon
  <2>7. rec.ok => \A s \in rec.seen : s[2] \in rec.plan
    BY <1>5, <1>10, <2>3, Zenon DEF UmDrops
  <2> QED  BY <1>1, <1>3, <1>5, <2>2, <2>3, <2>4, <2>5, <2>6, <2>7, UmGoesOn, Zenon
<1> QED  BY <1>2, <1>7, <1>8, <1>9, <1>10, Zenon DEF UmRemoved, UmCleaned, UmSet

\* Dropping takes addresses away, and only those named.
LEMMA UmDropping ==
    ASSUME umConn \in [Users -> SUBSET IPs], NEW ips, UmDropped(ips) \/ UNCHANGED umConn
    PROVE  umConn' \in [Users -> SUBSET IPs] /\ \A u \in Users : umConn[u] \ umConn'[u] \subseteq ips
<1>1. CASE UmDropped(ips)
  <2>1. \A u \in Users : umConn'[u] = umConn[u] \ (ips \ Whitelist)
    BY <1>1, Zenon DEF UmDropped
  <2>2. umConn' \in [Users -> SUBSET IPs]
    BY <1>1 DEF UmDropped
  <2> QED  BY <2>1, <2>2, Zenon
<1>2. CASE UNCHANGED umConn
  BY <1>2, Zenon
<1> QED  BY <1>1, <1>2, Zenon

\* AddUser drops the replaced user's connections.
LEMMA UmReplacing ==
    ASSUME UmInv, NEW r \in Requests, UmReplace(r)
    PROVE  UmInv'
<1>1. /\ umReq[r].pc = "replace" /\ umCore' = umCore /\ umGate' = umGate /\ umReq[r].pc \notin UmOutside
      /\ UmDropped(umReq[r].looked) \/ UNCHANGED umConn
  BY Zenon DEF UmReplace, UmAt, UmOutside
<1>2. PICK b : b = umReq[r]
  BY Zenon
<1>3. /\ umGate = r /\ b \in UmRecs /\ UmKnows(r, b) /\ UmCurrent(r, b) = UmUser(r) /\ UmUser(r) \in Users
      /\ umConn \in [Users -> SUBSET IPs] /\ umCore \in [Tags -> [Users -> Creds \cup {NoCred}]] /\ UmAlike
  BY <1>1, <1>2, UmInside, Zenon
<1>4. b.pc = "replace" /\ UmAbsent(UmUser(r)) /\ b.left = Form[r].tags /\ UmAdds(r)
  BY <1>1, <1>2, <1>3, Zenon DEF UmKnows, UmProgress
<1>5. umConn' \in [Users -> SUBSET IPs] /\ UmAlike'
  <2>1. PICK ips : ips = umReq[r].looked
    BY Zenon
  <2>2. umConn' \in [Users -> SUBSET IPs]
    BY <1>1, <1>3, <2>1, UmDropping, Zenon DEF UmDropped
  <2> QED  BY <1>1, <1>3, <2>2 DEF UmAlike
<1>6. PICK rec : rec = [b EXCEPT !.pc = "add"]
  BY Zenon
<1>7. umReq' = [umReq EXCEPT ![r] = rec] /\ umGate' = r
  BY <1>1, <1>2, <1>3, <1>6, Zenon DEF UmReplace, UmSet
<1>8. rec \in UmRecs /\ rec.pc = "add" /\ rec.left = b.left /\ rec.i = b.i /\ rec.ok = b.ok
  BY <1>3, <1>6 DEF UmRecs
<1>9. UmCurrent(r, rec)' = UmUser(r)
  BY <1>3, <1>8, Zenon DEF UmCurrent
<1>10. UmProgress(r, rec)'
  BY <1>1, <1>4, <1>8, <1>9, Zenon DEF UmProgress, UmAbsent
<1>11. UmDrops(r, rec)'
  BY <1>4, <1>8, Zenon DEF UmDrops
<1> QED  BY <1>1, <1>2, <1>3, <1>4, <1>5, <1>7, <1>8, <1>10, <1>11, UmWorks, Zenon

\* addSingleUser or addBatchUser in one inbound.
LEMMA UmAdding ==
    ASSUME UmInv, NEW r \in Requests, UmAdd(r)
    PROVE  UmInv'
<1>1. umReq[r].pc = "add" /\ umConn' = umConn /\ umGate' = umGate /\ umReq[r].pc \notin UmOutside
  BY Zenon DEF UmAdd, UmAt, UmOutside
<1>2. PICK b : b = umReq[r]
  BY Zenon
<1>3. /\ umGate = r /\ b \in UmRecs /\ UmKnows(r, b) /\ UmCurrent(r, b) = UmUser(r) /\ UmUser(r) \in Users
      /\ umConn \in [Users -> SUBSET IPs] /\ umCore \in [Tags -> [Users -> Creds \cup {NoCred}]] /\ UmAlike
  BY <1>1, <1>2, UmInside, Zenon
<1>4. /\ b.pc = "add" /\ UmAdds(r) /\ b.left \subseteq Form[r].tags
      /\ \A t \in Tags : umCore[t][UmUser(r)] \in {NoCred, Form[r].cred}
      /\ \A t \in Tags : t \in b.left \/ t \notin Form[r].tags => umCore[t][UmUser(r)] = NoCred
      /\ b.ok => \A t \in Form[r].tags \ b.left : umCore[t][UmUser(r)] = Form[r].cred
  BY <1>1, <1>2, <1>3, Zenon DEF UmKnows, UmProgress
<1>5. PICK t \in b.left, ok \in BOOLEAN, applied \in BOOLEAN :
        /\ ok => applied
        /\ umCore' = IF applied /\ umCore[t][UmUser(r)] = NoCred
                     THEN [umCore EXCEPT ![t][UmUser(r)] = Form[r].cred] ELSE umCore
        /\ umReq' = [umReq EXCEPT ![r] = [b EXCEPT !.left = @ \ {t}, !.ok = @ /\ ok]]
  BY <1>2, Zenon DEF UmAdd, UmSet
<1>6. PICK rec : rec = [b EXCEPT !.left = @ \ {t}, !.ok = @ /\ ok]
  BY Zenon
<1>7. /\ rec \in UmRecs /\ rec.pc = "add" /\ rec.i = b.i /\ rec.left = b.left \ {t} /\ rec.ok = (b.ok /\ ok)
  BY <1>3, <1>4, <1>6 DEF UmRecs
<1>8. t \in Tags /\ Form[r].cred \in Creds /\ Form[r].tags \subseteq Tags
  BY <1>3, <1>5, UmAsks DEF UmRecs
<1>9. /\ umCore' \in [Tags -> [Users -> Creds \cup {NoCred}]]
      /\ applied => umCore'[t][UmUser(r)] = Form[r].cred
      /\ umCore'[t][UmUser(r)] \in {NoCred, Form[r].cred}
      /\ \A s \in Tags, v \in Users : (s # t \/ v # UmUser(r)) => umCore'[s][v] = umCore[s][v]
  <2>1. umCore[t][UmUser(r)] = NoCred
    BY <1>4, <1>5, <1>8, Zenon
  <2>2. CASE applied
    <3>1. umCore' = [umCore EXCEPT ![t][UmUser(r)] = Form[r].cred] /\ Form[r].cred \in Creds \cup {NoCred}
      BY <1>5, <1>8, <2>1, <2>2, Zenon
    <3>2. PICK w \in Users : w = UmUser(r)
      BY <1>3, Zenon
    <3>3. /\ umCore' \in [Tags -> [Users -> Creds \cup {NoCred}]] /\ umCore'[t][w] = Form[r].cred
          /\ \A s \in Tags, v \in Users : (s # t \/ v # w) => umCore'[s][v] = umCore[s][v]
      BY <1>3, <1>8, <3>1, <3>2, UmWriting
    <3> QED  BY <3>2, <3>3, Zenon
  <2>3. CASE ~applied
    BY <1>3, <1>5, <2>1, <2>3, Zenon
  <2> QED  BY <2>2, <2>3, Zenon
<1>10. \A s \in Tags : umCore'[s][UmUser(r)] \in {NoCred, Form[r].cred}
  BY <1>3, <1>4, <1>9, Zenon
<1>11. UmAlike'
  <2>1. ASSUME NEW u \in Users, NEW s1 \in Tags, NEW s2 \in Tags
        PROVE  NoCred \in {umCore'[s1][u], umCore'[s2][u]} \/ umCore'[s1][u] = umCore'[s2][u]
    <3>1. CASE u = UmUser(r)
      BY <1>10, <3>1, Zenon
    <3>2. CASE u # UmUser(r)
      <4>1. umCore'[s1][u] = umCore[s1][u] /\ umCore'[s2][u] = umCore[s2][u]
        BY <1>3, <1>9, <3>2, Zenon
      <4> QED  BY <1>3, <4>1, Zenon DEF UmAlike
    <3> QED  BY <3>1, <3>2, Zenon
  <2> QED  BY <2>1, Zenon DEF UmAlike
<1>12. UmCurrent(r, rec)' = UmUser(r)
  BY <1>3, <1>7, Zenon DEF UmCurrent
<1>13. UmProgress(r, rec)'
  <2>1. \A s \in Tags : s \in rec.left \/ s \notin Form[r].tags => umCore'[s][UmUser(r)] = NoCred
    <3> SUFFICES ASSUME NEW s \in Tags, s \in rec.left \/ s \notin Form[r].tags PROVE umCore'[s][UmUser(r)] = NoCred
      BY Zenon
    <3>1. CASE s # t
      BY <1>3, <1>4, <1>7, <1>9, <3>1, Zenon
    <3>2. CASE s = t
      BY <1>4, <1>5, <1>7, <3>2, Zenon
    <3> QED  BY <3>1, <3>2, Zenon
  <2>2. rec.ok => \A s \in Form[r].tags \ rec.left : umCore'[s][UmUser(r)] = Form[r].cred
    BY <1>3, <1>4, <1>5, <1>7, <1>8, <1>9, Zenon
  <2>3. rec.left \subseteq Form[r].tags
    BY <1>4, <1>7, Zenon
  <2> QED  BY <1>4, <1>7, <1>10, <1>12, <2>1, <2>2, <2>3, Zenon DEF UmProgress
<1>14. UmDrops(r, rec)'
  BY <1>4, <1>7, Zenon DEF UmDrops
<1>15. \A v \in Users \ {UmCurrent(r, b)}, s \in Tags : umCore'[s][v] = umCore[s][v]
  BY <1>3, <1>9, Zenon
<1>16. umReq' = [umReq EXCEPT ![r] = rec] /\ umGate' = r /\ umConn' \in [Users -> SUBSET IPs] /\ (rec.ok => b.ok)
  BY <1>1, <1>3, <1>5, <1>6, <1>7, Zenon
<1> QED  BY <1>2, <1>3, <1>4, <1>7, <1>9, <1>11, <1>13, <1>14, <1>15, <1>16, UmWorks

\* The last inbound was added to.
LEMMA UmFinishing ==
    ASSUME UmInv, NEW r \in Requests, UmAdded(r)
    PROVE  UmInv'
<1>1. umReq[r].pc = "add" /\ umReq[r].left = {} /\ UNCHANGED <<umCore, umConn, umGate>> /\ umReq[r].pc \notin UmOutside
  BY Zenon DEF UmAdded, UmAt, UmOutside
<1>2. PICK b : b = umReq[r]
  BY Zenon
<1>3. /\ umGate = r /\ b \in UmRecs /\ UmKnows(r, b) /\ UmCurrent(r, b) = UmUser(r) /\ b.i \in 1..Len(Form[r].users)
  BY <1>1, <1>2, UmInside, Zenon
<1>4. /\ b.pc = "add" /\ UmAdds(r) /\ (b.ok => \A u \in UmBehind(r, b) : UmServed(r, u))
      /\ \A t \in Tags : t \notin Form[r].tags => umCore[t][UmCurrent(r, b)] = NoCred
      /\ b.ok => \A t \in Form[r].tags : umCore[t][UmCurrent(r, b)] = Form[r].cred
  BY <1>1, <1>2, <1>3, Zenon DEF UmKnows, UmProgress
<1>5. b.ok => UmServed(r, UmCurrent(r, b))
  BY <1>4, Zenon DEF UmServed, UmWanted
<1>6. umReq' = [umReq EXCEPT ![r] = UmNextUser(r, b)]
  BY <1>2, Zenon DEF UmAdded, UmSet
<1> QED  BY <1>1, <1>3, <1>4, <1>5, <1>6, UmGoesOn, Zenon

\* The ends: the drop and the response, the response alone, and an early end.
LEMMA UmEnding ==
    ASSUME UmInv, NEW r \in Requests, UmDrop(r) \/ UmAnswer(r) \/ UmStops(r)
    PROVE  UmInv'
<1>1. umReq[r].pc \notin UmOutside /\ umCore' = umCore
  BY Zenon DEF UmDrop, UmAnswer, UmStops, UmAt, UmOutside
<1>2. /\ umGate = r /\ umReq[r] \in UmRecs /\ umConn \in [Users -> SUBSET IPs] /\ UmAlike
      /\ umCore \in [Tags -> [Users -> Creds \cup {NoCred}]]
  BY <1>1, UmInside, Zenon
<1>3. umReq[r].ok \in BOOLEAN
  BY <1>2 DEF UmRecs
<1>4. umConn' \in [Users -> SUBSET IPs]
  <2>1. PICK ips : ips = umReq[r].plan
    BY Zenon
  <2>2. UmDropped(ips) \/ UNCHANGED umConn
    BY <2>1, Zenon DEF UmDrop, UmAnswer, UmStops, UmDropped
  <2> QED  BY <1>2, <2>2, UmDropping, Zenon
<1>5. UmAlike'
  BY <1>1, <1>2 DEF UmAlike
<1>6. PICK ok \in BOOLEAN : UmReturn(r, ok)
  BY <1>3 DEF UmDrop, UmAnswer, UmStops
<1> QED  BY <1>1, <1>2, <1>4, <1>5, <1>6, UmReturns, Zenon

\* A client connects: addresses are only added.
LEMMA UmConnecting ==
    ASSUME UmInv, NEW w \in Users, UmConnect(w)
    PROVE  UmInv'
<1>1. umCore' = umCore /\ umGate' = umGate /\ umReq' = umReq
  BY Zenon DEF UmConnect
<1>2. PICK ip \in IPs : umConn' = [umConn EXCEPT ![w] = @ \cup {ip}]
  BY Zenon DEF UmConnect
<1>3. /\ umConn \in [Users -> SUBSET IPs] /\ umCore \in [Tags -> [Users -> Creds \cup {NoCred}]]
      /\ umGate \in Requests \cup {"free"} /\ umReq \in [Requests -> UmRecs] /\ UmAlike
  BY Zenon DEF UmInv, UmTypeOK
<1>4. umConn' \in [Users -> SUBSET IPs] /\ \A u \in Users : umConn[u] \subseteq umConn'[u]
  BY <1>2, <1>3
<1>5. UmTypeOK' /\ UmAlike'
  <2>1. UmAlike'
    BY <1>1, <1>3 DEF UmAlike
  <2> QED  BY <1>1, <1>3, <1>4, <2>1, Zenon DEF UmTypeOK
<1>6. ASSUME NEW r \in Requests PROVE (umReq[r].pc \notin UmOutside <=> umGate = r)' /\ UmKnows(r, umReq[r])'
  <2>1. PICK b : b = umReq[r] /\ b = umReq'[r]
    BY <1>1, Zenon
  <2>2. UmKnows(r, b) /\ (umReq[r].pc \notin UmOutside <=> umGate = r)
    BY <2>1, Zenon DEF UmInv
  <2>3. CASE b.pc \in UmOutside
    BY <1>1, <2>1, <2>2, <2>3, Zenon DEF UmKnows
  <2>4. CASE b.pc \notin UmOutside
    <3>1. UmCurrent(r, b) \in Users
      BY <2>1, <2>4, UmInside, Zenon
    <3>2. \A u : (UmServed(r, u)' <=> UmServed(r, u)) /\ (UmAbsent(u)' <=> UmAbsent(u))
      BY <1>1, Zenon DEF UmServed, UmAbsent
    <3>3. UmBehind(r, b)' = UmBehind(r, b) /\ UmCurrent(r, b)' = UmCurrent(r, b)
      BY Zenon DEF UmBehind, UmCurrent
    <3>4. UmProgress(r, b)'
      BY <1>1, <2>2, <2>4, <3>2, <3>3 DEF UmKnows, UmProgress
    <3>5. UmDrops(r, b)'
      <4>1. UmDrops(r, b)
        BY <2>2, <2>4, Zenon DEF UmKnows
      <4> QED  BY <1>4, <3>1, <3>2, <3>3, <4>1, Zenon DEF UmDrops
    <3>6. UmKnows(r, b)'
      BY <2>2, <2>4, <3>2, <3>3, <3>4, <3>5, Zenon DEF UmKnows
    <3>a. umReq'[r] = b
      BY <2>1, Zenon
    <3>7. UmKnows(r, umReq[r])' <=> UmKnows(r, b)'
      BY <3>a, Zenon DEF UmKnows, UmProgress, UmDrops, UmBehind, UmCurrent, UmServed, UmAbsent
    <3> QED  BY <1>1, <2>1, <2>2, <3>6, <3>7, Zenon
  <2> QED  BY <2>3, <2>4, Zenon
<1> QED  BY <1>5, <1>6, Zenon DEF UmInv

\* Every step keeps the invariant.
LEMMA UmInvNext == UmInv /\ [UmNext]_umVars => UmInv'
<1> SUFFICES ASSUME UmInv, [UmNext]_umVars PROVE UmInv'
  BY Zenon
<1>1. CASE UNCHANGED umVars
  <2>1. umCore' = umCore /\ umConn' = umConn /\ umGate' = umGate /\ umReq' = umReq
    BY <1>1, Zenon DEF umVars
  <2>2. UmTypeOK' /\ UmAlike'
    BY <2>1, UmStill, Zenon DEF UmInv, UmTypeOK
  <2>3. \A r \in Requests : UmKnows(r, umReq[r])'
    BY <2>1, UmSame, Zenon DEF UmInv
  <2> QED  BY <2>1, <2>2, <2>3, Zenon DEF UmInv
<1>2. ASSUME NEW r \in Requests, UmArrive(r) \/ UmStep(r) \/ UmStops(r) \/ UmExpire(r) PROVE UmInv'
  BY <1>2, UmWaiting, UmAcquiring, UmLooking, UmRemoving, UmCleaning, UmReplacing, UmAdding, UmFinishing, UmEnding,
     Zenon DEF UmStep
<1> QED  BY <1>1, <1>2, UmConnecting, Zenon DEF UmNext

\* A request succeeds by the drop, by the plain answer, or because it named nobody.
LEMMA UmSucceeding ==
    ASSUME UmInv, UmNext, NEW r \in Requests, UmSucceeds(r)
    PROVE  \/ umReq[r].pc = "new" /\ Form[r].users = <<>>
           \/ umReq[r].pc = "drop" /\ umReq[r].ok /\ UmDropped(umReq[r].plan) /\ umCore' = umCore
           \/ umReq[r].pc = "answer" /\ umReq[r].ok /\ umCore' = umCore
<1>1. umReq \in [Requests -> UmRecs] /\ umReq[r] \in UmRecs
  BY Zenon DEF UmInv, UmTypeOK
<1>2. umReq'[r] # umReq[r] /\ umReq'[r].pc = "done" /\ umReq'[r].ok /\ umReq[r].pc # "done"
  BY Zenon DEF UmSucceeds
<1>3. ~UmReturn(r, FALSE)
  <2>1. [UmFresh EXCEPT !.pc = "done", !.ok = FALSE].ok = FALSE
    BY UmShapes
  <2> QED  BY <1>1, <1>2, <2>1, Zenon DEF UmReturn, UmSet
<1>4. \A rec : UmSet(r, rec) => umReq'[r] = rec
  BY <1>1, Zenon DEF UmSet
<1>5. ASSUME NEW q \in Requests, NEW rec, UmSet(q, rec) PROVE q = r
  BY <1>1, <1>2, <1>5, Zenon DEF UmSet
<1>6. \A rec \in UmRecs : UmNextUser(r, rec).pc # "done"
  <2> SUFFICES ASSUME NEW rec \in UmRecs PROVE UmNextUser(r, rec).pc # "done"
    BY Zenon
  <2>1. CASE rec.i < Len(Form[r].users)
    <3>1. rec.i + 1 \in Nat \ {0}
      BY DEF UmRecs
    <3>2. UmEnterUser(r, rec, rec.i + 1).pc \in {"remove", "lookup"}
      BY <3>1, UmEnters
    <3> QED  BY <2>1, <3>2, Zenon DEF UmNextUser
  <2>2. CASE ~(rec.i < Len(Form[r].users))
    <3>1. [rec EXCEPT !.pc = IF UmAdds(r) THEN "answer" ELSE "drop"].pc # "done"
      BY DEF UmRecs
    <3> QED  BY <2>2, <3>1, Zenon DEF UmNextUser
  <2> QED  BY <2>1, <2>2, Zenon
<1>7. ASSUME NEW q \in Requests, UmArrive(q) \/ UmStep(q) \/ UmStops(q) \/ UmExpire(q) PROVE q = r
  BY <1>5, <1>7, Zenon DEF UmStep, UmArrive, UmStops, UmExpire, UmReturn, UmAcquire, UmGiveUp, UmLookup, UmLookupFails,
     UmRemove, UmRemoved, UmReplace, UmAdd, UmAdded, UmDrop, UmAnswer
<1>8. UmArrive(r) \/ UmStep(r) \/ UmStops(r) \/ UmExpire(r)
  <2>1. \A u \in Users : ~UmConnect(u)
    BY <1>2, Zenon DEF UmConnect
  <2> QED  BY <1>7, <2>1, Zenon DEF UmNext
<1>9. CASE UmArrive(r)
  <2>1. umReq[r].pc = "new"
    BY <1>9, Zenon DEF UmArrive, UmAt
  <2>2. [umReq[r] EXCEPT !.pc = "gate"].pc = "gate"
    BY <1>1 DEF UmRecs
  <2> QED  BY <1>2, <1>4, <1>9, <2>1, <2>2, Zenon DEF UmArrive
<1>10. ~UmStops(r) /\ ~UmExpire(r) /\ ~UmGiveUp(r)
  <2>1. [umReq[r] EXCEPT !.live = FALSE].pc = umReq[r].pc /\ ~[umReq[r] EXCEPT !.pc = "done", !.ok = FALSE].ok
    BY <1>1 DEF UmRecs
  <2> QED  BY <1>2, <1>3, <1>4, <2>1, Zenon DEF UmStops, UmExpire, UmGiveUp
<1>11. ~UmAcquire(r)
  <2>1. UmEnterUser(r, umReq[r], 1).pc # "done"
    <3>1. 1 \in Nat \ {0}
      OBVIOUS
    <3> QED  BY <1>1, <3>1, UmEnters
  <2> QED  BY <1>2, <1>3, <1>4, <2>1, Zenon DEF UmAcquire
<1>12. ~UmLookup(r) /\ ~UmLookupFails(r)
  <2>1. ASSUME NEW x PROVE [UmPlan(r, umReq[r]) EXCEPT !.seen = @ \cup x].pc = "remove"
    BY <1>1 DEF UmRecs, UmPlan
  <2>2. [umReq[r] EXCEPT !.pc = "remove", !.looked = {}].pc = "remove" /\ [umReq[r] EXCEPT !.ok = FALSE] \in UmRecs
    BY <1>1 DEF UmRecs
  <2>3. ~UmLookup(r)
    BY <1>2, <1>4, <2>1, Zenon DEF UmLookup
  <2>4. ~UmLookupFails(r)
    BY <1>2, <1>3, <1>4, <1>6, <2>2 DEF UmLookupFails
  <2> QED  BY <2>3, <2>4, Zenon
<1>13. ~UmRemove(r) /\ ~UmAdd(r) /\ ~UmReplace(r)
  <2>1. [umReq[r] EXCEPT !.pc = "add"].pc = "add"
    BY <1>1 DEF UmRecs
  <2>3. ~UmRemove(r)
    <3> SUFFICES ASSUME UmRemove(r) PROVE FALSE
      BY Zenon
    <3>1. PICK t \in umReq[r].left, ok \in BOOLEAN :
             UmSet(r, [umReq[r] EXCEPT !.left = @ \ {t}, !.ok = @ /\ ok, !.userOK = @ /\ ok])
      BY Zenon DEF UmRemove
    <3>2. umReq'[r] = [umReq[r] EXCEPT !.left = @ \ {t}, !.ok = @ /\ ok, !.userOK = @ /\ ok]
      BY <1>4, <3>1, Zenon
    <3> QED  BY <1>1, <1>2, <3>2 DEF UmRecs
  <2>4. ~UmAdd(r)
    <3> SUFFICES ASSUME UmAdd(r) PROVE FALSE
      BY Zenon
    <3>1. PICK t \in umReq[r].left, ok \in BOOLEAN : UmSet(r, [umReq[r] EXCEPT !.left = @ \ {t}, !.ok = @ /\ ok])
      BY Zenon DEF UmAdd
    <3>2. umReq'[r] = [umReq[r] EXCEPT !.left = @ \ {t}, !.ok = @ /\ ok]
      BY <1>4, <3>1, Zenon
    <3> QED  BY <1>1, <1>2, <3>2 DEF UmRecs
  <2> QED  BY <1>2, <1>4, <2>1, <2>3, <2>4, Zenon DEF UmReplace
<1>14. ~UmRemoved(r) /\ ~UmAdded(r)
  <2>1. [umReq[r] EXCEPT !.plan = UmPlanned(umReq[r])] \in UmRecs
    BY <1>1 DEF UmRecs, UmPlanned
  <2>2. [umReq[r] EXCEPT !.pc = IF umReq[r].looked = {} THEN "add" ELSE "replace", !.left = Form[r].tags].pc # "done"
    BY <1>1 DEF UmRecs
  <2>3. ~UmAdded(r)
    BY <1>1, <1>2, <1>4, <1>6, Zenon DEF UmAdded
  <2>4. ~UmRemoved(r)
    BY <1>1, <1>2, <1>3, <1>4, <1>6, <2>1, <2>2, Zenon DEF UmRemoved
  <2> QED  BY <2>3, <2>4, Zenon
<1>15. \A ok \in BOOLEAN : UmReturn(r, ok) => ok
  BY <1>2, <1>4, UmShapes DEF UmReturn
<1>16. CASE UmAnswer(r)
  <2>1. umReq[r].ok \in BOOLEAN
    BY <1>1 DEF UmRecs
  <2> QED  BY <1>15, <1>16, <2>1, Zenon DEF UmAnswer, UmAt
<1>17. CASE UmDrop(r)
  <2>1. umReq[r].ok \in BOOLEAN
    BY <1>1 DEF UmRecs
  <2>2. PICK ok \in BOOLEAN : /\ IF ok THEN UmDropped(umReq[r].plan) ELSE UNCHANGED umConn
                              /\ UmReturn(r, umReq[r].ok /\ ok)
    BY <1>17, Zenon DEF UmDrop
  <2>3. umReq[r].ok /\ ok
    BY <1>15, <2>1, <2>2
  <2> QED  BY <1>17, <2>2, <2>3, Zenon DEF UmDrop, UmAt
<1> QED  BY <1>8, <1>9, <1>10, <1>11, <1>12, <1>13, <1>14, <1>16, <1>17, Zenon DEF UmStep

\* A connection is lost in the drop of a removal, or in the one of a replacement.
LEMMA UmLosing ==
    ASSUME UmInv, UmNext, NEW ip \in IPs, NEW v \in Users, ip \in umConn[v] \ umConn'[v]
    PROVE  \E u \in Users : ip \in umConn[u] /\ UmAbsent(u)
<1>1. umConn \in [Users -> SUBSET IPs] /\ umConn' # umConn
  BY Zenon DEF UmInv, UmTypeOK
<1>2. ASSUME NEW w \in Users, UmConnect(w) PROVE FALSE
  <2>1. PICK x \in IPs : umConn' = [umConn EXCEPT ![w] = @ \cup {x}]
    BY <1>2, Zenon DEF UmConnect
  <2> QED  BY <1>1, <2>1
<1>3. PICK r \in Requests : UmArrive(r) \/ UmStep(r) \/ UmStops(r) \/ UmExpire(r)
  BY <1>2, Zenon DEF UmNext
<1>4. UmReplace(r) \/ UmDrop(r)
  BY <1>1, <1>3, Zenon DEF UmStep, UmArrive, UmStops, UmExpire, UmReturn, UmAcquire, UmGiveUp, UmLookup, UmLookupFails,
     UmRemove, UmRemoved, UmAdd, UmAdded, UmAnswer
<1>5. umReq[r].pc \in {"replace", "drop"} /\ umReq[r].pc \notin UmOutside
  BY <1>4, Zenon DEF UmReplace, UmDrop, UmAt, UmOutside
<1>6. UmKnows(r, umReq[r]) /\ UmUser(r) \in Users /\ UmCurrent(r, umReq[r]) = UmUser(r)
  BY <1>5, UmInside, Zenon
<1>7. UmProgress(r, umReq[r]) /\ UmDrops(r, umReq[r])
  BY <1>5, <1>6, Zenon DEF UmKnows
<1>8. CASE UmReplace(r)
  <2>1. PICK ips : ips = umReq[r].looked
    BY Zenon
  <2>2. (UmDropped(ips) \/ UNCHANGED umConn) /\ umReq[r].pc = "replace"
    BY <1>8, <2>1, Zenon DEF UmReplace, UmDropped, UmAt
  <2>3. ip \in ips
    BY <1>1, <2>2, UmDropping, Zenon
  <2> QED  BY <1>6, <1>7, <2>1, <2>2, <2>3, Zenon DEF UmProgress, UmDrops
<1>9. CASE UmDrop(r)
  <2>1. PICK ips : ips = umReq[r].plan
    BY Zenon
  <2>2. (UmDropped(ips) \/ UNCHANGED umConn) /\ umReq[r].pc = "drop"
    BY <1>9, <2>1, Zenon DEF UmDrop, UmDropped, UmAt
  <2>3. ip \in ips
    BY <1>1, <2>2, UmDropping, Zenon
  <2> QED  BY <1>7, <2>1, <2>2, <2>3, Zenon DEF UmProgress, UmDrops
<1> QED  BY <1>4, <1>8, <1>9, Zenon

\* The four mutation handlers keep their promise: no user has two credentials in
\* rw-core, a success is in force for every user and inbound named, connections
\* are dropped for removed users only, and a removal that succeeds has dropped
\* every connection it had seen.
THEOREM MutationsAreApplied == UmSpec => UmPromise
<1>1. UmInit => UmInv
  <2> SUFFICES ASSUME UmInit PROVE UmInv
    BY Zenon
  <2>1. PICK c \in Creds \cup {NoCred} : umCore = [t \in Tags |-> [u \in Users |-> c]]
    BY Zenon DEF UmInit
  <2>2. umCore \in [Tags -> [Users -> Creds \cup {NoCred}]] /\ UmAlike
    BY <2>1, Zenon DEF UmAlike
  <2>3. UmFresh \in UmRecs /\ UmFresh.pc = "new" /\ UmFresh.seen = {} /\ UmFresh.plan = {} /\ UmFresh.ok
    BY UmShapes
  <2>4. /\ umConn \in [Users -> SUBSET IPs] /\ umGate = "free" /\ umReq \in [Requests -> UmRecs]
        /\ \A r \in Requests : umReq[r] = UmFresh
    BY <2>3 DEF UmInit
  <2>5. ASSUME NEW r \in Requests PROVE (umReq[r].pc \notin UmOutside <=> umGate = r) /\ UmKnows(r, umReq[r])
    <3>1. r # "free"
      BY UmAsks
    <3> QED  BY <2>3, <2>4, <3>1 DEF UmOutside, UmKnows
  <2> QED  BY <2>2, <2>4, <2>5, Zenon DEF UmInv, UmTypeOK
<1>2. UmInv => UmOneCredential
  <2> SUFFICES ASSUME UmInv, NEW u \in Users PROVE Cardinality({umCore[t][u] : t \in Tags} \ {NoCred}) <= 1
    BY Zenon DEF UmOneCredential
  <2> DEFINE S == {umCore[t][u] : t \in Tags} \ {NoCred}
  <2>1. \A x, y \in S : x = y
    BY Zenon DEF UmInv, UmAlike
  <2>2. CASE S = {}
    BY <2>2, FS_EmptySet
  <2>3. CASE S # {}
    <3>1. PICK x : S = {x}
      BY <2>1, <2>3, Zenon
    <3> HIDE DEF S
    <3>2. Cardinality(S) = 1
      BY <3>1, FS_Singleton
    <3> QED  BY <3>2 DEF S
  <2> QED  BY <2>2, <2>3, Zenon
<1>3. UmInv /\ [UmNext]_umVars =>
        [\A r \in Requests : UmSucceeds(r) =>
           \A i \in 1..Len(Form[r].users), t \in Tags :
               umCore'[t][Form[r].users[i]] = IF UmAdds(r) /\ t \in Form[r].tags THEN Form[r].cred ELSE NoCred]_umVars
  <2> SUFFICES ASSUME UmInv, UmNext, NEW r \in Requests, UmSucceeds(r), NEW i \in 1..Len(Form[r].users), NEW t \in Tags
               PROVE  umCore'[t][Form[r].users[i]] = UmWanted(r, t)
    BY Zenon DEF UmWanted
  <2>1. CASE Form[r].users = <<>>
    BY <2>1
  <2>2. CASE umReq[r].pc \in {"drop", "answer"} /\ umReq[r].ok /\ umCore' = umCore
    <3>1. \A u \in UmBehind(r, umReq[r]) : UmServed(r, u)
      BY <2>2, Zenon DEF UmInv, UmKnows, UmOutside
    <3>2. Form[r].users[i] \in UmBehind(r, umReq[r])
      BY <2>2, Zenon DEF UmBehind
    <3> QED  BY <2>2, <3>1, <3>2, Zenon DEF UmServed
  <2> QED  BY <2>1, <2>2, UmSucceeding, Zenon
<1>4. UmInv /\ [UmNext]_umVars =>
        [\A ip \in IPs : (\E u \in Users : ip \in umConn[u] \ umConn'[u]) =>
           \E u \in Users : ip \in umConn[u] /\ \A t \in Tags : umCore[t][u] = NoCred]_umVars
  BY UmLosing, Zenon DEF UmAbsent
<1>5. UmInv /\ [UmNext]_umVars =>
        [\A r \in Requests : UmSucceeds(r) /\ ~UmAdds(r) =>
           \A s \in umReq[r].seen : s[2] \in umConn'[s[1]] => s[2] \in Whitelist]_umVars
  <2> SUFFICES ASSUME UmInv, UmNext, NEW r \in Requests, UmSucceeds(r), ~UmAdds(r), NEW s \in umReq[r].seen,
                      s[2] \in umConn'[s[1]]
               PROVE  s[2] \in Whitelist
    BY Zenon
  <2>1. umReq[r] \in UmRecs /\ UmKnows(r, umReq[r])
    BY Zenon DEF UmInv, UmTypeOK
  <2>2. s[1] \in Users
    BY <2>1 DEF UmRecs
  <2>3. umReq[r].pc # "new"
    BY <2>1, Zenon DEF UmKnows
  <2>4. CASE umReq[r].pc = "drop" /\ umReq[r].ok /\ UmDropped(umReq[r].plan)
    <3>1. s[2] \in umReq[r].plan
      BY <2>1, <2>4, Zenon DEF UmKnows, UmOutside, UmDrops
    <3>2. umConn'[s[1]] = umConn[s[1]] \ (umReq[r].plan \ Whitelist)
      BY <2>2, <2>4, Zenon DEF UmDropped
    <3> QED  BY <3>1, <3>2, Zenon
  <2>5. umReq[r].pc # "answer"
    BY <2>1, Zenon DEF UmKnows, UmOutside, UmProgress
  <2> QED  BY <2>3, <2>4, <2>5, UmSucceeding, Zenon
<1> QED  BY <1>1, <1>2, <1>3, <1>4, <1>5, UmInvNext, PTL
         DEF UmSpec, UmPromise, UmSuccessIsApplied, UmDropFollowsRemoval, UmSuccessDrops

=============================================================================

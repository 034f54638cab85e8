--------------------------- MODULE ConnectionDrop ---------------------------
(***************************************************************************)
(* Dropping client connections (internal/connections/dropper.go) through   *)
(* the kernel's socket diagnostics (internal/netadmin/kill_linux.go): the  *)
(* choice of targets, one streaming dump per address family, and one       *)
(* SOCK_DESTROY per matching record, while clients come and go.            *)
(*                                                                         *)
(* A spelling of an address is [addr, form]: plain, IPv4-mapped, scoped or *)
(* not an address at all.  A socket has a family and a remote spelling.    *)
(***************************************************************************)
EXTENDS Naturals, Sequences, FiniteSets

CONSTANTS Addrs,       \* canonical addresses
          Protected,   \* loopback, multicast, link-local, unspecified, broadcast
          Whitelisted, \* spellings isWhitelisted accepts
          LocalSets,   \* address sets the interfaces may have
          Socks,       \* sockets: [fam : {4, 6}, local, peer : spelling]
          Lists,       \* users' address lists a call may be given (sets of spellings)
          MaxBatch     \* bound: records of one netlink datagram

CdSpellings == [addr : Addrs, form : {"plain", "mapped", "scoped", "invalid"}]

ASSUME CdAssumption ==
    /\ Protected \cup UNION LocalSets \subseteq Addrs /\ MaxBatch \in Nat \ {0}
    /\ Lists \subseteq SUBSET CdSpellings
    /\ Socks \subseteq [fam : {4, 6}, local : CdSpellings, peer : CdSpellings]

VARIABLES cdOpen,    \* connected sockets
          cdLocal,   \* addresses of the host's interfaces
          cdCall     \* the DropUsers / DropIPs call

cdVars == <<cdOpen, cdLocal, cdCall>>

CdInit ==
    /\ cdOpen \in SUBSET Socks
    /\ cdLocal \in LocalSets
    /\ \E l \in Lists :
        cdCall = [pc |-> "users", given |-> l, raws |-> {}, ok |-> TRUE, targets |-> {},
                  start |-> {}, fam |-> 6, todo |-> {}, packet |-> <<>>,
                  last |-> FALSE]

CdSet(rec) == cdCall' = rec
CdReturn(ok) == CdSet([cdCall EXCEPT !.pc = "done", !.ok = ok])

\* Unmap: the canonical form of a spelling.
CdUnmap(s) == [s EXCEPT !.form = IF @ = "mapped" THEN "plain" ELSE @]

-----------------------------------------------------------------------------
\* DropUsers: a failed lookup is reported at the end; the others still count.
CdDropUsers ==
    /\ cdCall.pc = "users"
    /\ \E failed \in SUBSET cdCall.given :
        LET raws == cdCall.given \ failed IN
        CdSet([cdCall EXCEPT !.ok = failed = {}, !.raws = raws,
                             !.pc = IF raws = {} THEN "done" ELSE "ips"])
    /\ UNCHANGED <<cdOpen, cdLocal>>

\* Mutant: only the spelling given is looked up in the whitelist.
CdWhiteRaw(s) == s \in Whitelisted

CdWhite(s) == s \in Whitelisted \/ CdUnmap(s) \in Whitelisted

CdValid(s) == s.form \in {"plain", "mapped"}

CdIsProtected(a) == a \in Protected \cup cdLocal

\* DropIPs: what is left to kill, and whether anything was refused.
CdRefused(raws) == {s \in raws : ~CdValid(s) \/ (~CdWhite(s) /\ CdIsProtected(s.addr))}
CdTargets(raws) ==
    {s.addr : s \in {x \in raws : CdValid(x) /\ ~CdWhite(x) /\ ~CdIsProtected(x.addr)}}

\* refreshLocalIPs may fail; without CAP_NET_ADMIN nothing can be killed.
CdDropIPs ==
    /\ cdCall.pc = "ips"
    /\ LET ok == cdCall.ok /\ CdRefused(cdCall.raws) = {}
           targets == CdTargets(cdCall.raws) IN
       \/ CdReturn(FALSE)
       \/ /\ targets = {}
          /\ CdReturn(ok)
       \/ /\ targets # {}
          /\ CdSet([cdCall EXCEPT !.pc = "request", !.ok = ok, !.targets = targets,
                                  !.start = cdOpen])
    /\ UNCHANGED <<cdOpen, cdLocal>>

-----------------------------------------------------------------------------
\* killSocketsByTargets: AF_INET6 first, then AF_INET.

\* The dump request: the kernel walks the sockets of one family.
CdRequest ==
    /\ cdCall.pc = "request"
    /\ CdSet([cdCall EXCEPT !.pc = "receive", !.todo = {s \in cdOpen : s.fam = cdCall.fam}])
    /\ UNCHANGED <<cdOpen, cdLocal>>

\* A datagram: records, then perhaps the completion.  An interrupted dump
\* leaves sockets out and flags its messages.
CdDatagrams ==
    {[recs |-> recs, done |-> done, intr |-> intr] :
        recs \in UNION {[1..n -> cdCall.todo] : n \in 0..MaxBatch}, done, intr \in BOOLEAN}

CdGenuine(d) ==
    /\ \A i, j \in 1..Len(d.recs) : d.recs[i] = d.recs[j] => i = j
    /\ d.done \/ d.recs # <<>>
    /\ d.done => d.intr \/ {d.recs[i] : i \in 1..Len(d.recs)} = cdCall.todo

CdIntact(d) == ~d.intr

CdReceive ==
    /\ cdCall.pc = "receive"
    /\ \E d \in {x \in CdDatagrams : CdGenuine(x)} :
        IF CdIntact(d)
        THEN CdSet([cdCall EXCEPT !.pc = "walk", !.packet = d.recs, !.last = d.done,
                                  !.todo = @ \ {d.recs[i] : i \in 1..Len(d.recs)}])
        ELSE CdReturn(FALSE)
    /\ UNCHANGED <<cdOpen, cdLocal>>

\* Either end of a connection may be the address asked for.
CdMatches(s) == \E end \in {s.local, s.peer} : CdUnmap(end).addr \in cdCall.targets

\* walkNetlinkMessages, parseInetDiagSocket: records of no target are skipped.
CdSkip ==
    /\ cdCall.pc = "walk" /\ cdCall.packet # <<>>
    /\ ~CdMatches(Head(cdCall.packet))
    /\ CdSet([cdCall EXCEPT !.packet = Tail(@)])
    /\ UNCHANGED <<cdOpen, cdLocal>>

\* destroyInetDiagSocket and its ACK: success, or ENOENT when the socket is
\* gone already, or an error.  The reply arrives on a transport of its own,
\* so the rest of the dump's datagram stays in its buffer.
CdDestroy ==
    /\ cdCall.pc = "walk" /\ cdCall.packet # <<>>
    /\ CdMatches(Head(cdCall.packet))
    /\ \/ /\ cdOpen' = cdOpen \ {Head(cdCall.packet)}
          /\ CdSet([cdCall EXCEPT !.packet = Tail(@)])
       \/ UNCHANGED cdOpen /\ CdReturn(FALSE)
    /\ UNCHANGED cdLocal

\* End of a datagram without completion.
CdMore ==
    /\ cdCall.pc = "walk" /\ cdCall.packet = <<>> /\ ~cdCall.last
    /\ CdSet([cdCall EXCEPT !.pc = "receive"])
    /\ UNCHANGED <<cdOpen, cdLocal>>

\* Completion of a family's dump.
CdDone ==
    /\ cdCall.pc = "walk" /\ cdCall.packet = <<>> /\ cdCall.last
    /\ IF cdCall.fam = 6 THEN CdSet([cdCall EXCEPT !.pc = "request", !.fam = 4])
       ELSE CdReturn(cdCall.ok)
    /\ UNCHANGED <<cdOpen, cdLocal>>

\* The context ends, a send or receive fails, a malformed message.
CdFails ==
    /\ cdCall.pc \in {"request", "receive", "walk"}
    /\ CdReturn(FALSE)
    /\ UNCHANGED <<cdOpen, cdLocal>>

\* Clients close connections.
CdClientCloses ==
    /\ cdCall.pc # "done"
    /\ \E s \in cdOpen : cdOpen' = cdOpen \ {s}
    /\ UNCHANGED <<cdLocal, cdCall>>

CdNext == CdDropUsers \/ CdDropIPs \/ CdRequest \/ CdReceive \/ CdSkip \/ CdDestroy
          \/ CdMore \/ CdDone \/ CdFails \/ CdClientCloses

CdSpec == CdInit /\ [][CdNext]_cdVars

-----------------------------------------------------------------------------
\* A reported success is complete: every address of the request is either
\* whitelisted, or is an ordinary address none of whose connections, of either
\* family and any spelling, that were open when the dump began, is still open.
CdSuccessIsComplete ==
    cdCall.pc = "done" /\ cdCall.ok =>
        \A s \in cdCall.given :
            \/ s \in Whitelisted \/ [s EXCEPT !.form = "plain"] \in Whitelisted
            \/ /\ s.form \in {"plain", "mapped"} /\ s.addr \notin Protected \cup cdLocal
               /\ \A k \in cdOpen \cap cdCall.start : s.addr \notin {k.local.addr, k.peer.addr}

\* What DropIPs may close: an end of a destroyed socket was asked for, in some
\* spelling, is not an address of the host or otherwise protected, and is not
\* whitelisted.
CdOnlyRequested ==
    [][\A k \in cdOpen \ cdOpen' : cdCall' = cdCall \/
         \E a \in {k.local.addr, k.peer.addr} :
           /\ a \in {s.addr : s \in cdCall.given} \ (Protected \cup cdLocal)
           /\ [addr |-> a, form |-> "plain"] \notin Whitelisted]_cdVars

\* What DropIPs promises: everything it was asked for, and nothing else.
CdPromise ==
    /\ []CdSuccessIsComplete
    /\ CdOnlyRequested

-----------------------------------------------------------------------------
(* The inductive invariant behind CdPromise *)

CdCalls ==
    [pc : {"users", "ips", "request", "receive", "walk", "done"}, given : SUBSET CdSpellings,
     raws : SUBSET CdSpellings, ok : BOOLEAN, targets : SUBSET Addrs, start : SUBSET Socks, fam : {4, 6},
     todo : SUBSET Socks, packet : Seq(Socks), last : BOOLEAN]
CdTypeOK == cdOpen \subseteq Socks /\ cdLocal \in LocalSets /\ cdCall \in CdCalls

\* Whom the dump is for, and what a success so far says about the request.
CdKilling == cdCall.pc \in {"request", "receive", "walk"}
CdChosen ==
    /\ cdCall.raws \subseteq cdCall.given
    /\ cdCall.pc # "users" /\ cdCall.ok => cdCall.raws = cdCall.given
    /\ cdCall.pc \in {"users", "ips"} => cdCall.fam = 6
    /\ CdKilling =>
        /\ cdCall.targets = CdTargets(cdCall.raws)
        /\ cdCall.ok => CdRefused(cdCall.raws) = {}

\* Where a connection to be closed still is: in a dump to come, in what the
\* kernel has yet to send, or in the datagram at hand.
CdAhead(k) ==
    \/ cdCall.fam = 6 /\ k.fam = 4
    \/ /\ k.fam = cdCall.fam
       /\ \/ cdCall.pc = "request"
          \/ k \in cdCall.todo
          \/ cdCall.pc = "walk" /\ \E i \in 1..Len(cdCall.packet) : k = cdCall.packet[i]
CdNoneMissed ==
    CdKilling =>
        /\ \A k \in cdOpen \cap cdCall.start : CdMatches(k) => CdAhead(k)
        /\ cdCall.pc = "walk" /\ cdCall.last => cdCall.todo = {}

CdInv == CdTypeOK /\ CdChosen /\ CdNoneMissed /\ CdSuccessIsComplete
=============================================================================

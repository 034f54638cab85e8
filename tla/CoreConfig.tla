----------------------------- MODULE CoreConfig -----------------------------
(* The configuration a Start gives to rw-core and the hash state it keeps of *)
(* it (internal/xray/apiconfig.go, hashstate.go, hashedset.go).  A rule, an  *)
(* inbound or an outbound is a record of what the code looks at; a 32-bit    *)
(* hash word is the set of its one bits, so XOR is symmetric difference.     *)
EXTENDS Integers, Sequences, SequencesExt, FiniteSetsExt

CONSTANTS
    CcConfigs,      \* xrayConfig objects
    CcOptions,      \* torrent blocker options
    CcReports,      \* the hashes a Panel may send
    CcIds, CcTags,  \* client ids and inbound tags
    CcWord          \* id -> its hash word (djb2Dual)

VARIABLES
    ccIn, ccOpt,    \* what the last Start was given
    ccOut,          \* what it produced
    ccHash          \* the hash state: [empty, sets : tag -> [members, word]]

ccVars == <<ccIn, ccOpt, ccOut, ccHash>>

CcArrayFrom(value) == IF value.array THEN value.items ELSE <<>>

CcApiInbound == [object |-> TRUE, tag |-> "API_INBOUND", clients |-> FALSE, ids |-> <<>>]
CcApiRule == [object |-> TRUE, to |-> "API", tag |-> "", hook |-> FALSE]
CcBlackhole == "RW_TB_OUTBOUND_BLOCK"
CcTorrentRule == [object |-> TRUE, to |-> CcBlackhole, tag |-> "", hook |-> TRUE]

CcInbounds(value) == <<CcApiInbound>> \o CcArrayFrom(value)

\* routingFrom: our rule first, and none of the Panel's that leads to the API.
CcRoutingFrom(routing) ==
    <<CcApiRule>> \o SelectSeq(IF routing.object THEN CcArrayFrom(routing.rules) ELSE <<>>,
                               LAMBDA rule : ~(rule.object /\ rule.to = "API"))

\* torrentRuleIndex: how many rules stay before the torrent rule.
CcTorrentRuleIndex(position, length) ==
    IF length = 0 THEN 0
    ELSE IF position.n <= 0 \/ ~position.whole THEN 1
    ELSE 1 + (IF position.n < length - 1 THEN position.n ELSE length - 1)

CcHooked(rules, tags) ==
    [i \in DOMAIN rules |->
        IF rules[i].object /\ rules[i].tag \in tags THEN [rules[i] EXCEPT !.hook = TRUE] ELSE rules[i]]

CcWithTorrent(rules, opt) ==
    LET at == CcTorrentRuleIndex(opt.position, Len(rules))
    IN  CcHooked(SubSeq(rules, 1, at) \o <<CcTorrentRule>> \o SubSeq(rules, at + 1, Len(rules)), opt.tags)

\* policyFrom: level zero keeps the Panel's keys; the counters the node reads are on.
CcCounters == {"statsUserUplink", "statsUserDownlink", "statsUserOnline"}
CcPolicyFrom(zero, online) ==
    [key \in DOMAIN zero \cup CcCounters |->
        IF key = "statsUserOnline" THEN online ELSE IF key \in CcCounters THEN TRUE ELSE zero[key]]

CcGenerate(config, opt) ==
    [inbounds  |-> CcInbounds(config.inbounds),
     outbounds |-> CcArrayFrom(config.outbounds) \o (IF opt.enabled THEN <<CcBlackhole>> ELSE <<>>),
     rules     |-> IF opt.enabled THEN CcWithTorrent(CcRoutingFrom(config.routing), opt) ELSE CcRoutingFrom(config.routing),
     zero      |-> CcPolicyFrom(config.zero, opt.netAdmin)]

----------------------------------------------------------------------------
(* HashedSet and the hash state. *)

CcXor(a, b) == (a \ b) \cup (b \ a)
CcEmptySet == [members |-> {}, word |-> {}]

CcAdd(set, id) ==
    IF id \in set.members THEN set
    ELSE [members |-> set.members \cup {id}, word |-> CcXor(set.word, CcWord[id])]

CcDelete(set, id) ==
    IF id \notin set.members THEN set
    ELSE [members |-> set.members \ {id}, word |-> CcXor(set.word, CcWord[id])]

CcNewSet(ids) == FoldSeq(LAMBDA id, set : CcAdd(set, id), CcEmptySet, ids)

\* extractClientIDs: the ids that are there; an inbound without clients has none.
CcClientIDs(inbound) == IF inbound.clients THEN SelectSeq(inbound.ids, LAMBDA id : id # "") ELSE <<>>

CcReported(report) == {report.inbounds[i].tag : i \in DOMAIN report.inbounds} \ {""}

\* buildRuntimeHashState: the inbounds the Panel reports; the last one of a tag stays.
CcTracked(report, inbounds) ==
    {i \in DOMAIN inbounds : inbounds[i].object /\ inbounds[i].tag \in CcReported(report)}
CcBuildState(report, inbounds) ==
    LET last(tag) == Max({i \in CcTracked(report, inbounds) : inbounds[i].tag = tag})
    IN  [empty |-> report.empty,
         sets  |-> [tag \in {inbounds[i].tag : i \in CcTracked(report, inbounds)} |->
                        CcNewSet(CcClientIDs(inbounds[last(tag)]))]]

\* isNeedRestartCoreLocked: the first report entry of each tracked tag is compared.
\* Mutant: the number of inbounds is not compared.
CcChangedTracked(state, report) ==
    \/ state.empty = "" \/ report.empty # state.empty
    \/ \E tag \in DOMAIN state.sets :
          LET entries == SelectSeq(report.inbounds, LAMBDA e : e.tag = tag)
          IN  entries = <<>> \/ Head(entries).hash # state.sets[tag].word
CcNeedsRestart(state, report) ==
    \/ state.empty = "" \/ report.empty # state.empty
    \/ Len(report.inbounds) # Cardinality(DOMAIN state.sets)
    \/ \E tag \in DOMAIN state.sets :
          LET entries == SelectSeq(report.inbounds, LAMBDA e : e.tag = tag)
          IN  entries = <<>> \/ Head(entries).hash # state.sets[tag].word

----------------------------------------------------------------------------

CcNoHash == [empty |-> "", sets |-> [tag \in {} |-> CcEmptySet]]
CcNothing == [inbounds |-> <<>>, outbounds |-> <<>>, rules |-> <<>>, zero |-> [key \in {} |-> FALSE]]

CcInit ==
    /\ ccIn \in CcConfigs /\ ccOpt \in CcOptions
    /\ ccOut = CcNothing /\ ccHash = CcNoHash

\* prepareRuntimeConfig, committed when the Core has come up.
CcPrepare(report) ==
    /\ ccOut = CcNothing
    /\ ccOut' = CcGenerate(ccIn, ccOpt)
    /\ ccHash' = CcBuildState(report, ccOut'.inbounds)
    /\ UNCHANGED <<ccIn, ccOpt>>

\* commitUserAdded, after the Core has accepted the user.
CcUserAdded(tag, id) ==
    /\ ccHash.empty # ""
    /\ ccHash' = [ccHash EXCEPT !.sets =
           [t \in DOMAIN @ \cup {tag} |->
               IF t # tag THEN ccHash.sets[t]
               ELSE CcAdd(IF t \in DOMAIN ccHash.sets THEN ccHash.sets[t] ELSE CcEmptySet, id)]]
    /\ UNCHANGED <<ccIn, ccOpt, ccOut>>

\* commitUserRemoved: an inbound without users is no longer tracked.
CcUserRemoved(tag, id) ==
    /\ tag \in DOMAIN ccHash.sets
    /\ LET set == CcDelete(ccHash.sets[tag], id)
           left == IF set.members = {} THEN DOMAIN ccHash.sets \ {tag} ELSE DOMAIN ccHash.sets
       IN  ccHash' = [ccHash EXCEPT !.sets = [t \in left |-> IF t = tag THEN set ELSE ccHash.sets[t]]]
    /\ UNCHANGED <<ccIn, ccOpt, ccOut>>

\* clearRuntimeLocked and clearHashStateLocked, when the Core stops.
CcClear ==
    /\ ccOut # CcNothing
    /\ ccOut' = CcNothing /\ ccHash' = CcNoHash
    /\ UNCHANGED <<ccIn, ccOpt>>

CcNext ==
    \/ \E report \in CcReports : CcPrepare(report)
    \/ \E tag \in CcTags, id \in CcIds : CcUserAdded(tag, id) \/ CcUserRemoved(tag, id)
    \/ CcClear

CcSpec == CcInit /\ [][CcNext]_ccVars

----------------------------------------------------------------------------

CcPanelRules == SelectSeq(IF ccIn.routing.object THEN CcArrayFrom(ccIn.routing.rules) ELSE <<>>,
                          LAMBDA rule : ~(rule.object /\ rule.to = "API"))

\* Whatever the Panel sends, the node's own traffic is routed to the API by the
\* first rule and by no other, and every other rule of the Panel is there, once
\* and in its order, with a torrent rule among them when the blocker is on.
CcApiFirstPanelKept ==
    LET plain(rule) == [rule EXCEPT !.hook = FALSE]
        panel == SelectSeq(ccOut.rules, LAMBDA rule : rule.to \notin {"API", CcBlackhole})
    IN  ccOut # CcNothing =>
        /\ ccOut.rules[1].to = "API"
        /\ \A i \in 2 .. Len(ccOut.rules) : ccOut.rules[i].object => ccOut.rules[i].to # "API"
        /\ [i \in DOMAIN panel |-> plain(panel[i])] = [i \in DOMAIN CcPanelRules |-> plain(CcPanelRules[i])]

\* The blocker's position counts the Panel's own rules: with position n the
\* torrent rule stands behind the first n of them, behind all when there are
\* fewer, and before all when the position is no positive whole number.
CcTorrentPlace ==
    ccOpt.enabled /\ ccOut # CcNothing =>
        \E i \in DOMAIN ccOut.rules :
            /\ ccOut.rules[i] = CcTorrentRule
            /\ i - 2 = IF ccOpt.position.whole /\ ccOpt.position.n > 0
                       THEN Min({ccOpt.position.n, Len(CcPanelRules)}) ELSE 0

\* The webhook that reports torrents is on the torrent rule, on the rules whose
\* tag the blocker lists, and on no other.
CcWebhooksExact ==
    \A i \in DOMAIN ccOut.rules :
        ccOut.rules[i].hook <=>
            ccOpt.enabled /\ (ccOut.rules[i].to = CcBlackhole \/ (ccOut.rules[i].object /\ ccOut.rules[i].tag \in ccOpt.tags))

\* After any additions and removals the running hash of an inbound is that of
\* its members from nothing: the Panel, which hashes its own list, gets the same.
CcHashIsOfMembers ==
    \A tag \in DOMAIN ccHash.sets :
        ccHash.sets[tag].word =
            {bit \in UNION {CcWord[id] : id \in CcIds} :
                Cardinality({id \in ccHash.sets[tag].members : bit \in CcWord[id]}) % 2 = 1}

\* Of the reports that name each inbound once, exactly those with the same base
\* hash and the same inbounds with the same hashes leave the Core running.
CcRestartExact ==
    \A report \in CcReports :
        LET named == {<<report.inbounds[i].tag, report.inbounds[i].hash>> : i \in DOMAIN report.inbounds}
        IN  (ccHash.empty # "" /\ Cardinality(CcReported(report)) = Len(report.inbounds)) =>
                (CcNeedsRestart(ccHash, report) <=>
                    (report.empty # ccHash.empty \/ named # {<<tag, ccHash.sets[tag].word>> : tag \in DOMAIN ccHash.sets}))

\* What the generated configuration promises: the Panel's rules with the node's
\* own in their places, and a restart exactly when the users differ.
CcPromise ==
    /\ CcApiFirstPanelKept
    /\ CcTorrentPlace
    /\ CcWebhooksExact
    /\ CcHashIsOfMembers
    /\ CcRestartExact
=============================================================================

----------------------------- MODULE MCRequests -----------------------------
(***************************************************************************)
(* One instance of every component whose properties are about safety only. *)
(* The components share no state with one another, so a behaviour is a     *)
(* behaviour of one of them, chosen in the initial state with all of its   *)
(* initial states, while the others keep one initial state.                *)
(***************************************************************************)
EXTENDS UserMutations, ConnectionDrop, RequestAdmission, LogRotation, TorrentReports,
        NativeConfiguration, BundleStore, FirewallPlan, OnlineUsers, NetworkMonitor,
        MCRuntimeAssets, CoreConfig, PreparedJson, BodyBudget, Geocheck, AsnDatabase,
        JsonDocument, RequestValidation, NodeSettings, TrafficStats, ProcessGroup

CONSTANTS u1, u2, t1, t2, c1, c2

-----------------------------------------------------------------------------
\* User mutations: a replacing and a plain addition, a removal of both users
\* and of one, and a request that names none.
MCUmRequests ==
    {"add1", "add2", "rem", "rem1", "none"}
MCUmForm ==
    [add1 |-> [kind |-> "addUser", users |-> <<u1>>, cred |-> c1, tags |-> {t1}, replace |-> TRUE],
     add2 |-> [kind |-> "addUsers", users |-> <<u1, u2>>, cred |-> c2, tags |-> {t1, t2}, replace |-> FALSE],
     rem  |-> [kind |-> "removeUsers", users |-> <<u2, u1>>, cred |-> c1, tags |-> {}, replace |-> FALSE],
     rem1 |-> [kind |-> "removeUser", users |-> <<u1>>, cred |-> c1, tags |-> {}, replace |-> FALSE],
     none |-> [kind |-> "addUser", users |-> <<>>, cred |-> c1, tags |-> {}, replace |-> FALSE]]

\* Connections of both families and both spellings, and the lists given.
CdP(a) == [addr |-> a, form |-> "plain"]
CdM(a) == [addr |-> a, form |-> "mapped"]
MCSocks ==
    {[fam |-> 4, local |-> CdP("l"), peer |-> CdP("a")],
     [fam |-> 6, local |-> CdM("l"), peer |-> CdM("a")],
     [fam |-> 6, local |-> CdP("l"), peer |-> CdP("b")],
     [fam |-> 6, local |-> CdM("b"), peer |-> CdM("w")]}
MCLists ==
    {{CdP("a"), CdM("a")}, {CdM("a"), CdP("b"), CdM("w")}, {CdM("w")}, {CdP("l"), CdP("a")},
     {CdP("b"), [addr |-> "a", form |-> "scoped"]}, {[addr |-> "a", form |-> "invalid"]}}
MCWhitelisted == {CdP("w")}

\* Mixtures of routes: a read beside two starts; bulk bodies and a reset.
AdOf(route, reset, packed) == [route |-> route, reset |-> reset, packed |-> packed]
MCMixes ==
    {<<AdOf("systemStats", FALSE, FALSE), AdOf("start", FALSE, FALSE), AdOf("start", FALSE, TRUE)>>,
     <<AdOf("userIPList", FALSE, TRUE), AdOf("sync", FALSE, TRUE), AdOf("combinedStats", TRUE, FALSE)>>}

\* Webhook events of two users, from every kind of source.
RrFrom(user, addr, form) == [user |-> user, source |-> [addr |-> addr, form |-> form]]
MCRrEvents ==
    {RrFrom("u", "a", "plain"), RrFrom("u", "i", "mapped"), RrFrom("v", "a", "mapped"),
     RrFrom("u", "l", "plain"), RrFrom("u", "a", "scoped")}

\* Checksum files: none, complete, with a duplicate, wrong, half wrong.
BsLine(n, d) == [name |-> n, digest |-> d]
MCSums ==
    {<<>>, <<BsLine("r1", "r1"), BsLine("r2", "r2")>>, <<BsLine("r1", "r1"), BsLine("r1", "r2")>>,
     <<BsLine("r1", "r2")>>, <<BsLine("r1", "bad"), BsLine("r2", "r2")>>}

\* A host and overlapping prefixes, one of them covering every mapped address;
\* references to a present and a missing list; a known and an unknown ASN.
FpAsn(n) == [kind |-> "asn", number |-> n]
MCItems ==
    {FpPrefix("v4", 1, 2), FpPrefix("v6", 5, 3), FpPrefix("v6", 4, 1), FpPrefix("v6", 0, 0),
     FpRef("ext:a"), FpRef("ext:b"), FpAsn("AS1"), FpAsn("AS2")}
MCASNs == [n \in {"AS1"} |-> {FpPrefix("v4", 2, 1), FpPrefix("v6", 0, 2)}]

MCOuUsers == <<"u1", "u2", "u3">>

\* Route tables: two usable defaults; an unusable one with the better metric.
NmRoute(i, usable, metric) == [iface |-> i, usable |-> usable, metric |-> metric]
MCRoutes ==
    {<<NmRoute("a", TRUE, 2), NmRoute("b", TRUE, 1)>>,
     <<NmRoute("b", FALSE, 0), NmRoute("a", TRUE, 1)>>}

\* Panel configurations: every rule list of up to three rules, and inbounds with
\* repeated users, empty users and a repeated tag.
CcRule(object, to, tag) == [object |-> object, to |-> to, tag |-> tag, hook |-> FALSE]
CcSome ==
    {CcRule(TRUE, "API", "t1"), CcRule(TRUE, "direct", "t1"),
     CcRule(TRUE, "direct", "t2"), CcRule(FALSE, "other", "t1")}
CcInb(tag, ids) == [object |-> TRUE, tag |-> tag, clients |-> TRUE, ids |-> ids]
CcOf(items) == [array |-> TRUE, items |-> items]
CcPlain(rules) ==
    [inbounds |-> CcOf(<<>>), outbounds |-> CcOf(<<"direct">>),
     routing |-> [object |-> TRUE, rules |-> CcOf(rules)], zero |-> [handshake |-> 4]]
MCCcConfigs ==
    {CcPlain(rules) : rules \in UNION {[1 .. n -> CcSome] : n \in 0 .. 3}}
    \cup {[CcPlain(<<>>) EXCEPT !.inbounds = CcOf(items)] : items \in
              {<<CcInb("t1", <<"u1", "u2", "">>), CcInb("t2", <<"u1">>)>>,
               <<CcInb("t1", <<"u1", "u1">>)>>,
               <<CcInb("t1", <<"u1">>), CcInb("t1", <<"u2", "u3">>)>>}}
    \cup {[CcPlain(<<>>) EXCEPT !.routing.object = FALSE],
          [CcPlain(<<>>) EXCEPT !.routing.rules.array = FALSE]}
CcOpt(on, n, whole, tags) ==
    [enabled |-> on, position |-> [n |-> n, whole |-> whole], tags |-> tags, netAdmin |-> on]
MCCcOptions ==
    {CcOpt(FALSE, 0, TRUE, {}), CcOpt(TRUE, 2, FALSE, {})}
    \cup {CcOpt(TRUE, n, TRUE, tags) : n \in 0 .. 4, tags \in {{}, {"t1"}}}
MCCcWord == [id \in {"u1", "u2", "u3"} |-> CASE id = "u1" -> {1, 2} [] id = "u2" -> {2, 3} [] OTHER -> {1, 3}]
CcEntry(tag, hash) == [tag |-> tag, hash |-> hash]
MCCcReports ==
    [empty : {"e1", "e2"},
     inbounds : {<<>>, <<CcEntry("t1", {1, 3})>>, <<CcEntry("t1", {1, 3}), CcEntry("t2", {1, 2})>>,
                 <<CcEntry("t1", {1, 2}), CcEntry("t3", {})>>}]

\* Documents of one and two members, every class of character, nesting up to
\* and past the depth bound.
PjChars == {"short", "control", "plain", "wide", "bad", "line"}
PjWord(n) == [kind |-> "word", length |-> n]
PjStr(chars) == [kind |-> "string", chars |-> chars]
PjArr(items) == [kind |-> "array", items |-> items]
PjObj(keys, items) == [kind |-> "object", keys |-> keys, items |-> items]
PjLeaves == {PjWord(1), PjWord(4), PjStr(<<>>)} \cup {PjStr(<<c>>) : c \in PjChars}
PjMembers ==
    PjLeaves
    \cup {PjArr(<<>>), PjArr(<<PjWord(1), PjWord(1)>>), PjArr(<<PjArr(<<PjArr(<<>>)>>)>>),
          PjObj(<<<<"plain">>>>, <<PjArr(<<PjWord(1)>>)>>)}
    \cup {PjArr(<<leaf>>) : leaf \in PjLeaves}
MCPjValues ==
    {PjObj(<<>>, <<>>)}
    \cup {PjObj(<<<<c>>>>, <<v>>) : c \in PjChars, v \in PjMembers}
    \cup {PjObj(<<<<"plain">>, <<>>>>, <<v, w>>) : v, w \in PjMembers}

\* What the helper prints: whole, too much, no report, half a report.
MCGcOutputs ==
    [out : {<<"r1", "r2">>, <<"r1", "r2", "more">>, <<"bare">>, <<"r1">>},
     err : {<<>>, <<"e">>, <<"e", "e", "e">>}]

\* Archives of two and three entries: unmasked, repeated, covering and misplaced
\* prefixes, wrong paths, links and lists past the bound.
AsP(f, a, b) == [family |-> f, address |-> a, bits |-> b]
AsR(path, asn, v4, v6) == [path |-> path, asn |-> asn, kind |-> "file", v4 |-> v4, v6 |-> v6]
AsLists4 == {<<>>, <<AsP(4, 3, 1)>>, <<AsP(4, 2, 1), AsP(4, 3, 1)>>, <<AsP(4, 1, 2), AsP(4, 0, 2), AsP(4, 0, 1)>>}
AsLists6 == {<<>>, <<AsP(6, 1, 2)>>, <<AsP(6, 3, 2), AsP(6, 0, 0)>>}
AsSome(numbers) == {AsR(n, n, v4, v6) : n \in numbers, v4 \in AsLists4, v6 \in AsLists6}
AsOdd ==
    {AsR(1, 2, <<AsP(4, 1, 2)>>, <<>>), AsR(0, 7, <<AsP(4, 1, 2)>>, <<>>),
     AsR(2, 2, <<AsP(6, 1, 2)>>, <<>>), [AsR(3, 3, <<AsP(4, 1, 2)>>, <<>>) EXCEPT !.kind = "link"],
     AsR(3, 3, <<AsP(4, 0, 2), AsP(4, 1, 2), AsP(4, 2, 2), AsP(4, 3, 2)>>, <<>>)}
MCAsArchives ==
    {<<a, b>> : a, b \in AsSome({1, 2, 3}) \cup AsOdd}
    \cup {<<a, b, c>> : a \in AsOdd \cup {AsR(3, 3, <<AsP(4, 3, 1)>>, <<AsP(6, 3, 2)>>)}, b, c \in AsSome({1, 2})}

\* A request type with a typed list of objects, and keys that are known, known
\* in another spelling, unknown and too long.
JdStruct(fields) == [kind |-> "struct", fields |-> fields, elem |-> JdNil]
MCJdSchemas ==
    [request |-> JdStruct([list |-> "items"]),
     items   |-> [kind |-> "slice", fields |-> <<>>, elem |-> "item"],
     item    |-> JdStruct([list |-> "text"]),
     text    |-> [kind |-> "other", fields |-> <<>>, elem |-> JdNil]]
MCJdFold(k) == IF k = "List" THEN "list" ELSE k

\* Requests of every kind: lists of up to five items, sound and faulty, and
\* every combination of the fields outside lists.
RvList(items) == [given |-> TRUE, items |-> items]
RvNoList == [given |-> FALSE, items |-> <<>>]
RvLists(S, max) == {RvNoList} \cup {RvList(s) : s \in UNION {[1 .. n -> S] : n \in 0 .. max}}
RvStr == {"nil", "ok"}
RvItem(type, v, w) ==
    [type |-> type, tag |-> v, username |-> v, password |-> w, uuid |-> w, flow |-> w, cipherType |-> w, ivCheck |-> v]
RvItems ==
    {RvItem("nil", "ok", "ok"), RvItem("vless", "ok", "ok"), RvItem("vless", "ok", "bad"),
     RvItem("trojan", "nil", "ok"), RvItem("shadowsocks", "nil", "bad")}
RvInbs ==
    {[type |-> "bad", tag |-> "ok", flow |-> "ok"], [type |-> "vless", tag |-> "nil", flow |-> "bad"],
     [type |-> "hysteria", tag |-> "ok", flow |-> "nil"]}
RvUserData(v, w) ==
    [given |-> TRUE, userId |-> v, hashUuid |-> w, vlessUuid |-> "ok", trojanPassword |-> v, ssPassword |-> "ok"]
RvNothing == [given |-> FALSE]
RvUsers ==
    [inbounds : {RvNoList, RvList(<<>>)} \cup {RvList(s) : s \in [1 .. 2 -> RvInbs]},
     data : {RvNothing, RvUserData("ok", "ok"), RvUserData("nil", "bad")}]
RvHashes(fields) == {RvNothing} \cup fields
RvPairs(f, g) == {f :> v @@ g :> w : v \in RvStr, w \in {"bad", "ok"}}
RvOptional == {"absent", "null", "ok"}
RvCounts ==
    {[usersCount |-> "ok", hash |-> "ok", tag |-> "ok"], [usersCount |-> "nil", hash |-> "nil", tag |-> "ok"]}
RvTri == {"nil", "bad", "ok"}
MCRvInputs ==
    [kind : {"addUser"}, typed : {TRUE}, data : RvLists(RvItems, 3),
     hash : RvHashes([given : {TRUE}, vlessUuid : RvTri, prevVlessUuid : RvOptional \cup {"bad"}])]
    \cup [kind : {"addUsers"}, typed : {TRUE}, tags : RvLists(RvStr, 2),
          users : {RvNoList, RvList(<<>>)} \cup {RvList(<<u, w>>) : u, w \in RvUsers}]
    \cup [kind : {"addUsers"}, typed : {TRUE}, tags : RvLists(RvStr, 5),
          users : {RvNoList} \cup {RvList(<<u>>) : u \in RvUsers}]
    \cup [kind : {"removeUser"}, typed : BOOLEAN, username : RvStr,
          hash : RvHashes([given : {TRUE}, vlessUuid : RvTri])]
    \cup [kind : {"removeUsers"}, typed : {TRUE}, list : RvLists(RvPairs("userId", "hashUuid"), 3)]
    \cup [kind : {"block"}, typed : {TRUE}, list : RvLists(RvPairs("timeout", "ip"), 3)]
    \cup [kind : {"dropUsers", "dropIPs", "unblock"}, typed : {TRUE}, list : RvLists(RvStr, 5)]
    \cup [kind : {"start"}, typed : {TRUE}, internals : BOOLEAN, xrayConfig : BOOLEAN,
          metadata : [is : RvOptional, name : RvStr, uuid : {"ok"}, id : RvStr, tags : {"ok"}, countryCode : {"ok"}],
          integrations : RvOptional, forceRestart : RvOptional,
          hashes : RvHashes([given : {TRUE}, emptyConfig : RvStr, inbounds : RvLists(RvCounts, 2)])]
    \cup [kind : {"sync"}, typed : {TRUE}, plugin : [is : RvOptional, config : RvTri, uuid : RvTri, name : RvStr]]
RvFirst == [kind |-> "removeUser", typed |-> FALSE, username |-> "ok", hash |-> RvNothing]
MCRvTexts == UNION {[1 .. n -> {1, 3, 4}] : n \in 1 .. 4}

\* Settings files within and past every bound, and environments; limits on both
\* sides of the largest integer; secret files of up to five characters.
SeLine(is, key, value) == [is |-> is, key |-> key, value |-> value]
SeSet(key, value) == SeLine("set", key, value)
SePort(p) == SeSet("NODE_PORT", p)
SeKey == SeSet("SECRET_KEY", "k1")
SeKeyFile(v) == SeSet("SECRET_KEY_FILE", v)
SeSkip == SeLine("skip", "", "")
MCSeEdits == {<<>>, <<SePort("p1"), SeKey>>, <<SePort("p2"), SeKeyFile("there")>>}
MCSeFiles ==
    MCSeEdits \cup
    {<<SePort("p1"), SePort("p2"), SeKey>>, <<SePort("p1"), SeKeyFile("missing")>>,
     <<SePort("zero"), SeKeyFile("there")>>, <<SePort("p1"), SeSet("LOW_MEMORY", "yes"), SeKeyFile("there")>>,
     <<SeSkip, SePort("p1"), SeLine("broken", "", "")>>, <<SePort("p1"), SeSet("LOW_MEMORY", "odd"), SeKey>>,
     <<SeKey, SeKey, SePort("p1"), SePort("p2")>>, <<SeKey, SePort("p1"), SeSkip, SeSkip>>,
     <<SeKey, SeKey, SePort("p1"), SePort("p2"), SePort("p1")>>}
MCSeEnvs ==
    {<<>>, [NODE_PORT |-> "p2", SECRET_KEY |-> "blank"],
     [SECRET_KEY |-> "k2", LOW_MEMORY |-> "no", INTERNAL_REST_TOKEN |-> "t"]}
SeMem(word, number, digits, suffix) == [word |-> word, number |-> number, digits |-> digits, suffix |-> suffix]
SeNoMem == SeMem("blank", 0, 0, <<>>)
MCSeMemory ==
    {SeNoMem, SeMem("off", 0, 0, <<>>)}
    \cup {SeMem("number", n, IF n < 10 THEN 1 ELSE 2, u) : n \in {0, 1, 3, 4, 15, 16, 63, 64},
                                     u \in {<<>>, <<"B">>, <<"Ki", "B">>, <<"Mi", "B">>, <<"Ki">>}}
    \cup {SeMem("number", 0, d, <<"B">>) : d \in {0, 2, 3}}
MCSeSecrets == UNION {[1 .. n -> {"base64", "cr", "lf"}] : n \in 0 .. 5}
SeOneKey == <<"base64", "lf">>
SeCall(tool, require, env, memory, secret) ==
    [tool |-> tool, require |-> require, env |-> env, memory |-> memory, secret |-> secret]
SeTool(memory, secret) == SeCall(TRUE, TRUE, <<>>, memory, secret)
SeThere(text) == [text |-> text, mtime |-> 0, there |-> TRUE]
\* The memory limit and the secret vary for one file and for a native tool only.
SeChosen ==
    \/ \E tool, require \in BOOLEAN, env \in MCSeEnvs : seCall = SeCall(tool, require, env, SeNoMem, SeOneKey)
    \/ seFile = SeThere(<<SePort("p1"), SeKey>>) /\ \E m \in MCSeMemory : seCall = SeTool(m, SeOneKey)
    \/ seFile = SeThere(<<SePort("p2"), SeKeyFile("there")>>) /\ \E k \in MCSeSecrets : seCall = SeTool(SeNoMem, k)

\* Statistics requests: combined and single, resetting and reading.
TsAsk(route, name, reset) == [route |-> route, name |-> name, reset |-> reset]
MCTsNames == [user |-> {"u"}, inbound |-> {"i", "j"}, outbound |-> {"o"}]
MCTsMixes ==
    {<<TsAsk("combined", "", TRUE), TsAsk("inbounds", "", TRUE)>>,
     <<TsAsk("combined", "", FALSE), TsAsk("inbound", "i", TRUE)>>,
     <<TsAsk("users", "", TRUE), TsAsk("outbounds", "", FALSE)>>}

-----------------------------------------------------------------------------
VARIABLE part   \* the component that runs

rqVars == <<umVars, cdVars, adVars, lrVars, rrVars, ncVars, bsVars, fpVars, ouVars, nmVars,
            raVars, ccVars, pjVars, bbVars, gcVars, asVars,
            jdVars, rvVars, seVars, tsVars, pgVars, part>>

Parts == {"users", "drop", "admission", "log", "reports", "configuration", "bundles", "firewall", "online",
          "network", "assets", "core", "json", "body", "geocheck", "asn",
          "document", "validation", "settings", "traffic", "group"}

Some(S) == CHOOSE e \in S : TRUE

RqInit ==
    /\ part \in Parts
    /\ UmInit /\ umCore \in {[t \in Tags |-> [u \in Users |-> c]] : c \in IF part = "users" THEN {NoCred, c2} ELSE {NoCred}}
    /\ IF part = "drop" THEN TRUE ELSE cdOpen = {} /\ cdLocal = {}
    /\ CdInit /\ (part = "drop" \/ cdCall.given = Some(Lists))
    /\ AdInit /\ (part = "admission" \/ \A r \in AdRequests : adReq[r].class = Some(AdMixes)[r])
    /\ IF part = "log" THEN TRUE ELSE lrMode = "capped" /\ lrOld = <<>> /\ lrLog = <<>>
    /\ LrInit
    /\ RrInit /\ (part = "reports" \/ ~(rrEnabled \/ rrFirewall))
    /\ NcInit /\ (part = "configuration" \/ (~ncUp /\ ncFiles["key"] = Some(NcValues \ NcBroken)))
    /\ BsInit /\ (part = "bundles" \/ (bsRoot = BsTree("r1") /\ bsArchive = "r1"))
    /\ FpInit /\ (part = "firewall" \/ fpOn = {"ingress", "whitelist"})
    /\ OuInit /\ (part = "online" \/ ouCore.native)
    /\ NmInit /\ (part = "network" \/ nmTable = Some(NmRoutes))
    /\ RaInit /\ GcInit
    /\ IF part = "core" THEN CcInit
       ELSE ccIn = CcPlain(<<>>) /\ ccOpt = CcOpt(FALSE, 0, TRUE, {}) /\ ccOut = CcNothing /\ ccHash = CcNoHash
    /\ IF part = "json" THEN PjInit
       ELSE pjValue = PjObj(<<>>, <<>>) /\ pjState = "new" /\ pjSize = 0 /\ pjWritten = <<>>
    /\ IF part = "body" THEN BbInit
       ELSE /\ bbBudget = BbDefault /\ bbLimit = 0
            /\ bbBody = [encoding |-> "identity", size |-> 1, wire |-> 1, window |-> 0, sound |-> TRUE]
            /\ bbStage = "new" /\ bbGot = 0 /\ bbAnswer = "none"
    /\ IF part = "asn" THEN AsInit
       ELSE asArchive = <<>> /\ asEntries = <<>> /\ asState = "new" /\ asFile = <<>>
    /\ IF part = "document" THEN TRUE ELSE jdCall = [dto |-> TRUE, body |-> "text"]
    /\ JdInit
    /\ IF part = "validation" THEN RvInit /\ (rvText = <<1>> \/ rvIn = RvFirst)
       ELSE rvIn = RvFirst /\ rvText = <<1>> /\ rvState = "decoded" /\ rvIssues = <<>> /\ rvSent = RvNone
    /\ IF part = "settings" THEN SeChosen /\ SeInit
       ELSE /\ seFile = SeThere(<<>>) /\ seHeld = {} /\ seCall = SeTool(SeNoMem, SeOneKey)
            /\ seRead = [pc |-> "new", size |-> 0, mtime |-> 0, got |-> <<>>] /\ seOut = [is |-> "none"]
    /\ TsInit /\ (part = "traffic" \/ \A r \in TsRequests : tsReq[r].ask = Some(TsMixes)[r])
    /\ PgInit

\* A step of one component leaves every other one alone.
Others ==
    /\ part' = part
    /\ IF part = "users" THEN TRUE ELSE UNCHANGED umVars
    /\ IF part = "drop" THEN TRUE ELSE UNCHANGED cdVars
    /\ IF part = "admission" THEN TRUE ELSE UNCHANGED adVars
    /\ IF part = "log" THEN TRUE ELSE UNCHANGED lrVars
    /\ IF part = "reports" THEN TRUE ELSE UNCHANGED rrVars
    /\ IF part = "configuration" THEN TRUE ELSE UNCHANGED ncVars
    /\ IF part = "bundles" THEN TRUE ELSE UNCHANGED bsVars
    /\ IF part = "firewall" THEN TRUE ELSE UNCHANGED fpVars
    /\ IF part = "online" THEN TRUE ELSE UNCHANGED ouVars
    /\ IF part = "network" THEN TRUE ELSE UNCHANGED nmVars
    /\ IF part = "assets" THEN TRUE ELSE UNCHANGED raVars
    /\ IF part = "core" THEN TRUE ELSE UNCHANGED ccVars
    /\ IF part = "json" THEN TRUE ELSE UNCHANGED pjVars
    /\ IF part = "body" THEN TRUE ELSE UNCHANGED bbVars
    /\ IF part = "geocheck" THEN TRUE ELSE UNCHANGED gcVars
    /\ IF part = "asn" THEN TRUE ELSE UNCHANGED asVars
    /\ IF part = "document" THEN TRUE ELSE UNCHANGED jdVars
    /\ IF part = "validation" THEN TRUE ELSE UNCHANGED rvVars
    /\ IF part = "settings" THEN TRUE ELSE UNCHANGED seVars
    /\ IF part = "traffic" THEN TRUE ELSE UNCHANGED tsVars
    /\ IF part = "group" THEN TRUE ELSE UNCHANGED pgVars

RqNext ==
    \/ part = "users" /\ UmNext /\ Others
    \/ part = "drop" /\ CdNext /\ Others
    \/ part = "admission" /\ AdNext /\ Others
    \/ part = "log" /\ LrNext /\ Others
    \/ part = "reports" /\ RrNext /\ Others
    \/ part = "configuration" /\ NcNext /\ Others
    \/ part = "bundles" /\ BsNext /\ Others
    \/ /\ part = "firewall" /\ FpNext /\ Others
       /\ \A l \in DOMAIN fpShared' : fpShared'[l].name = "ext:a"   \* "ext:b" is never defined
    \/ part = "online" /\ OuNext /\ Others
    \/ /\ part = "network" /\ NmNext /\ Others
       /\ nmCounter'["a"] # -1   \* one interface that goes away is enough
    \/ part = "assets" /\ RaNext /\ Others
    \/ /\ part = "core" /\ CcNext /\ Others
       /\ ccIn.routing.rules.items # <<>> => ccOut' # ccOut   \* users do not depend on rules
    \/ part = "json" /\ PjNext /\ Others
    \/ part = "body" /\ BbNext /\ Others
    \/ part = "geocheck" /\ GcNext /\ Others
    \/ part = "asn" /\ AsNext /\ Others
    \/ part = "document" /\ JdStep /\ Others
    \/ part = "validation" /\ RvDecode /\ Others
    \/ part = "settings" /\ SeNext /\ Others
    \/ part = "traffic" /\ TsNext /\ Others
    \/ part = "group" /\ PgNext /\ Others

RqSpec == RqInit /\ [][RqNext]_rqVars
=============================================================================

---------------------------- MODULE FirewallPlan ----------------------------
(***************************************************************************)
(* From a plugin configuration to address sets (internal/plugin/plan.go,   *)
(* schema_validate.go, cidr.go, asn.go, nft_script.go): validation, the    *)
(* expansion of shared and AS lists under a budget, IPv4-mapped prefixes,  *)
(* and the sets that the matcher and nftables get.  Addresses are short:   *)
(* an IPv4 address has V4Bits bits, an IPv6 address one more, and the      *)
(* upper half of IPv6 is the IPv4-mapped range (::ffff:0:0/96 in the code).*)
(***************************************************************************)
EXTENDS Integers, Sequences, FiniteSets, SequencesExt, FiniteSetsExt

CONSTANTS V4Bits,
          FpItems,       \* items an operator may list: prefixes and references
          FpASNs,        \* the ASN database: number -> set of prefixes
          MaxResolved,   \* maxResolvedIPItems
          MaxListed      \* bound: items in one configuration

ASSUME FpAssumption == V4Bits \in Nat /\ MaxResolved \in Nat /\ MaxListed \in Nat

Fams == {"v4", "v6"}
FpBits(fam) == IF fam = "v4" THEN V4Bits ELSE V4Bits + 1
FpAddrs(fam) == 0 .. (2 ^ FpBits(fam) - 1)
FpMapped == 2 ^ V4Bits
Is4In6(fam, a) == fam = "v6" /\ a >= FpMapped
FpPrefix(fam, a, bits) == [kind |-> "ip", fam |-> fam, addr |-> a, bits |-> bits]
FpRef(name) == [kind |-> "ext", name |-> name]

\* netip.Prefix.Contains
FpCovers(p) ==
    LET size == 2 ^ (FpBits(p.fam) - p.bits) IN
    {a \in FpAddrs(p.fam) : a \div size = p.addr \div size}

Sections == {"whitelist", "ignored", "ingress", "egress"}

VARIABLES fpShared,   \* sharedLists: sequence of [name, type, items]
          fpLists,    \* section -> its items
          fpOn,       \* enabled sections
          fpPlan      \* last plan built

fpVars == <<fpShared, fpLists, fpOn, fpPlan>>

FpNoPlan == [ok |-> FALSE]

FpInit ==
    /\ fpShared = <<>> /\ fpLists = [s \in Sections |-> <<>>]
    /\ fpOn \in {{"ingress", "whitelist"}, {"egress", "ignored"}} /\ fpPlan = FpNoPlan

-----------------------------------------------------------------------------
\* isPlainIP, isSharedListItem, isIPOrExt, isIPCidrOrExt: the sections that
\* hold single addresses take a CIDR only through a shared list.
FpPlainIP(i) == i.kind = "ip" /\ i.bits = FpBits(i.fam)
FpAllowed(section, i) ==
    \/ i.kind = "ext"
    \/ FpPlainIP(i)
    \/ i.kind = "ip" /\ section \in {"ingress", "egress"}

FpSharedAllowed(l) == \A k \in DOMAIN l.items :
    IF l.type = "ipList" THEN l.items[k].kind = "ip" ELSE l.items[k].kind = "asn"

\* ValidatePluginConfig
FpValid ==
    /\ \A s \in Sections : \A k \in DOMAIN fpLists[s] : FpAllowed(s, fpLists[s][k])
    /\ \A l \in DOMAIN fpShared : FpSharedAllowed(fpShared[l])

-----------------------------------------------------------------------------
\* expansionBudget.consume; a spent budget refuses the whole plan.
FpSpend(left, n) == IF left = -1 \/ n > left THEN -1 ELSE left - n

\* One AS number: its prefixes, or a diagnostic.
FpResolveASN(acc, i) ==
    IF i.number \in DOMAIN FpASNs
    THEN [acc EXCEPT !.out = @ \o SetToSeq(FpASNs[i.number]), !.left = FpSpend(@, Cardinality(FpASNs[i.number]))]
    ELSE [acc EXCEPT !.missing = @ \cup {i.number}]

\* buildSharedIPMap: a later list of the same name replaces an earlier one.
FpSharedMap ==
    LET add(acc, l) ==
          LET r == IF l.type = "ipList"
                   THEN [out |-> l.items, left |-> FpSpend(acc.left, Len(l.items)), missing |-> acc.missing]
                   ELSE FoldLeft(FpResolveASN, [out |-> <<>>, left |-> acc.left, missing |-> acc.missing], l.items) IN
          [map |-> [n \in DOMAIN acc.map \cup {l.name} |-> IF n = l.name THEN r.out ELSE acc.map[n]],
           left |-> r.left, missing |-> r.missing] IN
    FoldLeft(add, [map |-> [n \in {} |-> <<>>], left |-> MaxResolved, missing |-> {}], fpShared)

FpRefCost(map, name) == Len(map[name])

FpMissingRef(acc, name) == [acc EXCEPT !.missing = @ \cup {name}]

\* resolveIPList for one item, under the budget shared by all sections.
FpResolve(map, acc, i) ==
    CASE i.kind = "ext" /\ i.name \notin DOMAIN map -> FpMissingRef(acc, i.name)
      [] i.kind = "ext" /\ i.name \in DOMAIN map ->
            [acc EXCEPT !.out = @ \o map[i.name], !.left = FpSpend(@, FpRefCost(map, i.name))]
      [] OTHER -> [acc EXCEPT !.out = Append(@, i), !.left = FpSpend(@, 1)]

FpSection(map, plan, s) ==
    IF s \notin fpOn THEN plan
    ELSE LET step(acc, i) == FpResolve(map, acc, i)
             r == FoldLeft(step, [out |-> <<>>, left |-> plan.left, missing |-> plan.missing], fpLists[s]) IN
         [plan EXCEPT !.lists[s] = r.out, !.left = r.left, !.missing = r.missing]

\* Mutant: a mapped prefix keeps its IPv6 length.
FpKeepsLength(p) == FpPrefix("v4", p.addr - FpMapped, IF p.bits > V4Bits THEN V4Bits ELSE p.bits)

FpUnmapped(p) == FpPrefix("v4", p.addr - FpMapped, p.bits - 1)

\* normalizeIPPrefix: a prefix inside the mapped range is an IPv4 prefix.
FpNormal(p) == IF Is4In6(p.fam, p.addr) /\ p.bits >= 1 THEN FpUnmapped(p) ELSE p

\* netipx.IPSet.Prefixes: the maximal prefixes inside a set of addresses.
FpPrefixes(fam, addrs) ==
    LET inside == {p \in {FpPrefix(fam, a, b) : a \in FpAddrs(fam), b \in 0 .. FpBits(fam)} :
                     FpCovers(p) \subseteq addrs /\ p.addr = Min(FpCovers(p))} IN
    {p \in inside : \A q \in inside : FpCovers(p) \subseteq FpCovers(q) => p = q}

\* normalizeFilterPrefixes
FpSet(list, fam) ==
    FpPrefixes(fam, UNION {FpCovers(FpNormal(list[k])) : k \in {k \in DOMAIN list : FpNormal(list[k]).fam = fam}})

\* buildPluginPlanFromConfig: whitelist, torrent ignore list, ingress, egress,
\* in that order; renderNFTConfig then gives every list its two sets.
FpBuilt ==
    LET shared == FpSharedMap
        section(plan, s) == FpSection(shared.map, plan, s)
        plan == FoldLeft(section, [lists |-> [s \in Sections |-> <<>>], left |-> MaxResolved, missing |-> shared.missing],
                         <<"whitelist", "ignored", "ingress", "egress">>) IN
    IF ~FpValid \/ shared.left = -1 \/ plan.left = -1 THEN FpNoPlan
    ELSE [ok |-> TRUE, missing |-> plan.missing,
          sets |-> [s \in Sections |-> [fam \in Fams |-> FpSet(plan.lists[s], fam)]]]

FpBuild ==
    /\ fpPlan = FpNoPlan
    /\ fpPlan' = FpBuilt
    /\ UNCHANGED <<fpShared, fpLists, fpOn>>

\* The panel sends another configuration; nothing is added to an invalid one.
FpSize == FoldLeft(LAMBDA n, l : n + Len(l.items), 0, fpShared)
          + FoldFunction(LAMBDA l, n : n + Len(l), 0, fpLists)

FpEdit ==
    /\ FpSize < MaxListed /\ FpValid /\ fpPlan' = FpNoPlan
    /\ \/ \E s \in fpOn, i \in FpItems : fpLists' = [fpLists EXCEPT ![s] = Append(@, i)] /\ UNCHANGED fpShared
       \/ /\ Len(fpShared) < MaxListed - 1
          /\ \E n \in {"ext:a", "ext:b"}, t \in {"ipList", "asList"} :
                fpShared' = Append(fpShared, [name |-> n, type |-> t, items |-> <<>>]) /\ UNCHANGED fpLists
       \/ \E l \in DOMAIN fpShared, i \in FpItems :
            fpShared' = [fpShared EXCEPT ![l].items = Append(@, i)] /\ UNCHANGED fpLists
    /\ UNCHANGED fpOn

FpNext == FpBuild \/ FpEdit

FpSpec == FpInit /\ [][FpNext]_fpVars

-----------------------------------------------------------------------------
\* What an operator means by a list: the prefixes it names, references and
\* AS numbers followed; a reference means the last list of its name.
FpMeans(i) ==
    LET named == {l \in DOMAIN fpShared : i.kind = "ext" /\ fpShared[l].name = i.name}
        direct(j) == IF j.kind = "asn" THEN (IF j.number \in DOMAIN FpASNs THEN FpASNs[j.number] ELSE {}) ELSE {j} IN
    IF i.kind # "ext" THEN direct(i)
    ELSE IF named = {} THEN {} ELSE UNION {direct(fpShared[Max(named)].items[k]) : k \in DOMAIN fpShared[Max(named)].items}

FpListed(s) == UNION {FpMeans(fpLists[s][k]) : k \in DOMAIN fpLists[s]}

\* Whether one of the prefixes names the address, in either of its spellings.
FpNames(prefixes, fam, a) ==
    \E p \in prefixes :
        \/ p.fam = fam /\ a \in FpCovers(p)
        \/ p.fam = "v4" /\ Is4In6(fam, a) /\ a - FpMapped \in FpCovers(p)
        \/ p.fam = "v6" /\ fam = "v4" /\ Is4In6("v6", p.addr) /\ p.bits >= 1 /\ a + FpMapped \in FpCovers(p)

\* ipMatcher.contains
FpContains(sets, fam, a) ==
    \/ \E p \in sets[fam] : a \in FpCovers(p)
    \/ Is4In6(fam, a) /\ \E p \in sets["v4"] : a - FpMapped \in FpCovers(p)

\* The matcher built for the whitelist and the torrent ignore list says of
\* every address, spelled as IPv4 or as IPv4-mapped IPv6, what the
\* configuration says of it.
FpMatcherExact ==
    fpPlan.ok => \A s \in {"whitelist", "ignored"} \cap fpOn : \A fam \in Fams : \A a \in FpAddrs(fam) :
        FpContains(fpPlan.sets[s], fam, a) <=> FpNames(FpListed(s), fam, a)

\* nftables drops the IPv4 packets of exactly the addresses listed, in
\* whatever spelling or list they were given.
FpFilterExact ==
    fpPlan.ok => \A s \in {"ingress", "egress"} \cap fpOn : \A a \in FpAddrs("v4") :
        (\E p \in fpPlan.sets[s]["v4"] : a \in FpCovers(p)) <=> FpNames(FpListed(s), "v4", a)

\* An accepted plan fits the sizes its nft sets are declared with, all
\* sections and both families together.
FpFitsSets ==
    fpPlan.ok => FoldFunction(LAMBDA x, n : n + Cardinality(x["v4"]) + Cardinality(x["v6"]), 0, fpPlan.sets) <= MaxResolved

\* A reference that an enabled section uses, or an AS number of a shared
\* list, that stands for nothing known is reported: a filter is never silently
\* smaller than its configuration.
FpMissingIsReported ==
    fpPlan.ok =>
        /\ \A s \in fpOn : \A k \in DOMAIN fpLists[s] : LET i == fpLists[s][k] IN
            i.kind = "ext" /\ (\A l \in DOMAIN fpShared : fpShared[l].name # i.name) => i.name \in fpPlan.missing
        /\ \A l \in DOMAIN fpShared : \A k \in DOMAIN fpShared[l].items : LET i == fpShared[l].items[k] IN
            i.kind = "asn" /\ i.number \notin DOMAIN FpASNs => i.number \in fpPlan.missing

\* What a compiled plan promises: it filters what was configured, no more and
\* no less, within the sizes of its sets.
FpPromise ==
    /\ FpMatcherExact
    /\ FpFilterExact
    /\ FpFitsSets
    /\ FpMissingIsReported
=============================================================================

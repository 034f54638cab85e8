-------------------------- MODULE RequestValidation --------------------------
(***************************************************************************)
(* The validation of decoded requests (internal/nodeapi: the Validate      *)
(* methods, validation.go and errors.go): the issues found in a request,   *)
(* at most maxValidationIssues of them, and the error they are sent in.    *)
(* A field is "nil" (absent, or null in a pointer), "bad" or "ok"; a type  *)
(* that tells the two apart is "absent", "null" or one of those.  A list   *)
(* or nested object says whether it was given.                             *)
(***************************************************************************)
EXTENDS Naturals, Sequences, SequencesExt, FiniteSetsExt

CONSTANTS RvInputs,      \* decoded requests
          RvTexts,       \* texts in an issue: the widths of their characters in bytes
          RvMaxIssues, RvMaxText

VARIABLES rvIn,       \* the request
          rvText,     \* a text of its first issue
          rvState,    \* "decoded", "valid" or "refused"
          rvIssues,   \* the issues sent
          rvSent      \* the text sent: characters kept, and whether "..." follows

rvVars == <<rvIn, rvText, rvState, rvIssues, rvSent>>

RvNone == [kept |-> 0, dots |-> FALSE]

RvInit ==
    /\ rvIn \in RvInputs /\ rvText \in RvTexts
    /\ rvState = "decoded" /\ rvIssues = <<>> /\ rvSent = RvNone

-----------------------------------------------------------------------------
\* An issue is known by its path: a field, of item i of a list, of item j of a
\* list in that.
RvAt(i, j, field) == [i |-> i, j |-> j, field |-> field]
RvField(field) == RvAt(0, 0, field)

\* appendValidationIssues
RvAppend(issues, more) ==
    issues \o SubSeq(more, 1, Min({Len(more), RvMaxIssues - Len(issues)}))

RvFull(issues) == Len(issues) >= RvMaxIssues

\* A loop over the items, of which found holds the issues, that stops at the limit.
RvLoop(issues, found) ==
    FoldLeft(LAMBDA sofar, more : IF RvFull(sofar) THEN sofar ELSE RvAppend(sofar, more),
             issues, found)

\* requireString, validateUUID, validateIP, validateFlow and validateCipherType,
\* for the fields of one object in order.
RvFaults(object, fields, i, j) ==
    LET faulty == SelectSeq(fields, LAMBDA f : object[f] # "ok")
    IN  [n \in 1 .. Len(faulty) |-> RvAt(i, j, faulty[n])]

RvIf(fault, field) == IF fault THEN <<RvField(field)>> ELSE <<>>

\* The list of plain strings of a request.
RvStrings(issues, list, field) ==
    RvLoop(issues,
           [i \in 1 .. Len(list.items) |->
               IF list.items[i] # "ok" THEN <<RvAt(i, 0, field)>> ELSE <<>>])

RvByType ==
    [trojan |-> <<"password">>, shadowsocks22 |-> <<"password">>, hysteria |-> <<"password">>,
     vless |-> <<"uuid", "flow">>, shadowsocks |-> <<"password", "cipherType", "ivCheck">>]

\* AddUserItemRequest.validate
RvUserItem(item, i) ==
    IF item.type \notin DOMAIN RvByType THEN <<RvAt(i, 0, "type")>>
    ELSE RvFaults(item, <<"tag", "username">> \o RvByType[item.type], i, 0)

\* AddUserRequest.Validate
RvAddUser(r) ==
    LET data == IF ~r.data.given THEN <<RvField("data")>>
                ELSE RvLoop(<<>>, [i \in 1 .. Len(r.data.items) |-> RvUserItem(r.data.items[i], i)])
        hash == RvAppend(data, RvFaults(r.hash, <<"vlessUuid">>, 0, 0))
    IN  IF r.data.given /\ RvFull(data) THEN data
        ELSE IF ~r.hash.given THEN RvAppend(data, <<RvField("hashData")>>)
        ELSE RvAppend(hash, RvIf(r.hash.prevVlessUuid \notin {"absent", "ok"}, "prevVlessUuid"))

\* RemoveUserRequest.Validate
RvRemoveUser(r) ==
    RvFaults(r, <<"username">>, 0, 0)
    \o IF r.hash.given THEN RvFaults(r.hash, <<"vlessUuid">>, 0, 0) ELSE <<RvField("hashData")>>

\* AddUsersInboundRequest.validate
RvInbound(item, i, j) ==
    IF item.type \notin DOMAIN RvByType THEN <<RvAt(i, j, "type")>>
    ELSE RvFaults(item, IF item.type = "vless" THEN <<"tag", "flow">> ELSE <<"tag">>, i, j)

\* Mutant: any issue of the inbounds ends the checks of a user, not only the limit.
RvUserStops(user, i) ==
    LET inbounds ==
            IF ~user.inbounds.given THEN <<RvAt(i, 0, "inboundData")>>
            ELSE RvLoop(<<>>, [j \in 1 .. Len(user.inbounds.items) |-> RvInbound(user.inbounds.items[j], i, j)])
    IN  IF inbounds # <<>> THEN inbounds
        ELSE IF ~user.data.given THEN <<RvAt(i, 0, "userData")>>
        ELSE RvFaults(user.data, <<"userId", "hashUuid", "vlessUuid", "trojanPassword", "ssPassword">>, i, 0)

\* AddUsersUserRequest.validate
RvUser(user, i) ==
    LET inbounds ==
            IF ~user.inbounds.given THEN <<RvAt(i, 0, "inboundData")>>
            ELSE RvLoop(<<>>, [j \in 1 .. Len(user.inbounds.items) |-> RvInbound(user.inbounds.items[j], i, j)])
    IN  IF user.inbounds.given /\ RvFull(inbounds) THEN inbounds
        ELSE IF ~user.data.given THEN Append(inbounds, RvAt(i, 0, "userData"))
        ELSE RvAppend(inbounds, RvFaults(user.data, <<"userId", "hashUuid", "vlessUuid", "trojanPassword", "ssPassword">>, i, 0))

\* AddUsersRequest.Validate
RvAddUsers(r) ==
    LET tags == IF ~r.tags.given THEN <<RvField("affectedInboundTags")>>
                ELSE RvStrings(<<>>, r.tags, "affectedInboundTags")
    IN  IF r.tags.given /\ RvFull(tags) THEN tags
        ELSE IF ~r.users.given THEN Append(tags, RvField("users"))
        ELSE RvLoop(tags, [i \in 1 .. Len(r.users.items) |-> RvUser(r.users.items[i], i)])

\* RemoveUsersRequest.Validate and BlockIPsRequest.Validate: a list of objects.
RvObjects(list, field, fields) ==
    IF ~list.given THEN <<RvField(field)>>
    ELSE RvLoop(<<>>, [i \in 1 .. Len(list.items) |-> RvFaults(list.items[i], fields, i, 0)])

\* DropUsersConnectionsRequest.Validate and DropIPsRequest.Validate
RvDrop(list, field) ==
    IF ~list.given \/ list.items = <<>> THEN <<RvField(field)>> ELSE RvStrings(<<>>, list, field)

\* UnblockIPsRequest.Validate: an empty list is accepted.
RvUnblock(list) ==
    IF ~list.given THEN <<RvField("ips")>> ELSE RvStrings(<<>>, list, "ips")

\* XrayStartRequest.Validate
RvStartInternals(r) ==
    LET metadata ==
            CASE r.metadata.is = "null" -> <<RvField("metadata")>>
              [] r.metadata.is = "ok" -> RvFaults(r.metadata, <<"name", "uuid", "id", "tags", "countryCode">>, 0, 0)
              [] OTHER -> <<>>
        options == RvAppend(RvAppend(RvAppend(<<>>, metadata), RvIf(r.integrations = "null", "integrations")),
                            RvIf(r.forceRestart = "null", "forceRestart"))
        hashes == RvAppend(options, RvFaults(r.hashes, <<"emptyConfig">>, 0, 0))
    IN  IF ~r.hashes.given THEN RvAppend(options, <<RvField("hashes")>>)
        ELSE IF ~r.hashes.inbounds.given THEN RvAppend(hashes, <<RvField("inbounds")>>)
        ELSE RvLoop(hashes,
                    [i \in 1 .. Len(r.hashes.inbounds.items) |->
                        RvFaults(r.hashes.inbounds.items[i], <<"usersCount", "hash", "tag">>, i, 0)])

RvStart(r) ==
    RvAppend(IF r.internals THEN RvStartInternals(r) ELSE <<RvField("internals")>>,
             RvIf(~r.xrayConfig, "xrayConfig"))

\* PluginSyncRequest.Validate: a null plugin is valid.
RvSync(r) ==
    CASE r.plugin.is = "absent" -> <<RvField("plugin")>>
      [] r.plugin.is = "null" -> <<>>
      [] OTHER -> RvFaults(r.plugin, <<"config", "uuid", "name">>, 0, 0)

RvValidate(r) ==
    CASE r.kind = "addUser" -> RvAddUser(r)
      [] r.kind = "addUsers" -> RvAddUsers(r)
      [] r.kind = "removeUser" -> RvRemoveUser(r)
      [] r.kind = "removeUsers" -> RvObjects(r.list, "users", <<"userId", "hashUuid">>)
      [] r.kind = "dropUsers" -> RvDrop(r.list, "userIds")
      [] r.kind = "dropIPs" -> RvDrop(r.list, "ips")
      [] r.kind = "block" -> RvObjects(r.list, "ips", <<"ip", "timeout">>)
      [] r.kind = "unblock" -> RvUnblock(r.list)
      [] r.kind = "start" -> RvStart(r)
      [] r.kind = "sync" -> RvSync(r)

-----------------------------------------------------------------------------
\* boundIssueString: cut back to whole characters, with "..." after them.
RvSize(text, n) == FoldLeft(LAMBDA sum, w : sum + w, 0, SubSeq(text, 1, n))
RvWhole(text, e) == \E n \in 0 .. Len(text) : RvSize(text, n) = e

RECURSIVE RvEnd(_, _)
RvEnd(text, e) == IF e > 0 /\ ~RvWhole(text, e) THEN RvEnd(text, e - 1) ELSE e

RvBoundText(text) ==
    IF RvSize(text, Len(text)) <= RvMaxText THEN [kept |-> Len(text), dots |-> FALSE]
    ELSE [kept |-> CHOOSE n \in 0 .. Len(text) : RvSize(text, n) = RvEnd(text, RvMaxText - 3), dots |-> TRUE]

\* NewValidationError
RvRefuse(issues) ==
    /\ rvState' = "refused"
    /\ rvIssues' = SubSeq(issues, 1, Min({Len(issues), RvMaxIssues}))
    /\ rvSent' = RvBoundText(rvText)

\* DecodeJSON, once the document was scanned: json.Unmarshal, then Validate.
RvDecode ==
    /\ rvState = "decoded"
    /\ IF ~rvIn.typed THEN RvRefuse(<<RvField("type")>>)
       ELSE IF RvValidate(rvIn) # <<>> THEN RvRefuse(RvValidate(rvIn))
       ELSE rvState' = "valid" /\ UNCHANGED <<rvIssues, rvSent>>
    /\ UNCHANGED <<rvIn, rvText>>

RvSpec == RvInit /\ [][RvDecode]_rvVars

-----------------------------------------------------------------------------
\* Everything that is wrong with a request, whatever the order and the limit.
RvWrong(object, fields, i, j) == {RvAt(i, j, f) : f \in {g \in fields : object[g] # "ok"}}
RvWrongIn(list, field, Wrong(_)) ==
    IF list.given THEN UNION {Wrong(i) : i \in DOMAIN list.items} ELSE {RvField(field)}
RvNeeded(type) == {"tag", "username"} \cup Range(RvByType[type])

RvWrongInbound(item, i, j) ==
    IF item.type \notin DOMAIN RvByType THEN {RvAt(i, j, "type")}
    ELSE RvWrong(item, {"tag", "flow"} \ (IF item.type = "vless" THEN {} ELSE {"flow"}), i, j)

RvWrongUser(user, i) ==
    (IF user.inbounds.given
     THEN UNION {RvWrongInbound(user.inbounds.items[j], i, j) : j \in DOMAIN user.inbounds.items}
     ELSE {RvAt(i, 0, "inboundData")})
    \cup (IF user.data.given THEN RvWrong(user.data, DOMAIN user.data \ {"given"}, i, 0) ELSE {RvAt(i, 0, "userData")})

RvWrongHash(hash) ==
    IF hash.given THEN {RvField(f) : f \in {g \in DOMAIN hash \ {"given"} : hash[g] \notin {"absent", "ok"}}}
    ELSE {RvField("hashData")}

RvWrongStart(r) ==
    (IF r.metadata.is = "ok" THEN RvWrong(r.metadata, DOMAIN r.metadata \ {"is"}, 0, 0) ELSE {})
    \cup {RvField(f) : f \in {g \in {"metadata", "integrations", "forceRestart"} :
                                "null" = IF g = "metadata" THEN r.metadata.is ELSE r[g]}}
    \cup (IF ~r.hashes.given THEN {RvField("hashes")}
          ELSE RvWrong(r.hashes, {"emptyConfig"}, 0, 0)
               \cup RvWrongIn(r.hashes.inbounds, "inbounds",
                              LAMBDA i : RvWrong(r.hashes.inbounds.items[i], {"usersCount", "hash", "tag"}, i, 0)))

RvWrongList(r, field) ==
    RvWrongIn(r.list, field, LAMBDA i : IF r.list.items[i] = "ok" THEN {} ELSE {RvAt(i, 0, field)})
    \cup (IF r.list.items = <<>> /\ r.kind # "unblock" THEN {RvField(field)} ELSE {})

RvDefects(r) ==
    CASE ~r.typed -> {RvField("type")}
      [] r.typed /\ r.kind = "addUser" ->
            RvWrongHash(r.hash)
            \cup RvWrongIn(r.data, "data", LAMBDA i : IF r.data.items[i].type \notin DOMAIN RvByType
                                                      THEN {RvAt(i, 0, "type")}
                                                      ELSE RvWrong(r.data.items[i], RvNeeded(r.data.items[i].type), i, 0))
      [] r.typed /\ r.kind = "addUsers" ->
            RvWrongIn(r.tags, "affectedInboundTags",
                      LAMBDA i : IF r.tags.items[i] = "ok" THEN {} ELSE {RvAt(i, 0, "affectedInboundTags")})
            \cup RvWrongIn(r.users, "users", LAMBDA i : RvWrongUser(r.users.items[i], i))
      [] r.typed /\ r.kind = "removeUser" -> RvWrong(r, {"username"}, 0, 0) \cup RvWrongHash(r.hash)
      [] r.typed /\ r.kind = "removeUsers" ->
            RvWrongIn(r.list, "users", LAMBDA i : RvWrong(r.list.items[i], DOMAIN r.list.items[i], i, 0))
      [] r.typed /\ r.kind = "block" ->
            RvWrongIn(r.list, "ips", LAMBDA i : RvWrong(r.list.items[i], DOMAIN r.list.items[i], i, 0))
      [] r.typed /\ r.kind = "dropUsers" -> RvWrongList(r, "userIds")
      [] r.typed /\ r.kind \in {"dropIPs", "unblock"} -> RvWrongList(r, "ips")
      [] r.typed /\ r.kind = "start" ->
            (IF r.internals THEN RvWrongStart(r) ELSE {RvField("internals")})
            \cup (IF r.xrayConfig THEN {} ELSE {RvField("xrayConfig")})
      [] r.typed /\ r.kind = "sync" ->
            CASE r.plugin.is = "absent" -> {RvField("plugin")}
              [] r.plugin.is = "null" -> {}
              [] OTHER -> RvWrong(r.plugin, DOMAIN r.plugin \ {"is"}, 0, 0)

\* A request is refused exactly when something is wrong with it.  Every issue sent
\* is a different thing that is wrong, and none is left out before the limit,
\* although the methods return early and nest their limits.
RvIssuesExact ==
    /\ rvState = "valid" => RvDefects(rvIn) = {}
    /\ rvState = "refused" =>
         /\ rvIssues # <<>> /\ IsInjective(rvIssues) /\ Range(rvIssues) \subseteq RvDefects(rvIn)
         /\ Len(rvIssues) = Min({RvMaxIssues, Cardinality(RvDefects(rvIn))})

\* A text that is sent is the whole text, or the longest run of whole characters
\* that leaves room for the dots.
RvTextWhole ==
    rvState = "refused" =>
        IF rvSent.dots
        THEN /\ RvSize(rvText, rvSent.kept) <= RvMaxText - 3 /\ RvSize(rvText, rvSent.kept + 1) > RvMaxText - 3
             /\ RvSize(rvText, Len(rvText)) > RvMaxText
        ELSE rvSent.kept = Len(rvText) /\ RvSize(rvText, Len(rvText)) <= RvMaxText

\* What the validation of a request promises.
RvPromise ==
    /\ RvIssuesExact
    /\ RvTextWhole
=============================================================================

---------------------------- MODULE JsonDocument ----------------------------
(***************************************************************************)
(* The scan that every JSON body passes before it is decoded               *)
(* (internal/nodeapi/json.go): one document, an object or an array, within *)
(* the bounds on depth, tokens and members, without repeated keys and      *)
(* without keys that encoding/json would match to a field of another       *)
(* spelling.  encoding/json's decoder delivers the tokens one by one; a    *)
(* body that ends ("eof"), is malformed or cut inside a token ("bad") or   *)
(* passes the size limit ("big") shows there.                              *)
(***************************************************************************)
EXTENDS Naturals, Sequences, FiniteSets, FiniteSetsExt

CONSTANTS JdSchemas,      \* Go type -> [kind, fields, elem]
          JdRoot,         \* the type of the route's request
          JdKeys, JdLong, \* object keys; those over maxJSONKeyBytes
          JdFold(_),      \* a key in lower case
          JdMaxDepth, JdMaxTokens, JdMaxOpaque, JdMaxControl

VARIABLES jdCall,     \* [dto, body]: whether the route has a request type; the body
          jdDoc,      \* what the decoder delivered so far
          jdTokens,   \* jsonTokenScanner.tokens
          jdStack,    \* the calls of scanJSONObject and scanJSONArray
          jdOut,      \* "open", "accepted" or the issue
          jdPath      \* the issue's path

jdVars == <<jdCall, jdDoc, jdTokens, jdStack, jdOut, jdPath>>

JdNil == "nil"   \* no type: a nil schema; no key: between two members

JdInit ==
    /\ jdCall \in [dto : BOOLEAN, body : {"nil", "empty", "blank", "text"}]
    /\ jdDoc = <<>> /\ jdTokens = 0 /\ jdStack = <<>> /\ jdOut = "open" /\ jdPath = <<>>

JdOpeners == {"{", "["}
JdClosers == {"}", "]"}
JdEvent(t) == [t |-> t, k |-> JdNil]
JdKey(k) == [t |-> "key", k |-> k]

-----------------------------------------------------------------------------
\* schemaFields: only a struct, or a type that names one, has known fields.
JdHasSchema(s) == s # JdNil /\ JdSchemas[s].kind = "struct"
JdFields(s) == IF JdHasSchema(s) THEN JdSchemas[s].fields ELSE <<>>

\* controlArraySchema
JdElement(s) ==
    IF s # JdNil /\ JdSchemas[s].kind = "slice" THEN JdSchemas[s].elem ELSE JdNil

\* What the elements or members are counted against.
JdLimit(open, s) ==
    IF open = "{" /\ JdHasSchema(s) THEN JdMaxControl
    ELSE IF open = "[" /\ JdElement(s) # JdNil THEN JdMaxControl
    ELSE JdMaxOpaque

\* The exact field, else foldedName.
JdFieldType(s, k) ==
    IF k \in DOMAIN JdFields(s) THEN JdFields(s)[k] ELSE JdNil

JdMisspelt(s, k) ==
    /\ k \notin DOMAIN JdFields(s)
    /\ \E f \in DOMAIN JdFields(s) : JdFold(f) = JdFold(k)

\* jsonTokenScanner.next: at the cap only the end of the input is let through.
JdNext(e) ==
    IF jdTokens >= JdMaxTokens /\ e.t # "eof" THEN "limit" ELSE e.t

JdPeek(e) == jdDoc' = Append(jdDoc, e) /\ UNCHANGED jdTokens
JdRead(e) ==
    /\ jdDoc' = Append(jdDoc, e)
    /\ jdTokens' = jdTokens + (IF JdNext(e) \in {"limit", "eof", "bad", "big"} THEN 0 ELSE 1)

\* jsonSyntaxIssue and issueFromDecodeError; "tooLarge" answers 413.
JdSyntaxIssue(t) ==
    CASE t = "limit" -> "tokens" [] t = "big" -> "tooLarge" [] OTHER -> "syntax"
JdDecodeIssue(t) ==
    CASE t = "big" -> "tooLarge" [] t = "eof" -> "missing" [] OTHER -> "syntax"

JdEnd(issue, path) == jdOut' = issue /\ jdPath' = path /\ UNCHANGED jdStack
JdContinue(stack) == jdStack' = stack /\ UNCHANGED <<jdOut, jdPath>>

JdFrame(open, s, path) ==
    [open |-> open, type |-> s, path |-> path, n |-> 0, seen |-> {}, key |-> JdNil]

\* Mutant: the depth is compared before it is raised.
JdScanDeeper(e, s, path, stack) ==
    IF e.t = "scalar" THEN JdContinue(stack)
    ELSE IF Len(stack) > JdMaxDepth THEN JdEnd("depth", path)
    ELSE JdContinue(Append(stack, JdFrame(e.t, s, path)))

\* scanJSONToken
JdScan(e, s, path, stack) ==
    IF e.t = "scalar" THEN JdContinue(stack)
    ELSE IF Len(stack) + 1 > JdMaxDepth THEN JdEnd("depth", path)
    ELSE JdContinue(Append(stack, JdFrame(e.t, s, path)))

-----------------------------------------------------------------------------
JdTop == jdStack[Len(jdStack)]
JdReplaceTop(f) == [jdStack EXCEPT ![Len(jdStack)] = f]
JdInside == jdOut = "open" /\ jdStack # <<>>

\* scanJSONDocument up to the root's token.
JdNoBody ==
    /\ jdOut = "open" /\ jdDoc = <<>> /\ jdCall.body = "nil"
    /\ jdOut' = IF jdCall.dto THEN "missing" ELSE "accepted"
    /\ UNCHANGED <<jdCall, jdDoc, jdTokens, jdStack, jdPath>>

JdFirst(e) ==
    /\ jdOut = "open" /\ jdDoc = <<>>
    /\ jdCall.body \in IF e.t = "eof" THEN {"empty", "blank"} ELSE {"text"}
    /\ JdRead(e)
    /\ CASE e.t = "eof" /\ jdCall.body = "blank" -> JdEnd("syntax", <<>>)
         [] e.t = "eof" /\ jdCall.body = "empty" -> JdEnd(IF jdCall.dto THEN "missing" ELSE "accepted", <<>>)
         [] e.t \in {"bad", "big"} -> JdEnd(JdDecodeIssue(e.t), <<>>)
         [] e.t = "scalar" -> JdEnd("root", <<>>)
         [] OTHER -> JdScan(e, IF jdCall.dto THEN JdRoot ELSE JdNil, <<>>, <<>>)
    /\ UNCHANGED jdCall

\* scanJSONObject: the checks of a member, in order, and the path of each issue.
JdMemberIssue(e) ==
    IF JdTop.n + 1 > JdLimit("{", JdTop.type) THEN "members"
    ELSE IF JdNext(e) # "key" THEN JdSyntaxIssue(JdNext(e))
    ELSE IF e.k \in JdLong THEN "key"
    ELSE IF e.k \in JdTop.seen THEN "duplicate"
    ELSE IF JdMisspelt(JdTop.type, e.k) THEN "spelling"
    ELSE "none"

JdMemberPath(issue, k) ==
    CASE issue \in {"members", "key"} -> JdTop.path
      [] issue \in {"duplicate", "spelling"} -> Append(JdTop.path, k)
      [] OTHER -> <<>>

JdMember(e) ==
    /\ JdInside /\ JdTop.open = "{" /\ JdTop.key = JdNil
    /\ IF JdMemberIssue(e) = "members" THEN JdPeek(e) ELSE JdRead(e)
    /\ LET issue == JdMemberIssue(e) IN
       IF issue # "none" THEN JdEnd(issue, JdMemberPath(issue, e.k))
       ELSE JdContinue(JdReplaceTop([JdTop EXCEPT !.n = @ + 1, !.seen = @ \cup {e.k}, !.key = e.k]))
    /\ UNCHANGED jdCall

\* scanJSONObject: the member's value.
JdValue(e) ==
    /\ JdInside /\ JdTop.open = "{" /\ JdTop.key # JdNil
    /\ JdRead(e)
    /\ IF JdNext(e) \notin JdOpeners \cup {"scalar"} THEN JdEnd(JdSyntaxIssue(JdNext(e)), <<>>)
       ELSE JdScan(e, JdFieldType(JdTop.type, JdTop.key), Append(JdTop.path, JdTop.key),
                   JdReplaceTop([JdTop EXCEPT !.key = JdNil]))
    /\ UNCHANGED jdCall

\* scanJSONArray: one item.  An untyped array's items keep the array's path.
JdItem(e) ==
    /\ JdInside /\ JdTop.open = "["
    /\ IF JdTop.n >= JdLimit("[", JdTop.type) THEN JdPeek(e) ELSE JdRead(e)
    /\ IF JdTop.n >= JdLimit("[", JdTop.type) THEN JdEnd("items", JdTop.path)
       ELSE IF JdNext(e) \notin JdOpeners \cup {"scalar"} THEN JdEnd(JdSyntaxIssue(JdNext(e)), <<>>)
       ELSE JdScan(e, JdElement(JdTop.type),
                   IF JdElement(JdTop.type) = JdNil THEN JdTop.path ELSE Append(JdTop.path, JdTop.n),
                   JdReplaceTop([JdTop EXCEPT !.n = @ + 1]))
    /\ UNCHANGED jdCall

\* More is false at a closing delimiter and when the input breaks off.
JdClose(e) ==
    /\ JdInside /\ JdTop.key = JdNil
    /\ e.t \in {IF JdTop.open = "{" THEN "}" ELSE "]", "bad", "big", "eof"}
    /\ JdRead(e)
    /\ IF JdNext(e) \in JdClosers THEN JdContinue(SubSeq(jdStack, 1, Len(jdStack) - 1))
       ELSE JdEnd(JdSyntaxIssue(JdNext(e)), <<>>)
    /\ UNCHANGED jdCall

\* scanJSONDocument: what follows the root.
JdTrailer(e) ==
    /\ jdOut = "open" /\ jdDoc # <<>> /\ jdStack = <<>>
    /\ JdRead(e)
    /\ LET t == JdNext(e) IN
       JdEnd(CASE t = "eof" -> "accepted"
                  [] t \in {"bad", "big", "limit"} -> JdDecodeIssue(t)
                  [] OTHER -> "single", <<>>)
    /\ UNCHANGED jdCall

JdValues == {JdEvent(t) : t \in JdOpeners \cup {"scalar", "bad"}}
JdFailures == {JdEvent("big"), JdEvent("eof")}

JdStep ==
    \/ JdNoBody
    \/ \E e \in JdValues \cup JdFailures : JdFirst(e) \/ JdValue(e) \/ JdTrailer(e)
    \/ \E e \in {JdKey(k) : k \in JdKeys} \cup {JdEvent("bad"), JdEvent("big")} : JdMember(e)
    \/ \E e \in JdValues \cup {JdEvent("big")} : JdItem(e)
    \/ \E t \in JdClosers \cup {"bad", "big", "eof"} : JdClose(JdEvent(t))

JdSpec == JdInit /\ [][JdStep]_jdVars

-----------------------------------------------------------------------------
\* The same document judged as a whole, from the positions of its tokens.
\* The containers that token i lies in, and the innermost one.
JdTs(j, m, types) == Cardinality({x \in j .. m : jdDoc[x].t \in types})
JdAround(i) ==
    {j \in 1 .. i - 1 : /\ jdDoc[j].t \in JdOpeners
                        /\ \A m \in j .. i - 1 : JdTs(j, m, JdOpeners) > JdTs(j, m, JdClosers)}
JdParent(i) == Max(JdAround(i))

\* The members or items of container j up to token i.
JdChildren(j, i) ==
    {x \in j + 1 .. i : /\ JdAround(x) # {} /\ JdParent(x) = j
                        /\ jdDoc[x].t \in IF jdDoc[j].t = "{" THEN {"key"} ELSE JdOpeners \cup {"scalar"}}

\* The type and the path of the container opened by token i.
RECURSIVE JdTypeAt(_), JdPathAt(_)
JdTypeAt(i) ==
    IF JdAround(i) = {} THEN IF jdCall.dto THEN JdRoot ELSE JdNil
    ELSE LET j == JdParent(i) IN
         IF jdDoc[j].t = "[" THEN JdElement(JdTypeAt(j)) ELSE JdFieldType(JdTypeAt(j), jdDoc[i - 1].k)
JdPathAt(i) ==
    IF JdAround(i) = {} THEN <<>>
    ELSE LET j == JdParent(i) IN
         JdPathAt(j) \o (IF jdDoc[j].t = "{" THEN <<jdDoc[i - 1].k>>
                         ELSE IF JdElement(JdTypeAt(j)) = JdNil THEN <<>>
                         ELSE <<Cardinality(JdChildren(j, i - 1))>>)

JdSoundKey(i) ==
    LET j == JdParent(i) IN
    /\ jdDoc[i].k \notin JdLong
    /\ \A x \in JdChildren(j, i - 1) : jdDoc[x].k # jdDoc[i].k
    /\ \A f \in DOMAIN JdFields(JdTypeAt(j)) : JdFold(f) = JdFold(jdDoc[i].k) => f = jdDoc[i].k

\* Token i may follow the tokens before it.
JdSoundAt(i) ==
    LET t == jdDoc[i].t IN
    /\ t \notin {"bad", "big"}
    /\ t # "eof" => i <= JdMaxTokens
    /\ i = 1 => t \in JdOpeners \/ (t = "eof" /\ ~jdCall.dto /\ jdCall.body = "empty")
    /\ i > 1 => (t = "eof" <=> JdAround(i) = {})
    /\ t \in JdOpeners => Cardinality(JdAround(i)) < JdMaxDepth
    /\ t = "key" => JdSoundKey(i)
    /\ \A j \in JdAround(i) : Cardinality(JdChildren(j, i)) <= JdLimit(jdDoc[j].t, JdTypeAt(j))

\* A body is refused at the first token that makes it unacceptable and at no
\* other: the token just read is sound exactly when the scan goes on, or ends in
\* acceptance, which it does at the end of the input only.
JdExact ==
    /\ jdDoc # <<>> => (JdSoundAt(Len(jdDoc)) <=> jdOut \in {"open", "accepted"})
    /\ jdOut = "accepted" /\ jdDoc # <<>> => jdDoc[Len(jdDoc)].t = "eof"

\* The issue says where: the path of a refused container or key leads there
\* through the members and typed items that enclose it.
JdIssueLeads ==
    LET n == Len(jdDoc) IN
    /\ jdOut = "depth" => jdPath = JdPathAt(n)
    /\ jdOut \in {"members", "items", "key"} => jdPath = JdPathAt(JdParent(n))
    /\ jdOut \in {"duplicate", "spelling"} => jdPath = Append(JdPathAt(JdParent(n)), jdDoc[n].k)

\* A body over the size limit is answered as such wherever the limit cuts it,
\* unless the tokens, or the members or items it lies among, had run out before.
JdTooLarge ==
    jdOut = "tooLarge" <=> /\ jdDoc # <<>> /\ jdDoc[Len(jdDoc)].t = "big"
                           /\ jdTokens < JdMaxTokens /\ jdOut \notin {"members", "items"}

\* What the scan of a JSON body promises.
JdPromise ==
    /\ JdExact
    /\ JdIssueLeads
    /\ JdTooLarge
=============================================================================

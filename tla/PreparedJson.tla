---------------------------- MODULE PreparedJson ----------------------------
(* The sizing of the prepared configuration before it is encoded             *)
(* (internal/xray/prepared_json.go).  A JSON value is a record with its kind *)
(* and parts; a string is a sequence of character classes; a number is its   *)
(* text.  The encoder of the standard library, which the sizer must match    *)
(* byte for byte, is written out separately as the bytes it appends.         *)
EXTENDS Naturals, Sequences, SequencesExt

CONSTANTS
    PjValues,       \* the configurations of the instance
    PjMaxBytes,     \* maxPreparedRuntimeConfigBytes
    PjMaxDepth,     \* maxPreparedJSONDepth
    PjBadSize       \* bytes the library writes for an invalid byte (3 or 6)

VARIABLES
    pjValue, pjState,   \* the configuration and where its encoding is
    pjSize,             \* the size preflight found
    pjWritten           \* what reached the destination

pjVars == <<pjValue, pjState, pjSize, pjWritten>>

\* addString, for one character.
PjCharSize(char) ==
    CASE char = "short" -> 2 [] char = "control" -> 6 [] char = "plain" -> 1
      [] char = "wide" -> 3 [] char = "bad" -> PjBadSize [] char = "line" -> 6

\* add: what is left of the budget after a part, or a failure that stays.
PjFailed == [ok |-> FALSE, left |-> 0]
PjAdd(budget, size) ==
    IF ~budget.ok \/ size > budget.left THEN PjFailed ELSE [budget EXCEPT !.left = @ - size]

PjAddString(budget, chars) ==
    PjAdd(FoldSeq(LAMBDA char, b : PjAdd(b, PjCharSize(char)), PjAdd(budget, 1), chars), 1)

\* The separator before an element.
\* Mutant: it is counted before every element.
PjCommaAlways(index) == 1
PjComma(index) == IF index = 1 THEN 0 ELSE 1

\* addValue: depth first, and nothing after the first failure.
RECURSIVE PjAddValue(_, _, _)
PjAddValue(budget, value, depth) ==
    IF ~budget.ok \/ depth > PjMaxDepth THEN PjFailed
    ELSE CASE value.kind = "word" -> PjAdd(budget, value.length)
           [] value.kind = "string" -> PjAddString(budget, value.chars)
           [] value.kind = "array" ->
                 LET items[i \in 0 .. Len(value.items)] ==
                         IF i = 0 THEN PjAdd(budget, 1)
                         ELSE PjAddValue(PjAdd(items[i - 1], PjComma(i)), value.items[i], depth + 1)
                 IN  PjAdd(items[Len(value.items)], 1)
           [] value.kind = "object" ->
                 LET items[i \in 0 .. Len(value.items)] ==
                         IF i = 0 THEN PjAdd(budget, 1)
                         ELSE PjAddValue(PjAdd(PjAddString(PjAdd(items[i - 1], PjComma(i)), value.keys[i]), 1),
                                         value.items[i], depth + 1)
                 IN  PjAdd(items[Len(value.items)], 1)
           [] OTHER -> PjFailed

----------------------------------------------------------------------------
(* encoding/json with SetEscapeHTML(false). *)

PjBytes(n) == [i \in 1 .. n |-> "x"]
PjEncodeChar(char) ==
    CASE char = "short" -> <<"\\", "n">>
      [] char = "control" -> <<"\\", "u", "0", "0", "0", "1">>
      [] char = "plain" -> <<"a">>
      [] char = "wide" -> <<"e2", "82", "ac">>
      [] char = "bad" -> PjBytes(PjBadSize)
      [] char = "line" -> <<"\\", "u", "2", "0", "2", "8">>
PjEncodeString(chars) == <<"'">> \o FlattenSeq([i \in DOMAIN chars |-> PjEncodeChar(chars[i])]) \o <<"'">>

RECURSIVE PjEncode(_)
PjEncode(value) ==
    CASE value.kind = "word" -> PjBytes(value.length)
      [] value.kind = "string" -> PjEncodeString(value.chars)
      [] value.kind = "array" ->
            <<"[">> \o FlattenSeq([i \in DOMAIN value.items |->
                           (IF i = 1 THEN <<>> ELSE <<",">>) \o PjEncode(value.items[i])]) \o <<"]">>
      [] value.kind = "object" ->
            <<"{">> \o FlattenSeq([i \in DOMAIN value.items |->
                           (IF i = 1 THEN <<>> ELSE <<",">>) \o PjEncodeString(value.keys[i]) \o <<":">>
                           \o PjEncode(value.items[i])]) \o <<"}">>

RECURSIVE PjDepth(_)
PjDepth(value) ==
    IF value.kind \notin {"array", "object"} \/ value.items = <<>> THEN 0
    ELSE 1 + Max({PjDepth(value.items[i]) : i \in DOMAIN value.items})

----------------------------------------------------------------------------

PjInit == pjValue \in PjValues /\ pjState = "new" /\ pjSize = 0 /\ pjWritten = <<>>

PjPreflight ==
    /\ pjState = "new"
    /\ LET budget == PjAddValue([ok |-> TRUE, left |-> PjMaxBytes], pjValue, 0)
       IN  /\ pjState' = IF budget.ok THEN "sized" ELSE "refused"
           /\ pjSize' = IF budget.ok THEN PjMaxBytes - budget.left ELSE 0
    /\ UNCHANGED <<pjValue, pjWritten>>

\* The encoder writes once, a newline behind the value; the writer refuses more
\* than the limit and the newline, and the size is compared.
PjWrite ==
    /\ pjState = "sized"
    /\ LET bytes == Append(PjEncode(pjValue), "newline")
       IN  IF Len(bytes) > PjMaxBytes + 1 \/ Len(bytes) # pjSize + 1
           THEN pjState' = "changed" /\ UNCHANGED pjWritten
           ELSE pjState' = "encoded" /\ pjWritten' = SubSeq(bytes, 1, Len(bytes) - 1)
    /\ UNCHANGED <<pjValue, pjSize>>

PjNext == PjPreflight \/ PjWrite
PjSpec == PjInit /\ [][PjNext]_pjVars

----------------------------------------------------------------------------

\* The preflight size is that of the encoding: a configuration that was sized is
\* encoded, and never stopped half way by the writer or the final comparison.
PjSizedIsEncoded == pjState # "changed"

\* Exactly the configurations whose encoding fits the limit, and that are not
\* nested too deeply, are accepted: stopping at the first part too many refuses
\* nothing that would have fitted.
PjRefusesExactly ==
    /\ pjState = "refused" => PjDepth(pjValue) > PjMaxDepth \/ Len(PjEncode(pjValue)) > PjMaxBytes
    /\ pjState = "encoded" => PjDepth(pjValue) <= PjMaxDepth /\ Len(pjWritten) <= PjMaxBytes

\* What the preflight promises: its verdict is that of the encoder.
PjPromise ==
    /\ PjSizedIsEncoded
    /\ PjRefusesExactly
=============================================================================

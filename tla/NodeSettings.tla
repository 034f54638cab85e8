---------------------------- MODULE NodeSettings ----------------------------
(***************************************************************************)
(* The node's settings (internal/config/config.go): node.env is read while *)
(* an editor may be changing it, parsed line by line, overlaid with the    *)
(* process environment for the node itself and with nothing for the native *)
(* tools, and turned into a Config or an error.  A line is one unit of     *)
(* size.  One flag stands for the optional settings that are checked the   *)
(* same way (booleans, BODY_LIMIT_MB, the versions).                       *)
(***************************************************************************)
EXTENDS Naturals, Sequences, FiniteSets, SequencesExt, TLC

CONSTANTS SeFiles,       \* contents of node.env
          SeEdits,       \* what the editor writes
          SeEnvs,        \* process environments: functions from some keys to values
          SeMemory,      \* values of GOMEMLIMIT: [word, number, digits, suffix]
          SeSecrets,     \* contents of SECRET_KEY_FILE, as characters
          SeMaxLines, SeMaxAssignments, SeMaxSize, SeMaxInt, SeMaxDigits, SeMaxSecret,
          MaxWrites      \* bound: the editor's writes

VARIABLES seFile,     \* the opened node.env: [text, mtime]
          seHeld,     \* the contents it had since it was opened
          seRead,     \* readStableRegularFile: [pc, size, mtime, got]
          seCall,     \* [tool, require, env, memory, secret]
          seOut       \* "none", "error" or the Config

seVars == <<seFile, seHeld, seRead, seCall, seOut>>

SeInit ==
    /\ seFile \in [text : SeFiles, mtime : {0}, there : BOOLEAN]
    /\ seHeld = {}
    /\ seRead = [pc |-> "new", size |-> 0, mtime |-> 0, got |-> <<>>]
    /\ seCall \in [tool : BOOLEAN, require : BOOLEAN, env : SeEnvs, memory : SeMemory, secret : SeSecrets]
    /\ ~seCall.tool => seCall.require
    /\ seOut = [is |-> "none"]

-----------------------------------------------------------------------------
\* An editor writes in place while the node reads, and every write changes the
\* modification time.
SeEdit ==
    /\ ~seCall.tool /\ seRead.pc \in {"new", "reading", "read"} /\ seFile.mtime < MaxWrites
    /\ \E text \in SeEdits :
        /\ text # seFile.text
        /\ seFile' = [text |-> text, mtime |-> seFile.mtime + 1, there |-> TRUE]
        /\ seHeld' = IF seRead.pc = "new" THEN {} ELSE seHeld \cup {text}
    /\ UNCHANGED <<seRead, seCall, seOut>>

SeFail == seRead' = [seRead EXCEPT !.pc = "done"] /\ seOut' = [is |-> "error"]

\* ParseData: a native tool hands over bytes it has read.
SeParseData ==
    /\ seRead.pc = "new" /\ seCall.tool /\ seFile.there
    /\ IF Len(seFile.text) > SeMaxSize THEN SeFail /\ UNCHANGED seHeld
       ELSE /\ seRead' = [seRead EXCEPT !.pc = "parse", !.got = seFile.text]
            /\ seHeld' = {seFile.text} /\ UNCHANGED seOut
    /\ UNCHANGED <<seFile, seCall>>

\* Load and readStableRegularFile: open, Stat and the check on the opened file.
\* Without a file there is nothing to parse.
SeOpen ==
    /\ seRead.pc = "new" /\ ~seCall.tool
    /\ \/ ~seFile.there /\ seRead' = [seRead EXCEPT !.pc = "parse"] /\ seHeld' = {<<>>} /\ UNCHANGED seOut
       \/ seFile.there /\ Len(seFile.text) > SeMaxSize /\ SeFail /\ UNCHANGED seHeld
       \/ /\ seFile.there /\ Len(seFile.text) <= SeMaxSize
          /\ seRead' = [seRead EXCEPT !.pc = "reading", !.size = Len(seFile.text), !.mtime = seFile.mtime]
          /\ seHeld' = {seFile.text} /\ UNCHANGED seOut
    /\ UNCHANGED <<seFile, seCall>>

\* io.ReadAll takes the file in pieces, up to one unit past the limit.
SeReadPiece ==
    /\ seRead.pc = "reading"
    /\ LET n == Len(seRead.got)
       IN  IF n < Len(seFile.text) /\ n <= SeMaxSize
           THEN seRead' = [seRead EXCEPT !.got = Append(@, seFile.text[n + 1])]
           ELSE seRead' = [seRead EXCEPT !.pc = "read"]
    /\ UNCHANGED <<seFile, seHeld, seCall, seOut>>

\* Mutant: the modification time is not compared.
SeSettledBySize ==
    /\ Len(seRead.got) <= SeMaxSize /\ Len(seFile.text) <= SeMaxSize
    /\ seRead.size = Len(seFile.text) /\ Len(seFile.text) = Len(seRead.got)

\* readStableRegularFile: the second Stat.
SeSettled ==
    /\ Len(seRead.got) <= SeMaxSize /\ Len(seFile.text) <= SeMaxSize
    /\ seRead.size = Len(seFile.text) /\ Len(seFile.text) = Len(seRead.got)
    /\ seRead.mtime = seFile.mtime

SeFinishRead ==
    /\ seRead.pc = "read"
    /\ IF SeSettled THEN seRead' = [seRead EXCEPT !.pc = "parse"] /\ UNCHANGED seOut ELSE SeFail
    /\ UNCHANGED <<seFile, seHeld, seCall>>

-----------------------------------------------------------------------------
\* parseDotEnvData: the values so far, the assignments counted, or an error.
SeParseLine(acc, n, line) ==
    IF acc.error \/ n > SeMaxLines THEN [acc EXCEPT !.error = TRUE]
    ELSE CASE line.is = "skip" -> acc
           [] line.is = "broken" -> [acc EXCEPT !.error = TRUE]
           [] line.is = "set" /\ acc.count + 1 > SeMaxAssignments -> [acc EXCEPT !.error = TRUE]
           [] OTHER -> [acc EXCEPT !.count = @ + 1, !.values = (line.key :> line.value) @@ @]

SeParse(text) ==
    FoldLeft(LAMBDA acc, n : SeParseLine(acc, n, text[n]),
             [values |-> <<>>, count |-> 0, error |-> FALSE], [n \in DOMAIN text |-> n])

\* Load: a setting of the environment that is not blank replaces the file's.
SeOverlay(values) ==
    IF seCall.tool THEN values
    ELSE [k \in {e \in DOMAIN seCall.env : seCall.env[e] # "blank"} |-> seCall.env[k]] @@ values

SeGet(values, key) == IF key \in DOMAIN values THEN values[key] ELSE "blank"

\* canonicalSecretFile: one line ending is dropped, anything else must be base64.
SeEndsIn(raw, tail) == Len(raw) >= Len(tail) /\ SubSeq(raw, Len(raw) - Len(tail) + 1, Len(raw)) = tail
SeWithout(raw, n) == SubSeq(raw, 1, Len(raw) - n)
SeBroken == <<"broken">>

SeCanonical(raw) ==
    LET body == IF SeEndsIn(raw, <<"cr", "lf">>) THEN SeWithout(raw, 2)
                ELSE IF SeEndsIn(raw, <<"lf">>) THEN SeWithout(raw, 1)
                ELSE raw
    IN  IF \/ Len(raw) > SeMaxSecret + 2
           \/ (body = raw /\ SeEndsIn(raw, <<"cr">>))
           \/ Len(body) \notin 1 .. SeMaxSecret \/ Range(body) # {"base64"}
        THEN SeBroken ELSE body

\* loadSecretFromFile
SeSecretFile(values) ==
    CASE SeGet(values, "SECRET_KEY_FILE") = "blank" -> <<>>
      [] SeGet(values, "SECRET_KEY_FILE") = "missing" -> <<"missing">>
      [] OTHER -> SeCanonical(seCall.secret)

\* configFromValues: the secret, or an error.
SeSecret(values) ==
    LET file == SeSecretFile(values)
    IN  CASE SeGet(values, "SECRET_KEY") # "blank" -> <<SeGet(values, "SECRET_KEY")>>
          [] SeGet(values, "SECRET_KEY") = "blank" /\ file \in {<<>>, <<"missing">>} ->
                 IF seCall.require THEN SeBroken ELSE <<>>
          [] OTHER -> file

\* optionalMemoryLimit: the longer suffixes are tried before "B".
SeUnits ==
    <<[suffix |-> <<"Mi", "B">>, times |-> 16], [suffix |-> <<"Ki", "B">>, times |-> 4],
      [suffix |-> <<"B">>, times |-> 1], [suffix |-> <<>>, times |-> 1]>>
SeNoLimit == [set |-> FALSE, bytes |-> 0]
SeBadLimit == [set |-> FALSE, bytes |-> 1]

SeMemoryLimit(m) ==
    LET unit == CHOOSE n \in DOMAIN SeUnits :
                    /\ SeEndsIn(m.suffix, SeUnits[n].suffix)
                    /\ \A k \in 1 .. n - 1 : ~SeEndsIn(m.suffix, SeUnits[k].suffix)
        rest == SeWithout(m.suffix, Len(SeUnits[unit].suffix))
    IN  CASE m.word = "blank" -> SeNoLimit
          [] m.word = "off" -> [set |-> TRUE, bytes |-> SeMaxInt]
          [] OTHER -> IF rest # <<>> \/ m.digits \notin 1 .. SeMaxDigits \/ m.number > SeMaxInt \div SeUnits[unit].times THEN SeBadLimit
                      ELSE [set |-> TRUE, bytes |-> m.number * SeUnits[unit].times]

\* requiredInt, optionalBool and their like
SeFlags == [blank |-> FALSE, yes |-> TRUE, no |-> FALSE]

\* configFromValues
SeConfig(values) ==
    LET secret == SeSecret(values)
        memory == SeMemoryLimit(seCall.memory)
        port == SeGet(values, "NODE_PORT")
        flag == SeGet(values, "LOW_MEMORY")
        token == SeGet(values, "INTERNAL_REST_TOKEN")
    IN  IF \/ port \notin {"p1", "p2"} \/ secret = SeBroken \/ flag \notin DOMAIN SeFlags
           \/ memory = SeBadLimit
        THEN [is |-> "error"]
        ELSE [is |-> "config", port |-> port, secret |-> secret, lowMemory |-> SeFlags[flag], memory |-> memory,
              token |-> IF token = "blank" /\ ~seCall.tool THEN "random" ELSE token]

SeConfigure ==
    /\ seRead.pc = "parse"
    /\ LET parsed == SeParse(seRead.got)
       IN  seOut' = IF parsed.error THEN [is |-> "error"] ELSE SeConfig(SeOverlay(parsed.values))
    /\ seRead' = [seRead EXCEPT !.pc = "done"]
    /\ UNCHANGED <<seFile, seHeld, seCall>>

SeNext == SeEdit \/ SeParseData \/ SeOpen \/ SeReadPiece \/ SeFinishRead \/ SeConfigure

SeSpec == SeInit /\ [][SeNext]_seVars

-----------------------------------------------------------------------------
\* Settings are taken from a text that node.env held at one moment, although it
\* is read piece by piece while it is being written.
SeReadsOneText == seOut.is = "config" => seRead.got \in seHeld

\* The setting in force: the environment's unless blank, and never for a tool;
\* else the last line of the file that sets it.
SeSetLines(key) == {n \in DOMAIN seRead.got : seRead.got[n].is = "set" /\ seRead.got[n].key = key}
SeInForce(key) ==
    IF ~seCall.tool /\ key \in DOMAIN seCall.env /\ seCall.env[key] # "blank" THEN seCall.env[key]
    ELSE IF SeSetLines(key) = {} THEN "blank"
    ELSE seRead.got[CHOOSE n \in SeSetLines(key) : \A m \in SeSetLines(key) : m <= n].value

\* A Config holds the settings in force, from a file without a broken line and
\* within the bounds; SECRET_KEY outranks its file; and whoever needs a secret
\* has one.
SeSettingsInForce ==
    seOut.is = "config" =>
        /\ \A n \in DOMAIN seRead.got : seRead.got[n].is # "broken" /\ n <= SeMaxLines
        /\ Cardinality({n \in DOMAIN seRead.got : seRead.got[n].is = "set"}) <= SeMaxAssignments
        /\ seOut.port = SeInForce("NODE_PORT") /\ seOut.lowMemory = (SeInForce("LOW_MEMORY") = "yes")
        /\ SeInForce("SECRET_KEY") # "blank" => seOut.secret = <<SeInForce("SECRET_KEY")>>
        /\ seCall.require => seOut.secret # <<>>

\* The secret read from a file is the file without one line ending, nothing else.
SeSecretExact ==
    seOut.is = "config" /\ SeInForce("SECRET_KEY") = "blank" /\ seOut.secret # <<>> =>
        /\ seCall.secret \in {seOut.secret, seOut.secret \o <<"lf">>, seOut.secret \o <<"cr", "lf">>}
        /\ Len(seOut.secret) <= SeMaxSecret /\ Range(seOut.secret) = {"base64"}

\* A memory limit is the number times its unit, and never wraps.
SeTimes(suffix) ==
    CASE suffix \in {<<>>, <<"B">>} -> 1 [] suffix = <<"Ki", "B">> -> 4 [] suffix = <<"Mi", "B">> -> 16 [] OTHER -> 0
SeMemoryExact ==
    seOut.is = "config" /\ seCall.memory.word = "number" =>
        /\ seOut.memory = [set |-> TRUE, bytes |-> seCall.memory.number * SeTimes(seCall.memory.suffix)]
        /\ seOut.memory.bytes <= SeMaxInt /\ SeTimes(seCall.memory.suffix) # 0

\* What the settings of a node that starts promise.
SePromise ==
    /\ SeReadsOneText
    /\ SeSettingsInForce
    /\ SeSecretExact
    /\ SeMemoryExact
=============================================================================

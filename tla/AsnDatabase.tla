---------------------------- MODULE AsnDatabase ----------------------------
(* The database of the prefixes of autonomous systems: cmd/asn-builder reads *)
(* an archive of records and writes the file (internal/asn/writer.go), and   *)
(* the node looks numbers up in it by binary search (internal/asn/db.go).    *)
(* The file is a sequence of cells: the header is one cell, an index entry   *)
(* one, an IPv4 record one and an IPv6 record two, so that offsets count.    *)
EXTENDS Naturals, Sequences, SequencesExt, FiniteSetsExt

CONSTANTS
    AsArchives,     \* archives: sequences of [path, asn, kind, v4, v6]
    AsNumbers,      \* numbers that are looked up
    AsBits,         \* width of an address in the instance
    AsMaxPerFamily, \* maxPrefixesPerFamily, the largest uint16
    AsMaxTotal      \* maxIPverseArchivePrefixes

VARIABLES
    asArchive, asEntries, asState,   \* the builder
    asFile                           \* the published file, <<>> when there is none

asVars == <<asArchive, asEntries, asState, asFile>>

\* A prefix is [family, address, bits]; Masked clears what its length leaves out.
AsMasked(p) == [p EXCEPT !.address = @ - (@ % (2 ^ (AsBits - p.bits)))]
AsBefore(p, q) == p.address < q.address \/ (p.address = q.address /\ p.bits <= q.bits)

\* normalizePrefixes: one family, masked, in order, each once.
AsNormalize(prefixes, family) ==
    SetToSortSeq({AsMasked(p) : p \in {q \in Range(prefixes) : q.family = family}}, AsBefore)

----------------------------------------------------------------------------
(* parseIPverseTarGZ and parsePrefixEntry. *)

AsSizes(record) == Len(record.v4) + Len(record.v6)

\* The records are read in order, the totals grow, and the first bad one stops
\* the build; a file of another name is skipped (path 0), an empty record too.
AsFine(archive, i) ==
    LET record == archive[i]
    IN  /\ record.kind = "file" /\ record.asn = record.path
        /\ \A j \in 1 .. i - 1 : archive[j].path # record.path
        /\ Len(record.v4) <= AsMaxPerFamily /\ Len(record.v6) <= AsMaxPerFamily
        /\ FoldSeq(LAMBDA r, n : n + AsSizes(r), 0, SelectSeq(SubSeq(archive, 1, i), LAMBDA r : r.path # 0)) <= AsMaxTotal
        /\ \A p \in Range(record.v4) : p.family = 4
        /\ \A p \in Range(record.v6) : p.family = 6

AsMatched(archive) == {i \in DOMAIN archive : archive[i].path # 0}
AsParses(archive) == \A i \in AsMatched(archive) : AsFine(archive, i)
AsParse(archive) == SelectSeq(archive, LAMBDA r : r.path # 0 /\ AsSizes(r) > 0)

----------------------------------------------------------------------------
(* asn.Write. *)

AsSorted(entries) == SortSeq(entries, LAMBDA a, b : a.asn < b.asn)
AsPrepared(entries) ==
    LET sorted == AsSorted(entries)
    IN  [i \in DOMAIN sorted |->
            [asn |-> sorted[i].asn, v4 |-> AsNormalize(sorted[i].v4, 4), v6 |-> AsNormalize(sorted[i].v6, 6)]]

AsWritable(entries) ==
    /\ \A i, j \in DOMAIN entries : entries[i].asn = entries[j].asn => i = j
    /\ \A i \in DOMAIN entries : Len(AsPrepared(entries)[i].v4) <= AsMaxPerFamily /\ Len(AsPrepared(entries)[i].v6) <= AsMaxPerFamily

\* The blob of an entry: an IPv6 record takes two cells.
AsBlob(entry) == entry.v4 \o FlattenSeq([i \in DOMAIN entry.v6 |-> <<entry.v6[i], entry.v6[i]>>])

\* Where the blob of the i-th entry begins, counted from 0.
\* Mutant: an IPv6 record counts like an IPv4 one.
AsOffsetFlat(prepared, i) ==
    FoldSeq(LAMBDA entry, off : off + Len(entry.v4) + Len(entry.v6), 1 + Len(prepared), SubSeq(prepared, 1, i - 1))
AsOffset(prepared, i) ==
    FoldSeq(LAMBDA entry, off : off + Len(entry.v4) + 2 * Len(entry.v6), 1 + Len(prepared), SubSeq(prepared, 1, i - 1))

AsWrite(entries) ==
    LET prepared == AsPrepared(entries)
    IN  <<[count |-> Len(prepared)]>>
        \o [i \in DOMAIN prepared |->
               [asn |-> prepared[i].asn, off |-> AsOffset(prepared, i),
                n4 |-> Len(prepared[i].v4), n6 |-> Len(prepared[i].v6)]]
        \o FlattenSeq([i \in DOMAIN prepared |-> AsBlob(prepared[i])])

----------------------------------------------------------------------------
(* DB.PrefixesByASN over a file of n cells; ReadAt past its end fails. *)

AsNoPrefixes == [v4 |-> <<>>, v6 |-> <<>>]
AsOpens(file) == file # <<>>

AsReadBlob(file, entry) ==
    IF entry.off + entry.n4 + 2 * entry.n6 > Len(file) THEN AsNoPrefixes
    ELSE [v4 |-> [i \in 1 .. entry.n4 |-> file[entry.off + i]],
          v6 |-> [i \in 1 .. entry.n6 |-> file[entry.off + entry.n4 + 2 * i - 1]]]

RECURSIVE AsSearch(_, _, _, _)
AsSearch(file, number, lo, hi) ==
    LET mid == lo + (hi - lo) \div 2
    IN  IF lo >= hi \/ 2 + mid > Len(file) THEN AsNoPrefixes
        ELSE IF file[2 + mid].asn < number THEN AsSearch(file, number, mid + 1, hi)
        ELSE IF file[2 + mid].asn > number THEN AsSearch(file, number, lo, mid)
        ELSE AsReadBlob(file, file[2 + mid])

AsPrefixesByASN(file, number) == IF AsOpens(file) THEN AsSearch(file, number, 0, file[1].count) ELSE AsNoPrefixes

----------------------------------------------------------------------------

AsInit == asArchive \in AsArchives /\ asEntries = <<>> /\ asState = "new" /\ asFile = <<>>

AsBuild ==
    /\ asState = "new"
    /\ IF AsParses(asArchive) /\ AsParse(asArchive) # <<>>
       THEN asState' = "parsed" /\ asEntries' = AsParse(asArchive)
       ELSE asState' = "failed" /\ UNCHANGED asEntries
    /\ UNCHANGED <<asArchive, asFile>>

\* writeDatabase: a temporary file, synced and renamed when all of it is there.
AsPublish ==
    /\ asState = "parsed"
    /\ \/ AsWritable(asEntries) /\ asState' = "done" /\ asFile' = AsWrite(asEntries)
       \/ asState' = "failed" /\ UNCHANGED asFile
    /\ UNCHANGED <<asArchive, asEntries>>

AsNext == AsBuild \/ AsPublish
AsSpec == AsInit /\ [][AsNext]_asVars

----------------------------------------------------------------------------

\* The prefixes the archive gives for a number.
AsGiven(number) ==
    UNION {Range(asArchive[i].v4) \cup Range(asArchive[i].v6) : i \in {j \in AsMatched(asArchive) : asArchive[j].path = number}}
AsWanted(number, family) == {AsMasked(p) : p \in {q \in AsGiven(number) : q.family = family}}

AsAnswers(answer, number) == Range(answer.v4) = AsWanted(number, 4) /\ Range(answer.v6) = AsWanted(number, 6)

\* A published database answers every number with exactly the masked prefixes of
\* the archive, each once, and a number the archive does not have with nothing.
AsLookupExact ==
    asFile # <<>> => \A number \in AsNumbers :
        LET answer == AsPrefixesByASN(asFile, number)
        IN  /\ AsAnswers(answer, number)
            /\ IsInjective(answer.v4) /\ IsInjective(answer.v6)

\* A file cut anywhere answers a number with all of its prefixes or with none:
\* a list that was resolved from it never covers a part of a network only.
AsCutIsEmpty ==
    \A length \in 0 .. Len(asFile), number \in AsNumbers :
        LET answer == AsPrefixesByASN(SubSeq(asFile, 1, length), number)
        IN  answer = AsNoPrefixes \/ AsAnswers(answer, number)

\* What the database promises: exact answers, and from a torn file none in part.
AsPromise ==
    /\ AsLookupExact
    /\ AsCutIsEmpty
=============================================================================

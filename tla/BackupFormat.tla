---------------------------- MODULE BackupFormat ----------------------------
(***************************************************************************)
(* The lines of a backup of the corpus (dump_to_string, restore_from_str,  *)
(* backup_escape and backup_unescape of oxigraph_corpus.rs), for every     *)
(* small corpus: it grows version by version and character by character.   *)
(*                                                                         *)
(* Texts are sequences of characters, as the format is about them; the     *)
(* prefix of the header, a day and a time are one each.  Rows are given in *)
(* the order the query of a dump has them.                                 *)
(***************************************************************************)
EXTENDS Naturals, SequencesExt

CONSTANTS
    Characters,
    MaxRows, MaxCharacters,     \* bounds of the model
    Unreadable                  \* what restore_from_str returns for an Err

VARIABLE rows       \* the versions: eli, versionId, validFrom, transactionTime, text

BACKUP_HEADER_PREFIX == "#fedlex-corpus-backup v"
SCHEMA_VERSION == "1"
Day  == <<"2024-01-01">>
Time == <<"2024-01-01T00:00:00Z">>

\* Mutant of backup_escape: carriage returns go through.
KeepsReturns(raw) ==
    LET Of(c) == CASE c = "\\" -> <<"\\", "\\">> [] c = "\t" -> <<"\\", "t">> [] c = "\n" -> <<"\\", "n">>
                   [] OTHER -> <<c>>
    IN  FlattenSeq([i \in DOMAIN raw |-> Of(raw[i])])

Escaped(c) ==
    CASE c = "\\" -> <<"\\", "\\">> [] c = "\t" -> <<"\\", "t">> [] c = "\n" -> <<"\\", "n">>
      [] c = "\r" -> <<"\\", "r">> [] OTHER -> <<c>>

backup_escape(raw) == FlattenSeq([i \in DOMAIN raw |-> Escaped(raw[i])])

\* Read from the left; an escape nobody knows stays, and so does a last backslash.
Meant(c) ==
    CASE c = "\\" -> <<"\\">> [] c = "t" -> <<"\t">> [] c = "n" -> <<"\n">> [] c = "r" -> <<"\r">>
      [] OTHER -> <<"\\", c>>

ReadOn(read, c) ==
    IF read.escape THEN [out |-> read.out \o Meant(c), escape |-> FALSE]
    ELSE IF c = "\\" THEN [out |-> read.out, escape |-> TRUE]
    ELSE [out |-> Append(read.out, c), escape |-> FALSE]

backup_unescape(raw) ==
    LET end == FoldLeft(ReadOn, [out |-> <<>>, escape |-> FALSE], raw)
    IN  IF end.escape THEN Append(end.out, "\\") ELSE end.out

\* str::split
Split(s, separator) ==
    FoldLeft(LAMBDA parts, c : IF c = separator THEN Append(parts, <<>>)
                               ELSE [parts EXCEPT ![Len(parts)] = Append(@, c)],
             <<<<>>>>, s)

\* str::lines: a return before the end of a line belongs to the end, and
\* behind the last end there is only a line if something is in it.
Lines(s) ==
    LET parts == Split(s, "\n")
        Bare(l) == IF l # <<>> /\ Last(l) = "\r" THEN Front(l) ELSE l
        ended == [i \in 1..Len(parts) - 1 |-> Bare(parts[i])]
    IN  IF Last(parts) = <<>> THEN ended ELSE Append(ended, Last(parts))

Line(r) == FlattenSeq([f \in 1..5 |-> Append(backup_escape(r[f]), IF f = 5 THEN "\n" ELSE "\t")])

dump_to_string(corpus) ==
    <<BACKUP_HEADER_PREFIX, SCHEMA_VERSION, "\n">> \o FlattenSeq([i \in DOMAIN corpus |-> Line(corpus[i])])

\* The versions of a line: none if it is empty.
Restored(line) ==
    IF line = <<>> THEN <<>>
    ELSE LET cols == Split(line, "\t") IN << [f \in DOMAIN cols |-> backup_unescape(cols[f])] >>

Fits(version) == Len(version) = 5 /\ version[3] = Day /\ version[4] = Time

restore_from_str(snapshot) ==
    LET lines == Lines(snapshot)
        read  == FlattenSeq([i \in 1..Len(lines) - 1 |-> Restored(lines[i + 1])])
    IN  IF lines # <<>> /\ lines[1] = <<BACKUP_HEADER_PREFIX, SCHEMA_VERSION>> /\ \A i \in DOMAIN read : Fits(read[i])
        THEN read ELSE Unreadable

-----------------------------------------------------------------------------
BackupInit == rows = <<>>

Written == FlattenSeq([i \in DOMAIN rows |-> rows[i][1] \o rows[i][2] \o rows[i][5]])

NextVersion ==
    /\ Len(rows) < MaxRows
    /\ rows' = Append(rows, <<<<>>, <<>>, Day, Time, <<>>>>)

\* The characters of a name or of a text of the version, from the left.
Write(field, c) ==
    /\ rows # <<>> /\ Len(Written) < MaxCharacters
    /\ \A f \in {1, 2, 5} : f > field => Last(rows)[f] = <<>>
    /\ rows' = [rows EXCEPT ![Len(rows)][field] = Append(@, c)]

\* A new process with an empty corpus.
NewCorpus == rows # <<>> /\ rows' = <<>>

BackupNext == NextVersion \/ NewCorpus \/ \E field \in {1, 2, 5}, c \in Characters : Write(field, c)

BackupSpec == BackupInit /\ [][BackupNext]_rows

-----------------------------------------------------------------------------
(* A backup comes back as it was, whatever its texts are made of; and of one *)
(* that lost its tail nothing comes back that was not there: it is refused,  *)
(* or the versions up to some row are restored, and of that row no more than *)
(* the text is cut short, possibly within an escape (dump_to_string,         *)
(* restore_from_str).                                                        *)
ComesBack ==
    LET file == dump_to_string(rows)
    IN  /\ restore_from_str(file) = rows
        /\ \A n \in 0..Len(file) - 1 :
               LET back == restore_from_str(SubSeq(file, 1, n))
               IN  back # Unreadable =>
                       /\ Len(back) <= Len(rows)
                       /\ \A i \in DOMAIN back, f \in 1..5 :
                              \/ back[i][f] = rows[i][f]
                              \/ /\ i = Len(back) /\ f = 5
                                 /\ \/ IsPrefix(back[i][5], rows[i][5])
                                    \/ Last(back[i][5]) = "\\" /\ IsPrefix(Front(back[i][5]), rows[i][5])
=============================================================================

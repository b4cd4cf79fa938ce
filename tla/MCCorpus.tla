------------------------------ MODULE MCCorpus ------------------------------
(***************************************************************************)
(* Small instances for TLC: of Corpus, with two versions of a norm and a   *)
(* later correction of the first; and of BackupFormat, which shares no     *)
(* state with it.  A behaviour is about one of the two.                    *)
(***************************************************************************)
EXTENDS Corpus, BackupFormat, TLC

CONSTANTS w1, w2, none

VARIABLE part

Version(eli, ver, vf, tt) == [eli |-> eli, ver |-> ver, vf |-> vf, tt |-> tt]

Original   == Version("a", "v1", 1, 1)
Correction == Version("a", "v1", 1, 2)
Successor  == Version("a", "v2", 2, 1)

SomeDrafts == {Original, Correction, Successor}

SomeCharacters == {"a", "t", "\\", "\t", "\n", "\r"}

Interchangeable == Permutations(Writers)

PartInit == part \in {"store", "format"} /\ Init /\ BackupInit

PartNext ==
    /\ UNCHANGED part
    /\ \/ part = "store" /\ Next /\ UNCHANGED rows
       \/ part = "format" /\ BackupNext /\ UNCHANGED vars

PartSpec == PartInit /\ [][PartNext]_<<part, vars, rows>>
=============================================================================

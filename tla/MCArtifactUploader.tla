--------------------------- MODULE MCArtifactUploader ---------------------------
(* Small instances of ArtifactUploader: files of the same base name, such as the *)
(* metrics of two runs, the first of which is written twice, with one uploader   *)
(* that may be killed; and, beside them, one file with two uploaders.            *)
EXTENDS ArtifactUploader

CONSTANTS f1, f2, n1, u1, u2
SameName == [f \in File |-> n1]
FirstTwice == [f \in File |-> IF f = f1 THEN 2 ELSE 1]

VARIABLES
    beside,     \* TRUE: the two uploaders run; FALSE: the one does
    training2, local2, remote2, temp2, stateFile2, up2, synced2, torn2, kills2

vars2 == <<training2, local2, remote2, temp2, stateFile2, up2, synced2, torn2, kills2>>

Two == INSTANCE ArtifactUploader WITH
    File <- {f1}, BaseName <- [f \in {f1} |-> n1], MaxVersion <- [f \in {f1} |-> 1],
    Uploader <- {u1, u2}, MaxKills <- 0,
    training <- training2, local <- local2, remote <- remote2, temp <- temp2,
    stateFile <- stateFile2, up <- up2, synced <- synced2, torn <- torn2, kills <- kills2

MCInit == beside \in BOOLEAN /\ Init /\ Two!Init
MCNext == \/ ~beside /\ Next /\ UNCHANGED <<beside, vars2>>
          \/ beside /\ Two!Next /\ UNCHANGED <<beside, vars>>
MCSpec == MCInit /\ [][MCNext]_<<beside, vars, vars2>> /\ Two!Fairness

\* A file reaches the bucket also when two uploaders remove each other's copies
\* (EventuallyStored of the two, s3_uploader.py:301-378).
TwoEventuallyStore == Two!EventuallyStored
================================================================================

---------------------------- MODULE ArtifactUploader ----------------------------
(***************************************************************************)
(* storage/s3_uploader.py: passes that upload the files of a training run  *)
(* whose signature differs from the one remembered for them, as a daemon   *)
(* and, with --run-once, as the pass that orchestrate_training.sh runs     *)
(* after training.  Training writes the files meanwhile.  Uploaders share  *)
(* the state file and the directory of compressed copies, where a copy has *)
(* the base name of its file only.  A version of a file stands for its     *)
(* content and for the signature (mtime and size) it has.                  *)
(***************************************************************************)
EXTENDS Integers

CONSTANTS
    File, NoFile,
    Name,        \* base names
    BaseName,    \* of each file; files of different runs may share one
    Uploader,    \* uploader processes that may run at the same time
    MaxVersion,  \* bound: versions of each file
    MaxKills     \* bound: uploaders killed

ASSUME FileAssumption == NoFile \notin File /\ BaseName \in [File -> Name]
ASSUME BoundsAssumption == MaxVersion \in [File -> Nat] /\ MaxKills \in Nat

VARIABLES
    training,   \* FALSE once training has ended: the files no longer change
    local,      \* version of each file, 0 before it exists
    remote,     \* per file, what its key and its key with .gz hold
    temp,       \* storage/logs/.tmp_compress/<name>.gz
    stateFile,  \* s3_uploader_state.json: version remembered per file
    up,         \* per uploader:
                \*   at: off, sleep, pass (between two files), compress, copying, put,
                \*   sent (s3cmd has read its source)
                \*   once: --run-once
                \*   state: self.state
                \*   todo: the files the pass has yet to look at
                \*   failed: the pass counted a failure
                \*   after: it began when training had ended
                \*   file, form, sent: the file it uploads, itself (plain) or its
                \*   copy (gz), and what it has read of that so far
    synced,     \* a pass with --run-once, begun after training, has exited with 0
    torn,       \* history: files that were not what the last put had stored when it
                \* ended, as a rule because they changed meanwhile
    kills       \* uploaders killed so far

vars == <<training, local, remote, temp, stateFile, up, synced, torn, kills>>

Form == {"plain", "gz"}
Content == [of : File \cup {NoFile}, version : Nat]
Nothing == [of |-> NoFile, version |-> 0]
Now(f) == [of |-> f, version |-> local[f]]
Existing == {f \in File : local[f] > 0}
Remembered == [File -> Nat]
Forgotten == [f \in File |-> 0]

\* What a copy holds while it is written.
Partial(f) == [of |-> f, version |-> 0]

\* A reader of the bucket finds the file as it is on the disk.
Current(f) == \E k \in Form : remote[f][k] = Now(f)

Off == [at |-> "off", once |-> FALSE, state |-> Forgotten, todo |-> {}, failed |-> FALSE,
        after |-> FALSE, file |-> NoFile, form |-> "plain", sent |-> Nothing]

Init ==
    /\ training = TRUE /\ local = [f \in File |-> 0]
    /\ remote = [f \in File |-> [k \in Form |-> Nothing]]
    /\ temp = [n \in Name |-> Nothing] /\ stateFile = Forgotten
    /\ up = [u \in Uploader |-> Off]
    /\ synced = FALSE /\ torn = {} /\ kills = 0

Write(f) ==
    /\ training /\ local[f] < MaxVersion[f]
    /\ local' = [local EXCEPT ![f] = @ + 1]
    /\ UNCHANGED <<training, remote, temp, stateFile, up, synced, torn, kills>>

TrainingEnds ==
    /\ training /\ training' = FALSE
    /\ UNCHANGED <<local, remote, temp, stateFile, up, synced, torn, kills>>

--------------------------------------------------------------------------------
(* A pass *)

\* _iter_files_to_upload finds the files while the pass goes on.
PassFrom(uploader) ==
    [uploader EXCEPT !.at = "pass", !.todo = File, !.after = ~training]

Saving(u) == up[u].at = "pass" /\ up[u].todo = {}

\* _load_state: a file that another uploader is writing cannot be loaded.
Loaded(u) ==
    {stateFile} \cup {Forgotten : w \in {w \in Uploader \ {u} : Saving(w)}}

Start(u, runOnce) ==
    /\ up[u].at = "off"
    /\ \E state \in Loaded(u) :
          up' = [up EXCEPT ![u] = PassFrom([@ EXCEPT !.once = runOnce, !.state = state])]
    /\ UNCHANGED <<training, local, remote, temp, stateFile, synced, torn, kills>>

NextPass(u) ==
    /\ up[u].at = "sleep"
    /\ up' = [up EXCEPT ![u] = PassFrom(@)]
    /\ UNCHANGED <<training, local, remote, temp, stateFile, synced, torn, kills>>

\* Mutant of NeedsUpload: only files that were never uploaded.
NeedsUploadIfNew(u, f) == up[u].state[f] = 0

NeedsUpload(u, f) == up[u].state[f] # local[f]

Found(u, f) == up[u].at = "pass" /\ f \in up[u].todo /\ f \in Existing

\* Its directory is listed before the file appears.
NotFound(u, f) ==
    /\ up[u].at = "pass" /\ f \in up[u].todo \ Existing
    /\ up' = [up EXCEPT ![u].todo = @ \ {f}]
    /\ UNCHANGED <<training, local, remote, temp, stateFile, synced, torn, kills>>

Skip(u, f) ==
    /\ Found(u, f) /\ ~NeedsUpload(u, f)
    /\ up' = [up EXCEPT ![u].todo = @ \ {f}]
    /\ UNCHANGED <<training, local, remote, temp, stateFile, synced, torn, kills>>

Begin(u, f) ==
    /\ Found(u, f) /\ NeedsUpload(u, f)
    /\ up' = [up EXCEPT ![u].at = "compress", ![u].file = f]
    /\ UNCHANGED <<training, local, remote, temp, stateFile, synced, torn, kills>>

Copy(u) == temp[BaseName[up[u].file]]
SetCopy(u, copy) == temp' = [temp EXCEPT ![BaseName[up[u].file]] = copy]

CopyBegins(u) ==
    /\ up' = [up EXCEPT ![u].at = "copying", ![u].sent = Now(up[u].file)]
    /\ SetCopy(u, Partial(up[u].file))

\* Mutant of Compress: a copy that is there already is taken for the file's.
CompressReuses(u) ==
    /\ up[u].at = "compress"
    /\ \/ Copy(u) = Nothing /\ CopyBegins(u)
       \/ /\ Copy(u) # Nothing /\ UNCHANGED temp
          /\ up' = [up EXCEPT ![u].at = "put", ![u].form = "gz"]
    /\ UNCHANGED <<training, local, remote, stateFile, synced, torn, kills>>

\* A file of a kind that is compressed is copied first; others are put as they are.
Compress(u) ==
    /\ up[u].at = "compress"
    /\ CopyBegins(u) \/ (up' = [up EXCEPT ![u].at = "put"] /\ UNCHANGED temp)
    /\ UNCHANGED <<training, local, remote, stateFile, synced, torn, kills>>

\* The copy is smaller and will be put; or it is not, or the copying fails, and it
\* is removed.  If the file has changed meanwhile, the copy counts as the old version.
Copied(u) ==
    /\ up[u].at = "copying"
    /\ \E form \in Form :
          /\ up' = [up EXCEPT ![u].at = "put", ![u].form = form, ![u].sent = Nothing]
          /\ SetCopy(u, IF form = "gz" THEN up[u].sent ELSE Nothing)
    /\ UNCHANGED <<training, local, remote, stateFile, synced, torn, kills>>

PutReads(u) ==
    LET source == IF up[u].form = "gz" THEN Copy(u) ELSE Now(up[u].file) IN
    /\ up[u].at = "put" /\ source # Nothing
    /\ up' = [up EXCEPT ![u].at = "sent", ![u].sent = source]
    /\ UNCHANGED <<training, local, remote, temp, stateFile, synced, torn, kills>>

\* Mutant of LeaveFile: what is set for one file is not reset for the next.
LeaveFileKeeps(u, state, failed) ==
    /\ up' = [up EXCEPT ![u] = [@ EXCEPT !.at = "pass", !.todo = up[u].todo \ {up[u].file},
                                 !.state = state, !.failed = failed]]
    /\ IF up[u].form = "gz" THEN SetCopy(u, Nothing) ELSE UNCHANGED temp
    /\ UNCHANGED <<training, local, stateFile, synced, kills>>

\* On to the next file with what the put has left; a copy is removed in any case.
LeaveFile(u, state, failed) ==
    /\ up' = [up EXCEPT ![u] = [@ EXCEPT !.at = "pass", !.todo = up[u].todo \ {up[u].file},
                                 !.state = state, !.failed = failed,
                                 !.file = NoFile, !.form = "plain", !.sent = Nothing]]
    /\ IF up[u].form = "gz" THEN SetCopy(u, Nothing) ELSE UNCHANGED temp
    /\ UNCHANGED <<training, local, stateFile, synced, kills>>

\* _remember_uploaded takes the signature that the file has now.
WithFile(u) == [up[u].state EXCEPT ![up[u].file] = local[up[u].file]]

Stored(u) ==
    LET f == up[u].file IN
    /\ remote' = [remote EXCEPT ![f][up[u].form] = up[u].sent]
    /\ torn' = IF up[u].sent = Now(f) THEN torn \ {f} ELSE torn \cup {f}

PutReturns(u) ==
    /\ up[u].at = "sent"
    /\ up[u].form = "gz" => Copy(u) # Nothing
    /\ Stored(u)
    /\ LeaveFile(u, WithFile(u), up[u].failed)

\* Mutant of PutFails: the file is remembered in any case.
PutFailsRemembers(u) ==
    /\ up[u].at = "sent"
    /\ UNCHANGED <<remote, torn>> \/ Stored(u)
    /\ LeaveFile(u, WithFile(u), TRUE)

\* s3cmd returns an error, which may come after the object was stored, or the
\* copy it has uploaded is gone when its size is asked for.
PutFails(u) ==
    /\ up[u].at = "sent"
    /\ UNCHANGED <<remote, torn>> \/ Stored(u)
    /\ LeaveFile(u, up[u].state, TRUE)

\* Another uploader has removed the copy.
CopyGone(u) ==
    /\ up[u].at = "put" /\ up[u].form = "gz" /\ Copy(u) = Nothing
    /\ LeaveFile(u, up[u].state, TRUE)
    /\ UNCHANGED <<remote, torn>>

\* The daemon sleeps and keeps its state; a single pass exits.
AfterPass(u) ==
    up' = [up EXCEPT ![u] = IF @.once THEN Off ELSE [Off EXCEPT !.at = "sleep",
                                                                !.state = up[u].state]]

\* The state is saved, or the error is only logged.  A single pass exits with 0 if
\* nothing failed.
EndPass(u) ==
    /\ Saving(u)
    /\ stateFile' \in {up[u].state, stateFile}
    /\ synced' = (synced \/ (up[u].once /\ up[u].after /\ ~up[u].failed))
    /\ AfterPass(u)
    /\ UNCHANGED <<training, local, remote, temp, torn, kills>>

\* Listing the files raises: the pass is given up, and nothing is saved.
PassRaises(u) ==
    /\ up[u].at = "pass"
    /\ AfterPass(u)
    /\ UNCHANGED <<training, local, remote, temp, stateFile, synced, torn, kills>>

\* An uploader is killed, with the s3cmd it runs.  A copy is left behind, and half
\* a state file, which the next one cannot load, if it was being written.
Kill(u) ==
    /\ up[u].at # "off" /\ kills < MaxKills
    /\ kills' = kills + 1
    /\ up' = [up EXCEPT ![u] = Off]
    /\ \/ UNCHANGED stateFile
       \/ Saving(u) /\ stateFile' = Forgotten
    /\ UNCHANGED <<training, local, remote, temp, synced, torn>>

--------------------------------------------------------------------------------
Step(u) ==
    \/ NextPass(u) \/ EndPass(u) \/ PassRaises(u)
    \/ \E f \in up[u].todo : NotFound(u, f) \/ Skip(u, f) \/ Begin(u, f)
    \/ Compress(u) \/ Copied(u) \/ PutReads(u) \/ PutReturns(u) \/ PutFails(u) \/ CopyGone(u)

Next ==
    \/ \E f \in File : Write(f)
    \/ TrainingEnds
    \/ \E u \in Uploader : (\E runOnce \in BOOLEAN : Start(u, runOnce)) \/ Step(u) \/ Kill(u)

\* An uploader that runs goes on.  The listing and the put of a file do not fail
\* for ever.
Fairness ==
    \A u \in Uploader :
        /\ WF_vars(Step(u))
        /\ \A f \in File : SF_vars(Begin(u, f)) /\ SF_vars(up[u].file = f /\ PutReturns(u))

Spec == Init /\ [][Next]_vars
FairSpec == Spec /\ Fairness

--------------------------------------------------------------------------------
(* Properties *)

TypeOK ==
    /\ training \in BOOLEAN /\ local \in [File -> Nat]
    /\ remote \in [File -> [Form -> Content]] /\ temp \in [Name -> Content]
    /\ stateFile \in Remembered
    /\ up \in [Uploader ->
                 [at : {"off", "sleep", "pass", "compress", "copying", "put", "sent"},
                  once : BOOLEAN,
                  state : Remembered, todo : SUBSET File, failed : BOOLEAN,
                  after : BOOLEAN, file : Existing \cup {NoFile}, form : Form,
                  sent : Content]]
    /\ \A u \in Uploader :
          up[u].file = NoFile <=> up[u].at \in {"off", "sleep", "pass"}
    /\ synced \in BOOLEAN /\ torn \subseteq File /\ kills \in 0..MaxKills

\* What will be skipped is in the bucket: a file whose signature is remembered,
\* in memory or in the state file, has its content stored, unless it changed while
\* it was uploaded.  Failed puts, kills and a lost state file cannot break this
\* (_needs_upload and _remember_uploaded, s3_uploader.py:201-225).
SkippedIsStored ==
    \A f \in Existing :
        local[f] \in {stateFile[f]} \cup {up[u].state[f] : u \in Uploader}
            => Current(f) \/ f \in torn

\* The keys of a file hold that file, also when two files of the same base name
\* are compressed one after the other, and when a kill has left a copy behind
\* (_compress_file, s3_uploader.py:243-270).
OwnContentOnly ==
    \A f \in File, k \in Form : remote[f][k] \in {Nothing} \cup [of : {f}, version : 1..local[f]]

\* An object is never replaced by an older version of its file.
NeverBack ==
    [][\A f \in File, k \in Form : remote'[f][k].version >= remote[f][k].version]_vars

\* A file reaches the bucket as it is on the disk, whatever fails meanwhile, and also
\* when two uploaders remove each other's copies, unless it changes during its
\* upload or every uploader has ended (s3_uploader.py:301-378).
EventuallyStored ==
    \A f \in File :
        local[f] > 0 ~> \/ Current(f) \/ f \in torn
                        \/ \A u \in Uploader : up[u].at = "off"

\* runpod/orchestrate_training.sh:208 runs the final pass "to ensure all files are
\* synced".  A file that changed during an earlier upload is skipped by it.
FinalPassSyncs == synced => \A f \in File : Current(f) \/ local[f] = 0
================================================================================

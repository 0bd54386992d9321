----------------------------- MODULE TransferSync -----------------------------
(***************************************************************************)
(* storage/ftp_sync.py and storage/bucket_sync.py next to a training that  *)
(* goes on writing: passes that copy the files of the experiment           *)
(* directories to an FTP or SFTP server, under a prefix with the day, and  *)
(* to a bucket.  A content is <<version, size>>; a copy that was cut off,  *)
(* or taken while the file was written, has no version.                    *)
(***************************************************************************)
EXTENDS Integers, FiniteSets, Sequences

CONSTANTS
    LocalFile,    \* paths under the directories to upload
    FileSize,     \* file -> the largest size it gets
    MaxWrites,    \* bound: versions written
    MaxDay,       \* bound: days
    MaxCuts       \* bound: passes that raise or are killed

ASSUME SyncAssumption ==
    MaxDay \in Nat \ {0} /\ MaxWrites \in Nat /\ FileSize \in [LocalFile -> Nat \ {0}]

Absent == <<0, -1>>
Garbled == -1
Contents(f) == {Absent} \cup ((1..MaxWrites) \X (1..FileSize[f]))
                        \cup ({Garbled} \X (0..FileSize[f]))
Tree(t) == DOMAIN t = LocalFile /\ \A f \in LocalFile : t[f] \in Contents(f)
NoPass == [at |-> "idle"]
AnyFile == CHOOSE f \in LocalFile : TRUE

VARIABLES
    disk,        \* file -> content
    writes, day, cuts,
    pass,        \* of sync_ftp or sync_sftp: the day of its prefix, the files due and the ones
                 \* it has looked at and uploaded, the file it has open and what it opened
    remoteTree,  \* per day: file -> content
    upload,      \* of upload_tree: dry or not, the paths of its sorted(rglob) that are left,
                 \* the objects of its manifest
    bucket,      \* file -> content
    manifest,    \* .bucket_sync_manifest.json: what wrote it, and its objects
    settled      \* files not written since the pass looked at them

syncVars == <<disk, writes, day, cuts, pass, remoteTree, upload, bucket, manifest, settled>>

NoManifest == [dry |-> TRUE, objects |-> {}]

SyncInit ==
    /\ disk = [f \in LocalFile |-> Absent] /\ writes = 0 /\ day = 1 /\ cuts = 0
    /\ pass = NoPass /\ remoteTree = [d \in 1..MaxDay |-> [f \in LocalFile |-> Absent]]
    /\ upload = NoPass /\ bucket = [f \in LocalFile |-> Absent]
    /\ manifest = NoManifest /\ settled = {}

\* The training writes a file, or writes it again with another content.
WriteFile ==
    /\ writes < MaxWrites /\ writes' = writes + 1
    /\ \E f \in LocalFile : \E size \in 1..FileSize[f] :
         disk' = [disk EXCEPT ![f] = <<writes', size>>] /\ settled' = settled \ {f}
    /\ UNCHANGED <<day, cuts, pass, remoteTree, upload, bucket, manifest>>

Midnight == /\ day < MaxDay /\ day' = day + 1
            /\ UNCHANGED <<disk, writes, cuts, pass, remoteTree, upload, bucket, manifest, settled>>

--------------------------------------------------------------------------------
(* ftp_sync                                                                    *)

\* _remote_date_prefix: taken once, when the pass begins.  Below the threshold of
\* --check-threshold (disk_monitor) no pass begins.
BeginPass ==
    /\ pass.at \in {"idle", "done"}
    /\ pass' = [at |-> "scan", day |-> day, seen |-> {}, uploaded |-> {},
                file |-> AnyFile, opened |-> Absent,
                due |-> {f \in LocalFile : disk[f] # Absent}]
    /\ settled' = {}
    /\ UNCHANGED <<disk, writes, day, cuts, remoteTree, upload, bucket, manifest>>

PrefixOfToday == day
Prefix == pass.day

Remote(f) == remoteTree[Prefix][f]
Looked(f) == settled' = settled \cup {f}

SameSize(f) == Remote(f) # Absent /\ Remote(f)[2] = disk[f][2]
\* rglob comes to a file: its size is compared, and the upload opens it (STOR empties the
\* remote file).
SkipSameSize(f) ==
    /\ SameSize(f)
    /\ pass' = [pass EXCEPT !.seen = @ \cup {f}] /\ Looked(f) /\ UNCHANGED remoteTree

OpenUpload(f) ==
    /\ ~SameSize(f)
    /\ pass' = [pass EXCEPT !.at = "store", !.seen = @ \cup {f}, !.file = f, !.opened = disk[f]]
    /\ remoteTree' = [remoteTree EXCEPT ![Prefix][f] = <<Garbled, 0>>]
    /\ Looked(f)

LookAt ==
    /\ pass.at = "scan"
    /\ \E f \in LocalFile \ pass.seen :
         disk[f] # Absent /\ (SkipSameSize(f) \/ OpenUpload(f))
    /\ UNCHANGED <<disk, writes, day, cuts, upload, bucket, manifest>>

\* What a transfer leaves of a file that was opened with some content: the whole of it, or a
\* mixture if it was written meanwhile.
Transferred(f, opened) == IF disk[f] = opened THEN {opened} ELSE {Garbled} \X (1..FileSize[f])

Store ==
    /\ pass.at = "store"
    /\ \E c \in Transferred(pass.file, pass.opened) :
         remoteTree' = [remoteTree EXCEPT ![Prefix][pass.file] = c]
    /\ pass' = [pass EXCEPT !.at = "scan", !.uploaded = @ \cup {pass.file},
                          !.file = AnyFile, !.opened = Absent]
    /\ UNCHANGED <<disk, writes, day, cuts, upload, bucket, manifest, settled>>

\* The connection is lost, or the process killed: what was stored so far stays.
PassRaises ==
    /\ pass.at \in {"scan", "store"} /\ cuts < MaxCuts /\ cuts' = cuts + 1
    /\ pass' = NoPass
    /\ IF pass.at = "store"
       THEN \E size \in 0..(pass.opened[2] - 1) :
              remoteTree' = [remoteTree EXCEPT ![Prefix][pass.file] = <<Garbled, size>>]
       ELSE UNCHANGED remoteTree
    /\ UNCHANGED <<disk, writes, day, upload, bucket, manifest, settled>>

\* A file that is new since its directory was listed is left to the next pass.
EndPass ==
    /\ pass.at = "scan" /\ pass.due \subseteq pass.seen
    /\ pass' = [pass EXCEPT !.at = "done"]
    /\ UNCHANGED <<disk, writes, day, cuts, remoteTree, upload, bucket, manifest, settled>>

--------------------------------------------------------------------------------
(* bucket_sync                                                                 *)

BeginUpload ==
    /\ upload.at = "idle"
    /\ \E dry \in BOOLEAN :
         upload' = [at |-> "tree", dry |-> dry, objects |-> {},
                    todo |-> {f \in LocalFile : disk[f] # Absent}]
    /\ UNCHANGED <<disk, writes, day, cuts, pass, remoteTree, bucket, manifest, settled>>

UploadFile ==
    /\ upload.at = "tree"
    /\ \E f \in upload.todo :
         /\ upload' = [upload EXCEPT !.todo = @ \ {f}, !.objects = @ \cup {f}]
         /\ bucket' = IF upload.dry THEN bucket ELSE [bucket EXCEPT ![f] = disk[f]]
    /\ UNCHANGED <<disk, writes, day, cuts, pass, remoteTree, manifest, settled>>

\* upload_file raises: the manifest of the pass before stays.
UploadRaises ==
    /\ upload.at = "tree" /\ cuts < MaxCuts /\ cuts' = cuts + 1 /\ upload' = NoPass
    /\ UNCHANGED <<disk, writes, day, pass, remoteTree, bucket, manifest, settled>>

WriteManifest ==
    /\ upload.at = "tree" /\ upload.todo = {} /\ upload' = NoPass
    /\ manifest' = [dry |-> upload.dry, objects |-> upload.objects]
    /\ UNCHANGED <<disk, writes, day, cuts, pass, remoteTree, bucket, settled>>

\* download_tree writes over whatever is on the disk.
DownloadFile ==
    /\ upload.at = "idle"
    /\ \E f \in LocalFile :
         /\ bucket[f] # Absent /\ disk[f] # bucket[f]
         /\ disk' = [disk EXCEPT ![f] = bucket[f]] /\ settled' = settled \ {f}
    /\ UNCHANGED <<writes, day, cuts, pass, remoteTree, upload, bucket, manifest>>

SyncNext == \/ WriteFile \/ Midnight
            \/ BeginPass \/ LookAt \/ Store \/ PassRaises \/ EndPass
            \/ BeginUpload \/ UploadFile \/ UploadRaises \/ WriteManifest \/ DownloadFile

SyncSpec == SyncInit /\ [][SyncNext]_syncVars

--------------------------------------------------------------------------------

\* Every variable has its type.
SyncTypeOK ==
    /\ Tree(disk) /\ Tree(bucket) /\ \A d \in 1..MaxDay : Tree(remoteTree[d])
    /\ pass.at \in {"idle", "scan", "store", "done"} /\ upload.at \in {"idle", "tree"}
    /\ settled \subseteq LocalFile /\ manifest.objects \subseteq LocalFile

\* A pass that ends without an exception has mirrored, under the prefix of one day, every file
\* it came to that was not written since: in the size it has, and in the content it has if this
\* pass uploaded it (a file that was skipped may have been rewritten in its size since an
\* earlier pass of the day, or be what was left of a cut-off copy).  And what a manifest lists
\* is in the bucket unless a dry run wrote the manifest.
MirroredUnlessSameSize ==
    /\ pass.at = "done" => \A f \in settled :
         /\ remoteTree[pass.day][f] # Absent /\ remoteTree[pass.day][f][2] = disk[f][2]
         /\ f \in pass.uploaded => remoteTree[pass.day][f] = disk[f]
    /\ manifest.dry \/ \A f \in manifest.objects : bucket[f] # Absent
================================================================================

------------------------------- MODULE S3Sync -------------------------------
(***************************************************************************)
(* Backup of the data directory to S3 (server/src/s3_sync.rs) and its      *)
(* place in the start and the stop of the server (main.rs): a task uploads *)
(* every file that has grown since the size it recorded, while the server  *)
(* appends; a server that starts without data files downloads the bucket's *)
(* first.                                                                  *)
(*                                                                         *)
(* A file is a sequence of units <<record, i, n>>, the i-th of n of the    *)
(* record; a crash may leave only the first of them.  The store writes an  *)
(* append's records to the files in the order of SYNC_FILES (module        *)
(* Store); its open cuts a record that is not whole, but for one of        *)
(* heads.tbl that is shorter than its first field, Junk (module TurnStore).*)
(* The registry's bundle files are one file, RegistryFile.                 *)
(***************************************************************************)
EXTENDS Integers, SequencesExt, FiniteSetsExt

CONSTANTS
    SyncFiles,       \* SYNC_FILES
    VarFiles,        \* those whose records may be torn
    MaxAppends,      \* bound: appends to the store, puts to the registry
    MaxCrashes,      \* bound: crashes and stops
    MaxRequestErrors \* bound: requests to S3 and writes of sync_state.json that fail

RegistryFile == "registry"
Names == ToSet(SyncFiles) \union {RegistryFile}
Heads == Last(SyncFiles)
\* The files are distinct, and the store writes heads.tbl last.
ASSUME SyncFilesAssumption ==
    /\ SyncFiles \in Seq(STRING) /\ SyncFiles # <<>> /\ RegistryFile \notin ToSet(SyncFiles)
    /\ \A i, j \in DOMAIN SyncFiles : SyncFiles[i] = SyncFiles[j] => i = j
    /\ VarFiles \subseteq ToSet(SyncFiles)
    /\ MaxAppends \in Nat

VARIABLES
    local,      \* the files of the data directory that exist
    saved,      \* sync_state.json: the recorded sizes
    objects,    \* the bucket's objects
    manifest,   \* the files sync_manifest.json names
    server,     \* "down", "restoring", "opening", "up" or "stopping"
    toFetch,    \* the files maybe_restore has not asked for
    sync,       \* the sync task
    writer,     \* the append in progress: the next file, its record and its width
    appends, crashes, requestErrors,
    whole,      \* history: the appends the bucket had whole when a manifest named the files
    failed,     \* history: a restore did not bring back all the bucket had
    ahead,      \* history: a restore brought back a heads.tbl that names an append
                \* another file lacks
    cut         \* history: files the store cut below what was seen by the sync task

disk == <<local, saved>>
bucket == <<objects, manifest>>
bounds == <<appends, crashes, requestErrors>>
history == <<whole, failed, ahead, cut>>
s3Vars == <<disk, bucket, server, toFetch, sync, writer, bounds, history>>

Empty == [f \in {} |-> <<>>]
Holding(files, f, content) ==
    [g \in {f} \union DOMAIN files |-> IF g = f THEN content ELSE files[g]]
NoSizes == [f \in Names |-> 0]
AtTick == [pc |-> "tick", i |-> 0, size |-> 0, sizes |-> NoSizes, synced |-> FALSE, last |-> FALSE]
NoAppend == [at |-> 0, id |-> 0, width |-> 0]

S3Init ==
    /\ local = Empty /\ saved = NoSizes /\ objects = Empty /\ manifest = {}
    /\ server = "down" /\ toFetch = {} /\ sync = AtTick /\ writer = NoAppend
    /\ appends = 0 /\ crashes = 0 /\ requestErrors = 0
    /\ whole = {} /\ failed = FALSE /\ ahead = FALSE /\ cut = {}

RequestFails == requestErrors < MaxRequestErrors /\ requestErrors' = requestErrors + 1
Running == server \in {"opening", "up", "stopping"}

\* The appends whose record in a file is whole, and those whose records all are.
WholeIds(file) == {u[1] : u \in {v \in ToSet(file) : v[2] = v[3]}}
Has(files, id) ==
    \A f \in ToSet(SyncFiles) : f \in DOMAIN files /\ id \in WholeIds(files[f])

\* Less than the first field of a record of heads.tbl: load_heads leaves it in
\* place, and what is written behind it is read at the wrong offset.
Junk == <<0, 1, 1>>
Misaligned(files) == Heads \in DOMAIN files /\ Junk \in ToSet(files[Heads])

\* Every head that load_heads reads leads to what the other files have of its
\* append; the store does not look, and a read of the context fails if not.
HeadsLead(files) ==
    Heads \in DOMAIN files => \A id \in WholeIds(files[Heads]) \ {Junk[1]} : Has(files, id)

-----------------------------------------------------------------------------
(* The store and the registry, which write the files.                      *)

Width(f, n) == IF f \in VarFiles THEN n ELSE 1
Units(id, n, from, to) == [i \in 1 .. to - from + 1 |-> <<id, from + i - 1, n>>]
RecordOf(f, id, n) == Units(id, Width(f, n), 1, Width(f, n))

\* The connection threads append until the process ends: main joins none.
AppendBegins(n) ==
    /\ server \in {"up", "stopping"} /\ writer = NoAppend /\ appends < MaxAppends
    /\ writer' = [at |-> 1, id |-> appends + 1, width |-> n] /\ appends' = appends + 1
    /\ UNCHANGED <<disk, bucket, server, toFetch, sync, crashes, requestErrors, history>>

AppendWrites ==
    LET f == SyncFiles[writer.at] IN
    /\ Running /\ writer # NoAppend
    /\ local' = [local EXCEPT ![f] = @ \o RecordOf(f, writer.id, writer.width)]
    /\ writer' = IF writer.at = Len(SyncFiles) THEN NoAppend ELSE [writer EXCEPT !.at = @ + 1]
    /\ UNCHANGED <<saved, bucket, server, toFetch, sync, bounds, history>>

RegistryWrites ==
    /\ server \in {"up", "stopping"} /\ appends < MaxAppends
    /\ local' = [local EXCEPT ![RegistryFile] = Append(@, <<appends + 1, 1, 1>>)]
    /\ appends' = appends + 1
    /\ UNCHANGED <<saved, bucket, server, toFetch, sync, writer, crashes, requestErrors, history>>

\* Store::open creates the files that are missing and cuts a torn record.
TornTail(file) == file # <<>> /\ Last(file)[2] < Last(file)[3]
Repaired(file) == IF TornTail(file) THEN SubSeq(file, 1, Len(file) - Last(file)[2]) ELSE file
OpenStore ==
    LET old == [f \in Names |-> IF f \in DOMAIN local THEN local[f] ELSE <<>>] IN
    /\ server = "opening" /\ server' = "up"
    /\ local' = [f \in Names |-> Repaired(old[f])]
    /\ cut' = cut \union {f \in Names : TornTail(old[f])}
    /\ UNCHANGED <<saved, bucket, toFetch, sync, writer, bounds, whole, failed, ahead>>

-----------------------------------------------------------------------------
(* maybe_restore.                                                          *)

StartWith(next, files) ==
    /\ server = "down" /\ server' = next /\ toFetch' = files
    /\ UNCHANGED <<disk, bucket, sync, writer, appends, crashes, whole, ahead, cut>>

HasLocalData == \E f \in ToSet(SyncFiles) : f \in DOMAIN local

StartWithData == HasLocalData /\ StartWith("opening", {}) /\ UNCHANGED <<requestErrors, failed>>
Misses(files) == failed' = (failed \/ ~(DOMAIN objects \subseteq files))
\* restore_registry: the bucket's bundles, whatever the manifest names.
RegistryListed == DOMAIN objects \intersect {RegistryFile}
\* The manifest and then the registry's listing name the files to download.
StartRestore ==
    /\ ~HasLocalData
    /\ IF manifest = {} THEN StartWith("opening", {})
       ELSE StartWith("restoring", manifest \union RegistryListed)
    /\ Misses(toFetch') /\ UNCHANGED requestErrors
\* The manifest cannot be fetched: the server starts without data.
FetchManifestFails ==
    /\ ~HasLocalData /\ RequestFails
    /\ StartWith("opening", {}) /\ Misses({})

Fetched(f) ==
    /\ server = "restoring" /\ f \in toFetch /\ toFetch' = toFetch \ {f}
    /\ server' = IF toFetch' = {} THEN "opening" ELSE server
    /\ ahead' = (ahead \/ (toFetch' = {} /\ ~HeadsLead(local')))
    /\ UNCHANGED <<saved, bucket, sync, writer, appends, crashes, whole, cut>>

Download(f) ==
    /\ f \in DOMAIN objects /\ local' = Holding(local, f, objects[f]) /\ Fetched(f)
    /\ UNCHANGED <<requestErrors, failed>>
\* The error, of the download or of the registry's listing, is only logged.
DownloadFails(f) ==
    /\ UNCHANGED local /\ Fetched(f) /\ RequestFails /\ failed' = TRUE

-----------------------------------------------------------------------------
(* sync_loop and do_sync.                                                  *)

SyncStep == UNCHANGED <<server, toFetch, writer, appends, crashes, failed, ahead>>

NextFile == IF sync.i < Len(SyncFiles) THEN [sync EXCEPT !.pc = "stat", !.i = @ + 1]
                                       ELSE [sync EXCEPT !.pc = "registry"]

\* The ticker fires at once, before the store is open, and then every interval;
\* the pass after the loop was told to stop is the last.
Tick ==
    /\ Running /\ sync.pc = "tick"
    /\ \E last \in {FALSE, server = "stopping"} :
           sync' = [AtTick EXCEPT !.pc = "stat", !.i = 1, !.sizes = saved, !.last = last]
    /\ SyncStep /\ UNCHANGED <<disk, bucket, requestErrors, whole, cut>>

\* A file is uploaded when it is larger than its recorded size.
Grown(f, size) == size > sync.sizes[f]

Stat ==
    LET f == SyncFiles[sync.i] IN
    /\ Running /\ sync.pc = "stat"
    /\ sync' = IF f \in DOMAIN local /\ Grown(f, Len(local[f]))
               THEN [sync EXCEPT !.pc = "upload", !.size = Len(local[f])] ELSE NextFile
    /\ SyncStep /\ UNCHANGED <<disk, bucket, requestErrors, whole, cut>>

\* Mutant of Put: only what was added since the recorded size is uploaded.
PutAddition(f) ==
    /\ objects' = Holding(objects, f, SubSeq(local[f], sync.sizes[f] + 1, Len(local[f])))
    /\ UNCHANGED <<disk, manifest, requestErrors, whole>>
\* upload_file reads the file after its size was taken.
Put(f) ==
    /\ objects' = Holding(objects, f, local[f])
    /\ UNCHANGED <<disk, manifest, requestErrors, whole>>

Recorded(s, f, size) == [s EXCEPT !.sizes[f] = size, !.synced = TRUE]

Upload ==
    LET f == SyncFiles[sync.i] IN
    /\ Running /\ sync.pc = "upload" /\ Put(f)
    /\ sync' = Recorded(NextFile, f, sync.size)
    /\ cut' = IF Len(local[f]) >= sync.size THEN cut \ {f} ELSE cut
    /\ SyncStep

\* Mutant of UploadFails: the size is recorded all the same.
UploadFailsRecorded ==
    /\ Running /\ sync.pc = "upload" /\ RequestFails
    /\ sync' = [NextFile EXCEPT !.sizes[SyncFiles[sync.i]] = sync.size]
    /\ SyncStep /\ UNCHANGED <<disk, bucket, whole, cut>>

\* The next pass tries the file again.
UploadFails ==
    /\ Running /\ sync.pc = "upload" /\ RequestFails
    /\ sync' = NextFile
    /\ SyncStep /\ UNCHANGED <<disk, bucket, whole, cut>>

\* sync_registry: a file whose size differs; an upload that fails ends the pass
\* and the recorded sizes are forgotten.
RegistryChanged ==
    /\ RegistryFile \in DOMAIN local
    /\ Len(local[RegistryFile]) # sync.sizes[RegistryFile]

SyncRegistry ==
    /\ Running /\ sync.pc = "registry"
    /\ IF RegistryChanged
       THEN /\ Put(RegistryFile)
            /\ sync' = Recorded([sync EXCEPT !.pc = "manifest"], RegistryFile,
                                Len(local[RegistryFile]))
       ELSE /\ sync' = [sync EXCEPT !.pc = "manifest"]
            /\ UNCHANGED <<disk, bucket, requestErrors, whole>>
    /\ SyncStep /\ UNCHANGED cut

PassEnded == IF sync.last THEN [AtTick EXCEPT !.pc = "done"] ELSE AtTick

Abort ==
    /\ Running /\ RequestFails
    /\ \/ sync.pc = "registry" /\ RegistryChanged
       \/ sync.pc = "manifest" /\ sync.synced
    /\ sync' = PassEnded
    /\ SyncStep /\ UNCHANGED <<disk, bucket, whole, cut>>

\* upload_manifest names every file with a recorded size.
ManifestFiles == {f \in Names : sync.sizes[f] > 0}

\* The pass is over if nothing was uploaded.
UploadManifest ==
    /\ Running /\ sync.pc = "manifest"
    /\ IF sync.synced
       THEN /\ manifest' = ManifestFiles
            /\ whole' = whole \union
                   {id \in 1 .. MaxAppends : Has(objects, id) /\ ToSet(SyncFiles) \subseteq manifest'}
            /\ sync' = [sync EXCEPT !.pc = "save"]
       ELSE sync' = PassEnded /\ UNCHANGED <<manifest, whole>>
    /\ SyncStep /\ UNCHANGED <<disk, objects, requestErrors, cut>>

SaveState ==
    /\ Running /\ sync.pc = "save"
    /\ saved' = sync.sizes /\ sync' = PassEnded
    /\ SyncStep /\ UNCHANGED <<local, bucket, requestErrors, whole, cut>>

\* fs::write empties the file first; load takes a file it cannot parse for none.
SaveCutShort == saved' \in {saved, NoSizes}
SaveFails ==
    /\ Running /\ sync.pc = "save" /\ RequestFails
    /\ SaveCutShort /\ sync' = PassEnded
    /\ SyncStep /\ UNCHANGED <<local, bucket, whole, cut>>

-----------------------------------------------------------------------------
(* The end of the process.                                                 *)

\* The end of the process while the store writes leaves a part of the record.
PartOf(f) ==
    LET n == Width(f, writer.width) IN
    {Units(writer.id, n, 1, k) : k \in 1 .. n - 1} \union (IF f = Heads THEN {<<Junk>>} ELSE {})
Ends ==
    /\ server' = "down" /\ sync' = AtTick /\ writer' = NoAppend /\ toFetch' = {}
    /\ UNCHANGED <<bucket, appends, requestErrors, whole, ahead, cut>>
    /\ UNCHANGED saved \/ (sync.pc = "save" /\ SaveCutShort)
    /\ \/ UNCHANGED local
       \/ /\ writer # NoAppend
          /\ LET f == SyncFiles[writer.at] IN
             \E units \in PartOf(f) : local' = [local EXCEPT ![f] = @ \o units]

Crash ==
    /\ server # "down" /\ crashes < MaxCrashes /\ crashes' = crashes + 1
    /\ failed' = (failed \/ server = "restoring")
    /\ Ends

\* The volume is lost with everything in it, between two runs of the server.
LoseDisk ==
    /\ server = "down" /\ local # Empty /\ crashes < MaxCrashes /\ crashes' = crashes + 1
    /\ local' = Empty /\ saved' = NoSizes
    /\ UNCHANGED <<bucket, server, toFetch, sync, writer, appends, requestErrors, history>>

\* SIGTERM: the accept loop ends and the handle asks for a last pass.
Shutdown ==
    /\ server = "up" /\ crashes < MaxCrashes /\ crashes' = crashes + 1
    /\ server' = "stopping"
    /\ UNCHANGED <<disk, bucket, toFetch, sync, writer, appends, requestErrors, history>>

\* After the last pass main returns, whatever the connection threads do.
Exit ==
    /\ server = "stopping" /\ sync.pc = "done"
    /\ Ends /\ UNCHANGED <<crashes, failed>>

-----------------------------------------------------------------------------
Store == (\E n \in 1 .. 2 : AppendBegins(n)) \/ AppendWrites \/ RegistryWrites
Restore ==
    \/ StartWithData \/ StartRestore \/ FetchManifestFails
    \/ \E f \in toFetch : Download(f) \/ DownloadFails(f)
SyncTask ==
    \/ Tick \/ Stat \/ Upload \/ UploadFails \/ SyncRegistry \/ Abort
    \/ UploadManifest \/ SaveState \/ SaveFails
Stops == Crash \/ LoseDisk \/ Shutdown \/ Exit

S3Next == Store \/ OpenStore \/ Restore \/ SyncTask \/ Stops

S3Spec == S3Init /\ [][S3Next]_s3Vars

\* The tokio timer and the requests go on as long as the process runs; whether
\* it is started, stopped or asked to append is up to others.
S3Fairness ==
    /\ WF_s3Vars(SyncTask) /\ WF_s3Vars(OpenStore) /\ WF_s3Vars(AppendWrites)
    /\ WF_s3Vars(\E f \in toFetch : Download(f)) /\ WF_s3Vars(Exit)

-----------------------------------------------------------------------------
(* Properties.                                                             *)

\* do_sync, maybe_restore and main: a server that is up has the whole records of
\* every append that was in the bucket when a manifest named the files, through
\* crashes, lost volumes and restarts, and every head it loads leads to such
\* records, so that a read of the context does not fail.  The exceptions are the
\* code's:
\*   - failed: a restore was cut short, a request of it failed, or it followed a
\*     manifest that names fewer files than the bucket has (one written after an
\*     upload failed); the server then starts with what there is;
\*   - ahead, for the heads: do_sync copies the files at different times, or one
\*     of them not at all, so the copy of heads.tbl may name an append of which
\*     that of turns.log has nothing.  load_heads does not look; get_last and
\*     append_turn then fail for the context, until the id is given to the next
\*     turn of any context;
\*   - Misaligned: a crash left less than a field of heads.tbl (the run
\*     turnstore_short_tear is about that alone).
SyncedServed ==
    (server = "up" /\ ~failed /\ ~Misaligned(local)) =>
        /\ \A id \in whole : Has(local, id)
        /\ ahead \/ HeadsLead(local)

\* Of maybe_restore ("If local data directory is empty but S3 has data, restore
\* from S3 before opening stores."): what is part of the backup is in the bucket
\* or on the disk.
BackupKept == \A id \in whole : Has(objects, id) \/ Has(local, id)

\* do_sync: a server that stays up brings every file that is not empty to the
\* bucket, retrying what failed; a file the store cut after the task saw it
\* longer may wait for it to grow past that size.
BackupCompletes ==
    []<>(\/ server \in {"down", "stopping"}
         \/ \A f \in DOMAIN local :
                \/ f \in cut \/ local[f] = <<>>
                \/ f \in DOMAIN objects /\ objects[f] = local[f])
=============================================================================

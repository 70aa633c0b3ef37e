------------------------------ MODULE FsCapture ------------------------------
(***************************************************************************)
(* Snapshots of a working directory (clients/rust/src/fstree): capture     *)
(* walks the directory and hashes every file, upload sends the trees, the  *)
(* files and the link targets, attach_fs names the root; a Tracker         *)
(* compares one capture with the one before.  Other programs write to the  *)
(* directory meanwhile.                                                    *)
(***************************************************************************)
EXTENDS FsTree, Functions

CONSTANTS
    Disks,          \* working directories: functions from paths to nodes
    Writes,         \* what others do to it: [path, node], or no node to remove it
    CaptureOptions, \* sets of options: [patterns, exclude_fn, follow, max_file_size, max_files]
    Asked,          \* paths asked of the server
    MaxWrites,      \* bound on writes
    MaxCaptures     \* bound on captures

VARIABLES
    folder,     \* the directory
    opts,       \* Options
    builder,    \* Builder and its recursion
    snapshot,   \* the snapshot being uploaded, or that capture or the tracker returned
    tracker,    \* Tracker.last_snapshot
    task,       \* what the caller of fstree is doing
    toSend,     \* blobs upload has still to send
    blobs,      \* the server's blob store
    latest,     \* the root attached last
    clean,      \* history: nothing was written since the capture began
    shown,      \* history: the directory of the snapshot, or {} if it changed meanwhile
    before,     \* history: the same of the tracker's last snapshot
    changes,    \* what the last Tracker.snapshot or diff_from_last returned
    writes, captures

captureVars == <<folder, opts, builder, snapshot, tracker, task, toSend, blobs,
                 latest, clean, shown, before, changes, writes, captures>>

None == [none |-> TRUE]
FileNode(bytes, mode) == [kind |-> FileKind, bytes |-> bytes, mode |-> mode]
LinkNode(target) == [kind |-> LinkKind, bytes |-> target, mode |-> 0]
DirNode == [kind |-> DirKind, bytes |-> <<>>, mode |-> 1]

-----------------------------------------------------------------------------
(* The filesystem.  A link leads to a path that has no links.              *)

RECURSIVE Canonical(_, _)
Canonical(d, path) ==
    IF path = <<>> THEN path
    ELSE LET real == Append(Canonical(d, Front(path)), Last(path)) IN
         IF real \in DOMAIN d /\ d[real].kind = LinkKind THEN d[real].bytes ELSE real
Exists(d, path) == path = <<>> \/ path \in DOMAIN d
NodeAt(d, path) == IF path = <<>> THEN DirNode ELSE d[path]
NamesIn(d, dir) == {Last(p) : p \in {q \in DOMAIN d : Front(q) = dir}}

-----------------------------------------------------------------------------
(* Options.                                                                *)

StrictPrefix(p, q) == p # q /\ IsPrefix(p, q)

\* should_exclude: the caller's function, as the set of what it excludes, then
\* the patterns.  A pattern is a path, or the path and /** (deep); other
\* wildcards are the glob library's.
Excluded(o, rel, isDir) ==
    \/ [rel |-> rel, dir |-> isDir] \in o.exclude_fn
    \/ \E p \in o.patterns :
          \/ p.deep /\ isDir /\ IsPrefix(p.base, rel)
          \/ p.deep /\ StrictPrefix(p.base, rel)
          \/ ~p.deep /\ p.base \in {rel, <<Last(rel)>>}

-----------------------------------------------------------------------------
(* Capture.                                                                *)

NoBuilder == [stack |-> <<>>, seen |-> None, trees |-> {}, files |-> <<>>, links |-> {}, count |-> 0]
Frame(rel, real) == [rel |-> rel, real |-> real, todo |-> NamesIn(folder, real), entries |-> <<>>]

FsCaptureInit ==
    /\ folder \in Disks /\ opts \in CaptureOptions
    /\ builder = NoBuilder /\ snapshot = None /\ tracker = None
    /\ task = "idle" /\ toSend = {} /\ blobs = {} /\ latest = None
    /\ clean = TRUE /\ shown = {} /\ before = {} /\ changes = None
    /\ writes = 0 /\ captures = 0

Top == builder.stack[Len(builder.stack)]
SetTop(frame) == [builder.stack EXCEPT ![Len(builder.stack)] = frame]
Skip(name) == [builder EXCEPT !.seen = None, !.stack = SetTop([Top EXCEPT !.todo = @ \ {name}])]
Entry(name, kind, mode, size, hash) ==
    [name |-> name, kind |-> kind, mode |-> mode, size |-> size, hash |-> hash]
Listed(entry) == SetTop([Top EXCEPT !.todo = @ \ {entry.name}, !.entries = Append(@, entry)])

\* capture, on its own or at the beginning of upload_and_attach or of
\* Tracker.snapshot.
StartCapture(what) ==
    /\ task = "idle" /\ captures < MaxCaptures
    /\ captures' = captures + 1
    /\ task' = what /\ clean' = TRUE /\ snapshot' = None /\ shown' = {}
    /\ builder' = [NoBuilder EXCEPT !.stack = <<Frame(<<>>, <<>>)>>]
    /\ UNCHANGED <<folder, opts, tracker, toSend, blobs, latest, before, changes, writes>>

Capturing == task \in {"capture", "attach", "track"} /\ builder.stack # <<>>

\* build_tree, one entry of read_dir, in any order: the patterns, then the
\* metadata, of the file a link leads to if links are followed.
ReadMetadata(name) ==
    LET path == Append(Top.real, name)
        real == IF opts.follow THEN Canonical(folder, path) ELSE path
        isDir == path \in DOMAIN folder /\ folder[path].kind = DirKind
    IN  /\ Capturing /\ builder.seen = None /\ name \in Top.todo
        /\ builder' = IF Excluded(opts, Append(Top.rel, name), isDir) \/ ~Exists(folder, real)
                      THEN Skip(name)
                      ELSE [builder EXCEPT !.seen = [name |-> name, node |-> NodeAt(folder, real)]]
        /\ UNCHANGED <<folder, opts, snapshot, tracker, task, toSend, blobs, latest, clean, shown,
                       before, changes, writes, captures>>

CaptureFails ==
    /\ task' = "idle" /\ builder' = NoBuilder
    /\ UNCHANGED <<folder, opts, snapshot, tracker, toSend, blobs, latest, clean, shown, before,
                   changes, writes, captures>>

KeepBuilding ==
    UNCHANGED <<folder, opts, snapshot, tracker, task, toSend, blobs, latest, clean, shown, before,
                changes, writes, captures>>

\* build_entry of a link that is not followed.
BuildLink ==
    LET path == Append(Top.real, builder.seen.name) IN
    /\ Capturing /\ builder.seen # None /\ builder.seen.node.kind = LinkKind
    /\ builder' =
           IF Exists(folder, path) /\ NodeAt(folder, path).kind = LinkKind
           THEN LET target == folder[path].bytes IN
                [builder EXCEPT !.seen = None, !.links = @ \union {target},
                    !.stack = Listed(Entry(builder.seen.name, LinkKind, builder.seen.node.mode,
                                           Len(target), Data(target)))]
           ELSE Skip(builder.seen.name)
    /\ KeepBuilding

\* The visited set holds the directories the recursion is in.
Cyclic(real) == \E i \in DOMAIN builder.stack : builder.stack[i].real = real

\* build_entry of a directory calls build_tree, whose cycle fails the capture;
\* one that cannot be read any more is left out.
EnterDirectory ==
    LET rel == Append(Top.rel, builder.seen.name)
        real == Canonical(folder, Append(Top.real, builder.seen.name))
    IN  /\ Capturing /\ builder.seen # None /\ builder.seen.node.kind = DirKind
        /\ IF Cyclic(real) THEN CaptureFails
           ELSE /\ builder' = IF Exists(folder, real) /\ NodeAt(folder, real).kind = DirKind
                              THEN [builder EXCEPT !.seen = None, !.stack = Append(@, Frame(rel, real))]
                              ELSE Skip(builder.seen.name)
                /\ KeepBuilding

\* build_entry of a file: too many files fail the capture, one that is too
\* large or gone is left out.  Two files of one content share a FileRef, the
\* later one's.
HashFile ==
    LET seen == builder.seen
        path == Append(Top.real, seen.name)
        real == Canonical(folder, path)
        size == Len(seen.node.bytes)
    IN  /\ Capturing /\ seen # None /\ seen.node.kind = FileKind
        /\ IF builder.count >= opts.max_files THEN CaptureFails
           ELSE /\ builder' =
                       IF size > opts.max_file_size \/ ~Exists(folder, real) \/ NodeAt(folder, real).kind = DirKind
                       THEN Skip(seen.name)
                       ELSE LET bytes == folder[real].bytes IN
                            [builder EXCEPT !.seen = None, !.count = @ + 1,
                                !.files = [b \in DOMAIN @ \union {bytes} |-> IF b = bytes THEN path ELSE @[b]],
                                !.stack = Listed(Entry(seen.name, FileKind, seen.node.mode, size, Data(bytes)))]
                /\ KeepBuilding

\* Mutant of TreeOf: entries stay in the order of read_dir.
TreeOfUnsorted(entries) == Tree([i \in DOMAIN entries |-> Pack(entries[i])])
\* The end of build_tree: sort by name, encode, hash.
TreeOf(entries) ==
    LET sorted == SortSeq(entries, LAMBDA a, b : a.name < b.name)
    IN  Tree([i \in DOMAIN sorted |-> Pack(sorted[i])])

FinishDirectory ==
    LET tree == TreeOf(Top.entries)
        up == [builder EXCEPT !.trees = @ \union {tree}, !.stack = Front(@)]
        parent == up.stack[Len(up.stack)]
        name == Last(Top.rel)
    IN  /\ Capturing /\ builder.seen = None /\ Top.todo = {} /\ Len(builder.stack) > 1
        /\ builder' = [up EXCEPT !.stack[Len(up.stack)] =
                          [parent EXCEPT !.todo = @ \ {name},
                              !.entries = Append(@, Entry(name, DirKind, 1, 0, tree))]]
        /\ KeepBuilding

\* Mutant of Sent: link targets are not sent.
SentNoLinks(snap) == [trees |-> snap.trees, files |-> snap.files, links |-> {}]
Sent(snap) == [trees |-> snap.trees, files |-> snap.files, links |-> snap.links]

\* Snapshot.walk, as the paths of files and links and the hash of each.
RECURSIVE Leaves(_, _, _)
Leaves(trees, hash, rel) ==
    LET entries == LoadEntries(trees, hash).entries
    IN  UNION {IF entries[i].kind = DirKind THEN Leaves(trees, entries[i].hash, Append(rel, entries[i].name))
               ELSE {[path |-> Append(rel, entries[i].name), hash |-> entries[i].hash]} : i \in DOMAIN entries}

\* diff of two snapshots; equal roots differ in nothing.
Diff(new, old) ==
    IF old = None THEN [added |-> {l.path : l \in Leaves(new.trees, new.root, <<>>)},
                        removed |-> {}, modified |-> {}]
    ELSE IF new.root = old.root THEN [added |-> {}, removed |-> {}, modified |-> {}]
    ELSE LET now == Leaves(new.trees, new.root, <<>>)
             was == Leaves(old.trees, old.root, <<>>)
         IN  [added |-> {l.path : l \in now} \ {l.path : l \in was},
              removed |-> {l.path : l \in was} \ {l.path : l \in now},
              modified |-> {l.path : l \in {x \in now : \E y \in was : x.path = y.path /\ x.hash # y.hash}}]

\* capture returns: upload_and_attach goes on to upload, the tracker compares the
\* roots and keeps the new snapshot.
FinishCapture ==
    LET tree == TreeOf(Top.entries)
        snap == [root |-> tree, trees |-> builder.trees \union {tree},
                 files |-> builder.files, links |-> builder.links]
    IN  /\ Capturing /\ builder.seen = None /\ Top.todo = {} /\ Len(builder.stack) = 1
        /\ builder' = NoBuilder
        /\ snapshot' = snap /\ shown' = IF clean THEN {folder} ELSE {}
        /\ IF task = "attach"
           THEN /\ task' = "upload"
                /\ toSend' = {[kind |-> "tree", blob |-> t] : t \in Sent(snap).trees}
                             \union {[kind |-> "file", blob |-> Data(b)] : b \in DOMAIN Sent(snap).files}
                             \union {[kind |-> "link", blob |-> Data(b)] : b \in Sent(snap).links}
           ELSE task' = "idle" /\ UNCHANGED toSend
        /\ IF task = "track"
           THEN /\ changes' = [changed |-> tracker = None \/ tracker.root # snap.root,
                               first |-> tracker = None, was |-> before, now |-> shown']
                /\ tracker' = snap /\ before' = shown'
           ELSE UNCHANGED <<tracker, before, changes>>
        /\ UNCHANGED <<folder, opts, blobs, latest, clean, writes, captures>>

\* Tracker.diff_from_last, of a snapshot the caller has: the one the tracker
\* returned differs in nothing, as the tracker keeps it.
DiffFromLast ==
    /\ task = "idle" /\ snapshot # None
    /\ changes' = [diff |-> Diff(snapshot, tracker), first |-> tracker = None,
                   was |-> before, now |-> shown]
    /\ UNCHANGED <<folder, opts, builder, snapshot, tracker, task, toSend, blobs, latest, clean, shown,
                   before, writes, captures>>

-----------------------------------------------------------------------------
(* Upload and attach.                                                      *)

Rank(kind) == CASE kind = "tree" -> 1 [] kind = "file" -> 2 [] kind = "link" -> 3

\* upload: trees, then files, then links, each kind in any order.  A file is
\* read again, from the path of its FileRef.
SendBlob(item) ==
    LET real == Canonical(folder, snapshot.files[item.blob.data])
        sent == IF item.kind = "file" THEN Data(folder[real].bytes) ELSE item.blob
    IN  /\ task = "upload" /\ item \in toSend
        /\ \A other \in toSend : Rank(item.kind) <= Rank(other.kind)
        /\ item.kind = "file" => Exists(folder, real) /\ NodeAt(folder, real).kind # DirKind
        /\ blobs' = blobs \union {sent}
        /\ toSend' = toSend \ {item}
        /\ UNCHANGED <<folder, opts, builder, snapshot, tracker, task, latest, clean, shown, before,
                       changes, writes, captures>>

\* A file cannot be read any more, or put_blob or attach_fs fails.
SnapshotFails ==
    /\ task = "upload"
    /\ task' = "idle" /\ toSend' = {} /\ snapshot' = None /\ shown' = {}
    /\ UNCHANGED <<folder, opts, builder, tracker, blobs, latest, clean, before, changes,
                   writes, captures>>

\* attach_fs, of a turn that exists; the server checks that it has the root.
AttachSnapshot ==
    /\ task = "upload" /\ toSend = {} /\ snapshot.root \in blobs
    /\ task' = "idle" /\ snapshot' = None /\ shown' = {}
    /\ latest' = [root |-> snapshot.root, exact |-> clean, view |-> folder]
    /\ UNCHANGED <<folder, opts, builder, tracker, toSend, blobs, clean, before, changes,
                   writes, captures>>

\* Another program writes, replaces or removes a file or a link.
WriteDisk(w) ==
    /\ writes < MaxWrites
    /\ w.path \in DOMAIN folder \/ w.node # None
    /\ folder' = IF w.node = None THEN Restrict(folder, DOMAIN folder \ {w.path})
               ELSE [p \in DOMAIN folder \union {w.path} |-> IF p = w.path THEN w.node ELSE folder[p]]
    /\ folder' # folder
    /\ clean' = FALSE /\ writes' = writes + 1
    /\ UNCHANGED <<opts, builder, snapshot, tracker, task, toSend, blobs, latest, shown, before,
                   changes, captures>>

FsCaptureNext ==
    \/ \E what \in {"capture", "attach", "track"} : StartCapture(what)
    \/ \E name \in IF Capturing THEN Top.todo ELSE {} : ReadMetadata(name)
    \/ BuildLink \/ EnterDirectory \/ HashFile
    \/ FinishDirectory \/ FinishCapture \/ DiffFromLast
    \/ \E item \in toSend : SendBlob(item)
    \/ SnapshotFails \/ AttachSnapshot
    \/ \E w \in Writes : WriteDisk(w)

-----------------------------------------------------------------------------
(* Properties.                                                             *)

\* The paths of directory d that options o let into a snapshot.
Visible(d, o) ==
    LET names == {Last(p) : p \in DOMAIN d}
        rels == UNION {[1 .. n -> names] : n \in 1 .. 3}
        Node(rel) == NodeAt(d, IF o.follow THEN Canonical(d, rel)
                               ELSE Append(Canonical(d, Front(rel)), Last(rel)))
        In(rel) == /\ Exists(d, IF o.follow THEN Canonical(d, rel) ELSE rel)
                   /\ ~Excluded(o, rel, rel \in DOMAIN d /\ d[rel].kind = DirKind)
                   /\ Node(rel).kind = FileKind => Len(Node(rel).bytes) <= o.max_file_size
    IN  [rel \in {r \in rels : \A n \in 1 .. Len(r) : In(SubSeq(r, 1, n))} |-> Node(rel)]

\* The blobs that can be reached from a root.
RECURSIVE Reached(_, _)
Reached(store, hash) ==
    LET loaded == LoadEntries(store, hash) IN
    {hash} \union (IF loaded.ok THEN UNION {Reached(store, loaded.entries[i].hash) :
                                                i \in DOMAIN loaded.entries} ELSE {})

\* compute_fs_content_bytes counts every stored blob of the snapshots once,
\* however many paths and directories share it.
ContentCounted ==
    latest # None =>
        ContentBytes(blobs, {latest.root}) =
            FoldSet(LAMBDA h, sum : sum + RawLen(blobs, h), 0, Reached(blobs, latest.root))

\* capture, upload, attach_fs and the reads: if nothing is written between the
\* capture and the end of the upload, the server answers for every path what
\* the directory holds, and nothing that was left out; and it counts the bytes
\* of what it has once.
SnapshotServed ==
    ContentCounted /\ ((latest # None /\ latest.exact) =>
        LET seen == Visible(latest.view, opts) IN
        \A path \in Asked :
            LET parts == Parts(path)
                file == GetFile(blobs, latest.root, path)
                list == ListEntries(blobs, latest.root, path)
            IN  /\ file.ok <=> parts \in DOMAIN seen /\ seen[parts].kind # DirKind
                /\ file.ok => /\ file.content = Data(seen[parts].bytes)
                              /\ file.entry.size = Len(seen[parts].bytes)
                /\ list.ok <=> parts = <<>> \/ (parts \in DOMAIN seen /\ seen[parts].kind = DirKind)
                /\ list.ok => {list.entries[i].name : i \in DOMAIN list.entries} =
                                  {Last(p) : p \in {q \in DOMAIN seen : Front(q) = parts}})

\* Tracker: two captures of a directory that nobody wrote to have one root in
\* whatever order read_dir lists it, so snapshot reports a change exactly when
\* what the snapshots show differs; and diff_from_last names exactly the files
\* and links that came, went or have another content.
ChangesExact ==
    (changes # None /\ changes.now # {} /\ (changes.first \/ changes.was # {})) =>
        LET Shown(dirs) == Visible(CHOOSE d \in dirs : TRUE, opts)
            was == IF changes.first THEN <<>> ELSE Shown(changes.was)
            now == Shown(changes.now)
            Leaf(v) == {p \in DOMAIN v : v[p].kind # DirKind}
        IN  IF "changed" \in DOMAIN changes
            THEN changes.changed <=> changes.first \/ was # now
            ELSE /\ changes.diff.added = Leaf(now) \ Leaf(was)
                 /\ changes.diff.removed = Leaf(was) \ Leaf(now)
                 /\ changes.diff.modified = {p \in Leaf(was) \intersect Leaf(now) : was[p].bytes # now[p].bytes}
=============================================================================

------------------------------- MODULE FsTree -------------------------------
(***************************************************************************)
(* Tree objects and the server's reads of a filesystem snapshot            *)
(* (server/src/fs_store/mod.rs, and list_fs_entries, get_fs_file and       *)
(* compute_fs_content_bytes of store.rs).                                  *)
(*                                                                         *)
(* A blob stands for its own hash.  File contents, link targets and paths  *)
(* are sequences of names, and a name is a number, so that names have an   *)
(* order and a link's target can be the content of a file.                 *)
(***************************************************************************)
EXTENDS Integers, SequencesExt, FiniteSetsExt

NoName == -2     \* the component between two slashes
DotDot == -1
Dot == 0

FileKind == 0
DirKind == 1
LinkKind == 2

Data(bytes) == [data |-> bytes]
Tree(entries) == [tree |-> entries]
IsTree(blob) == "tree" \in DOMAIN blob

\* A TreeEntry as msgpack: a map whose keys are the tags 1 .. 5 as strings.
Pack(e) == <<[key |-> "1", val |-> e.name], [key |-> "2", val |-> e.kind], [key |-> "3", val |-> e.mode],
             [key |-> "4", val |-> e.size], [key |-> "5", val |-> e.hash]>>

\* parse_tree_entry: the last pair with the tag, or the default.
Field(pairs, key, default) ==
    LET at == {i \in DOMAIN pairs : pairs[i].key = key}
    IN  IF at = {} THEN default ELSE pairs[Max(at)].val
ParseEntry(pairs) == [name |-> Field(pairs, "1", NoName), kind |-> Field(pairs, "2", FileKind),
                      mode |-> Field(pairs, "3", 0), size |-> Field(pairs, "4", 0), hash |-> Field(pairs, "5", Data(<<>>))]

NotFound == [ok |-> FALSE, why |-> "not_found"]
Refused(why) == [ok |-> FALSE, why |-> why]

\* load_tree_entries.  Content that is no tree does not decode as one.
LoadEntries(blobs, hash) ==
    CASE hash \notin blobs -> NotFound
      [] hash \in blobs /\ ~IsTree(hash) -> Refused("corrupt")
      [] OTHER -> [ok |-> TRUE, entries |-> [i \in DOMAIN hash.tree |-> ParseEntry(hash.tree[i])]]

\* The components of a path: empty ones and "." are dropped, ".." is a name.
Parts(path) == SelectSeq(path, LAMBDA p : p \notin {NoName, Dot})

\* The walk of resolve_path and get_file_at_path down to the entry of the last
\* component.
RECURSIVE Walk(_, _, _)
Walk(blobs, hash, parts) ==
    LET loaded == LoadEntries(blobs, hash) IN
    IF ~loaded.ok THEN loaded
    ELSE LET at == {i \in DOMAIN loaded.entries : loaded.entries[i].name = Head(parts)} IN
         IF at = {} THEN NotFound
         ELSE LET entry == loaded.entries[Min(at)] IN
              IF Len(parts) = 1 THEN [ok |-> TRUE, entry |-> entry]
              ELSE IF entry.kind # DirKind THEN Refused("not_a_directory")
              ELSE Walk(blobs, entry.hash, Tail(parts))

ResolvePath(blobs, root, path) ==
    IF Parts(path) = <<>> THEN [ok |-> TRUE, hash |-> root, dir |-> TRUE]
    ELSE LET found == Walk(blobs, root, Parts(path)) IN
         IF ~found.ok THEN found
         ELSE [ok |-> TRUE, hash |-> found.entry.hash, dir |-> found.entry.kind = DirKind]

\* list_fs_entries, for a turn with the snapshot root.
ListEntries(blobs, root, path) ==
    LET at == ResolvePath(blobs, root, path) IN
    IF ~at.ok THEN at
    ELSE IF ~at.dir THEN Refused("not_a_directory")
    ELSE LoadEntries(blobs, at.hash)

\* get_file_at_path, for get_fs_file.
GetFile(blobs, root, path) ==
    IF Parts(path) = <<>> THEN Refused("empty_path")
    ELSE LET found == Walk(blobs, root, Parts(path)) IN
         IF ~found.ok THEN found
         ELSE IF found.entry.kind = DirKind THEN Refused("is_a_directory")
         ELSE IF found.entry.hash \notin blobs THEN NotFound
         ELSE [ok |-> TRUE, content |-> found.entry.hash, entry |-> found.entry]

-----------------------------------------------------------------------------
(* The size of all snapshots.                                              *)

\* BlobStore::raw_len, or 0 when there is no such blob.
RawLen(blobs, hash) ==
    IF hash \notin blobs THEN 0 ELSE IF IsTree(hash) THEN 1 + Len(hash.tree) ELSE Len(hash.data)

Unseen(hash, visited) == hash \notin visited

\* compute_tree_size: the sum so far and the hashes visited so far.
RECURSIVE TreeSize(_, _, _)
TreeSize(blobs, hash, acc) ==
    IF ~Unseen(hash, acc.visited) THEN acc
    ELSE LET here == [total |-> acc.total + RawLen(blobs, hash), visited |-> acc.visited \union {hash}]
             loaded == LoadEntries(blobs, hash)
             Visit(a, e) ==
                 IF e.kind = DirKind THEN TreeSize(blobs, e.hash, a)
                 ELSE IF ~Unseen(e.hash, a.visited) THEN a
                 ELSE [total |-> a.total + RawLen(blobs, e.hash), visited |-> a.visited \union {e.hash}]
         IN  IF loaded.ok THEN FoldLeft(Visit, here, loaded.entries) ELSE here

\* compute_fs_content_bytes.
ContentBytes(blobs, roots) ==
    FoldSet(LAMBDA root, acc : TreeSize(blobs, root, acc), [total |-> 0, visited |-> {}], roots).total
=============================================================================

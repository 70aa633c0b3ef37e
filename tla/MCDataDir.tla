----------------------------- MODULE MCDataDir -----------------------------
(***************************************************************************)
(* The type registry, the snapshot index and the backup, each kept in its  *)
(* own files of the data directory, and the capture of a snapshot by a     *)
(* client.  They share no state, so a behaviour is one of one of them.     *)
(***************************************************************************)
EXTENDS Registry, FsRoots, S3Sync, FsCapture

VARIABLE part

FieldSpec(type, enum) == [type |-> type, enum |-> enum, rest |-> "name"]
Bool == FieldSpec("bool", NoEnum)
Num == FieldSpec("int", NoEnum)
OfE == FieldSpec("enum", "e")
Renamed(field) == [field EXCEPT !.rest = "other"]
Def(fields) == [fields |-> fields, renderer |-> NoRenderer]
Bundle(i, e, t) == [id |-> i, version |-> 1, enums |-> e, types |-> t]

SmallBundles == {
    Bundle("a", "e" :> "x", <<"T", 1>> :> Def(1 :> Num)),
    Bundle("b", Nothing, <<"T", 2>> :> Def(1 :> Renamed(Num) @@ 2 :> OfE)),
    Bundle("c", "e" :> "y" @@ "f" :> "x",
           <<"T", 1>> :> [Def(1 :> Num) EXCEPT !.renderer = "r"] @@ <<"U", 1>> :> Def(1 :> OfE)),
    Bundle("d", Nothing, <<"T", 3>> :> Def(1 :> Bool @@ 3 :> Num)),
    Bundle("f", "f" :> "x", <<"T", 2>> :> Def(3 :> Bool)),
    Bundle("n", "f" :> "y", <<"U", -1>> :> Def(1 :> Num)),
    [Bundle("z", "e" :> "x", Nothing) EXCEPT !.version = 0]}
SmallFileOf(b) == IF b.id \in {"a", "f"} THEN "a_f" ELSE b.id

SmallParent == <<0, 1, 1>>
Files == <<"turns.log", "heads.tbl">>

\* Two files of one content, a link to a directory or to its parent, and a
\* directory; others write, replace or remove one of them.
Folder(bytes, target, inner) ==
    <<1>> :> FileNode(bytes, 0) @@ <<2>> :> LinkNode(target) @@ <<3>> :> DirNode @@ <<3, 1>> :> FileNode(inner, 0)
SmallFolders == {Folder(<<3>>, <<3>>, <<3>>), Folder(<<>>, <<>>, <<1, 2>>)}
To(path, node) == [path |-> path, node |-> node]
SmallWrites == {To(<<1>>, FileNode(<<2>>, 0)), To(<<3, 1>>, None), To(<<3, 1>>, FileNode(<<3>>, 1)),
                To(<<2>>, FileNode(<<3>>, 0)), To(<<2>>, LinkNode(<<1>>))}
CaptureWith(patterns, excluded, follow, max) ==
    [patterns |-> patterns, exclude_fn |-> excluded, follow |-> follow,
     max_file_size |-> 1, max_files |-> max]
SmallCaptureOptions == {
    CaptureWith({}, {}, FALSE, 3), CaptureWith({}, {}, TRUE, 4),
    CaptureWith({[base |-> <<3>>, deep |-> TRUE]}, {}, FALSE, 1),
    CaptureWith({[base |-> <<1>>, deep |-> FALSE]}, {[rel |-> <<3, 1>>, dir |-> FALSE]}, TRUE, 3)}
SmallAsked == {<<>>, <<Dot>>, <<1>>, <<2>>, <<3, NoName, 1>>, <<3>>, <<3, 2>>, <<2, 1>>, <<DotDot, 1>>, <<1, 1>>,
               <<Dot, 3, 1, NoName>>}

vars == <<regVars, fsVars, s3Vars, captureVars, part>>
Init ==
    /\ RegistryInit /\ FsInit /\ S3Init /\ FsCaptureInit
    /\ part \in {"registry", "snapshots", "backup", "capture"}
    /\ part # "capture" => folder = Folder(<<3>>, <<3>>, <<3>>) /\ opts = CaptureWith({}, {}, FALSE, 3)
Next ==
    /\ UNCHANGED part
    /\ \/ part = "registry" /\ RegistryNext /\ UNCHANGED <<fsVars, s3Vars, captureVars>>
       \/ part = "snapshots" /\ FsNext /\ UNCHANGED <<regVars, s3Vars, captureVars>>
       \/ part = "backup" /\ S3Next /\ UNCHANGED <<regVars, fsVars, captureVars>>
       \/ part = "capture" /\ FsCaptureNext /\ UNCHANGED <<regVars, fsVars, s3Vars>>
Spec == Init /\ [][Next]_vars /\ (part = "backup" => S3Fairness)
============================================================================

------------------------------ MODULE FsRoots ------------------------------
(***************************************************************************)
(* The index of filesystem snapshots (server/src/fs_store/mod.rs,          *)
(* FsRootsIndex) and its use by the store: roots.idx is a log of records   *)
(* <<turn, root, crc>> of 44 bytes that attach appends to and load reads   *)
(* back; a turn without a root of its own inherits its ancestors'.         *)
(*                                                                         *)
(* The file is a sequence of pieces, [turn, root, bytes |-> 44] for a      *)
(* whole record and NoTurn for a part of one, which a failed write or a    *)
(* power loss leaves.  attach flushes but never syncs the file.  Turns and *)
(* blobs are synced by their own stores (modules TurnStore and BlobStore). *)
(***************************************************************************)
EXTENDS Integers, SequencesExt, FiniteSetsExt

CONSTANTS
    FsParent,       \* parent_turn_id of each turn that may be appended, 0 for none
    FsTrees,        \* the root trees
    Fragments,      \* bytes of a record that was cut
    MaxAttaches,    \* bound: records written
    MaxFsFaults     \* bound: crashes and failed writes

\* Turn ids are given out in order, and a turn's parent is there before it.
ASSUME FsAssumption ==
    /\ FsParent \in Seq(Nat) /\ \A t \in DOMAIN FsParent : FsParent[t] < t
    /\ Fragments \subseteq Nat \ {0}

FsTurns == DOMAIN FsParent
RecordBytes == 44
TurnIdBytes == 8
NoTurn == 0

VARIABLES
    stored,      \* turns in the turn store
    trees,       \* root trees in the blob store
    rootsFile,   \* roots.idx
    roots,       \* FsRootsIndex.roots
    fsUp,        \* the server runs
    attached,    \* history: the last root each turn was answered for
    ever,        \* history: every <<turn, root>> written
    damaged,     \* history: a part of a record is left in the file, or records were lost
    attaches, fsFaults

fsVars == <<stored, trees, rootsFile, roots, fsUp, attached, ever, damaged, attaches, fsFaults>>

NoRoots == [t \in {} |-> t]
WithRoot(m, t, r) == [u \in DOMAIN m \union {t} |-> IF u = t THEN r ELSE m[u]]
Record(t, r) == [turn |-> t, root |-> r, bytes |-> RecordBytes]
Fragment(n) == [turn |-> NoTurn, root |-> NoTurn, bytes |-> n]

FsInit ==
    /\ stored = {} /\ trees = {} /\ rootsFile = <<>> /\ roots = NoRoots
    /\ fsUp = TRUE /\ attached = NoRoots /\ ever = {} /\ damaged = FALSE
    /\ attaches = 0 /\ fsFaults = 0

-----------------------------------------------------------------------------
(* Reading the index.                                                      *)

WholeRecords(file) ==
    IF \E i \in DOMAIN file : file[i].turn = NoTurn
    THEN Min({i \in DOMAIN file : file[i].turn = NoTurn}) - 1 ELSE Len(file)

TailBytes(file) ==
    LET bytes[n \in 0 .. Len(file)] ==
            IF n <= WholeRecords(file) THEN 0 ELSE bytes[n - 1] + file[n].bytes
    IN  bytes[Len(file)]

\* Mutant of FileAfterLoad: a torn tail is skipped, not cut.
FileAfterLoadUncut(file) == file

\* load: whatever follows the last whole record fails its checksum and is cut,
\* but end of file inside a turn id ends the loop and leaves the bytes.
FileAfterLoad(file) ==
    IF TailBytes(file) < TurnIdBytes THEN file ELSE SubSeq(file, 1, WholeRecords(file))

\* The records are inserted in the order of the file.
RootsAfterLoad(file) ==
    LET load[n \in 0 .. WholeRecords(file)] ==
            IF n = 0 THEN NoRoots ELSE WithRoot(load[n - 1], file[n].turn, file[n].root)
    IN  load[WholeRecords(file)]

\* get_inherited: the root of the turn or of the nearest ancestor that has one.
GetInherited ==
    [t \in FsTurns |->
        LET up[u \in FsTurns \union {NoTurn}] ==
                IF u \in DOMAIN roots THEN roots[u]
                ELSE IF u \notin stored THEN NoTurn ELSE up[FsParent[u]]
        IN  up[t]]

-----------------------------------------------------------------------------
(* The server.                                                             *)

\* The turn store and the blob store (external to this module).
AppendTurn(t) ==
    /\ fsUp /\ t \notin stored /\ FsParent[t] \in stored \union {NoTurn}
    /\ stored' = stored \union {t}
    /\ UNCHANGED <<trees, rootsFile, roots, fsUp, attached, ever, damaged, attaches, fsFaults>>
PutTree(r) ==
    /\ fsUp /\ r \notin trees
    /\ trees' = trees \union {r}
    /\ UNCHANGED <<stored, rootsFile, roots, fsUp, attached, ever, damaged, attaches, fsFaults>>

\* Store::attach_fs.
MayAttach(t, r) ==
    fsUp /\ t \in stored /\ r \in trees /\ attaches < MaxAttaches

Attach(t, r) ==
    /\ MayAttach(t, r)
    /\ rootsFile' = Append(rootsFile, Record(t, r))
    /\ roots' = WithRoot(roots, t, r) /\ attached' = WithRoot(attached, t, r)
    /\ ever' = ever \union {<<t, r>>} /\ attaches' = attaches + 1
    /\ UNCHANGED <<stored, trees, fsUp, damaged, fsFaults>>

\* write_all fails after some bytes; the error is answered, and the next record
\* is appended behind them.
AttachFails(t, r) ==
    /\ MayAttach(t, r) /\ fsFaults < MaxFsFaults
    /\ \E n \in Fragments : rootsFile' = Append(rootsFile, Fragment(n))
    /\ damaged' = TRUE /\ attaches' = attaches + 1 /\ fsFaults' = fsFaults + 1
    /\ UNCHANGED <<stored, trees, roots, fsUp, attached, ever>>

Stop(file) ==
    /\ fsUp /\ fsFaults < MaxFsFaults
    /\ fsUp' = FALSE /\ roots' = NoRoots /\ fsFaults' = fsFaults + 1
    /\ rootsFile' = file
    /\ UNCHANGED <<stored, trees, attached, ever, attaches>>

\* The process is killed: what it wrote is in the page cache.
KillServer == Stop(rootsFile) /\ UNCHANGED damaged

\* The machine loses power: a suffix of the file that was never synced is gone.
LosePower ==
    /\ \E k \in 0 .. Len(rootsFile) - 1, n \in Fragments \union {0} :
           Stop(SubSeq(rootsFile, 1, k) \o IF n = 0 THEN <<>> ELSE <<Fragment(n)>>)
    /\ damaged' = TRUE

OpenIndex ==
    /\ ~fsUp /\ fsUp' = TRUE
    /\ rootsFile' = FileAfterLoad(rootsFile) /\ roots' = RootsAfterLoad(rootsFile)
    /\ attached' = IF damaged THEN roots' ELSE attached
    /\ damaged' = (TailBytes(rootsFile) \in 1 .. TurnIdBytes - 1)
    /\ UNCHANGED <<stored, trees, ever, attaches, fsFaults>>

FsNext ==
    \/ \E t \in FsTurns : AppendTurn(t)
    \/ \E r \in FsTrees : PutTree(r)
    \/ \E t \in FsTurns, r \in FsTrees : Attach(t, r) \/ AttachFails(t, r)
    \/ KillServer \/ LosePower \/ OpenIndex

FsSpec == FsInit /\ [][FsNext]_fsVars

-----------------------------------------------------------------------------
(* Properties.                                                             *)

AncestorsOf ==
    LET anc[t \in FsTurns \union {NoTurn}] ==
            IF t = NoTurn THEN {} ELSE {t} \union anc[FsParent[t]]
    IN  anc

\* load: even from a damaged file a turn is only given a root that was once
\* attached to it.
RootsGenuine == \A t \in DOMAIN roots : <<t, roots[t]>> \in ever

\* attach, load and get_inherited: a turn's snapshot is the one last attached to
\* the turn or to its nearest ancestor with one, across any number of kills and
\* restarts.  A failed write or a power loss excuses it only until the next
\* restart has read the file, unless a tail shorter than a turn id was left:
\* load keeps those bytes, and the records behind them are lost at the restart
\* after.  Lost or not, the roots are genuine.
SnapshotsKept ==
    /\ RootsGenuine
    /\ (fsUp /\ ~damaged) => \A t \in stored :
           LET with == AncestorsOf[t] \intersect DOMAIN attached IN
           GetInherited[t] = IF with = {} THEN NoTurn ELSE attached[Max(with)]
============================================================================

----------------------------- MODULE BlobStore -----------------------------
(***************************************************************************)
(* The content-addressed blob store (server/src/blob_store/mod.rs): blob   *)
(* records in blobs.pack, found through blobs.idx, whose entries are       *)
(* mirrored in the map "index".                                            *)
(*                                                                         *)
(* The pack is the sequence of what was written to it, a record's position *)
(* standing for its byte offset.  A torn record occupies a position too:   *)
(* the pack is never scanned or truncated, only read at indexed offsets.   *)
(* The idx file is, as in TurnStore, the entries a scan recovers and the   *)
(* bytes behind them, here with the parts of entries they consist of, as a *)
(* scan has no checksum to tell them from entries.  A blob's bytes are     *)
(* identified with their hash, and the bytes of one hash are taken not to  *)
(* form another, nor the end of an entry they happen to stand behind.      *)
(***************************************************************************)
EXTENDS Integers, Sequences

CONSTANTS
    Hashes,        \* the blobs callers may store
    MaxPack,       \* bound on records in the pack
    MaxBlobFaults, \* bound on crashes and failed writes
    IdxTorn,       \* bytes an interrupted index write may leave
    BlobWriteErrors \* may a write fail while the process keeps running?

EntryLen == 52   \* ENTRY_SIZE
HashLen  == 32
LensEnd  == 48   \* behind the hash, the offset and the two lengths
CodecEnd == 50

Damaged == 0     \* the offset of an entry whose own offset or lengths are lost

ASSUME BlobBounds  == MaxPack \in Nat /\ MaxBlobFaults \in Nat
ASSUME IdxTornRange == IdxTorn \subseteq 1 .. (EntryLen - 1)
ASSUME BlobSwitch  == BlobWriteErrors \in BOOLEAN

VARIABLES
    blobsPack, blobsIdx,   \* the files
    index,                 \* the map in memory: hash -> offset
    bop,                   \* the put_if_absent in progress
    blobMode,              \* "up", "down" or "failed"
    blobFaults,            \* faults so far
    blobAcked,             \* history: blobs whose put returned Ok
    blobCut                \* history: blobs an error met while their index entry
                           \* was written

blobVars ==
    <<blobsPack, blobsIdx, index, bop, blobMode, blobFaults, blobAcked, blobCut>>

NoBop == [stage |-> "none"]

\* HashMap::insert
Enter(map, key, val) ==
    [k \in DOMAIN map \cup {key} |-> IF k = key THEN val ELSE map[k]]

NoEntries == [h \in {} |-> 0]

-----------------------------------------------------------------------------
(* Files.                                                                  *)

\* A complete pack record; what is left of one that was cut short.
PackRecord(hash) == [hash |-> hash, whole |-> TRUE]
TornRecord(hash) == [hash |-> hash, whole |-> FALSE]

\* The first n bytes of an index entry reach the end of the file; behind stray
\* bytes even a whole entry is one more stray piece.
IdxAppended(file, hash, offset, n) ==
    IF file.junk = 0 /\ n = EntryLen
    THEN [file EXCEPT !.valid = Enter(@, hash, offset)]
    ELSE [file EXCEPT !.junk = @ + n,
                      !.stray = @ \cup {[at |-> file.junk, hash |-> hash,
                                         offset |-> offset, len |-> n]}]

IdxWritten(file, hash, offset) == IdxAppended(file, hash, offset, EntryLen)

\* What a write cut short may leave: nothing, a part, or all of it.
PackInterrupted(hash) ==
    {blobsPack, Append(blobsPack, PackRecord(hash)),
     Append(blobsPack, TornRecord(hash))}

IdxInterrupted(hash, offset) ==
    {blobsIdx} \cup {IdxAppended(blobsIdx, hash, offset, n) : n \in IdxTorn \cup {EntryLen}}

-----------------------------------------------------------------------------
(* Opening.                                                                *)

\* Mutant: a partial entry is skipped but stays in the file.
load_index_keeps_tail(file) == file

\* The stray pieces that are read as entries of their hash: the 52 bytes taken
\* for an entry begin with them.  (Elsewhere a hash nobody asks for is read.)
ReadAsEntries(file) ==
    {s \in file.stray : /\ s.at % EntryLen = 0
                        /\ s.len >= HashLen
                        /\ s.at + EntryLen <= file.junk}

\* HashMap::insert: the last entry of a hash stays.
LastEntries(file) ==
    {s \in ReadAsEntries(file) :
        \A q \in ReadAsEntries(file) : q.hash = s.hash => q.at <= s.at}

\* Where the entry read from a piece leads: lengths that are not the header's
\* make get refuse it.
EntryOffset(s) == IF s.len >= LensEnd THEN s.offset ELSE Damaged

\* load_index: whole entries are taken as they come, a partial one at the end
\* is cut off.
load_index(file) ==
    [valid |-> [h \in DOMAIN file.valid \cup {s.hash : s \in LastEntries(file)} |->
                   IF \E s \in LastEntries(file) : s.hash = h
                   THEN EntryOffset(CHOOSE s \in LastEntries(file) : s.hash = h)
                   ELSE file.valid[h]],
     junk  |-> 0,
     stray |-> {}]

BlobOpen ==
    /\ blobMode = "down"
    /\ blobsIdx' = load_index(blobsIdx)
    /\ index' = load_index(blobsIdx).valid
    /\ blobMode' = "up"
    /\ UNCHANGED <<blobsPack, bop, blobFaults, blobAcked, blobCut>>

\* Where the codec of an entry is expected stand bytes of another field, which
\* may name none: Err(Corrupt).
BlobOpenFails ==
    /\ blobMode = "down"
    /\ \E k \in 1 .. blobsIdx.junk \div EntryLen :
          ~ \E s \in blobsIdx.stray : s.at = (k - 1) * EntryLen /\ s.len >= CodecEnd
    /\ blobMode' = "failed"
    /\ UNCHANGED <<blobsPack, blobsIdx, index, bop, blobFaults, blobAcked, blobCut>>

-----------------------------------------------------------------------------
(* put_if_absent.                                                          *)

BlobIdle == blobMode = "up" /\ bop = NoBop

\* A known hash returns at once; the offset of a new record is the end of
\* the pack.
PutBegin(hash) ==
    /\ BlobIdle
    /\ hash \notin DOMAIN index => Len(blobsPack) < MaxPack
    /\ bop' = IF hash \in DOMAIN index
              THEN [stage |-> "done", hash |-> hash]
              ELSE [stage |-> "pack", hash |-> hash, offset |-> Len(blobsPack) + 1]
    /\ UNCHANGED <<blobsPack, blobsIdx, index, blobMode, blobFaults, blobAcked, blobCut>>

BlobAt(stage) == blobMode = "up" /\ bop.stage = stage

\* Mutant: the record is left in the page cache and the pack never synced.
PutPackUnsynced ==
    /\ BlobAt("pack")
    /\ bop' = [bop EXCEPT !.stage = "idx"]
    /\ blobsPack' \in {blobsPack, Append(blobsPack, PackRecord(bop.hash))}
    /\ UNCHANGED <<blobsIdx, index, blobMode, blobFaults, blobAcked, blobCut>>

\* Header, body and CRC, then sync_all.
PutPack ==
    /\ BlobAt("pack")
    /\ blobsPack' = Append(blobsPack, PackRecord(bop.hash))
    /\ bop' = [bop EXCEPT !.stage = "idx"]
    /\ UNCHANGED <<blobsIdx, index, blobMode, blobFaults, blobAcked, blobCut>>

\* The index entry, then sync_all, then the map.
PutIdx ==
    /\ BlobAt("idx")
    /\ blobsIdx' = IdxWritten(blobsIdx, bop.hash, bop.offset)
    /\ index' = Enter(index, bop.hash, bop.offset)
    /\ bop' = [bop EXCEPT !.stage = "done"]
    /\ UNCHANGED <<blobsPack, blobMode, blobFaults, blobAcked, blobCut>>

\* Ok(entry)
PutDone ==
    /\ BlobAt("done")
    /\ blobAcked' = blobAcked \cup {bop.hash}
    /\ bop' = NoBop
    /\ UNCHANGED <<blobsPack, blobsIdx, index, blobMode, blobFaults, blobCut>>

-----------------------------------------------------------------------------
(* Faults.                                                                 *)

BlobFilesInterrupted ==
    /\ blobsPack' \in (IF BlobAt("pack") THEN PackInterrupted(bop.hash) ELSE {blobsPack})
    /\ blobsIdx' \in (IF BlobAt("idx") THEN IdxInterrupted(bop.hash, bop.offset)
                      ELSE {blobsIdx})

BlobCrash ==
    /\ blobMode = "up"
    /\ blobFaults < MaxBlobFaults
    /\ BlobFilesInterrupted
    /\ index' = NoEntries
    /\ bop' = NoBop
    /\ blobMode' = "down"
    /\ blobFaults' = blobFaults + 1
    /\ UNCHANGED <<blobAcked, blobCut>>

\* A write or sync returns Err: the entry is not inserted, the bytes stay.
BlobWriteFails ==
    /\ BlobWriteErrors
    /\ BlobAt("pack") \/ BlobAt("idx")
    /\ blobFaults < MaxBlobFaults
    /\ BlobFilesInterrupted
    /\ bop' = NoBop
    /\ blobFaults' = blobFaults + 1
    /\ blobCut' = IF BlobAt("idx") THEN blobCut \cup {bop.hash} ELSE blobCut
    /\ UNCHANGED <<index, blobMode, blobAcked>>

-----------------------------------------------------------------------------
BlobInit ==
    /\ blobsPack = <<>>
    /\ blobsIdx = [valid |-> NoEntries, junk |-> 0, stray |-> {}]
    /\ index = NoEntries
    /\ bop = NoBop
    /\ blobMode = "down"
    /\ blobFaults = 0
    /\ blobAcked = {}
    /\ blobCut = {}

BlobNext ==
    \/ BlobOpen
    \/ BlobOpenFails
    \/ \E hash \in Hashes : PutBegin(hash)
    \/ PutPack \/ PutIdx \/ PutDone
    \/ BlobCrash
    \/ BlobWriteFails

BlobSpec == BlobInit /\ [][BlobNext]_blobVars

-----------------------------------------------------------------------------
(* Correctness.                                                            *)

IsIndex(map) == /\ DOMAIN map \subseteq Hashes
                /\ map \in [DOMAIN map -> Nat]

\* The state has the shape of the BlobStore struct and of its files.
BlobTypeOK ==
    /\ blobsPack \in Seq([hash : Hashes, whole : BOOLEAN])
    /\ Len(blobsPack) <= MaxPack
    /\ blobsIdx = [valid |-> blobsIdx.valid, junk |-> blobsIdx.junk,
                   stray |-> blobsIdx.stray]
    /\ IsIndex(blobsIdx.valid)
    /\ blobsIdx.junk \in Nat
    /\ \A s \in blobsIdx.stray : /\ s.hash \in Hashes
                                  /\ s.at \in Nat /\ s.offset \in Nat /\ s.len \in Nat
    /\ IsIndex(index)
    /\ bop \in {NoBop} \cup [stage : {"done"}, hash : Hashes]
               \cup [stage : {"pack", "idx", "done"}, hash : Hashes, offset : Nat \ {0}]
    /\ blobMode \in {"up", "down", "failed"}
    /\ blobFaults \in 0 .. MaxBlobFaults
    /\ blobAcked \subseteq Hashes
    /\ blobCut \subseteq Hashes

\* get(hash) finds an intact record of that very hash at the indexed offset.
Readable(map, hash) ==
    /\ map[hash] \in 1 .. Len(blobsPack)
    /\ blobsPack[map[hash]] = PackRecord(hash)

\* get(hash) answers Corrupt: the entry lost its offset or lengths, which it
\* may only if an error met the write of that very entry.
Refused(map, hash) == map[hash] = Damaged /\ hash \in blobCut

Backed(map) == \A h \in DOMAIN map : Readable(map, h) \/ Refused(map, h)

\* Every blob the index knows, in memory or as a restart would read it from
\* the file, can be read back: an entry is never durable before the record it
\* points at, whatever write was torn, failed or abandoned, however stray
\* bytes shift what follows them, and however often the blob was stored.  The
\* exception is a blob whose own entry was cut behind the hash by an error,
\* with the process running on: it is known and get refuses it.
IndexBacked == Backed(index) /\ Backed(load_index(blobsIdx).valid)

\* A blob whose put returned Ok can be read back after every later restart.
AckedBlobsDurable ==
    blobMode = "up" => \A h \in blobAcked : h \in DOMAIN index /\ Readable(index, h)

\* The faults the store is built for.
BlobCrashOnly == ~ BlobWriteErrors
=============================================================================

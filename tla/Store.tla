------------------------------- MODULE Store -------------------------------
(***************************************************************************)
(* The store behind every request (server/src/store.rs): append_turn first *)
(* puts the payload into the blob store, then appends the turn that names  *)
(* it by hash.  One request at a time holds the write lock, "sreq".        *)
(*                                                                         *)
(* The metadata cache and the secondary indexes Store keeps besides are    *)
(* the subject of ContextMetadata.                                         *)
(***************************************************************************)
EXTENDS TurnStore, BlobStore

ASSUME PayloadsAreBlobs == Payloads \subseteq Hashes

VARIABLE sreq

storeVars == <<vars, blobVars, sreq>>

NoReq == [kind |-> "none"]

StoreIdle == Idle /\ BlobIdle /\ sreq = NoReq

-----------------------------------------------------------------------------
(* Store::open: the blob store, then the turn store.                       *)

StoreOpen == BlobOpen /\ Open /\ UNCHANGED sreq

\* The blob store's Err ends it before the turn files are touched; the turn
\* store's Err comes after the blob index was loaded, and the process exits.
StoreOpenFails ==
    /\ \/ /\ BlobOpenFails
          /\ mode' = "failed"
          /\ UNCHANGED <<files, memory, op, faults, acked, ackedHead>>
       \/ /\ OpenFails
          /\ blobsIdx' = load_index(blobsIdx)
          /\ blobMode' = "failed"
          /\ UNCHANGED <<blobsPack, index, bop, blobFaults, blobAcked, blobCut>>
    /\ UNCHANGED sreq

-----------------------------------------------------------------------------
(* append_turn.                                                            *)

\* Compression, length or hash do not match: InvalidInput before any change.
PayloadRejected == StoreIdle /\ UNCHANGED storeVars

\* The verified payload goes to the blob store before the parent and the
\* context are looked at.
AppendStart(context, parent, payload) ==
    /\ StoreIdle
    /\ nextTurnId <= MaxTurns
    /\ StrayAppends \/ context \in DOMAIN heads
    /\ PutBegin(payload)
    /\ sreq' = [kind |-> "append", context |-> context, parent |-> parent,
                payload |-> payload]
    /\ UNCHANGED vars

\* Mutant: the turn is appended while the blob is only in the pack, and its
\* index entry is forgotten.
AppendTurnEarly ==
    /\ sreq.kind = "append"
    /\ BlobAt("idx") \/ BlobAt("done")
    /\ bop' = NoBop
    /\ UNCHANGED <<blobsPack, blobsIdx, index, blobMode, blobFaults, blobAcked, blobCut>>
    /\ AppendBegin(sreq.context, sreq.parent, sreq.payload)
    /\ UNCHANGED sreq

\* The blob is stored: the turn store takes over, or refuses the turn and the
\* blob stays, unreferenced.
AppendTurn ==
    /\ sreq.kind = "append"
    /\ PutDone
    /\ AppendBegin(sreq.context, sreq.parent, sreq.payload)
    /\ UNCHANGED sreq

AppendTurnRefused ==
    /\ sreq.kind = "append"
    /\ PutDone
    /\ AppendRefused(sreq.context, sreq.parent)
    /\ sreq' = NoReq

-----------------------------------------------------------------------------
(* PUT_BLOB, create_context and fork_context.                              *)

PutBlob(hash) ==
    /\ StoreIdle
    /\ PutBegin(hash)
    /\ sreq' = [kind |-> "put", payload |-> hash]
    /\ UNCHANGED vars

PutBlobReply ==
    /\ sreq.kind = "put"
    /\ PutDone
    /\ sreq' = NoReq
    /\ UNCHANGED vars

CreateContext(base) ==
    /\ StoreIdle
    /\ CreateBegin(base) \/ CreateRefused(base)
    /\ UNCHANGED <<blobVars, sreq>>

-----------------------------------------------------------------------------
(* The writes of the two stores, and faults.                               *)

BlobStep == /\ PutPack \/ PutIdx
            /\ UNCHANGED <<vars, sreq>>

TurnStep == /\ WriteLog \/ WriteIdx \/ WriteMeta \/ WriteHead
            /\ UNCHANGED <<blobVars, sreq>>

StoreReply == Reply /\ sreq' = NoReq /\ UNCHANGED blobVars

\* One process holds both stores.
StoreCrash == Crash /\ BlobCrash /\ sreq' = NoReq

StoreWriteFails ==
    /\ \/ BlobWriteFails /\ UNCHANGED vars
       \/ WriteFails /\ UNCHANGED blobVars
    /\ sreq' = NoReq

-----------------------------------------------------------------------------
StoreInit == Init /\ BlobInit /\ sreq = NoReq

StoreNext ==
    \/ StoreOpen
    \/ StoreOpenFails
    \/ PayloadRejected
    \/ \E context \in ContextIds, parent \in AnyTurnId, payload \in Payloads :
           AppendStart(context, parent, payload)
    \/ AppendTurn
    \/ AppendTurnRefused
    \/ \E hash \in Hashes : PutBlob(hash)
    \/ PutBlobReply
    \/ \E base \in AnyTurnId : CreateContext(base)
    \/ BlobStep
    \/ TurnStep
    \/ StoreReply
    \/ StoreCrash
    \/ StoreWriteFails

StoreSpec == StoreInit /\ [][StoreNext]_storeVars

-----------------------------------------------------------------------------
(* Correctness.                                                            *)

ReqType ==
    {NoReq}
    \cup [kind : {"put"}, payload : Hashes]
    \cup [kind : {"append"}, context : ContextIds, parent : AnyTurnId, payload : Payloads]

\* Both stores have their shape, and are open or closed together.
StoreTypeOK ==
    /\ TypeOK
    /\ BlobTypeOK
    /\ sreq \in ReqType
    /\ mode = blobMode

\* The payload of every turn the store serves can be read: get_last with
\* payloads never meets a missing or torn blob.
PayloadsServed ==
    mode = "up" => \A t \in DOMAIN turns : /\ turns[t].payload \in DOMAIN index
                                           /\ Readable(index, turns[t].payload)

\* The same of what a restart would find: at no point of an append does
\* turns.log hold a turn whose blob is not yet durable.
PayloadsDurable ==
    \A t \in DOMAIN turnsLog.valid :
        /\ turnsLog.valid[t].payload \in DOMAIN blobsIdx.valid
        /\ Readable(blobsIdx.valid, turnsLog.valid[t].payload)
=============================================================================

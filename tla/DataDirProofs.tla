----------------------------- MODULE DataDirProofs ----------------------------
(***************************************************************************)
(* Proofs about what else is kept in the data directory, for any number of *)
(* failures.                                                               *)
(*                                                                         *)
(* The type registry: what was answered Created is served while the server *)
(* is up, and a directory without torn files is read again.  Bundles that  *)
(* are served by the same maps are compatible.  A file is written only     *)
(* when its bundle and those of all other files are served, so the files   *)
(* are compatible; and while open reads them the maps hold nothing but     *)
(* what they say, so that no merge is refused.                             *)
(*                                                                         *)
(* The index of snapshots: a turn inherits the root last attached to its   *)
(* nearest ancestor with one.                                              *)
(*                                                                         *)
(* The backup: what a sync has uploaded is served again (SyncedServed of   *)
(* module S3Sync).                                                         *)
(***************************************************************************)
EXTENDS Registry, FsRoots, S3Sync, Induction, SequenceTheorems, TLAPS

-----------------------------------------------------------------------------
(* The inductive invariant.                                                *)

HasEnum(b, e) == e \in DOMAIN enums /\ enums[e] = b.enums[e]
HasType(b, k) == k \in DOMAIN types /\ types[k].fields = b.types[k].fields
Served(b) ==
    /\ \A e \in DOMAIN b.enums : HasEnum(b, e)
    /\ \A k \in DOMAIN b.types : HasType(b, k)

Compatible(b, c) ==
    /\ \A e \in DOMAIN b.enums \cap DOMAIN c.enums : b.enums[e] = c.enums[e]
    /\ \A k \in DOMAIN b.types \cap DOMAIN c.types : b.types[k].fields = c.types[k].fields
    /\ \A k \in DOMAIN b.types, l \in DOMAIN c.types :
          k[1] = l[1] =>
              \A t \in DOMAIN b.types[k].fields \cap DOMAIN c.types[l].fields :
                  Signature(b.types[k].fields[t]) = Signature(c.types[l].fields[t])

\* Files that are whole bundles, and those that open has read.
Whole == {f \in DOMAIN files : files[f] # Torn}
Read == Whole \ unread

\* The process, and what the maps are made of.
ShapeInv ==
    /\ process \in {"down", "loading", "up", "refused"}
    /\ job # NoJob => process \in {"up", "loading"}
    /\ process = "down" => types = Nothing /\ enums = Nothing /\ tags = Nothing
    /\ unread \subseteq DOMAIN files
    /\ \A k \in DOMAIN types :
           DOMAIN types[k] = {"fields", "renderer"} /\ Parsed(k, types[k].fields)

\* Every tag of a type that is served has its one meaning.
TagInv ==
    \A k \in DOMAIN types : \A t \in DOMAIN types[k].fields :
        <<k[1], t>> \in DOMAIN tags /\ tags[<<k[1], t>>] = Signature(types[k].fields[t])

\* A file holds a bundle that was accepted, and no two of them disagree.
FilesInv ==
    /\ accepted \subseteq Bundles
    /\ \A b \in accepted : b.version > 0 /\ FileOf(b) \in DOMAIN files
    /\ \A b \in accepted : \A k \in DOMAIN b.types : Parsed(k, b.types[k].fields)
    /\ \A f \in Whole : files[f] \in accepted /\ FileOf(files[f]) = f
    /\ \A f, g \in Whole : Compatible(files[f], files[g])

\* The bundle being merged: what is left of it, and that the rest is served.
JobInv ==
    job # NoJob =>
        /\ DOMAIN job = {"step", "bundle", "enums", "types", "type"}
        /\ job.step \in {"merge", "valid"} /\ job.bundle \in Bundles
        /\ \A e \in DOMAIN job.bundle.enums : e \in job.enums \/ HasEnum(job.bundle, e)
        /\ \A k \in DOMAIN job.bundle.types : k \in job.types \/ HasType(job.bundle, k)
        /\ job.enums \subseteq DOMAIN job.bundle.enums
        /\ job.types \subseteq DOMAIN job.bundle.types
        /\ job.step = "valid" =>
              job.enums = {} /\ job.types = {} /\ job.bundle.version > 0
        /\ process = "loading" => \E f \in Read : files[f] = job.bundle

\* While up the server serves the files, and what was accepted unless its file
\* was taken.
UpInv ==
    process = "up" =>
        /\ \A f \in Whole : Served(files[f])
        /\ \A b \in accepted : Overwritten(b) \/ Served(b)

\* While open reads the files, those read are served or being merged, and the
\* maps hold nothing that does not come from them.
FilesRead ==
    \A f \in DOMAIN files \ unread :
        files[f] # Torn /\ (Served(files[f]) \/ (job # NoJob /\ files[f] = job.bundle))
EnumsRead ==
    \A e \in DOMAIN enums : \E f \in Read :
        e \in DOMAIN files[f].enums /\ enums[e] = files[f].enums[e]
TypesRead ==
    \A k \in DOMAIN types : \E f \in Read :
        k \in DOMAIN files[f].types /\ types[k].fields = files[f].types[k].fields
TagsRead ==
    \A x \in DOMAIN tags : \E f \in Read : \E k \in DOMAIN files[f].types :
        /\ k[1] = x[1] /\ x[2] \in DOMAIN files[f].types[k].fields
        /\ tags[x] = Signature(files[f].types[k].fields[x[2]])
LoadInv == process = "loading" => FilesRead /\ EnumsRead /\ TypesRead /\ TagsRead

RegistryInv == ShapeInv /\ TagInv /\ FilesInv /\ JobInv /\ UpInv /\ LoadInv /\ StartsAgain

-----------------------------------------------------------------------------
(* What the steps do to the maps.                                          *)

\* The empty map.
LEMMA NothingFacts == DOMAIN Nothing = {}
  BY DEF Nothing

\* A file that is torn is not a bundle, and a job is not NoJob.
LEMMA BundleFacts ==
    /\ Torn \notin Bundles
    /\ \A b : Ingest(b) # NoJob
  BY BundlesAssumption DEF Torn, Ingest, NoJob

\* Only a crash takes something out of the maps.
Grows ==
    /\ \A e \in DOMAIN enums : e \in DOMAIN enums' /\ enums'[e] = enums[e]
    /\ \A k \in DOMAIN types : k \in DOMAIN types' /\ types'[k].fields = types[k].fields

\* A merge that goes on.
LEMMA ContinueFacts ==
    ASSUME NEW j, Continue(j)
    PROVE  job' = j /\ UNCHANGED <<files, process, unread, accepted, failures>>
  BY DEF Continue

\* An error ends the merge, and open with it.
LEMMA RefuseFacts ==
    ASSUME Refuse
    PROVE  /\ job' = NoJob /\ UNCHANGED <<files, unread, accepted, failures>>
           /\ process = "loading" => process' = "refused"
           /\ process # "loading" => process' = process
  BY DEF Refuse

\* An enum is merged, or refused because its labels differ.
LEMMA MergeEnumFacts ==
    ASSUME NEW e, MergeEnum(e)
    PROVE  /\ job.step = "merge" /\ job.bundle.version > 0
           /\ UNCHANGED <<types, tags, bundles, lastBundle>>
           /\ \/ /\ e \in DOMAIN enums /\ enums[e] # job.bundle.enums[e]
                 /\ Refuse /\ UNCHANGED enums
              \/ /\ e \in DOMAIN enums => enums[e] = job.bundle.enums[e]
                 /\ Continue([job EXCEPT !.enums = @ \ {e}])
                 /\ DOMAIN enums' = {e} \cup DOMAIN enums /\ enums'[e] = job.bundle.enums[e]
                 /\ \A x \in DOMAIN enums : enums'[x] = enums[x]
<1>1. CASE e \in DOMAIN enums /\ enums[e] # job.bundle.enums[e]
  BY <1>1 DEF MergeEnum
<1>2. CASE ~(e \in DOMAIN enums /\ enums[e] # job.bundle.enums[e])
  <2>1. enums' = Inserted(enums, e, job.bundle.enums[e])
    BY <1>2 DEF MergeEnum
  <2> HIDE DEF Continue, Refuse
  <2> QED
    BY <1>2, <2>1 DEF MergeEnum, Inserted
<1> QED
  BY <1>1, <1>2

\* A version that is known is left as it is, but for its renderer.
LEMMA MergeKnownFacts ==
    ASSUME ShapeInv, NEW k, MergeKnownVersion(k)
    PROVE  /\ NextType(k) /\ k \in DOMAIN types
           /\ UNCHANGED <<enums, tags, bundles, lastBundle>>
           /\ DOMAIN types' = DOMAIN types
           /\ \A l \in DOMAIN types : /\ types'[l].fields = types[l].fields
                                      /\ DOMAIN types'[l] = {"fields", "renderer"}
           /\ \/ types[k].fields # job.bundle.types[k].fields /\ Refuse
              \/ types[k].fields = job.bundle.types[k].fields /\ MergedType(k)
<1>1. UNCHANGED types \/ types' = [types EXCEPT ![k].renderer = job.bundle.types[k].renderer]
  BY DEF MergeKnownVersion
<1>2. /\ DOMAIN types' = DOMAIN types
      /\ \A l \in DOMAIN types : /\ types'[l].fields = types[l].fields
                                 /\ DOMAIN types'[l] = {"fields", "renderer"}
  BY <1>1 DEF ShapeInv, MergeKnownVersion
<1> QED
  BY <1>2 DEF MergeKnownVersion

\* A new version and its tags are added.
LEMMA MergeNewFacts ==
    ASSUME NEW k, MergeNewVersion(k)
    PROVE  /\ NextType(k) /\ Parses(k) /\ k \notin DOMAIN types /\ MergedType(k)
           /\ UNCHANGED <<enums, bundles, lastBundle>>
           /\ DOMAIN types' = {k} \cup DOMAIN types /\ types'[k] = job.bundle.types[k]
           /\ \A l \in DOMAIN types : types'[l] = types[l]
           /\ DOMAIN tags' = TagsOf(k) \cup DOMAIN tags
           /\ \A x \in DOMAIN tags : tags'[x] = tags[x]
           /\ \A x \in TagsOf(k) : tags'[x] = Signature(job.bundle.types[k].fields[x[2]])
<1>1. types' = Inserted(types, k, job.bundle.types[k])
  BY DEF MergeNewVersion
<1>2. /\ tags' = WithTags(k, TagsOf(k))
      /\ \A x \in TagsOf(k) : x \in DOMAIN tags => tags[x] = Signature(job.bundle.types[k].fields[x[2]])
  BY DEF MergeNewVersion, Conflicts
<1>3. /\ DOMAIN tags' = TagsOf(k) \cup DOMAIN tags
      /\ \A x \in DOMAIN tags : tags'[x] = tags[x]
      /\ \A x \in TagsOf(k) : tags'[x] = Signature(job.bundle.types[k].fields[x[2]])
  BY <1>2 DEF WithTags
<1>4. /\ DOMAIN types' = {k} \cup DOMAIN types /\ types'[k] = job.bundle.types[k]
      /\ \A l \in DOMAIN types : l # k => types'[l] = types[l]
  BY <1>1 DEF Inserted
<1> QED
  BY <1>3, <1>4 DEF MergeNewVersion

\* A refused version leaves tags behind.
LEMMA RefuseTagsFacts ==
    ASSUME NEW k, RefuseTags(k)
    PROVE  /\ NextType(k) /\ Conflicts(k) # {} /\ Refuse
           /\ UNCHANGED <<enums, types, bundles, lastBundle>>
           /\ DOMAIN tags \subseteq DOMAIN tags'
           /\ \A x \in DOMAIN tags : tags'[x] = tags[x]
<1>1. PICK seen \in SUBSET (TagsOf(k) \ Conflicts(k)) : tags' = WithTags(k, seen)
  BY DEF RefuseTags
<1> QED
  BY <1>1 DEF RefuseTags, WithTags

\* What a finished merge changes.
LEMMA WriteFacts ==
    ASSUME WriteFile
    PROVE  /\ job.step = "valid" /\ process = "up" /\ job' = NoJob
           /\ UNCHANGED <<enums, types, tags, process, unread>>
           /\ accepted' = accepted \cup {job.bundle}
           /\ DOMAIN files' = {FileOf(job.bundle)} \cup DOMAIN files
           /\ files'[FileOf(job.bundle)] = job.bundle
           /\ \A f \in DOMAIN files : f # FileOf(job.bundle) => files'[f] = files[f]
<1>1. files' = Inserted(files, FileOf(job.bundle), job.bundle)
  BY DEF WriteFile
<1>2. /\ DOMAIN files' = {FileOf(job.bundle)} \cup DOMAIN files
      /\ files'[FileOf(job.bundle)] = job.bundle
      /\ \A f \in DOMAIN files : f # FileOf(job.bundle) => files'[f] = files[f]
  BY <1>1 DEF Inserted
<1> QED
  BY <1>2 DEF WriteFile, Remember

\* A file that is cut.
TornFile(g) ==
    /\ DOMAIN files' = {g} \cup DOMAIN files /\ files'[g] = Torn
    /\ \A f \in DOMAIN files : f # g => files'[f] = files[f]

\* What a write that fails leaves.
LEMMA WriteFailsFacts ==
    ASSUME WriteFails
    PROVE  /\ job.step = "valid" /\ process = "up" /\ job' = NoJob
           /\ UNCHANGED <<enums, types, tags, process, unread, accepted>>
           /\ TornFile(FileOf(job.bundle))
<1>1. files' = Inserted(files, FileOf(job.bundle), Torn)
  BY DEF WriteFails
<1>2. TornFile(FileOf(job.bundle))
  BY <1>1 DEF TornFile, Inserted
<1> QED
  BY <1>2 DEF WriteFails, memory

\* What a crash leaves.
LEMMA KillFacts ==
    ASSUME Kill
    PROVE  /\ process' = "down" /\ job' = NoJob /\ unread' = {} /\ UNCHANGED accepted
           /\ enums' = Nothing /\ types' = Nothing /\ tags' = Nothing
           /\ UNCHANGED files \/ TornFile(FileOf(job.bundle))
<1>1. CASE UNCHANGED files
  BY <1>1 DEF Kill
<1>2. CASE files' = Inserted(files, FileOf(job.bundle), Torn)
  <2>1. TornFile(FileOf(job.bundle))
    BY <1>2 DEF TornFile, Inserted
  <2> QED
    BY <2>1 DEF Kill
<1> QED
  BY <1>1, <1>2 DEF Kill

\* What is left of a job after an enum was merged.
LEMMA JobAfterEnum ==
    ASSUME JobInv, job # NoJob, NEW e, Continue([job EXCEPT !.enums = @ \ {e}])
    PROVE  /\ job' # NoJob /\ DOMAIN job' = DOMAIN job /\ job'.step = job.step
           /\ job'.bundle = job.bundle /\ job'.enums = job.enums \ {e} /\ job'.types = job.types
  BY DEF JobInv, Continue, NoJob

\* The same for a version.
LEMMA JobAfterType ==
    ASSUME JobInv, job # NoJob, NEW k, MergedType(k)
    PROVE  /\ job' # NoJob /\ DOMAIN job' = DOMAIN job /\ job'.step = job.step
           /\ job'.bundle = job.bundle /\ job'.enums = job.enums /\ job'.types = job.types \ {k}
           /\ UNCHANGED <<files, process, unread, accepted, failures>>
  BY DEF JobInv, MergedType, Continue, NoJob

\* A valid bundle, or an error.
LEMMA ValidateFacts ==
    ASSUME JobInv, job # NoJob, Validate
    PROVE  /\ job.bundle.version > 0 /\ job.enums = {} /\ job.types = {}
           /\ UNCHANGED <<enums, types, tags>>
           /\ \/ ~EnumsKnown(types, DOMAIN enums) /\ Refuse
              \/ /\ job' # NoJob /\ DOMAIN job' = DOMAIN job /\ job'.step = "valid"
                 /\ job'.bundle = job.bundle /\ job'.enums = job.enums /\ job'.types = job.types
                 /\ UNCHANGED <<files, process, unread, accepted, failures>>
<1>1. CASE EnumsKnown(types, DOMAIN enums)
  BY <1>1 DEF Validate, JobInv, Continue, NoJob, memory
<1>2. CASE ~EnumsKnown(types, DOMAIN enums)
  BY <1>2 DEF Validate, memory
<1> QED
  BY <1>1, <1>2

\* The bundle that was just begun.
LEMMA IngestFacts ==
    ASSUME NEW b, job' = Ingest(b)
    PROVE  /\ job' # NoJob /\ DOMAIN job' = {"step", "bundle", "enums", "types", "type"}
           /\ job'.step = "merge" /\ job'.bundle = b
           /\ job'.enums = DOMAIN b.enums /\ job'.types = DOMAIN b.types
  BY DEF Ingest, NoJob

\* No step but a crash takes anything out of the maps.
LEMMA GrowStep ==
    ASSUME ShapeInv, RegistryNext, ~Kill
    PROVE  Grows
<1>1. ASSUME NEW b \in Bundles, PutBundle(b) PROVE Grows
  BY <1>1 DEF PutBundle, memory, Grows
<1>2. ASSUME BadVersion PROVE Grows
  BY <1>2 DEF BadVersion, memory, Grows
<1>3. ASSUME Validate PROVE Grows
  BY <1>3 DEF Validate, memory, Grows
<1>4. ASSUME NEW e \in job.enums, MergeEnum(e) PROVE Grows
  BY <1>4, MergeEnumFacts DEF Grows
<1>5. ASSUME NEW k \in job.types, MergeKnownVersion(k) PROVE Grows
  BY <1>5, MergeKnownFacts DEF Grows
<1>6. ASSUME NEW k \in job.types, MergeNewVersion(k) PROVE Grows
  BY <1>6, MergeNewFacts DEF Grows
<1>7. ASSUME NEW k \in job.types, RefuseTags(k) PROVE Grows
  BY <1>7, RefuseTagsFacts DEF Grows
<1>a. ASSUME NEW k \in job.types, RefuseVersion(k) PROVE Grows
  BY <1>a DEF RefuseVersion, memory, Grows
<1>8. ASSUME WriteFile PROVE Grows
  BY <1>8, WriteFacts DEF Grows
<1>9. ASSUME WriteFails PROVE Grows
  BY <1>9, WriteFailsFacts DEF Grows
<1>10. ASSUME Loaded PROVE Grows
  BY <1>10 DEF Loaded, Remember, Grows
<1>11. ASSUME Open PROVE Grows
  BY <1>11 DEF Open, memory, Grows
<1>12. ASSUME NEW f \in unread, LoadFile(f) PROVE Grows
  BY <1>12 DEF LoadFile, memory, Grows
<1> QED
  BY <1>1, <1>2, <1>3, <1>4, <1>5, <1>6, <1>7, <1>a, <1>8, <1>9, <1>10, <1>11, <1>12
  DEF RegistryNext, IngestStep

\* What is served stays served.
LEMMA ServedStep ==
    ASSUME Grows
    PROVE  /\ \A b, e : HasEnum(b, e) => HasEnum(b, e)'
           /\ \A b, k : HasType(b, k) => HasType(b, k)'
           /\ \A b : Served(b) => Served(b)'
  BY DEF Grows, Served, HasEnum, HasType

\* Bundles served by the same maps agree.
LEMMA ServedCompatible ==
    ASSUME TagInv
    PROVE  \A b, c : Served(b) /\ Served(c) => Compatible(b, c)
<1> SUFFICES ASSUME NEW b, NEW c, Served(b), Served(c) PROVE Compatible(b, c)
  OBVIOUS
<1>1. \A e \in DOMAIN b.enums \cap DOMAIN c.enums : b.enums[e] = c.enums[e]
  BY DEF Served, HasEnum
<1>2. \A k \in DOMAIN b.types \cap DOMAIN c.types : b.types[k].fields = c.types[k].fields
  BY DEF Served, HasType
<1>3. ASSUME NEW k \in DOMAIN b.types, NEW l \in DOMAIN c.types, k[1] = l[1],
             NEW t \in DOMAIN b.types[k].fields \cap DOMAIN c.types[l].fields
      PROVE  Signature(b.types[k].fields[t]) = Signature(c.types[l].fields[t])
  <2>1. k \in DOMAIN types /\ types[k].fields = b.types[k].fields
    BY DEF Served, HasType
  <2>2. l \in DOMAIN types /\ types[l].fields = c.types[l].fields
    BY DEF Served, HasType
  <2>3. tags[<<k[1], t>>] = Signature(types[k].fields[t]) /\ tags[<<l[1], t>>] = Signature(types[l].fields[t])
    BY <2>1, <2>2 DEF TagInv
  <2> QED
    BY <1>3, <2>1, <2>2, <2>3
<1> QED
  BY <1>1, <1>2, <1>3 DEF Compatible

-----------------------------------------------------------------------------
(* Every step keeps the invariant.                                         *)

\* The shape of the registry.
LEMMA ShapeStep ==
    ASSUME ShapeInv, JobInv, RegistryNext
    PROVE  ShapeInv'
<1>1. ASSUME NEW b \in Bundles, PutBundle(b) PROVE ShapeInv'
  BY <1>1 DEF PutBundle, Continue, memory, ShapeInv
<1>2. ASSUME job # NoJob, BadVersion PROVE ShapeInv'
  BY <1>2, RefuseFacts DEF BadVersion, memory, ShapeInv
<1>3. ASSUME job # NoJob, Validate PROVE ShapeInv'
  BY <1>3, RefuseFacts, ValidateFacts DEF ShapeInv
<1>4. ASSUME job # NoJob, NEW e \in job.enums, MergeEnum(e) PROVE ShapeInv'
  BY <1>4, MergeEnumFacts, RefuseFacts, ContinueFacts DEF ShapeInv
<1>5. ASSUME job # NoJob, NEW k \in job.types, MergeKnownVersion(k) PROVE ShapeInv'
  BY <1>5, MergeKnownFacts, RefuseFacts, JobAfterType DEF ShapeInv
<1>6. ASSUME job # NoJob, NEW k \in job.types, MergeNewVersion(k) PROVE ShapeInv'
  <2>1. DOMAIN job.bundle.types[k] = {"fields", "renderer"}
    BY <1>6, BundlesAssumption DEF JobInv
  <2>a. Parsed(k, job.bundle.types[k].fields)
    BY <1>6, MergeNewFacts DEF Parses
  <2>2. /\ MergedType(k) /\ UNCHANGED enums
        /\ DOMAIN types' = {k} \cup DOMAIN types /\ types'[k] = job.bundle.types[k]
        /\ \A l \in DOMAIN types : types'[l] = types[l]
    BY <1>6, MergeNewFacts
  <2>3. UNCHANGED <<files, process, unread, accepted, failures>>
    BY <1>6, <2>2, JobAfterType
  <2> QED
    BY <1>6, <2>1, <2>a, <2>2, <2>3 DEF ShapeInv
<1>7. ASSUME job # NoJob, NEW k \in job.types, RefuseTags(k) PROVE ShapeInv'
  BY <1>7, RefuseTagsFacts, RefuseFacts DEF ShapeInv
<1>a. ASSUME job # NoJob, NEW k \in job.types, RefuseVersion(k) PROVE ShapeInv'
  BY <1>a, RefuseFacts DEF RefuseVersion, memory, ShapeInv
<1>8. ASSUME WriteFile PROVE ShapeInv'
  BY <1>8, WriteFacts DEF ShapeInv
<1>9. ASSUME WriteFails PROVE ShapeInv'
  BY <1>9, WriteFailsFacts DEF ShapeInv, TornFile
<1>10. ASSUME Loaded PROVE ShapeInv'
  BY <1>10 DEF Loaded, Remember, ShapeInv
<1>11. ASSUME Kill PROVE ShapeInv'
  BY <1>11, KillFacts, NothingFacts DEF ShapeInv
<1>12. ASSUME Open PROVE ShapeInv'
  BY <1>12 DEF Open, memory, ShapeInv
<1>13. ASSUME NEW f \in unread, LoadFile(f) PROVE ShapeInv'
  BY <1>13 DEF LoadFile, memory, ShapeInv
<1> QED
  BY <1>1, <1>2, <1>3, <1>4, <1>5, <1>6, <1>7, <1>a, <1>8, <1>9, <1>10, <1>11, <1>12, <1>13
  DEF RegistryNext, IngestStep

\* Tags keep the meaning that the served versions give them.
LEMMA TagStep ==
    ASSUME ShapeInv, TagInv, RegistryNext
    PROVE  TagInv'
<1>1. ASSUME UNCHANGED <<types, tags>> PROVE TagInv'
  BY <1>1 DEF TagInv
<1>2. ASSUME NEW k \in job.types, MergeKnownVersion(k) PROVE TagInv'
  BY <1>2, MergeKnownFacts DEF TagInv
<1>3. ASSUME NEW k \in job.types, MergeNewVersion(k) PROVE TagInv'
  <2> SUFFICES ASSUME NEW l \in DOMAIN types', NEW t \in DOMAIN types'[l].fields
               PROVE  <<l[1], t>> \in DOMAIN tags' /\ tags'[<<l[1], t>>] = Signature(types'[l].fields[t])
    BY DEF TagInv
  <2>0. /\ DOMAIN types' = {k} \cup DOMAIN types /\ types'[k] = job.bundle.types[k]
        /\ \A m \in DOMAIN types : types'[m] = types[m]
        /\ DOMAIN tags' = TagsOf(k) \cup DOMAIN tags
        /\ \A x \in DOMAIN tags : tags'[x] = tags[x]
        /\ \A x \in TagsOf(k) : tags'[x] = Signature(job.bundle.types[k].fields[x[2]])
    BY <1>3, MergeNewFacts
  <2>1. CASE l \in DOMAIN types
    BY <2>0, <2>1 DEF TagInv
  <2>2. CASE l \notin DOMAIN types
    <3>1. l = k /\ types'[l] = job.bundle.types[k]
      BY <2>0, <2>2
    <3>2. <<l[1], t>> \in TagsOf(k)
      BY <3>1 DEF TagsOf
    <3> QED
      BY <2>0, <3>1, <3>2
  <2> QED
    BY <2>1, <2>2
<1>4. ASSUME NEW k \in job.types, RefuseTags(k) PROVE TagInv'
  BY <1>4, RefuseTagsFacts DEF TagInv
<1>5. ASSUME Kill PROVE TagInv'
  BY <1>5, KillFacts, NothingFacts DEF TagInv
<1>6. ASSUME NEW e \in job.enums, MergeEnum(e) PROVE TagInv'
  BY <1>1, <1>6, MergeEnumFacts
<1>7. ASSUME BadVersion \/ Validate \/ (\E k \in job.types : RefuseVersion(k)) PROVE TagInv'
  BY <1>1, <1>7 DEF BadVersion, Validate, RefuseVersion, memory
<1>8. ASSUME WriteFile \/ WriteFails \/ Loaded PROVE TagInv'
  BY <1>1, <1>8 DEF WriteFile, WriteFails, Loaded, Remember, memory
<1>9. ASSUME Open \/ (\E b \in Bundles : PutBundle(b)) \/ (\E f \in unread : LoadFile(f))
      PROVE  TagInv'
  BY <1>1, <1>9 DEF Open, PutBundle, LoadFile, memory
<1> QED
  BY <1>2, <1>3, <1>4, <1>5, <1>6, <1>7, <1>8, <1>9 DEF RegistryNext, IngestStep

\* A torn file is no longer a bundle; the others are what they were.
LEMMA TornFacts ==
    ASSUME NEW g, TornFile(g)
    PROVE  /\ DOMAIN files \subseteq DOMAIN files'
           /\ Whole' = Whole \ {g}
           /\ \A f \in Whole' : files'[f] = files[f]
  BY DEF TornFile, Whole

\* The files that are written are accepted and compatible.
LEMMA FilesStep ==
    ASSUME ShapeInv, TagInv, FilesInv, JobInv, UpInv, RegistryNext
    PROVE  FilesInv'
<1>1. ASSUME UNCHANGED <<files, accepted>> PROVE FilesInv'
  BY <1>1 DEF FilesInv, Whole, Compatible
<1>2. ASSUME NEW g, TornFile(g), UNCHANGED accepted PROVE FilesInv'
  <2>1. /\ DOMAIN files \subseteq DOMAIN files' /\ Whole' = Whole \ {g}
        /\ \A f \in Whole' : files'[f] = files[f]
    BY <1>2, TornFacts
  <2>2. \A f, h \in Whole' : Compatible(files[f], files[h])
    BY <2>1 DEF FilesInv
  <2>3. ASSUME NEW f \in Whole', NEW h \in Whole' PROVE Compatible(files[f], files[h])'
    <3>1. \A b, c : b = files'[f] /\ c = files'[h] => Compatible(b, c)
      BY <2>1, <2>2
    <3> QED
      BY <3>1 DEF Compatible
  <2> QED
    BY <1>2, <2>1, <2>3 DEF FilesInv
<1>3. ASSUME job # NoJob, WriteFile PROVE FilesInv'
  <2> DEFINE b == job.bundle
             g == FileOf(job.bundle)
  <2>1. /\ b \in Bundles /\ b.version > 0 /\ b # Torn /\ Served(b)
    BY <1>3, WriteFacts, BundleFacts DEF JobInv, Served
  <2>2. /\ accepted' = accepted \cup {b} /\ DOMAIN files' = {g} \cup DOMAIN files
        /\ files'[g] = b /\ \A f \in DOMAIN files : f # g => files'[f] = files[f]
    BY <1>3, WriteFacts
  <2>3. \A f \in Whole' : (f = g /\ files'[f] = b) \/ (f \in Whole /\ files'[f] = files[f])
    BY <2>2 DEF Whole
  <2>4. \A f \in Whole' : \A c : c = files'[f] => Served(c)
    BY <1>3, <2>1, <2>3, WriteFacts DEF UpInv
  <2>5. ASSUME NEW f \in Whole', NEW h \in Whole' PROVE Compatible(files[f], files[h])'
    <3>1. \A c, d : c = files'[f] /\ d = files'[h] => Compatible(c, d)
      BY <2>4, ServedCompatible
    <3> QED
      BY <3>1 DEF Compatible
  <2>6. \A f \in Whole' : files'[f] \in accepted' /\ FileOf(files'[f]) = f
    BY <2>2, <2>3 DEF FilesInv
  <2>7. \A c \in accepted' : c \in Bundles /\ c.version > 0 /\ FileOf(c) \in DOMAIN files'
    BY <2>1, <2>2 DEF FilesInv
  <2>8. \A k \in DOMAIN b.types : Parsed(k, b.types[k].fields)
    BY <2>1 DEF Served, HasType, ShapeInv
  <2>9. \A c \in accepted' : \A k \in DOMAIN c.types : Parsed(k, c.types[k].fields)
    BY <2>2, <2>8 DEF FilesInv
  <2> QED
    BY <2>5, <2>6, <2>7, <2>9 DEF FilesInv
<1>4. ASSUME WriteFails PROVE FilesInv'
  BY <1>2, <1>4, WriteFailsFacts
<1>5. ASSUME Kill PROVE FilesInv'
  BY <1>1, <1>2, <1>5, KillFacts
<1>6. ASSUME NEW e \in job.enums, MergeEnum(e) PROVE FilesInv'
  BY <1>1, <1>6, MergeEnumFacts, RefuseFacts, ContinueFacts
<1>7. ASSUME NEW k \in job.types, MergeKnownVersion(k) PROVE FilesInv'
  BY <1>1, <1>7, MergeKnownFacts, RefuseFacts DEF MergedType, Continue
<1>8. ASSUME NEW k \in job.types, MergeNewVersion(k) \/ RefuseTags(k) PROVE FilesInv'
  BY <1>1, <1>8, MergeNewFacts, RefuseTagsFacts, RefuseFacts DEF MergedType, Continue
<1>9. ASSUME BadVersion \/ Validate \/ (\E k \in job.types : RefuseVersion(k)) PROVE FilesInv'
  BY <1>1, <1>9 DEF BadVersion, Validate, RefuseVersion, Refuse, Continue
<1>10. ASSUME Loaded \/ Open \/ (\E b \in Bundles : PutBundle(b)) \/ (\E f \in unread : LoadFile(f))
       PROVE  FilesInv'
  BY <1>1, <1>10 DEF Loaded, Open, PutBundle, LoadFile, Continue
<1> QED
  BY <1>3, <1>4, <1>5, <1>6, <1>7, <1>8, <1>9, <1>10 DEF RegistryNext, IngestStep

\* A merge that goes on: less is left, and what it took away is served.
LEMMA JobKept ==
    ASSUME JobInv, Grows, job # NoJob, DOMAIN job' = DOMAIN job, job'.bundle = job.bundle,
           job'.enums \subseteq job.enums, job'.types \subseteq job.types,
           \A e \in job.enums \ job'.enums : \A b : b = job.bundle => HasEnum(b, e)',
           \A k \in job.types \ job'.types : \A b : b = job.bundle => HasType(b, k)',
           job'.step = job.step \/
              (job'.step = "valid" /\ job.enums = {} /\ job.types = {} /\ job.bundle.version > 0),
           UNCHANGED <<files, process, unread>>
    PROVE  JobInv'
<1> DEFINE b == job.bundle
<1>1. /\ \A e \in DOMAIN b.enums : e \in job.enums \/ HasEnum(b, e)
      /\ \A k \in DOMAIN b.types : k \in job.types \/ HasType(b, k)
  BY DEF JobInv
<1>2. /\ \A e \in DOMAIN b.enums : e \in job'.enums \/ HasEnum(b, e)'
      /\ \A k \in DOMAIN b.types : k \in job'.types \/ HasType(b, k)'
  <2>1. \A e : HasEnum(b, e) => e \in DOMAIN enums' /\ enums'[e] = b.enums[e]
    BY DEF HasEnum, Grows
  <2>2. \A k : HasType(b, k) => k \in DOMAIN types' /\ types'[k].fields = b.types[k].fields
    BY DEF HasType, Grows
  <2> QED
    BY <1>1, <2>1, <2>2 DEF HasEnum, HasType
<1>3. process' = "loading" => \E f \in Read' : files'[f] = job'.bundle
  BY DEF JobInv, Read, Whole
<1> QED
  BY <1>2, <1>3 DEF JobInv

\* The merge in progress.
LEMMA JobStep ==
    ASSUME ShapeInv, FilesInv, JobInv, RegistryNext
    PROVE  JobInv'
<1>1. ASSUME NEW b \in Bundles, PutBundle(b) PROVE JobInv'
  <2>1. process' = "up" /\ job' = Ingest(b)
    BY <1>1 DEF PutBundle, Continue
  <2> QED
    BY <1>1, <2>1, IngestFacts DEF JobInv
<1>2. ASSUME job' = NoJob PROVE JobInv'
  BY <1>2 DEF JobInv
<1>3. ASSUME job # NoJob, Validate PROVE JobInv'
  <2>1. CASE Refuse
    BY <1>2, <2>1, RefuseFacts
  <2>2. CASE ~Refuse
    <3>1. Grows
      BY <1>3, ValidateFacts DEF Grows
    <3> QED
      BY <1>3, <2>2, <3>1, ValidateFacts, JobKept
  <2> QED
    BY <2>1, <2>2
<1>4. ASSUME job # NoJob, NEW e \in job.enums, MergeEnum(e) PROVE JobInv'
  <2>1. CASE Refuse
    BY <1>2, <2>1, RefuseFacts
  <2>2. CASE ~Refuse
    <3>1. /\ Continue([job EXCEPT !.enums = @ \ {e}]) /\ UNCHANGED types
          /\ DOMAIN enums' = {e} \cup DOMAIN enums /\ enums'[e] = job.bundle.enums[e]
          /\ \A x \in DOMAIN enums : enums'[x] = enums[x]
      BY <1>4, <2>2, MergeEnumFacts
    <3>2. Grows
      BY <3>1 DEF Grows
    <3>3. /\ DOMAIN job' = DOMAIN job /\ job'.step = job.step /\ job'.bundle = job.bundle
          /\ job'.enums = job.enums \ {e} /\ job'.types = job.types
      BY <1>4, <3>1, JobAfterEnum
    <3>4. UNCHANGED <<files, process, unread>>
      BY <3>1 DEF Continue
    <3>5. \A x \in job.enums \ job'.enums : \A b : b = job.bundle => HasEnum(b, x)'
      BY <3>1, <3>3 DEF HasEnum
    <3> QED
      BY <1>4, <3>2, <3>3, <3>4, <3>5, JobKept
  <2> QED
    BY <2>1, <2>2
<1>5. ASSUME job # NoJob, NEW k \in job.types, MergeKnownVersion(k) PROVE JobInv'
  <2>1. CASE Refuse
    BY <1>2, <2>1, RefuseFacts
  <2>2. CASE ~Refuse
    <3>1. /\ MergedType(k) /\ UNCHANGED enums /\ k \in DOMAIN types
          /\ types[k].fields = job.bundle.types[k].fields /\ DOMAIN types' = DOMAIN types
          /\ \A l \in DOMAIN types : types'[l].fields = types[l].fields
      BY <1>5, <2>2, MergeKnownFacts
    <3>2. Grows
      BY <3>1 DEF Grows
    <3>3. /\ DOMAIN job' = DOMAIN job /\ job'.step = job.step /\ job'.bundle = job.bundle
          /\ job'.enums = job.enums /\ job'.types = job.types \ {k}
          /\ UNCHANGED <<files, process, unread>>
      BY <1>5, <3>1, JobAfterType
    <3>4. \A l \in job.types \ job'.types : \A b : b = job.bundle => HasType(b, l)'
      BY <3>1, <3>3 DEF HasType
    <3> QED
      BY <1>5, <3>2, <3>3, <3>4, JobKept
  <2> QED
    BY <2>1, <2>2
<1>6. ASSUME job # NoJob, NEW k \in job.types, MergeNewVersion(k) PROVE JobInv'
  <2>1. /\ MergedType(k) /\ UNCHANGED enums
        /\ DOMAIN types' = {k} \cup DOMAIN types /\ types'[k] = job.bundle.types[k]
        /\ \A l \in DOMAIN types : types'[l] = types[l]
    BY <1>6, MergeNewFacts
  <2>2. Grows
    BY <2>1 DEF Grows
  <2>3. /\ DOMAIN job' = DOMAIN job /\ job'.step = job.step /\ job'.bundle = job.bundle
        /\ job'.enums = job.enums /\ job'.types = job.types \ {k}
        /\ UNCHANGED <<files, process, unread>>
    BY <1>6, <2>1, JobAfterType
  <2>4. \A l \in job.types \ job'.types : \A b : b = job.bundle => HasType(b, l)'
    BY <2>1, <2>3 DEF HasType
  <2> QED
    BY <1>6, <2>2, <2>3, <2>4, JobKept
<1>7. ASSUME BadVersion \/ \E k \in job.types : RefuseTags(k) \/ RefuseVersion(k) PROVE JobInv'
  BY <1>2, <1>7, RefuseFacts, RefuseTagsFacts DEF BadVersion, RefuseVersion
<1>8. ASSUME WriteFile \/ WriteFails \/ Loaded \/ Kill PROVE JobInv'
  BY <1>2, <1>8 DEF WriteFile, WriteFails, Loaded, Kill
<1>9. ASSUME Open PROVE JobInv'
  BY <1>2, <1>9 DEF Open, ShapeInv
<1>10. ASSUME NEW f \in unread, LoadFile(f) PROVE JobInv'
  <2>1. CASE files[f] = Torn
    BY <1>2, <1>10, <2>1 DEF LoadFile
  <2>2. CASE files[f] # Torn
    <3>1. job' = Ingest(files[f]) /\ unread' = unread \ {f} /\ UNCHANGED files
      BY <1>10, <2>2 DEF LoadFile
    <3>2. files[f] \in Bundles /\ f \in Read'
      BY <2>2, <3>1 DEF FilesInv, ShapeInv, Whole, Read
    <3> QED
      BY <3>1, <3>2, IngestFacts DEF JobInv
  <2> QED
    BY <2>1, <2>2
<1> QED
  BY <1>1, <1>3, <1>4, <1>5, <1>6, <1>7, <1>8, <1>9, <1>10 DEF RegistryNext, IngestStep

\* A valid bundle is served.
LEMMA ValidServed ==
    ASSUME JobInv, job # NoJob, job.step = "valid"
    PROVE  Served(job.bundle)
  BY DEF JobInv, Served

\* A server that stays up over a step that leaves the files alone.
LEMMA UpKept ==
    ASSUME UpInv, Grows, process = "up", UNCHANGED <<files, accepted>>
    PROVE  UpInv'
<1>1. \A f \in Whole : \A b : b = files[f] => Served(b)'
  BY ServedStep DEF UpInv
<1>2. \A f \in Whole' : Served(files[f])'
  BY <1>1 DEF Whole, Served, HasEnum, HasType
<1>3. \A b \in accepted' : Overwritten(b)' \/ Served(b)'
  BY ServedStep DEF UpInv, Overwritten
<1> QED
  BY <1>2, <1>3 DEF UpInv

\* What a server that is up serves.
LEMMA UpStep ==
    ASSUME ShapeInv, FilesInv, JobInv, UpInv, LoadInv, RegistryNext
    PROVE  UpInv'
<1>1. ASSUME process' # "up" PROVE UpInv'
  BY <1>1 DEF UpInv
<1>2. ASSUME ~Kill, UNCHANGED <<files, accepted>>, process = "up" PROVE UpInv'
  BY <1>2, UpKept, GrowStep
<1>3. ASSUME job # NoJob, WriteFile PROVE UpInv'
  <2> DEFINE b == job.bundle
             g == FileOf(job.bundle)
  <2>1. Served(b)
    BY <1>3, ValidServed, WriteFacts
  <2>2. /\ UNCHANGED <<enums, types>> /\ process = "up"
        /\ accepted' = accepted \cup {b} /\ DOMAIN files' = {g} \cup DOMAIN files
        /\ files'[g] = b /\ \A f \in DOMAIN files : f # g => files'[f] = files[f]
    BY <1>3, WriteFacts
  <2>3. \A f \in Whole' : (f = g /\ files'[f] = b) \/ (f \in Whole /\ files'[f] = files[f])
    BY <2>2 DEF Whole
  <2>4. \A f \in Whole' : \A c : c = files'[f] => Served(c)
    BY <2>1, <2>2, <2>3 DEF UpInv
  <2>5. \A f \in Whole' : Served(files[f])'
    BY <2>2, <2>4 DEF Served, HasEnum, HasType
  <2>6. \A c \in accepted' : Overwritten(c) \/ Served(c)
    BY <2>1, <2>2 DEF UpInv
  <2>7. \A c \in accepted' : Overwritten(c)' \/ Served(c)'
    BY <2>2, <2>6 DEF Overwritten, Served, HasEnum, HasType
  <2> QED
    BY <2>5, <2>7 DEF UpInv
<1>4. ASSUME WriteFails PROVE UpInv'
  <2>1. /\ UNCHANGED <<enums, types, accepted>> /\ process = "up"
        /\ Whole' \subseteq Whole /\ \A f \in Whole' : files'[f] = files[f]
    BY <1>4, WriteFailsFacts, TornFacts
  <2>2. \A f \in Whole' : \A c : c = files'[f] => Served(c)
    BY <2>1 DEF UpInv
  <2>3. \A f \in Whole' : Served(files[f])'
    BY <2>1, <2>2 DEF Served, HasEnum, HasType
  <2>4. \A c \in accepted' : Overwritten(c)' \/ Served(c)'
    BY <2>1 DEF UpInv, Overwritten, Served, HasEnum, HasType
  <2> QED
    BY <2>3, <2>4 DEF UpInv
<1>5. ASSUME job # NoJob, Loaded, process' = "up" PROVE UpInv'
  <2>1. /\ process = "loading" /\ unread = {} /\ job.step = "valid"
        /\ UNCHANGED <<enums, types, files, accepted>>
    BY <1>5 DEF Loaded, Remember
  <2>2. \A f \in DOMAIN files : files[f] # Torn /\ Served(files[f])
    BY <1>5, <2>1, ValidServed DEF LoadInv, FilesRead
  <2>3. \A f \in Whole' : Served(files[f])'
    BY <2>1, <2>2 DEF Whole, Served, HasEnum, HasType
  <2>4. ASSUME NEW b \in accepted PROVE Overwritten(b) \/ Served(b)
    <3>1. FileOf(b) \in Whole
      BY <2>2 DEF FilesInv, Whole
    <3>2. files[FileOf(b)] \in accepted /\ FileOf(files[FileOf(b)]) = FileOf(b)
      BY <3>1 DEF FilesInv
    <3> QED
      BY <2>2, <3>1, <3>2 DEF Overwritten, Whole
  <2>5. \A b \in accepted' : Overwritten(b)' \/ Served(b)'
    BY <2>1, <2>4 DEF Overwritten, Served, HasEnum, HasType
  <2> QED
    BY <2>3, <2>5 DEF UpInv
<1>6. ASSUME Open, process' = "up" PROVE UpInv'
  <2>1. files = Nothing /\ UNCHANGED <<files, accepted>>
    BY <1>6 DEF Open
  <2>2. accepted' = {} /\ Whole' = {}
    BY <2>1, NothingFacts DEF FilesInv, Whole
  <2> QED
    BY <2>2 DEF UpInv
<1>7. ASSUME Kill PROVE UpInv'
  BY <1>1, <1>7, KillFacts
<1>8. ASSUME NEW f \in unread, LoadFile(f) PROVE UpInv'
  BY <1>1, <1>8 DEF LoadFile
<1>9. ASSUME job # NoJob, IngestStep, ~Kill PROVE UpInv'
  <2>1. UNCHANGED <<files, accepted>> /\ (process' = "up" => process = "up")
    <3>1. ASSUME BadVersion \/ Validate \/ (\E k \in job.types : RefuseVersion(k))
          PROVE  UNCHANGED <<files, accepted>> /\ (process' = "up" => process = "up")
      BY <3>1 DEF BadVersion, Validate, RefuseVersion, Refuse, Continue
    <3>2. ASSUME NEW e \in job.enums, MergeEnum(e)
          PROVE  UNCHANGED <<files, accepted>> /\ (process' = "up" => process = "up")
      BY <3>2, MergeEnumFacts, RefuseFacts, ContinueFacts
    <3>3. ASSUME NEW k \in job.types, MergeKnownVersion(k)
          PROVE  UNCHANGED <<files, accepted>> /\ (process' = "up" => process = "up")
      BY <3>3, MergeKnownFacts, RefuseFacts DEF MergedType, Continue
    <3>4. ASSUME NEW k \in job.types, MergeNewVersion(k) \/ RefuseTags(k)
          PROVE  UNCHANGED <<files, accepted>> /\ (process' = "up" => process = "up")
      BY <3>4, MergeNewFacts, RefuseTagsFacts, RefuseFacts DEF MergedType, Continue
    <3> QED
      BY <1>9, <3>1, <3>2, <3>3, <3>4 DEF IngestStep
  <2> QED
    BY <1>1, <1>2, <1>9, <2>1
<1>10. ASSUME NEW b \in Bundles, PutBundle(b), ~Kill PROVE UpInv'
  <2>1. UNCHANGED <<files, accepted>> /\ process = "up"
    BY <1>10 DEF PutBundle, Continue
  <2> QED
    BY <1>2, <1>10, <2>1
<1> QED
  BY <1>1, <1>3, <1>4, <1>5, <1>6, <1>7, <1>8, <1>9, <1>10 DEF RegistryNext

\* Nothing in the maps contradicts the file that is being loaded.
LEMMA NoConflict ==
    ASSUME FilesInv, JobInv, LoadInv, process = "loading", job # NoJob
    PROVE  /\ job.bundle.version > 0
           /\ \A e \in job.enums : e \in DOMAIN enums => enums[e] = job.bundle.enums[e]
           /\ \A k \in job.types : k \in DOMAIN types => types[k].fields = job.bundle.types[k].fields
           /\ \A k \in job.types : Parses(k) /\ Conflicts(k) = {}
<1>1. PICK g \in Read : files[g] = job.bundle
  BY DEF JobInv
<1>2. g \in Whole /\ job.bundle \in accepted /\ \A f \in Read : Compatible(files[f], job.bundle)
  BY <1>1 DEF FilesInv, Read
<1>3. ASSUME NEW e \in job.enums, e \in DOMAIN enums PROVE enums[e] = job.bundle.enums[e]
  <2>1. PICK f \in Read : e \in DOMAIN files[f].enums /\ enums[e] = files[f].enums[e]
    BY <1>3 DEF LoadInv, EnumsRead
  <2>2. e \in DOMAIN job.bundle.enums
    BY DEF JobInv
  <2> QED
    BY <1>2, <2>1, <2>2 DEF Compatible
<1>4. ASSUME NEW k \in job.types, k \in DOMAIN types
      PROVE  types[k].fields = job.bundle.types[k].fields
  <2>1. PICK f \in Read : k \in DOMAIN files[f].types /\ types[k].fields = files[f].types[k].fields
    BY <1>4 DEF LoadInv, TypesRead
  <2>2. k \in DOMAIN job.bundle.types
    BY DEF JobInv
  <2> QED
    BY <1>2, <2>1, <2>2 DEF Compatible
<1>5. ASSUME NEW k \in job.types, NEW x \in TagsOf(k), x \in DOMAIN tags
      PROVE  tags[x] = Signature(job.bundle.types[k].fields[x[2]])
  <2>1. PICK f \in Read : \E l \in DOMAIN files[f].types :
              /\ l[1] = x[1] /\ x[2] \in DOMAIN files[f].types[l].fields
              /\ tags[x] = Signature(files[f].types[l].fields[x[2]])
    BY <1>5 DEF LoadInv, TagsRead
  <2>2. PICK l \in DOMAIN files[f].types :
              /\ l[1] = x[1] /\ x[2] \in DOMAIN files[f].types[l].fields
              /\ tags[x] = Signature(files[f].types[l].fields[x[2]])
    BY <2>1
  <2>3. k \in DOMAIN job.bundle.types
    BY DEF JobInv
  <2>4. x[1] = k[1] /\ x[2] \in DOMAIN job.bundle.types[k].fields
    BY DEF TagsOf
  <2> QED
    BY <1>2, <2>2, <2>3, <2>4 DEF Compatible
<1>6. \A k \in job.types : Parses(k)
  BY <1>2 DEF FilesInv, JobInv, Parses
<1> QED
  BY <1>2, <1>3, <1>4, <1>5, <1>6 DEF FilesInv, Conflicts

\* A merge step while loading: the files stay, the bundle stays or is served.
LEMMA FilesReadKept ==
    ASSUME FilesRead, Grows, UNCHANGED <<files, unread>>,
           job' # NoJob /\ job # NoJob => job'.bundle = job.bundle,
           job' = NoJob /\ job # NoJob => Served(job.bundle)
    PROVE  FilesRead'
<1> SUFFICES ASSUME NEW f \in DOMAIN files \ unread
             PROVE  files[f] # Torn /\ (Served(files[f])' \/ (job' # NoJob /\ files[f] = job'.bundle))
  BY DEF FilesRead
<1>1. files[f] # Torn /\ (Served(files[f]) \/ (job # NoJob /\ files[f] = job.bundle))
  BY DEF FilesRead
<1>2. \A b : Served(b) => Served(b)'
  BY ServedStep
<1>3. Served(files[f]) => Served(files[f])'
  BY <1>2 DEF Served, HasEnum, HasType
<1> QED
  BY <1>1, <1>3

\* While open reads the files the maps hold what they say.
LEMMA LoadStep ==
    ASSUME ShapeInv, FilesInv, JobInv, LoadInv, RegistryNext
    PROVE  LoadInv'
<1>1. ASSUME process' # "loading" PROVE LoadInv'
  BY <1>1 DEF LoadInv
<1>2. ASSUME UNCHANGED <<enums, types, tags, files, unread>>, process = "loading", FilesRead'
      PROVE  LoadInv'
  BY <1>2 DEF EnumsRead, TypesRead, TagsRead, Read, Whole, LoadInv
<1>3. ASSUME job # NoJob, Validate PROVE LoadInv'
  <2>1. CASE Refuse \/ process # "loading"
    BY <1>1, <1>3, <2>1, RefuseFacts, ValidateFacts
  <2>2. CASE ~Refuse /\ process = "loading"
    <3>1. /\ UNCHANGED <<enums, types, tags, files, unread, process>>
          /\ job' # NoJob /\ job'.bundle = job.bundle
      BY <1>3, <2>2, ValidateFacts
    <3>2. Grows
      BY <3>1 DEF Grows
    <3>3. FilesRead'
      BY <2>2, <3>1, <3>2, FilesReadKept DEF LoadInv
    <3> QED
      BY <1>2, <2>2, <3>1, <3>3
  <2> QED
    BY <2>1, <2>2
<1>4. ASSUME job # NoJob, NEW e \in job.enums, MergeEnum(e) PROVE LoadInv'
  <2>1. CASE Refuse \/ process # "loading"
    BY <1>1, <1>4, <2>1, RefuseFacts, MergeEnumFacts, ContinueFacts
  <2>2. CASE ~Refuse /\ process = "loading"
    <3>1. /\ Continue([job EXCEPT !.enums = @ \ {e}]) /\ UNCHANGED <<types, tags>>
          /\ DOMAIN enums' = {e} \cup DOMAIN enums /\ enums'[e] = job.bundle.enums[e]
          /\ \A x \in DOMAIN enums : enums'[x] = enums[x]
      BY <1>4, <2>2, MergeEnumFacts
    <3>2. /\ UNCHANGED <<files, process, unread>> /\ Grows
          /\ job' # NoJob /\ job'.bundle = job.bundle /\ Read' = Read
      BY <1>4, <3>1, JobAfterEnum DEF Continue, Grows, Read, Whole
    <3>3. FilesRead'
      BY <2>2, <3>1, <3>2, FilesReadKept DEF LoadInv
    <3>4. PICK g \in Read : files[g] = job.bundle
      BY <1>4, <2>2 DEF JobInv
    <3>5. e \in DOMAIN job.bundle.enums
      BY <1>4 DEF JobInv
    <3>6. EnumsRead /\ TypesRead /\ TagsRead
      BY <2>2 DEF LoadInv
    <3>7. EnumsRead'
      BY <3>1, <3>2, <3>4, <3>5, <3>6 DEF EnumsRead
    <3>8. TypesRead' /\ TagsRead'
      BY <3>1, <3>2, <3>6 DEF TypesRead, TagsRead
    <3> QED
      BY <3>3, <3>7, <3>8 DEF LoadInv
  <2> QED
    BY <2>1, <2>2
<1>5. ASSUME job # NoJob, NEW k \in job.types, MergeKnownVersion(k) PROVE LoadInv'
  <2>1. CASE Refuse \/ process # "loading"
    BY <1>1, <1>5, <2>1, RefuseFacts, MergeKnownFacts, JobAfterType
  <2>2. CASE ~Refuse /\ process = "loading"
    <3>1. /\ MergedType(k) /\ UNCHANGED <<enums, tags>> /\ DOMAIN types' = DOMAIN types
          /\ \A l \in DOMAIN types : types'[l].fields = types[l].fields
      BY <1>5, <2>2, MergeKnownFacts
    <3>2. /\ UNCHANGED <<files, process, unread>> /\ job' # NoJob /\ job'.bundle = job.bundle
      BY <1>5, <3>1, JobAfterType
    <3>3. Grows /\ Read' = Read
      BY <3>1, <3>2 DEF Grows, Read, Whole
    <3>4. FilesRead'
      BY <2>2, <3>1, <3>2, <3>3, FilesReadKept DEF LoadInv
    <3>5. EnumsRead /\ TypesRead /\ TagsRead
      BY <2>2 DEF LoadInv
    <3>6. EnumsRead' /\ TypesRead' /\ TagsRead'
      BY <3>1, <3>2, <3>3, <3>5 DEF EnumsRead, TypesRead, TagsRead
    <3> QED
      BY <3>4, <3>6 DEF LoadInv
  <2> QED
    BY <2>1, <2>2
<1>6. ASSUME job # NoJob, NEW k \in job.types, MergeNewVersion(k) PROVE LoadInv'
  <2>1. /\ MergedType(k) /\ UNCHANGED enums
        /\ DOMAIN types' = {k} \cup DOMAIN types /\ types'[k] = job.bundle.types[k]
        /\ \A l \in DOMAIN types : types'[l] = types[l]
        /\ DOMAIN tags' = TagsOf(k) \cup DOMAIN tags
        /\ \A x \in DOMAIN tags : tags'[x] = tags[x]
        /\ \A x \in TagsOf(k) : tags'[x] = Signature(job.bundle.types[k].fields[x[2]])
    BY <1>6, MergeNewFacts
  <2>2. /\ UNCHANGED <<files, process, unread>> /\ job' # NoJob /\ job'.bundle = job.bundle
    BY <1>6, <2>1, JobAfterType
  <2>3. CASE process # "loading"
    BY <1>1, <2>2, <2>3
  <2>4. CASE process = "loading"
    <3>1. Grows /\ Read' = Read
      BY <2>1, <2>2 DEF Grows, Read, Whole
    <3>2. FilesRead'
      BY <2>2, <2>4, <3>1, FilesReadKept DEF LoadInv
    <3>3. EnumsRead /\ TypesRead /\ TagsRead
      BY <2>4 DEF LoadInv
    <3>4. PICK g \in Read : files[g] = job.bundle
      BY <1>6, <2>4 DEF JobInv
    <3>5. k \in DOMAIN job.bundle.types
      BY <1>6 DEF JobInv
    <3>6. EnumsRead'
      BY <2>1, <2>2, <3>1, <3>3 DEF EnumsRead
    <3>7. TypesRead'
      BY <2>1, <2>2, <3>1, <3>3, <3>4, <3>5 DEF TypesRead
    <3>8. \A x \in TagsOf(k) : k[1] = x[1] /\ x[2] \in DOMAIN job.bundle.types[k].fields
      BY DEF TagsOf
    <3>9. TagsRead'
      <4> SUFFICES ASSUME NEW x \in DOMAIN tags'
                   PROVE  \E f \in Read : \E l \in DOMAIN files[f].types :
                              /\ l[1] = x[1] /\ x[2] \in DOMAIN files[f].types[l].fields
                              /\ tags'[x] = Signature(files[f].types[l].fields[x[2]])
        BY <2>2, <3>1 DEF TagsRead
      <4>1. CASE x \in DOMAIN tags
        BY <2>1, <3>3, <4>1 DEF TagsRead
      <4>2. CASE x \in TagsOf(k)
        BY <2>1, <3>4, <3>5, <3>8, <4>2
      <4> QED
        BY <2>1, <4>1, <4>2
    <3> QED
      BY <3>2, <3>6, <3>7, <3>9 DEF LoadInv
  <2> QED
    BY <2>3, <2>4
<1>7. ASSUME job # NoJob, Loaded PROVE LoadInv'
  <2>1. /\ process = "loading" /\ job.step = "valid" /\ job' = NoJob
        /\ UNCHANGED <<enums, types, tags, files, unread>>
    BY <1>7 DEF Loaded, Remember
  <2>2. Grows /\ Served(job.bundle)
    BY <1>7, <2>1, ValidServed DEF Grows
  <2>3. FilesRead'
    BY <2>1, <2>2, FilesReadKept DEF LoadInv
  <2> QED
    BY <1>2, <2>1, <2>3
<1>8. ASSUME Open PROVE LoadInv'
  <2>1. DOMAIN enums' = {} /\ DOMAIN types' = {} /\ DOMAIN tags' = {}
    BY <1>8, NothingFacts DEF Open, ShapeInv, memory
  <2>2. DOMAIN files' \ unread' = {}
    BY <1>8 DEF Open
  <2> QED
    BY <2>1, <2>2 DEF LoadInv, FilesRead, EnumsRead, TypesRead, TagsRead
<1>9. ASSUME NEW g \in unread, LoadFile(g) PROVE LoadInv'
  <2>1. CASE files[g] = Torn
    BY <1>1, <1>9, <2>1 DEF LoadFile
  <2>2. CASE files[g] # Torn
    <3>1. /\ job' = Ingest(files[g]) /\ unread' = unread \ {g} /\ process = "loading" /\ job = NoJob
          /\ UNCHANGED <<enums, types, tags, files, process>>
      BY <1>9, <2>2 DEF LoadFile, memory
    <3>2. job' # NoJob /\ job'.bundle = files[g]
      BY <3>1, IngestFacts
    <3>3. FilesRead /\ EnumsRead /\ TypesRead /\ TagsRead
      BY <3>1 DEF LoadInv
    <3>4. Read \subseteq Read'
      BY <3>1 DEF Read, Whole
    <3>5. EnumsRead' /\ TypesRead' /\ TagsRead'
      BY <3>1, <3>3, <3>4 DEF EnumsRead, TypesRead, TagsRead
    <3>6. FilesRead'
      BY <2>2, <3>1, <3>2, <3>3 DEF FilesRead, Served, HasEnum, HasType
    <3> QED
      BY <3>5, <3>6 DEF LoadInv
  <2> QED
    BY <2>1, <2>2
<1>10. ASSUME WriteFile \/ WriteFails \/ Kill \/ (\E b \in Bundles : PutBundle(b)) PROVE LoadInv'
  BY <1>1, <1>10, WriteFacts, WriteFailsFacts, KillFacts DEF PutBundle, Continue
<1>11. ASSUME job # NoJob, BadVersion \/ (\E k \in job.types : RefuseTags(k) \/ RefuseVersion(k))
      PROVE  LoadInv'
  BY <1>1, <1>11, RefuseTagsFacts, RefuseFacts DEF BadVersion, RefuseVersion
<1> QED
  BY <1>3, <1>4, <1>5, <1>6, <1>7, <1>8, <1>9, <1>10, <1>11 DEF RegistryNext, IngestStep

\* open is refused by a torn file or a bundle that uses a foreign enum.
LEMMA RefusedStep ==
    ASSUME ShapeInv, FilesInv, JobInv, LoadInv, StartsAgain, RegistryNext
    PROVE  StartsAgain'
<1>1. ASSUME process' # "refused" PROVE StartsAgain'
  BY <1>1 DEF StartsAgain
<1>2. ASSUME job # NoJob, Validate PROVE StartsAgain'
  <2>1. CASE ~(Refuse /\ process = "loading")
    BY <1>1, <1>2, <2>1, RefuseFacts, ValidateFacts DEF ShapeInv
  <2>2. CASE Refuse /\ process = "loading"
    <3>1. UNCHANGED <<files, types, enums>> /\ job.enums = {}
      BY <1>2, <2>2, RefuseFacts, ValidateFacts
    <3>2. ~EnumsKnown(types, DOMAIN enums)
      BY <1>2, <2>2, RefuseFacts DEF Validate, Continue
    <3>3. PICK k \in DOMAIN types : \E t \in DOMAIN types[k].fields :
              types[k].fields[t].enum \notin DOMAIN enums \cup {NoEnum}
      BY <3>2 DEF EnumsKnown
    <3>4. PICK f \in Read :
              k \in DOMAIN files[f].types /\ types[k].fields = files[f].types[k].fields
      BY <2>2 DEF LoadInv, TypesRead
    <3>5. \A e \in DOMAIN files[f].enums : e \in DOMAIN enums
      <4>1. Served(files[f]) \/ files[f] = job.bundle
        BY <2>2 DEF LoadInv, FilesRead, Read, Whole
      <4> QED
        BY <1>2, <3>1, <4>1 DEF Served, HasEnum, JobInv
    <3>6. ~EnumsKnown(files[f].types, DOMAIN files[f].enums)
      BY <3>3, <3>4, <3>5 DEF EnumsKnown
    <3>7. files[f] \in Range(files)
      BY DEF Range, Read, Whole
    <3>8. \E b \in Range(files) : ~EnumsKnown(b.types, DOMAIN b.enums)
      BY <3>6, <3>7
    <3> QED
      BY <3>1, <3>8 DEF StartsAgain, Range, EnumsKnown
  <2> QED
    BY <2>1, <2>2
<1>3. ASSUME job # NoJob, NEW e \in job.enums, MergeEnum(e) PROVE StartsAgain'
  <2>1. Refuse => process # "loading"
    BY <1>3, NoConflict, MergeEnumFacts DEF Refuse, Continue, NoJob, JobInv
  <2> QED
    BY <1>1, <1>3, <2>1, MergeEnumFacts, RefuseFacts, ContinueFacts DEF ShapeInv
<1>4. ASSUME job # NoJob, NEW k \in job.types, MergeKnownVersion(k) PROVE StartsAgain'
  <2>1. process = "loading" => MergedType(k)
    BY <1>4, NoConflict, MergeKnownFacts
  <2>2. MergedType(k) => process' = process
    BY DEF MergedType, Continue
  <2> QED
    BY <1>1, <1>4, <2>1, <2>2, MergeKnownFacts, RefuseFacts DEF ShapeInv
<1>5. ASSUME job # NoJob, NEW k \in job.types, MergeNewVersion(k) PROVE StartsAgain'
  <2>1. MergedType(k)
    BY <1>5, MergeNewFacts
  <2> QED
    BY <1>1, <1>5, <2>1 DEF MergedType, Continue, ShapeInv
<1>6. ASSUME job # NoJob, NEW k \in job.types, RefuseTags(k) PROVE StartsAgain'
  BY <1>1, <1>6, NoConflict, RefuseTagsFacts, RefuseFacts DEF ShapeInv
<1>a. ASSUME job # NoJob, NEW k \in job.types, RefuseVersion(k) PROVE StartsAgain'
  <2>1. process # "loading"
    BY <1>a, NoConflict DEF RefuseVersion
  <2> QED
    BY <1>1, <1>a, <2>1, RefuseFacts DEF RefuseVersion, ShapeInv
<1>7. ASSUME job # NoJob, BadVersion PROVE StartsAgain'
  <2>1. process # "loading"
    BY <1>7, NoConflict DEF BadVersion
  <2> QED
    BY <1>1, <1>7, <2>1, RefuseFacts DEF BadVersion, ShapeInv
<1>8. ASSUME WriteFile \/ WriteFails \/ Kill \/ Open \/ Loaded PROVE StartsAgain'
  BY <1>1, <1>8 DEF WriteFile, WriteFails, Kill, Open, Loaded
<1>9. ASSUME NEW b \in Bundles, PutBundle(b) PROVE StartsAgain'
  BY <1>1, <1>9 DEF PutBundle, Continue
<1>10. ASSUME NEW f \in unread, LoadFile(f) PROVE StartsAgain'
  BY <1>1, <1>10 DEF LoadFile, ShapeInv, StartsAgain
<1> QED
  BY <1>2, <1>3, <1>4, <1>5, <1>6, <1>a, <1>7, <1>8, <1>9, <1>10 DEF RegistryNext, IngestStep

-----------------------------------------------------------------------------
(* The theorems.                                                           *)

\* The inductive invariant holds in every reachable state of the registry.
LEMMA RegistryInvariant == RegistrySpec => []RegistryInv
<1>1. RegistryInit => RegistryInv
  BY NothingFacts DEF RegistryInit, RegistryInv, ShapeInv, TagInv, FilesInv, JobInv, UpInv,
     LoadInv, StartsAgain, Whole
<1>2. ASSUME RegistryInv, [RegistryNext]_regVars PROVE RegistryInv'
  <2>1. CASE RegistryNext
    BY <1>2, <2>1, ShapeStep, TagStep, FilesStep, JobStep, UpStep, LoadStep, RefusedStep
    DEF RegistryInv
  <2>2. CASE UNCHANGED regVars
    BY <1>2, <2>2 DEF regVars, memory, RegistryInv, ShapeInv, TagInv, FilesInv, JobInv, UpInv,
       LoadInv, FilesRead, EnumsRead, TypesRead, TagsRead, StartsAgain, EnumsKnown, Range, Whole,
       Read, Served, HasEnum, HasType, Compatible, Overwritten
  <2> QED
    BY <1>2, <2>1, <2>2
<1> QED
  BY <1>1, <1>2, PTL DEF RegistrySpec

\* A bundle that was answered Created is served with its enums and fields while
\* the server is up, whatever was refused, torn or restarted since, unless its
\* file was taken; and the versions of a type agree on their tags (put_bundle,
\* ingest_bundle, open).
THEOREM RegistryServes == RegistrySpec => []AcceptedServed
<1>1. RegistryInv => AcceptedServed
  <2> SUFFICES ASSUME RegistryInv PROVE AcceptedServed
    OBVIOUS
  <2>1. ASSUME NEW k \in DOMAIN types, NEW l \in DOMAIN types, k[1] = l[1],
               NEW t \in DOMAIN types[k].fields \intersect DOMAIN types[l].fields
        PROVE  Signature(types[k].fields[t]) = Signature(types[l].fields[t])
    <3>1. tags[<<k[1], t>>] = Signature(types[k].fields[t]) /\ tags[<<l[1], t>>] = Signature(types[l].fields[t])
      BY DEF RegistryInv, TagInv
    <3> QED
      BY <2>1, <3>1
  <2>2. TagsAgree
    BY <2>1 DEF TagsAgree
  <2> QED
    BY <2>2 DEF RegistryInv, UpInv, AcceptedServed, Served, HasEnum, HasType
<1> QED
  BY <1>1, RegistryInvariant, PTL

\* open fails only for a torn file or for a bundle that uses an enum of another:
\* no order in which read_dir names the files makes two accepted bundles clash.
THEOREM RegistryStarts == RegistrySpec => []StartsAgain
<1>1. RegistryInv => StartsAgain
  BY DEF RegistryInv
<1> QED
  BY <1>1, RegistryInvariant, PTL

-----------------------------------------------------------------------------
(* Snapshots: reading roots.idx.                                           *)

\* What roots.idx is made of, with the records that E has.
Piece(p, E) ==
    /\ p.bytes \in Nat \ {0}
    /\ p.turn # NoTurn => <<p.turn, p.root>> \in E
FileShape(file, E) ==
    /\ \E S : file \in Seq(S)
    /\ \A i \in 1 .. Len(file) : Piece(file[i], E)

\* The records before the first part of one.
IsWhole(file, w) ==
    /\ w \in 0 .. Len(file)
    /\ \A i \in 1 .. w : file[i].turn # NoTurn
    /\ w < Len(file) => file[w + 1].turn = NoTurn

LEMMA WholeRecordsFacts ==
    ASSUME NEW S, NEW file \in Seq(S)
    PROVE  IsWhole(file, WholeRecords(file))
<1> DEFINE T == {i \in DOMAIN file : file[i].turn = NoTurn}
<1>1. DOMAIN file = 1 .. Len(file) /\ Len(file) \in Nat
  OBVIOUS
<1>2. CASE T = {}
  <2>1. WholeRecords(file) = Len(file)
    BY <1>2 DEF WholeRecords
  <2> QED
    BY <1>1, <1>2, <2>1 DEF IsWhole
<1>3. CASE T # {}
  <2>1. T \in SUBSET Nat
    BY <1>1
  <2>2. \E n \in T : \A m \in T : n <= m
    <3> HIDE DEF T
    <3> QED
      BY <1>3, <2>1, LeastNumber
  <2>3. PICK k : k = Min(T) /\ k \in T /\ \A m \in T : k <= m
    <3> HIDE DEF T
    <3> QED
      BY <2>2 DEF Min
  <2>4. WholeRecords(file) = k - 1
    BY <1>3, <2>3 DEF WholeRecords
  <2>5. k \in 1 .. Len(file) /\ file[k].turn = NoTurn
    BY <1>1, <2>3
  <2>6. \A i \in 1 .. k - 1 : i \in DOMAIN file /\ i \notin T
    <3> TAKE i \in 1 .. k - 1
    <3>1. i \in DOMAIN file /\ i < k /\ i \in Nat /\ k \in Nat
      BY <1>1, <2>5
    <3>2. i \in T => k <= i
      BY <2>3
    <3> QED
      BY <3>1, <3>2
  <2>7. \A i \in 1 .. k - 1 : file[i].turn # NoTurn
    BY <2>6
  <2>8. (k - 1) + 1 = k /\ k - 1 \in 0 .. Len(file)
    BY <2>5
  <2> QED
    BY <2>4, <2>5, <2>7, <2>8 DEF IsWhole
<1> QED
  BY <1>2, <1>3

LEMMA WholeUnique ==
    ASSUME NEW file, Len(file) \in Nat, NEW v, NEW w, IsWhole(file, v), IsWhole(file, w)
    PROVE  v = w
<1>1. v \in 0 .. Len(file) /\ w \in 0 .. Len(file)
  BY DEF IsWhole
<1>2. ~(v < w)
  <2> SUFFICES ASSUME v < w
               PROVE  FALSE
    OBVIOUS
  <2>1. v < Len(file) /\ v + 1 \in 1 .. w
    BY <1>1
  <2> QED
    BY <2>1 DEF IsWhole
<1>3. ~(w < v)
  <2> SUFFICES ASSUME w < v
               PROVE  FALSE
    OBVIOUS
  <2>1. w < Len(file) /\ w + 1 \in 1 .. v
    BY <1>1
  <2> QED
    BY <2>1 DEF IsWhole
<1> QED
  BY <1>1, <1>2, <1>3

\* load, after so many records of any file.
Loads(file, w) ==
    CHOOSE f : f = [n \in 0 .. w |->
                      IF n = 0 THEN NoRoots ELSE WithRoot(f[n - 1], file[n].turn, file[n].root)]

LEMMA RootsAreLoaded ==
    \A file : RootsAfterLoad(file) = Loads(file, WholeRecords(file))[WholeRecords(file)]
BY DEF RootsAfterLoad, Loads

LEMMA LoadsDefined ==
    ASSUME NEW w \in Nat, NEW file
    PROVE  /\ Loads(file, w)[0] = NoRoots
           /\ \A n \in 1 .. w :
                 Loads(file, w)[n] = WithRoot(Loads(file, w)[n - 1], file[n].turn, file[n].root)
<1> DEFINE Def(f) == f = [n \in 0 .. w |->
                        IF n = 0 THEN NoRoots ELSE WithRoot(f[n - 1], file[n].turn, file[n].root)]
<1>1. PICK T, R : T = {file[n].turn : n \in 1 .. w} /\ R = {file[n].root : n \in 1 .. w}
  OBVIOUS
<1>2. PICK S : S = UNION {[D -> R] : D \in SUBSET T}
  OBVIOUS
<1>3. \A m \in S : \A t \in T, r \in R : WithRoot(m, t, r) \in S
  <2> SUFFICES ASSUME NEW D \in SUBSET T, NEW m \in [D -> R], NEW t \in T, NEW r \in R
               PROVE  WithRoot(m, t, r) \in S
    BY <1>2
  <2>1. D \union {t} \in SUBSET T
    OBVIOUS
  <2>2. WithRoot(m, t, r) \in [D \union {t} -> R]
    BY DEF WithRoot
  <2> QED
    BY <1>2, <2>1, <2>2
<1>4. NoRoots \in S
  <2>1. NoRoots \in [{} -> R] /\ {} \in SUBSET T
    BY DEF NoRoots
  <2> QED
    BY <1>2, <2>1
<1>5. PICK link : link = [n \in 1 .. w |-> n - 1]
  OBVIOUS
<1>6. PICK step : step = [n \in 1 .. w |-> [m \in S |-> WithRoot(m, file[n].turn, file[n].root)]]
  OBVIOUS
<1>7. \A n \in 1 .. w : link[n] = n - 1 /\ link[n] \in 0 .. n - 1
  BY <1>5
<1>8. \A n \in 1 .. w : \A m \in S : step[n][m] = WithRoot(m, file[n].turn, file[n].root)
  BY <1>6
<1>9. \A n \in 1 .. w : \A m \in S : step[n][m] \in S
  <2> TAKE n \in 1 .. w
  <2> TAKE m \in S
  <2>1. file[n].turn \in T /\ file[n].root \in R
    BY <1>1
  <2> QED
    BY <1>3, <1>8, <2>1
<1>10. PICK f : IsWalk(f, w, S, NoRoots, link, step)
  <2>1. Descends(link, w) /\ StepsIn(step, w, S)
    BY <1>7, <1>9 DEF Descends, StepsIn
  <2> QED
    BY <1>4, <2>1, WalkExists
<1>11. /\ f \in [0 .. w -> S] /\ f[0] = NoRoots
       /\ \A n \in 1 .. w : f[n] = step[n][f[link[n]]]
  BY <1>10 DEF IsWalk
<1>12. \A n \in 1 .. w : f[n] = WithRoot(f[n - 1], file[n].turn, file[n].root)
  <2> TAKE n \in 1 .. w
  <2>1. n - 1 \in 0 .. w
    OBVIOUS
  <2>2. f[n - 1] \in S
    BY <1>11, <2>1
  <2> QED
    BY <1>7, <1>8, <1>11, <2>2
<1>13. Def(f)
  <2>1. \A n \in 0 .. w :
           f[n] = IF n = 0 THEN NoRoots ELSE WithRoot(f[n - 1], file[n].turn, file[n].root)
    BY <1>11, <1>12
  <2>2. f = [n \in 0 .. w |-> f[n]]
    BY <1>11
  <2> QED
    BY <2>1, <2>2
<1>14. Def(CHOOSE g : Def(g))
  <2> HIDE DEF Def
  <2> QED
    BY <1>13, Zenon
<1>15. PICK g : g = Loads(file, w) /\ Def(g)
  BY <1>14 DEF Loads
<1>16. \A n \in 0 .. w :
          g[n] = IF n = 0 THEN NoRoots ELSE WithRoot(g[n - 1], file[n].turn, file[n].root)
  BY <1>15, Zenon
<1>17. 0 \in 0 .. w /\ \A n \in 1 .. w : n \in 0 .. w /\ n # 0
  OBVIOUS
<1>18. g[0] = NoRoots
  BY <1>16, <1>17, Zenon
<1>19. \A n \in 1 .. w : g[n] = WithRoot(g[n - 1], file[n].turn, file[n].root)
  BY <1>16, <1>17, Zenon
<1> QED
  BY <1>15, <1>18, <1>19

\* It depends on those records only.
LEMMA LoadsAgree ==
    ASSUME NEW w \in Nat, NEW v \in Nat, w <= v, NEW file, NEW longer,
           \A i \in 1 .. w : file[i] = longer[i]
    PROVE  \A n \in 0 .. w : Loads(file, w)[n] = Loads(longer, v)[n]
<1> DEFINE S == {n \in 0 .. w : Loads(file, w)[n] = Loads(longer, v)[n]}
<1>1. ASSUME NEW n \in 0 .. w, \A m \in 0 .. n - 1 : m \in S
      PROVE  n \in S
  <2>1. CASE n = 0
    BY <2>1, LoadsDefined
  <2>2. CASE n # 0
    <3>1. n \in 1 .. w /\ n \in 1 .. v /\ n - 1 \in 0 .. n - 1
      BY <2>2
    <3>2. Loads(file, w)[n] = WithRoot(Loads(file, w)[n - 1], file[n].turn, file[n].root)
      BY <3>1, LoadsDefined
    <3>3. Loads(longer, v)[n] = WithRoot(Loads(longer, v)[n - 1], longer[n].turn, longer[n].root)
      BY <3>1, LoadsDefined
    <3>4. Loads(file, w)[n - 1] = Loads(longer, v)[n - 1]
      BY <1>1, <3>1
    <3> QED
      BY <3>1, <3>2, <3>3, <3>4
  <2> QED
    BY <2>1, <2>2
<1>2. \A n \in 0 .. w : n \in S
  <2> HIDE DEF S
  <2> QED
    BY <1>1, SetInduction
<1> QED
  BY <1>2

\* Every root it gives a turn is a record's.
LEMMA LoadsGenuine ==
    ASSUME NEW E, NEW w \in Nat, NEW file,
           \A i \in 1 .. w : <<file[i].turn, file[i].root>> \in E
    PROVE  \A n \in 0 .. w : \A t \in DOMAIN Loads(file, w)[n] : <<t, Loads(file, w)[n][t]>> \in E
<1> DEFINE S == {n \in 0 .. w :
                    \A t \in DOMAIN Loads(file, w)[n] : <<t, Loads(file, w)[n][t]>> \in E}
<1>1. ASSUME NEW n \in 0 .. w, \A m \in 0 .. n - 1 : m \in S
      PROVE  n \in S
  <2>1. CASE n = 0
    <3>1. DOMAIN Loads(file, w)[n] = {}
      BY <2>1, LoadsDefined DEF NoRoots
    <3> QED
      BY <3>1
  <2>2. CASE n # 0
    <3>1. n \in 1 .. w /\ n - 1 \in 0 .. n - 1
      BY <2>2
    <3>2. PICK m, k : m = Loads(file, w)[n - 1] /\ k = Loads(file, w)[n]
      OBVIOUS
    <3>3. k = WithRoot(m, file[n].turn, file[n].root)
      BY <3>1, <3>2, LoadsDefined
    <3>4. \A t \in DOMAIN m : <<t, m[t]>> \in E
      BY <1>1, <3>1, <3>2
    <3>5. \A t \in DOMAIN k : <<t, k[t]>> \in E
      BY <3>1, <3>3, <3>4 DEF WithRoot
    <3> QED
      BY <3>2, <3>5
  <2> QED
    BY <2>1, <2>2
<1>2. \A n \in 0 .. w : n \in S
  <2> HIDE DEF S
  <2> QED
    BY <1>1, SetInduction
<1> QED
  BY <1>2
\* One record more.
LEMMA LoadAppended ==
    ASSUME NEW S, NEW file \in Seq(S), IsWhole(file, Len(file)), NEW p \in S, p.turn # NoTurn
    PROVE  /\ IsWhole(Append(file, p), Len(file) + 1)
           /\ RootsAfterLoad(Append(file, p)) = WithRoot(RootsAfterLoad(file), p.turn, p.root)
<1>1. PICK n, more : n = Len(file) /\ more = Append(file, p)
  OBVIOUS
<1> n \in Nat
  BY <1>1
<1>2. /\ more \in Seq(S) /\ Len(more) = n + 1 /\ more[n + 1] = p
      /\ \A i \in 1 .. n : more[i] = file[i]
  BY <1>1
<1>3. \A i \in 1 .. n + 1 : more[i].turn # NoTurn
  BY <1>1, <1>2 DEF IsWhole
<1>4. IsWhole(more, n + 1)
  BY <1>2, <1>3 DEF IsWhole
<1>5. WholeRecords(file) = n /\ WholeRecords(more) = n + 1
  <2>1. IsWhole(file, WholeRecords(file)) /\ IsWhole(more, WholeRecords(more))
    BY <1>2, WholeRecordsFacts
  <2>2. IsWhole(file, n) /\ Len(file) \in Nat /\ Len(more) \in Nat
    BY <1>1, <1>2
  <2> QED
    BY <1>4, <2>1, <2>2, WholeUnique
<1>6. RootsAfterLoad(file) = Loads(file, n)[n] /\ RootsAfterLoad(more) = Loads(more, n + 1)[n + 1]
  BY <1>5, RootsAreLoaded
<1>7. Loads(file, n)[n] = Loads(more, n + 1)[n]
  <2>1. n + 1 \in Nat /\ n <= n + 1 /\ n \in 0 .. n
    OBVIOUS
  <2> QED
    BY <1>2, <2>1, LoadsAgree
<1>8. Loads(more, n + 1)[n + 1] = WithRoot(Loads(more, n + 1)[n], p.turn, p.root)
  <2>1. n + 1 \in Nat /\ n + 1 \in 1 .. n + 1 /\ (n + 1) - 1 = n
    OBVIOUS
  <2>2. Loads(more, n + 1)[n + 1] =
           WithRoot(Loads(more, n + 1)[(n + 1) - 1], more[n + 1].turn, more[n + 1].root)
    BY <2>1, LoadsDefined
  <2> QED
    BY <1>2, <2>1, <2>2
<1> QED
  BY <1>1, <1>4, <1>6, <1>7, <1>8

\* A file that was cut behind its whole records.
LEMMA LoadCut ==
    ASSUME NEW S, NEW file \in Seq(S), NEW w, IsWhole(file, w)
    PROVE  /\ SubSeq(file, 1, w) \in Seq(S) /\ Len(SubSeq(file, 1, w)) = w
           /\ \A i \in 1 .. w : SubSeq(file, 1, w)[i] = file[i] /\ i \in 1 .. Len(file)
           /\ IsWhole(SubSeq(file, 1, w), w)
           /\ RootsAfterLoad(SubSeq(file, 1, w)) = RootsAfterLoad(file)
<1>1. w \in Nat /\ w <= Len(file) /\ Len(file) \in Nat
  BY DEF IsWhole
<1>2. PICK kept : kept = SubSeq(file, 1, w)
  OBVIOUS
<1>3. kept \in Seq(S) /\ Len(kept) = w /\ \A i \in 1 .. w : kept[i] = file[i]
  <2>1. \A i \in 1 .. w : file[i] \in S
    BY <1>1
  <2>2. 1 \in Int /\ w \in Int
    BY <1>1
  <2>3. /\ kept \in Seq(S) /\ Len(kept) = IF 1 <= w THEN w - 1 + 1 ELSE 0
        /\ \A i \in 1 .. w - 1 + 1 : kept[i] = file[1 + i - 1]
    BY <1>2, <2>1, <2>2, SubSeqProperties
  <2>4. \A i \in 1 .. w : i \in 1 .. w - 1 + 1 /\ 1 + i - 1 = i
    BY <1>1
  <2>5. Len(kept) = w
    BY <1>1, <2>3
  <2> QED
    BY <2>3, <2>4, <2>5
<1>4. IsWhole(kept, w)
  BY <1>1, <1>3 DEF IsWhole
<1>5. WholeRecords(file) = w /\ WholeRecords(kept) = w
  BY <1>1, <1>3, <1>4, WholeRecordsFacts, WholeUnique
<1>6. Loads(kept, w)[w] = Loads(file, w)[w]
  <2>1. w <= w /\ w \in 0 .. w
    BY <1>1
  <2> QED
    BY <1>1, <1>3, <2>1, LoadsAgree
<1>7. RootsAfterLoad(kept) = RootsAfterLoad(file)
  BY <1>5, <1>6, RootsAreLoaded
<1> QED
  BY <1>1, <1>2, <1>3, <1>4, <1>7

LEMMA LoadGenuine ==
    ASSUME NEW E, NEW file, FileShape(file, E)
    PROVE  \A t \in DOMAIN RootsAfterLoad(file) : <<t, RootsAfterLoad(file)[t]>> \in E
<1>1. PICK S : file \in Seq(S)
  BY DEF FileShape
<1>2. PICK w : w = WholeRecords(file) /\ IsWhole(file, w)
  BY <1>1, WholeRecordsFacts
<1>3. w \in Nat /\ w <= Len(file) /\ Len(file) \in Nat
  BY <1>1, <1>2 DEF IsWhole
<1>4. \A i \in 1 .. w : <<file[i].turn, file[i].root>> \in E
  <2> TAKE i \in 1 .. w
  <2>1. i \in 1 .. Len(file) /\ file[i].turn # NoTurn
    BY <1>2, <1>3 DEF IsWhole
  <2> QED
    BY <2>1 DEF FileShape, Piece
<1>5. w \in 0 .. w
  BY <1>3
<1> QED
  BY <1>2, <1>3, <1>4, <1>5, LoadsGenuine, RootsAreLoaded

\* The bytes behind the whole records.
Sums(file, w) ==
    CHOOSE f : f = [n \in 0 .. Len(file) |-> IF n <= w THEN 0 ELSE f[n - 1] + file[n].bytes]

LEMMA TailIsSum == \A file : TailBytes(file) = Sums(file, WholeRecords(file))[Len(file)]
BY DEF TailBytes, Sums

LEMMA TailFacts ==
    ASSUME NEW E, NEW file, FileShape(file, E)
    PROVE  /\ TailBytes(file) \in Nat
           /\ TailBytes(file) = 0 <=> WholeRecords(file) = Len(file)
<1>1. PICK S : file \in Seq(S)
  BY DEF FileShape
<1>2. PICK w, l : w = WholeRecords(file) /\ l = Len(file)
  OBVIOUS
<1>3. w \in Nat /\ l \in Nat /\ w <= l
  BY <1>1, <1>2, WholeRecordsFacts DEF IsWhole
<1>4. \A n \in 1 .. l : file[n].bytes \in Nat /\ file[n].bytes > 0
  <2> TAKE n \in 1 .. l
  <2>1. Piece(file[n], E)
    BY <1>2 DEF FileShape
  <2>2. file[n].bytes \in Nat \ {0}
    BY <2>1 DEF Piece
  <2> QED
    BY <2>2
<1> DEFINE Def(f) == f = [n \in 0 .. Len(file) |-> IF n <= w THEN 0 ELSE f[n - 1] + file[n].bytes]
<1>5. PICK link : link = [n \in 1 .. l |-> n - 1]
  OBVIOUS
<1>6. PICK step : step = [n \in 1 .. l |-> [m \in Nat |-> IF n <= w THEN 0 ELSE m + file[n].bytes]]
  OBVIOUS
<1>7. \A n \in 1 .. l : link[n] = n - 1 /\ link[n] \in 0 .. n - 1
  BY <1>5
<1>8. \A n \in 1 .. l : \A m \in Nat : step[n][m] = IF n <= w THEN 0 ELSE m + file[n].bytes
  BY <1>6
<1>9. \A n \in 1 .. l : \A m \in Nat : step[n][m] \in Nat
  BY <1>4, <1>8
<1>10. PICK f : IsWalk(f, l, Nat, 0, link, step)
  <2>1. Descends(link, l) /\ StepsIn(step, l, Nat)
    BY <1>7, <1>9 DEF Descends, StepsIn
  <2> QED
    BY <1>3, <2>1, WalkExists
<1>11. f \in [0 .. l -> Nat] /\ f[0] = 0 /\ \A n \in 1 .. l : f[n] = step[n][f[link[n]]]
  BY <1>10 DEF IsWalk
<1>12. \A n \in 1 .. l : f[n] = IF n <= w THEN 0 ELSE f[n - 1] + file[n].bytes
  <2> TAKE n \in 1 .. l
  <2>1. n - 1 \in 0 .. l
    BY <1>3
  <2>2. f[n - 1] \in Nat
    BY <1>11, <2>1
  <2> QED
    BY <1>7, <1>8, <1>11, <2>2
<1>13. Def(f)
  <2>1. \A n \in 0 .. l : f[n] = IF n <= w THEN 0 ELSE f[n - 1] + file[n].bytes
    BY <1>3, <1>11, <1>12
  <2>2. f = [n \in 0 .. l |-> f[n]]
    BY <1>11
  <2> QED
    BY <1>2, <2>1, <2>2
<1>14. Def(CHOOSE g : Def(g))
  <2> HIDE DEF Def
  <2> QED
    BY <1>13, Zenon
<1>15. PICK g : g = Sums(file, w) /\ Def(g)
  BY <1>14 DEF Sums
<1>16. \A n \in 0 .. l : g[n] = IF n <= w THEN 0 ELSE g[n - 1] + file[n].bytes
  BY <1>2, <1>15, Zenon
<1>17. TailBytes(file) = g[l]
  BY <1>2, <1>15, TailIsSum
<1> DEFINE T == {n \in 0 .. l : g[n] \in Nat /\ (n > w => g[n] > 0)}
<1>18. ASSUME NEW n \in 0 .. l, \A m \in 0 .. n - 1 : m \in T
       PROVE  n \in T
  <2>1. CASE n <= w
    BY <1>3, <1>16, <2>1
  <2>2. CASE ~(n <= w)
    <3>1. n \in 1 .. l /\ n - 1 \in 0 .. n - 1
      BY <1>3, <2>2
    <3>2. g[n - 1] \in Nat
      BY <1>18, <3>1
    <3>3. g[n] = g[n - 1] + file[n].bytes
      BY <1>16, <2>2
    <3> QED
      BY <1>4, <3>1, <3>2, <3>3
  <2> QED
    BY <2>1, <2>2
<1>19. \A n \in 0 .. l : n \in T
  <2> HIDE DEF T
  <2> QED
    BY <1>3, <1>18, SetInduction
<1>20. g[l] \in Nat /\ (l > w => g[l] > 0)
  BY <1>3, <1>19
<1>21. l = w => g[l] = 0
  BY <1>3, <1>16
<1> QED
  BY <1>2, <1>3, <1>17, <1>20, <1>21

-----------------------------------------------------------------------------
(* Snapshots: the nearest ancestor with a root.                            *)

LEMMA TurnsAreNumbers ==
    /\ Len(FsParent) \in Nat /\ FsTurns = 1 .. Len(FsParent)
    /\ FsTurns \union {NoTurn} = 0 .. Len(FsParent)
    /\ \A t \in 1 .. Len(FsParent) : FsParent[t] \in 0 .. t - 1
<1>1. Len(FsParent) \in Nat /\ FsTurns = 1 .. Len(FsParent)
  BY FsAssumption DEF FsTurns
<1>2. \A t \in 1 .. Len(FsParent) : FsParent[t] \in 0 .. t - 1
  <2> TAKE t \in 1 .. Len(FsParent)
  <2>1. FsParent[t] \in Nat /\ FsParent[t] < t
    BY <1>1, FsAssumption DEF FsTurns
  <2> QED
    BY <1>1, <2>1
<1>3. FsTurns \union {NoTurn} = 0 .. Len(FsParent)
  BY <1>1 DEF NoTurn
<1> QED
  BY <1>1, <1>2, <1>3

\* The greatest member of a set of numbers is its Max.
LEMMA MaxIs ==
    ASSUME NEW T \in SUBSET Nat, NEW t \in T, \A y \in T : y <= t
    PROVE  Max(T) = t
<1>1. \A y \in T : t >= y
  OBVIOUS
<1>2. PICK x : x = Max(T) /\ x \in T /\ \A y \in T : x >= y
  BY <1>1 DEF Max
<1> QED
  BY <1>1, <1>2

Ancs ==
    CHOOSE f : f = [t \in FsTurns \union {NoTurn} |->
                      IF t = NoTurn THEN {} ELSE {t} \union f[FsParent[t]]]

LEMMA AncestorsAreAncs == AncestorsOf = Ancs
BY DEF AncestorsOf, Ancs

LEMMA AncsFacts ==
    /\ Ancs[0] = {}
    /\ \A t \in 1 .. Len(FsParent) :
          Ancs[t] = {t} \union Ancs[FsParent[t]] /\ Ancs[t] \in SUBSET (1 .. t)
<1>1. PICK l : l = Len(FsParent)
  OBVIOUS
<1> DEFINE Def(f) == f = [t \in FsTurns \union {NoTurn} |->
                            IF t = NoTurn THEN {} ELSE {t} \union f[FsParent[t]]]
<1>2. /\ l \in Nat /\ FsTurns \union {NoTurn} = 0 .. l
      /\ \A t \in 1 .. l : FsParent[t] \in 0 .. t - 1
  BY <1>1, TurnsAreNumbers
<1>3. PICK S : S = SUBSET Nat
  OBVIOUS
<1>4. PICK step : step = [t \in 1 .. l |-> [v \in S |-> {t} \union v]]
  OBVIOUS
<1>5. \A t \in 1 .. l : \A v \in S : step[t][v] = {t} \union v /\ step[t][v] \in S
  BY <1>3, <1>4
<1>6. PICK f : IsWalk(f, l, S, {}, FsParent, step)
  <2>1. Descends(FsParent, l) /\ StepsIn(step, l, S) /\ {} \in S
    BY <1>2, <1>3, <1>5 DEF Descends, StepsIn
  <2> QED
    BY <1>2, <2>1, WalkExists
<1>7. f \in [0 .. l -> S] /\ f[0] = {} /\ \A t \in 1 .. l : f[t] = step[t][f[FsParent[t]]]
  BY <1>6 DEF IsWalk
<1>8. \A t \in 1 .. l : f[t] = {t} \union f[FsParent[t]]
  <2> TAKE t \in 1 .. l
  <2>1. FsParent[t] \in 0 .. l
    BY <1>2
  <2>2. f[FsParent[t]] \in S
    BY <1>7, <2>1
  <2> QED
    BY <1>5, <1>7, <2>2
<1>9. Def(f)
  <2>1. \A t \in 0 .. l : f[t] = IF t = NoTurn THEN {} ELSE {t} \union f[FsParent[t]]
    BY <1>2, <1>7, <1>8 DEF NoTurn
  <2>2. f = [t \in 0 .. l |-> f[t]]
    BY <1>7
  <2> QED
    BY <1>2, <2>1, <2>2
<1>10. Def(CHOOSE g : Def(g))
  <2> HIDE DEF Def
  <2> QED
    BY <1>9, Zenon
<1>11. PICK g : g = Ancs /\ Def(g)
  BY <1>10 DEF Ancs
<1>12. \A t \in 0 .. l : g[t] = IF t = NoTurn THEN {} ELSE {t} \union g[FsParent[t]]
  BY <1>2, <1>11, Zenon
<1>13. 0 \in 0 .. l /\ \A t \in 1 .. l : t \in 0 .. l /\ t # 0
  BY <1>2
<1>14. g[0] = {}
  BY <1>12, <1>13, Zenon DEF NoTurn
<1>15. \A t \in 1 .. l : g[t] = {t} \union g[FsParent[t]]
  BY <1>12, <1>13, Zenon DEF NoTurn
<1> DEFINE T == {t \in 0 .. l : g[t] \in SUBSET (1 .. t)}
<1>16. ASSUME NEW t \in 0 .. l, \A m \in 0 .. t - 1 : m \in T
       PROVE  t \in T
  <2>1. CASE t = 0
    BY <1>14, <2>1
  <2>2. CASE t # 0
    <3>1. t \in 1 .. l
      BY <1>2, <2>2
    <3>2. PICK p : p = FsParent[t] /\ p \in 0 .. t - 1
      BY <1>2, <3>1
    <3>3. g[p] \in SUBSET (1 .. p)
      BY <1>16, <3>2
    <3>4. g[t] = {t} \union g[p]
      BY <1>15, <3>1, <3>2
    <3>5. g[t] \in SUBSET (1 .. t)
      BY <3>1, <3>2, <3>3, <3>4
    <3> QED
      BY <3>5
  <2> QED
    BY <2>1, <2>2
<1>17. \A t \in 0 .. l : t \in T
  <2> HIDE DEF T
  <2> QED
    BY <1>2, <1>16, SetInduction
<1> QED
  BY <1>1, <1>11, <1>13, <1>14, <1>15, <1>17

\* get_inherited for given roots and stored turns.
Ups(rs, s) ==
    CHOOSE f : f = [u \in FsTurns \union {NoTurn} |->
                      IF u \in DOMAIN rs THEN rs[u]
                      ELSE IF u \notin s THEN NoTurn ELSE f[FsParent[u]]]

LEMMA InheritedIsUps == \A t \in FsTurns : GetInherited[t] = Ups(roots, stored)[t]
BY DEF GetInherited, Ups

\* Stored turns with their parents.
Rooted(s) == s \in SUBSET FsTurns /\ \A t \in s : FsParent[t] \in s \union {NoTurn}

LEMMA UpsDefined ==
    ASSUME NEW rs, NEW s, Rooted(s), DOMAIN rs \in SUBSET FsTurns
    PROVE  /\ Ups(rs, s)[0] = 0
           /\ \A t \in 1 .. Len(FsParent) :
                 Ups(rs, s)[t] = IF t \in DOMAIN rs THEN rs[t]
                                 ELSE IF t \notin s THEN 0 ELSE Ups(rs, s)[FsParent[t]]
<1>1. PICK l : l = Len(FsParent)
  OBVIOUS
<1> DEFINE Def(f) == f = [u \in FsTurns \union {NoTurn} |->
                            IF u \in DOMAIN rs THEN rs[u]
                            ELSE IF u \notin s THEN NoTurn ELSE f[FsParent[u]]]
<1>2. /\ l \in Nat /\ FsTurns \union {NoTurn} = 0 .. l /\ FsTurns = 1 .. l
      /\ \A t \in 1 .. l : FsParent[t] \in 0 .. t - 1
  BY <1>1, TurnsAreNumbers
<1>3. PICK S : S = {rs[u] : u \in DOMAIN rs} \union {0}
  OBVIOUS
<1>4. PICK step : step = [t \in 1 .. l |-> [v \in S |->
                            IF t \in DOMAIN rs THEN rs[t] ELSE IF t \notin s THEN 0 ELSE v]]
  OBVIOUS
<1>5. \A t \in 1 .. l : \A v \in S :
         step[t][v] = IF t \in DOMAIN rs THEN rs[t] ELSE IF t \notin s THEN 0 ELSE v
  BY <1>4
<1>6. \A t \in 1 .. l : \A v \in S : step[t][v] \in S
  BY <1>3, <1>5
<1>7. PICK f : IsWalk(f, l, S, 0, FsParent, step)
  <2>1. Descends(FsParent, l) /\ StepsIn(step, l, S) /\ 0 \in S
    BY <1>2, <1>3, <1>6 DEF Descends, StepsIn
  <2> QED
    BY <1>2, <2>1, WalkExists
<1>8. f \in [0 .. l -> S] /\ f[0] = 0 /\ \A t \in 1 .. l : f[t] = step[t][f[FsParent[t]]]
  BY <1>7 DEF IsWalk
<1>9. \A t \in 1 .. l : f[t] = IF t \in DOMAIN rs THEN rs[t]
                               ELSE IF t \notin s THEN 0 ELSE f[FsParent[t]]
  <2> TAKE t \in 1 .. l
  <2>1. FsParent[t] \in 0 .. l
    BY <1>2
  <2>2. f[FsParent[t]] \in S
    BY <1>8, <2>1
  <2> QED
    BY <1>5, <1>8, <2>2
<1>10. 0 \notin DOMAIN rs /\ 0 \notin s
  BY <1>2 DEF Rooted
<1>11. Def(f)
  <2>1. \A t \in 0 .. l : f[t] = IF t \in DOMAIN rs THEN rs[t]
                                 ELSE IF t \notin s THEN NoTurn ELSE f[FsParent[t]]
    BY <1>2, <1>8, <1>9, <1>10 DEF NoTurn
  <2>2. f = [t \in 0 .. l |-> f[t]]
    BY <1>8
  <2> QED
    BY <1>2, <2>1, <2>2
<1>12. Def(CHOOSE g : Def(g))
  <2> HIDE DEF Def
  <2> QED
    BY <1>11, Zenon
<1>13. PICK g : g = Ups(rs, s) /\ Def(g)
  BY <1>12 DEF Ups
<1>14. \A t \in 0 .. l : g[t] = IF t \in DOMAIN rs THEN rs[t]
                                ELSE IF t \notin s THEN NoTurn ELSE g[FsParent[t]]
  BY <1>2, <1>13, Zenon
<1>15. 0 \in 0 .. l /\ \A t \in 1 .. l : t \in 0 .. l
  BY <1>2
<1>16. g[0] = 0
  BY <1>10, <1>14, <1>15, Zenon DEF NoTurn
<1>17. \A t \in 1 .. l : g[t] = IF t \in DOMAIN rs THEN rs[t]
                                ELSE IF t \notin s THEN 0 ELSE g[FsParent[t]]
  BY <1>14, <1>15, Zenon DEF NoTurn
<1> QED
  BY <1>1, <1>13, <1>16, <1>17

\* What is inherited is the root of the nearest ancestor that has one.
LEMMA NearestRoot ==
    ASSUME NEW rs, NEW s, Rooted(s), DOMAIN rs \in SUBSET FsTurns
    PROVE  \A t \in s :
              Ups(rs, s)[t] = IF Ancs[t] \intersect DOMAIN rs = {} THEN 0
                              ELSE rs[Max(Ancs[t] \intersect DOMAIN rs)]
<1>1. PICK l, up : l = Len(FsParent) /\ up = Ups(rs, s)
  OBVIOUS
<1>2. /\ l \in Nat /\ FsTurns = 1 .. l
      /\ \A t \in 1 .. l : FsParent[t] \in 0 .. t - 1
  BY <1>1, TurnsAreNumbers
<1>3. /\ up[0] = 0
      /\ \A t \in 1 .. l : up[t] = IF t \in DOMAIN rs THEN rs[t]
                                   ELSE IF t \notin s THEN 0 ELSE up[FsParent[t]]
  BY <1>1, UpsDefined
<1>4. /\ Ancs[0] = {}
      /\ \A t \in 1 .. l :
            Ancs[t] = {t} \union Ancs[FsParent[t]] /\ Ancs[t] \in SUBSET (1 .. t)
  BY <1>1, AncsFacts
<1> DEFINE With(t) == Ancs[t] \intersect DOMAIN rs
           Nearest(t) == up[t] = IF With(t) = {} THEN 0 ELSE rs[Max(With(t))]
           T == {t \in 0 .. l : t \in s \union {0} => Nearest(t)}
<1>5. ASSUME NEW t \in 0 .. l, \A m \in 0 .. t - 1 : m \in T
      PROVE  t \in T
  <2> SUFFICES ASSUME t \in s \union {0}
               PROVE  Nearest(t)
    OBVIOUS
  <2>1. CASE t = 0
    BY <1>3, <1>4, <2>1
  <2>2. CASE t # 0 /\ t \in DOMAIN rs
    <3>1. t \in 1 .. l
      BY <1>2, <2>2
    <3>2. PICK W : W = With(t)
      OBVIOUS
    <3>3. Ancs[t] = {t} \union Ancs[FsParent[t]] /\ Ancs[t] \in SUBSET (1 .. t)
      BY <1>4, <3>1
    <3>4. W \in SUBSET Nat /\ t \in W /\ \A y \in W : y <= t
      BY <2>2, <3>1, <3>2, <3>3
    <3>5. Max(W) = t
      BY <3>4, MaxIs
    <3>6. up[t] = rs[t]
      BY <1>3, <2>2, <3>1
    <3> QED
      BY <3>2, <3>4, <3>5, <3>6
  <2>3. CASE t # 0 /\ t \notin DOMAIN rs
    <3>1. t \in 1 .. l /\ t \in s
      BY <1>2, <2>3
    <3>2. PICK p : p = FsParent[t] /\ p \in 0 .. t - 1
      BY <1>2, <3>1
    <3>3. p \in s \union {0} /\ p \in 0 .. l
      BY <1>2, <3>1, <3>2 DEF Rooted, NoTurn
    <3>4. Nearest(p)
      BY <1>5, <3>2, <3>3
    <3>5. With(t) = With(p)
      BY <1>4, <2>3, <3>1, <3>2
    <3>6. up[t] = up[p]
      BY <1>3, <2>3, <3>1, <3>2
    <3> QED
      BY <3>4, <3>5, <3>6
  <2> QED
    BY <2>1, <2>2, <2>3
<1>6. \A t \in 0 .. l : t \in T
  <2> HIDE DEF T
  <2> QED
    BY <1>2, <1>5, SetInduction
<1>7. \A t \in s : t \in 0 .. l
  BY <1>2 DEF Rooted
<1> QED
  BY <1>1, <1>6, <1>7

-----------------------------------------------------------------------------
(* Snapshots: the invariant.                                               *)

\* What has been written, and what the index in memory was read or built from.
IndexShape(file, rs, at, ev, s) ==
    /\ Rooted(s) /\ FileShape(file, ev)
    /\ \A e \in ev : e[1] \in FsTurns
    /\ \A t \in DOMAIN rs : <<t, rs[t]>> \in ev
    /\ \A t \in DOMAIN at : <<t, at[t]>> \in ev

\* Unless the file was damaged it holds what was attached, and so does memory.
IndexExact(file, rs, at, up, d) ==
    ~d => /\ IsWhole(file, Len(file)) /\ at = RootsAfterLoad(file)
          /\ up => rs = at

FsInv ==
    /\ IndexShape(rootsFile, roots, attached, ever, stored)
    /\ IndexExact(rootsFile, roots, attached, fsUp, damaged)
    /\ damaged \in BOOLEAN /\ fsUp \in BOOLEAN

\* One piece more, or fewer.
LEMMA ShapeAppended ==
    ASSUME NEW file, NEW E, NEW F, FileShape(file, E), E \subseteq F, NEW p, Piece(p, F)
    PROVE  FileShape(Append(file, p), F)
<1>1. PICK S : file \in Seq(S)
  BY DEF FileShape
<1>2. PICK T : T = S \union {p}
  OBVIOUS
<1>3. PICK more : more = Append(file, p)
  OBVIOUS
<1>4. file \in Seq(T) /\ p \in T
  BY <1>1, <1>2
<1>5. more \in Seq(T) /\ Len(more) = Len(file) + 1 /\ Len(file) \in Nat
  BY <1>3, <1>4
<1>6. \A i \in 1 .. Len(file) : more[i] = file[i]
  BY <1>3, <1>4
<1>7. more[Len(file) + 1] = p
  BY <1>3, <1>4
<1>8. \A i \in 1 .. Len(file) : Piece(file[i], F)
  BY DEF FileShape, Piece
<1>9. \A i \in 1 .. Len(more) : Piece(more[i], F)
  <2> TAKE i \in 1 .. Len(more)
  <2>1. i = Len(file) + 1 \/ i \in 1 .. Len(file)
    BY <1>5
  <2> QED
    BY <1>6, <1>7, <1>8, <2>1
<1> QED
  BY <1>3, <1>5, <1>9 DEF FileShape

LEMMA ShapeCut ==
    ASSUME NEW file, NEW E, FileShape(file, E), NEW k \in 0 .. Len(file)
    PROVE  FileShape(SubSeq(file, 1, k), E)
<1>1. PICK S : file \in Seq(S)
  BY DEF FileShape
<1>2. PICK kept : kept = SubSeq(file, 1, k)
  OBVIOUS
<1>3. Len(file) \in Nat /\ k \in Nat /\ k <= Len(file)
  BY <1>1
<1>4. kept \in Seq(S) /\ Len(kept) = k /\ \A i \in 1 .. k : kept[i] = file[i]
  <2>1. \A i \in 1 .. k : file[i] \in S
    BY <1>1, <1>3
  <2>2. 1 \in Int /\ k \in Int
    BY <1>3
  <2>3. /\ kept \in Seq(S) /\ Len(kept) = IF 1 <= k THEN k - 1 + 1 ELSE 0
        /\ \A i \in 1 .. k - 1 + 1 : kept[i] = file[1 + i - 1]
    BY <1>1, <1>2, <2>1, <2>2, SubSeqProperties
  <2>4. \A i \in 1 .. k : i \in 1 .. k - 1 + 1 /\ 1 + i - 1 = i
    BY <1>3
  <2>5. Len(kept) = k
    BY <1>3, <2>3
  <2> QED
    BY <2>3, <2>4, <2>5
<1>5. \A i \in 1 .. Len(kept) : Piece(kept[i], E)
  <2> TAKE i \in 1 .. Len(kept)
  <2>1. i \in 1 .. Len(file) /\ kept[i] = file[i]
    BY <1>3, <1>4
  <2> QED
    BY <2>1 DEF FileShape
<1> QED
  BY <1>2, <1>4, <1>5 DEF FileShape

LEMMA FragmentPiece == \A n \in Fragments : \A E : Piece(Fragment(n), E)
<1> TAKE n \in Fragments
<1>1. n \in Nat \ {0}
  BY FsAssumption
<1> QED
  BY <1>1 DEF Piece, Fragment, NoTurn

\* The roots with one more are genuine.
LEMMA GenuineWith ==
    ASSUME NEW rs, NEW E, NEW F, E \subseteq F, NEW t, NEW r, <<t, r>> \in F,
           \A u \in DOMAIN rs : <<u, rs[u]>> \in E
    PROVE  \A u \in DOMAIN WithRoot(rs, t, r) : <<u, WithRoot(rs, t, r)[u]>> \in F
BY DEF WithRoot

LEMMA FsInit_Inv == FsInit => FsInv
<1> SUFFICES ASSUME FsInit
             PROVE  FsInv
  OBVIOUS
<1> USE DEF FsInit
<1>1. Rooted(stored)
  BY DEF Rooted
<1>2. FileShape(rootsFile, ever)
  <2>1. rootsFile \in Seq({}) /\ Len(rootsFile) = 0
    OBVIOUS
  <2> QED
    BY <2>1 DEF FileShape
<1>3. DOMAIN roots = {} /\ DOMAIN attached = {}
  BY DEF NoRoots
<1>4. IsWhole(rootsFile, Len(rootsFile))
  BY DEF IsWhole
<1>5. RootsAfterLoad(rootsFile) = NoRoots
  <2>1. IsWhole(rootsFile, WholeRecords(rootsFile))
    <3>1. rootsFile \in Seq({})
      OBVIOUS
    <3> QED
      BY <3>1, WholeRecordsFacts
  <2>2. WholeRecords(rootsFile) = 0
    BY <2>1 DEF IsWhole
  <2> QED
    BY <2>2, RootsAreLoaded, LoadsDefined
<1>6. IndexShape(rootsFile, roots, attached, ever, stored)
  BY <1>1, <1>2, <1>3 DEF IndexShape
<1>7. IndexExact(rootsFile, roots, attached, fsUp, damaged)
  BY <1>4, <1>5 DEF IndexExact
<1> QED
  BY <1>6, <1>7 DEF FsInv

LEMMA AppendTurn_Inv == \A t \in FsTurns : FsInv /\ AppendTurn(t) => FsInv'
<1> SUFFICES ASSUME NEW t \in FsTurns, FsInv, AppendTurn(t)
             PROVE  FsInv'
  OBVIOUS
<1>1. /\ FsParent[t] \in stored \union {NoTurn} /\ stored' = stored \union {t}
      /\ UNCHANGED <<rootsFile, roots, fsUp, attached, ever, damaged>>
  BY DEF AppendTurn
<1>2. Rooted(stored)
  BY DEF FsInv, IndexShape
<1>3. Rooted(stored')
  BY <1>1, <1>2 DEF Rooted
<1> QED
  BY <1>1, <1>3 DEF FsInv, IndexShape, IndexExact

LEMMA Attach_Inv == \A t \in FsTurns, r \in FsTrees : FsInv /\ Attach(t, r) => FsInv'
<1> SUFFICES ASSUME NEW t \in FsTurns, NEW r \in FsTrees, FsInv, Attach(t, r)
             PROVE  FsInv'
  OBVIOUS
<1>1. /\ rootsFile' = Append(rootsFile, Record(t, r)) /\ fsUp
      /\ roots' = WithRoot(roots, t, r) /\ attached' = WithRoot(attached, t, r)
      /\ ever' = ever \union {<<t, r>>} /\ UNCHANGED <<stored, fsUp, damaged>>
  BY DEF Attach, MayAttach
<1>2. PICK p : p = Record(t, r)
  OBVIOUS
<1> p.turn = t /\ p.root = r /\ p.bytes = 44
  BY <1>2 DEF Record, RecordBytes
<1>3. t # NoTurn /\ ever \subseteq ever' /\ <<t, r>> \in ever'
  BY <1>1, TurnsAreNumbers DEF NoTurn
<1>4. Piece(p, ever')
  BY <1>2, <1>3 DEF Piece
<1>5. FileShape(rootsFile', ever')
  <2>1. FileShape(rootsFile, ever)
    BY DEF FsInv, IndexShape
  <2>2. FileShape(Append(rootsFile, p), ever')
    BY <1>3, <1>4, <2>1, ShapeAppended
  <2> QED
    BY <1>1, <1>2, <2>2
<1>6. \A u \in DOMAIN roots' : <<u, roots'[u]>> \in ever'
  <2>1. \A u \in DOMAIN roots : <<u, roots[u]>> \in ever
    BY DEF FsInv, IndexShape
  <2>2. \A u \in DOMAIN WithRoot(roots, t, r) : <<u, WithRoot(roots, t, r)[u]>> \in ever'
    BY <1>3, <2>1, GenuineWith
  <2> QED
    BY <1>1, <2>2
<1>7. \A u \in DOMAIN attached' : <<u, attached'[u]>> \in ever'
  <2>1. \A u \in DOMAIN attached : <<u, attached[u]>> \in ever
    BY DEF FsInv, IndexShape
  <2>2. \A u \in DOMAIN WithRoot(attached, t, r) : <<u, WithRoot(attached, t, r)[u]>> \in ever'
    BY <1>3, <2>1, GenuineWith
  <2> QED
    BY <1>1, <2>2
<1>8. \A e \in ever' : e[1] \in FsTurns
  BY <1>1 DEF FsInv, IndexShape
<1>9. IndexShape(rootsFile', roots', attached', ever', stored')
  BY <1>1, <1>5, <1>6, <1>7, <1>8 DEF FsInv, IndexShape
<1>10. IndexExact(rootsFile', roots', attached', fsUp', damaged')
  <2> SUFFICES ASSUME ~damaged
               PROVE  /\ IsWhole(rootsFile', Len(rootsFile'))
                      /\ attached' = RootsAfterLoad(rootsFile') /\ roots' = attached'
    BY <1>1 DEF IndexExact
  <2>1. /\ IsWhole(rootsFile, Len(rootsFile)) /\ attached = RootsAfterLoad(rootsFile)
        /\ roots = attached
    BY <1>1 DEF FsInv, IndexExact
  <2>2. PICK S : rootsFile \in Seq(S)
    BY DEF FsInv, IndexShape, FileShape
  <2>3. PICK T : T = S \union {p}
    OBVIOUS
  <2>4. rootsFile \in Seq(T) /\ p \in T
    BY <2>2, <2>3
  <2>5. Len(Append(rootsFile, p)) = Len(rootsFile) + 1
    BY <2>4
  <2>6. /\ IsWhole(Append(rootsFile, p), Len(rootsFile) + 1)
        /\ RootsAfterLoad(Append(rootsFile, p)) =
              WithRoot(RootsAfterLoad(rootsFile), p.turn, p.root)
    BY <1>2, <1>3, <2>1, <2>4, LoadAppended
  <2> QED
    BY <1>1, <1>2, <2>1, <2>5, <2>6
<1> QED
  BY <1>1, <1>9, <1>10 DEF FsInv, IndexShape, IndexExact

LEMMA AttachFails_Inv == \A t \in FsTurns, r \in FsTrees : FsInv /\ AttachFails(t, r) => FsInv'
<1> SUFFICES ASSUME NEW t \in FsTurns, NEW r \in FsTrees, FsInv, AttachFails(t, r)
             PROVE  FsInv'
  OBVIOUS
<1>1. PICK n \in Fragments : rootsFile' = Append(rootsFile, Fragment(n))
  BY DEF AttachFails
<1>2. damaged' = TRUE /\ UNCHANGED <<stored, roots, fsUp, attached, ever>>
  BY DEF AttachFails
<1>3. PICK p : p = Fragment(n) /\ Piece(p, ever)
  BY FragmentPiece
<1>4. FileShape(rootsFile', ever)
  BY <1>1, <1>3, ShapeAppended DEF FsInv, IndexShape
<1> QED
  BY <1>2, <1>4 DEF FsInv, IndexShape, IndexExact

LEMMA KillServer_Inv == FsInv /\ KillServer => FsInv'
<1> SUFFICES ASSUME FsInv, KillServer
             PROVE  FsInv'
  OBVIOUS
<1>1. /\ fsUp' = FALSE /\ roots' = NoRoots /\ rootsFile' = rootsFile
      /\ UNCHANGED <<stored, attached, ever, damaged>>
  BY DEF KillServer, Stop
<1>2. DOMAIN roots' = {}
  BY <1>1 DEF NoRoots
<1> QED
  BY <1>1, <1>2 DEF FsInv, IndexShape, IndexExact

LEMMA LosePower_Inv == FsInv /\ LosePower => FsInv'
<1> SUFFICES ASSUME FsInv, LosePower
             PROVE  FsInv'
  OBVIOUS
<1>1. PICK k \in 0 .. Len(rootsFile) - 1, n \in Fragments \union {0} :
         Stop(SubSeq(rootsFile, 1, k) \o IF n = 0 THEN <<>> ELSE <<Fragment(n)>>)
  BY DEF LosePower
<1>2. /\ damaged' = TRUE /\ fsUp' = FALSE /\ roots' = NoRoots
      /\ rootsFile' = SubSeq(rootsFile, 1, k) \o IF n = 0 THEN <<>> ELSE <<Fragment(n)>>
      /\ UNCHANGED <<stored, attached, ever>>
  BY <1>1 DEF LosePower, Stop
<1>3. DOMAIN roots' = {}
  BY <1>2 DEF NoRoots
<1>4. PICK S : rootsFile \in Seq(S)
  BY DEF FsInv, IndexShape, FileShape
<1>5. k \in 0 .. Len(rootsFile)
  BY <1>4
<1>6. PICK kept : kept = SubSeq(rootsFile, 1, k) /\ FileShape(kept, ever)
  BY <1>5, ShapeCut DEF FsInv, IndexShape
<1>7. PICK C : kept \in Seq(C)
  BY <1>6 DEF FileShape
<1>8. FileShape(rootsFile', ever)
  <2>1. CASE n = 0
    <3>1. rootsFile' = kept \o <<>>
      BY <1>2, <1>6, <2>1
    <3>2. rootsFile' = kept
      BY <1>7, <3>1
    <3> QED
      BY <1>6, <3>2
  <2>2. CASE n # 0
    <3>1. PICK p : p = Fragment(n) /\ Piece(p, ever)
      BY <2>2, FragmentPiece
    <3>2. rootsFile' = kept \o <<p>>
      BY <1>2, <1>6, <2>2, <3>1
    <3>3. PICK D : D = C \union {p}
      OBVIOUS
    <3>4. kept \in Seq(D) /\ p \in D
      BY <1>7, <3>3
    <3>5. rootsFile' = Append(kept, p)
      BY <3>2, <3>4, AppendIsConcat
    <3> QED
      BY <1>6, <3>1, <3>5, ShapeAppended
  <2> QED
    BY <2>1, <2>2
<1> QED
  BY <1>2, <1>3, <1>8 DEF FsInv, IndexShape, IndexExact

\* Opening the index reads the whole records and, unless a tail shorter than a
\* turn id is left, leaves just those in the file.
LEMMA OpenIndex_Inv == FsInv /\ OpenIndex => FsInv'
<1> SUFFICES ASSUME FsInv, OpenIndex
             PROVE  FsInv'
  OBVIOUS
<1>1. PICK file, rs, kept, tail, w : /\ file = rootsFile /\ rs = RootsAfterLoad(file)
                                    /\ kept = FileAfterLoad(file) /\ tail = TailBytes(file)
                                    /\ w = WholeRecords(file)
  OBVIOUS
<1>2. /\ fsUp' = TRUE /\ rootsFile' = kept /\ roots' = rs
      /\ attached' = (IF damaged THEN rs ELSE attached)
      /\ damaged' = (tail \in 1 .. TurnIdBytes - 1) /\ UNCHANGED <<stored, ever>>
  BY <1>1 DEF OpenIndex
<1>3. FileShape(file, ever)
  BY <1>1 DEF FsInv, IndexShape
<1>4. PICK S : file \in Seq(S)
  BY <1>3 DEF FileShape
<1>5. IsWhole(file, w) /\ Len(file) \in Nat
  BY <1>1, <1>4, WholeRecordsFacts
<1>6. tail \in Nat /\ (tail = 0 <=> w = Len(file))
  BY <1>1, <1>3, TailFacts
<1>7. \A t \in DOMAIN rs : <<t, rs[t]>> \in ever
  BY <1>1, <1>3, LoadGenuine
<1>8. attached' = rs \/ attached' = attached
  BY <1>2
<1>9. ~damaged => attached' = rs
  BY <1>1, <1>2 DEF FsInv, IndexExact
<1>10. attached' = rs
  BY <1>2, <1>9 DEF FsInv
<1>11. /\ FileShape(kept, ever)
       /\ ~(tail \in 1 .. TurnIdBytes - 1) =>
             IsWhole(kept, Len(kept)) /\ RootsAfterLoad(kept) = rs
  <2>1. CASE tail < TurnIdBytes
    <3>1. kept = file
      BY <1>1, <2>1 DEF FileAfterLoad
    <3>2. ~(tail \in 1 .. TurnIdBytes - 1) => w = Len(file)
      BY <1>6, <2>1 DEF TurnIdBytes
    <3> QED
      BY <1>1, <1>3, <1>5, <3>1, <3>2
  <2>2. CASE ~(tail < TurnIdBytes)
    <3>1. kept = SubSeq(file, 1, w)
      BY <1>1, <2>2 DEF FileAfterLoad
    <3>2. w \in 0 .. Len(file)
      BY <1>5 DEF IsWhole
    <3>3. FileShape(kept, ever)
      BY <1>3, <3>1, <3>2, ShapeCut
    <3>4. Len(kept) = w /\ IsWhole(kept, w) /\ RootsAfterLoad(kept) = RootsAfterLoad(file)
      BY <1>4, <1>5, <3>1, LoadCut
    <3> QED
      BY <1>1, <3>3, <3>4
  <2> QED
    BY <2>1, <2>2
<1>12. IndexShape(rootsFile', roots', attached', ever', stored')
  BY <1>2, <1>7, <1>10, <1>11 DEF FsInv, IndexShape
<1>13. IndexExact(rootsFile', roots', attached', fsUp', damaged')
  BY <1>2, <1>10, <1>11 DEF IndexExact
<1>14. damaged' \in BOOLEAN /\ fsUp' \in BOOLEAN
  BY <1>2
<1> QED
  BY <1>12, <1>13, <1>14 DEF FsInv, IndexShape, IndexExact

LEMMA FsNext_Inv == FsInv /\ [FsNext]_fsVars => FsInv'
<1> SUFFICES ASSUME FsInv, [FsNext]_fsVars
             PROVE  FsInv'
  OBVIOUS
<1>1. ASSUME NEW r \in FsTrees, PutTree(r)
      PROVE  FsInv'
  BY <1>1 DEF PutTree, FsInv, IndexShape, IndexExact
<1>2. CASE UNCHANGED fsVars
  BY <1>2 DEF fsVars, FsInv, IndexShape, IndexExact
<1> QED
  BY <1>1, <1>2, AppendTurn_Inv, Attach_Inv, AttachFails_Inv, KillServer_Inv, LosePower_Inv,
     OpenIndex_Inv DEF FsNext

LEMMA FsInv_Kept == FsInv => SnapshotsKept
<1> SUFFICES ASSUME FsInv
             PROVE  SnapshotsKept
  OBVIOUS
<1>1. RootsGenuine
  BY DEF RootsGenuine, FsInv, IndexShape
<1>2. ASSUME fsUp, ~damaged, NEW t \in stored
      PROVE  GetInherited[t] = IF AncestorsOf[t] \intersect DOMAIN attached = {} THEN NoTurn
                               ELSE attached[Max(AncestorsOf[t] \intersect DOMAIN attached)]
  <2>1. roots = attached
    BY <1>2 DEF FsInv, IndexExact
  <2>2. Rooted(stored) /\ t \in FsTurns
    BY DEF FsInv, IndexShape, Rooted
  <2>3. DOMAIN roots \in SUBSET FsTurns
    <3> SUFFICES ASSUME NEW u \in DOMAIN roots
                 PROVE  u \in FsTurns
      OBVIOUS
    <3>1. <<u, roots[u]>> \in ever /\ \A e \in ever : e[1] \in FsTurns
      BY DEF FsInv, IndexShape
    <3> QED
      BY <3>1
  <2>4. Ups(roots, stored)[t] = IF Ancs[t] \intersect DOMAIN roots = {} THEN 0
                                ELSE roots[Max(Ancs[t] \intersect DOMAIN roots)]
    BY <2>2, <2>3, NearestRoot
  <2>5. GetInherited[t] = Ups(roots, stored)[t]
    BY <2>2, InheritedIsUps
  <2> QED
    BY <2>1, <2>4, <2>5, AncestorsAreAncs DEF NoTurn
<1> QED
  BY <1>1, <1>2 DEF SnapshotsKept

\* load, attach and get_inherited: a turn inherits the root last attached to its
\* nearest ancestor with one, across kills, restarts and damage once it is read,
\* and no turn is ever given a root that was not attached to it.
THEOREM SnapshotsAreKept == FsSpec => []SnapshotsKept
<1>1. FsSpec => []FsInv
  BY FsInit_Inv, FsNext_Inv, PTL DEF FsSpec
<1> QED
  BY <1>1, FsInv_Kept, PTL

-----------------------------------------------------------------------------
(* The content of a file.                                                  *)

DataFiles == ToSet(SyncFiles)
Unit == Nat \X Nat \X Nat

\* A unit is preceded by the earlier ones of its record.
Preceded(file, j) ==
    /\ file[j][2] \in 1 .. j
    /\ \A m \in 0 .. file[j][2] - 1 :
           file[j - m][2] = file[j][2] - m /\ file[j - m][3] = file[j][3]
Shape(file) == file \in Seq(Unit) /\ \A j \in 1 .. Len(file) : Preceded(file, j)

\* The fields of a unit are numbers.
LEMMA UnitFields ==
    ASSUME NEW u \in Unit
    PROVE  u[1] \in Nat /\ u[2] \in Nat /\ u[3] \in Nat
BY DEF Unit

\* The append has its last unit in the file.
WholeIn(file, x) == \E j \in 1 .. Len(file) : file[j][1] = x /\ file[j][2] = file[j][3]

\* The units of a file.
LEMMA FileUnits ==
    ASSUME NEW a, Shape(a)
    PROVE  /\ a \in Seq(Unit) /\ Len(a) \in Nat /\ DOMAIN a = 1 .. Len(a)
           /\ \A j \in 1 .. Len(a) :
                  a[j] \in Unit /\ a[j][1] \in Nat /\ a[j][2] \in Nat /\ a[j][3] \in Nat
<1>1. a \in Seq(Unit) /\ Len(a) \in Nat /\ DOMAIN a = 1 .. Len(a)
  BY LenProperties DEF Shape
<1>2. \A j \in 1 .. Len(a) : a[j] \in Unit
  BY <1>1, ElementOfSeq
<1>3. QED
  BY <1>1, <1>2, UnitFields

\* The appends a file has whole.
LEMMA WholeUnits ==
    ASSUME NEW a, Shape(a), NEW x
    PROVE  x \in WholeIds(a) <=> WholeIn(a, x)
BY FileUnits DEF WholeIds, ToSet, WholeIn

\* The first k units of a record of n units.
LEMMA UnitsOf ==
    ASSUME NEW id \in Nat, NEW n \in Nat, NEW k \in 1 .. n
    PROVE  /\ Units(id, n, 1, k) \in Seq(Unit) /\ Len(Units(id, n, 1, k)) = k
           /\ \A i \in 1 .. k : LET u == Units(id, n, 1, k)[i]
                                IN  u[1] = id /\ u[2] = i /\ u[3] = n
<1> DEFINE u == [i \in 1 .. k |-> <<id, i, n>>]
<1>1. Units(id, n, 1, k) = u
  <2>1. k - 1 + 1 = k /\ \A i \in 1 .. k : 1 + i - 1 = i
    OBVIOUS
  <2>2. QED
    BY <2>1 DEF Units
<1>2. \A i \in 1 .. k : <<id, i, n>> \in Unit
  BY DEF Unit
<1>3. u \in Seq(Unit) /\ Len(u) = k
  <2>1. u \in [1 .. k -> Unit]
    BY <1>2
  <2>2. QED
    BY <2>1
<1>4. \A i \in 1 .. k : u[i][1] = id /\ u[i][2] = i /\ u[i][3] = n
  OBVIOUS
<1>5. QED
  BY <1>1, <1>3, <1>4

\* What an id adds to the appends a file has whole.
Added(id, n, k) == IF k = n THEN {id} ELSE {}

Longer(a, b, id, n, k) == b = a \o Units(id, n, 1, k)
WholeAlso(a, b, ids) == WholeIds(b) = WholeIds(a) \union ids

\* A record, or a part of it, added to a file.
LEMMA RecordAdded ==
    ASSUME NEW a, Shape(a), NEW id \in Nat, NEW n \in Nat, NEW k \in 1 .. n,
           NEW b, Longer(a, b, id, n, k)
    PROVE  Shape(b) /\ WholeAlso(a, b, Added(id, n, k))
<1> DEFINE u == Units(id, n, 1, k)
<1>1. /\ u \in Seq(Unit) /\ Len(u) = k
      /\ \A i \in 1 .. k : u[i][1] = id /\ u[i][2] = i /\ u[i][3] = n
  BY UnitsOf
<1>2. /\ a \in Seq(Unit) /\ Len(a) \in Nat /\ DOMAIN a = 1 .. Len(a)
      /\ \A j \in 1 .. Len(a) : a[j][2] \in Nat /\ a[j][3] \in Nat
  BY FileUnits
<1> DEFINE l == Len(a)
<1> HIDE DEF u
<1>3. /\ b \in Seq(Unit) /\ Len(b) = l + k
      /\ \A i \in 1 .. l + k : b[i] = IF i <= l THEN a[i] ELSE u[i - l]
  <2>1. b = a \o u
    BY DEF u, Longer
  <2>2. /\ a \o u \in Seq(Unit) /\ Len(a \o u) = Len(a) + Len(u)
        /\ \A i \in 1 .. Len(a) + Len(u) :
              (a \o u)[i] = IF i <= Len(a) THEN a[i] ELSE u[i - Len(a)]
    BY <1>1, <1>2, ConcatProperties
  <2>3. QED
    BY <1>1, <2>1, <2>2
<1>4. \A i \in 1 .. l : b[i] = a[i]
  BY <1>2, <1>3
<1>5. \A i \in 1 .. k : b[l + i][1] = id /\ b[l + i][2] = i /\ b[l + i][3] = n
  <2> SUFFICES ASSUME NEW i \in 1 .. k
               PROVE  b[l + i][1] = id /\ b[l + i][2] = i /\ b[l + i][3] = n
    OBVIOUS
  <2>1. l + i \in 1 .. l + k /\ ~(l + i <= l) /\ l + i - l = i
    BY <1>2
  <2>2. b[l + i] = u[i]
    BY <2>1, <1>3
  <2>3. QED
    BY <2>2, <1>1
<1> HIDE DEF l
<1>7. l \in Nat
  BY <1>2 DEF l
<1>8. \A j \in 1 .. l + k : j \in 1 .. l \/ \E i \in 1 .. k : j = l + i
  <2> SUFFICES ASSUME NEW j \in 1 .. l + k, j \notin 1 .. l
               PROVE  \E i \in 1 .. k : j = l + i
    OBVIOUS
  <2>1. j - l \in 1 .. k /\ j = l + (j - l)
    BY <1>7
  <2>2. QED
    BY <2>1
<1>9. Shape(b)
  <2> SUFFICES ASSUME NEW j \in 1 .. l + k PROVE Preceded(b, j)
    BY <1>3 DEF Shape
  <2>1. CASE j \in 1 .. l
    <3>1. Preceded(a, j)
      BY <2>1 DEF Shape, l
    <3>2. a[j][2] \in 1 .. j /\ b[j] = a[j]
      BY <3>1, <2>1, <1>4 DEF Preceded
    <3>3. ASSUME NEW m \in 0 .. b[j][2] - 1
          PROVE  b[j - m][2] = b[j][2] - m /\ b[j - m][3] = b[j][3]
      <4>1. m \in 0 .. a[j][2] - 1
        BY <3>2, <3>3
      <4>a. j - m \in 1 .. l
        <5>1. PICK q : q = a[j][2]
          OBVIOUS
        <5>2. q \in 1 .. j /\ m \in 0 .. q - 1
          BY <3>2, <4>1, <5>1
        <5>3. QED
          BY <5>2, <2>1, <1>7
      <4>2. b[j - m] = a[j - m]
        BY <4>a, <1>4
      <4>3. QED
        BY <4>1, <4>2, <3>1, <3>2 DEF Preceded
    <3>4. QED
      BY <3>2, <3>3 DEF Preceded
  <2>2. CASE \E i \in 1 .. k : j = l + i
    <3>1. PICK i \in 1 .. k : j = l + i
      BY <2>2
    <3>2. b[j][2] = i /\ b[j][3] = n
      BY <3>1, <1>5
    <3>a. i \in 1 .. j
      BY <3>1, <1>7
    <3>3. ASSUME NEW m \in 0 .. i - 1
          PROVE  b[j - m][2] = i - m /\ b[j - m][3] = n
      <4>1. i - m \in 1 .. k /\ j - m = l + (i - m)
        BY <3>1, <3>3, <1>7
      <4>2. QED
        BY <4>1, <1>5
    <3>4. QED
      BY <3>a, <3>2, <3>3 DEF Preceded
  <2>3. QED
    BY <2>1, <2>2, <1>8
<1>a. \A x : x \in WholeIds(a) <=> \E j \in 1 .. l : a[j][1] = x /\ a[j][2] = a[j][3]
  BY WholeUnits DEF l, WholeIn
<1>b. \A x : x \in WholeIds(b) <=> \E j \in 1 .. l + k : b[j][1] = x /\ b[j][2] = b[j][3]
  <2>1. \A x : x \in WholeIds(b) <=> \E j \in 1 .. Len(b) : b[j][1] = x /\ b[j][2] = b[j][3]
    BY <1>9, WholeUnits DEF WholeIn
  <2>2. QED
    BY <2>1, <1>3
<1>10. ASSUME NEW x, x \in WholeIds(b) PROVE x \in WholeIds(a) \/ x \in Added(id, n, k)
  <2>1. PICK j \in 1 .. l + k : b[j][1] = x /\ b[j][2] = b[j][3]
    BY <1>10, <1>b
  <2>2. CASE j \in 1 .. l
    <3>1. b[j] = a[j]
      BY <2>2, <1>4
    <3>2. a[j][1] = x /\ a[j][2] = a[j][3]
      BY <2>1, <3>1
    <3>3. QED
      BY <3>2, <2>2, <1>a
  <2>3. CASE \E i \in 1 .. k : j = l + i
    <3>1. PICK i \in 1 .. k : j = l + i
      BY <2>3
    <3>2. i = n /\ x = id
      BY <3>1, <2>1, <1>5
    <3>3. k = n
      BY <3>2
    <3>4. QED
      BY <3>2, <3>3 DEF Added
  <2>4. QED
    BY <2>2, <2>3, <1>8
<1>11. ASSUME NEW x, x \in WholeIds(a) PROVE x \in WholeIds(b)
  <2>1. PICK j \in 1 .. l : a[j][1] = x /\ a[j][2] = a[j][3]
    BY <1>11, <1>a
  <2>2. b[j] = a[j]
    BY <1>4
  <2>3. j \in 1 .. l + k
    BY <1>7
  <2>4. b[j][1] = x /\ b[j][2] = b[j][3]
    BY <2>1, <2>2
  <2>5. QED
    BY <2>3, <2>4, <1>b
<1>12. ASSUME NEW x, x \in Added(id, n, k) PROVE x \in WholeIds(b)
  <2>1. x = id /\ k = n
    BY <1>12 DEF Added
  <2>2. k \in 1 .. k /\ l + k \in 1 .. l + k
    BY <1>7
  <2>3. b[l + k][1] = x /\ b[l + k][2] = b[l + k][3]
    BY <2>1, <2>2, <1>5
  <2>4. QED
    BY <2>2, <2>3, <1>b
<1>13. QED
  BY <1>9, <1>10, <1>11, <1>12 DEF WholeAlso

\* Store::open takes the torn record at the end of a file, and no whole one.
LEMMA RepairCuts ==
    ASSUME NEW a, Shape(a)
    PROVE  Shape(Repaired(a)) /\ WholeIds(Repaired(a)) = WholeIds(a)
<1>1. CASE ~TornTail(a)
  BY <1>1 DEF Repaired
<1>2. CASE TornTail(a)
  <2> DEFINE l == Len(a)
             w == a[l][2]
             b == SubSeq(a, 1, l - w)
  <2>1. /\ a \in Seq(Unit) /\ l \in Nat /\ DOMAIN a = 1 .. l
        /\ \A j \in 1 .. l : a[j] \in Unit /\ a[j][2] \in Nat /\ a[j][3] \in Nat
    BY FileUnits
  <2>2. l \in 1 .. l /\ w < a[l][3]
    BY <1>2, <2>1, EmptySeq DEF TornTail, Last
  <2>3. Preceded(a, l)
    BY <2>2 DEF Shape
  <2>4. w \in 1 .. l /\ \A m \in 0 .. w - 1 : a[l - m][2] = w - m /\ a[l - m][3] = a[l][3]
    BY <2>3 DEF Preceded
  <2>5. Repaired(a) = b
    BY <1>2 DEF Repaired, Last
  <2>6. /\ b \in Seq(Unit) /\ Len(b) = l - w /\ l - w \in 0 .. l - 1
        /\ \A i \in 1 .. l - w : b[i] = a[i]
    <3> HIDE DEF w, l
    <3>1. l - w \in Int /\ l - w \in 0 .. l - 1
      BY <2>1, <2>4
    <3>2. \A i \in 1 .. l - w : a[i] \in Unit
      BY <2>1, <3>1
    <3>3. /\ b \in Seq(Unit) /\ Len(b) = IF 1 <= l - w THEN l - w - 1 + 1 ELSE 0
          /\ \A i \in 1 .. l - w - 1 + 1 : b[i] = a[1 + i - 1]
      BY <3>1, <3>2, SubSeqProperties
    <3>4. QED
      BY <3>1, <3>3
  <2>7. \A x : x \in WholeIds(a) <=> \E j \in 1 .. l : a[j][1] = x /\ a[j][2] = a[j][3]
    BY WholeUnits DEF WholeIn
  <2>8. PICK z : z = a[l][3]
    OBVIOUS
  <2>a. z \in Nat /\ w < z
    BY <2>1, <2>2, <2>8
  <2> HIDE DEF b, w, l
  <2>9. Shape(b)
    <3> SUFFICES ASSUME NEW j \in 1 .. l - w PROVE Preceded(b, j)
      BY <2>6 DEF Shape
    <3>1. j \in 1 .. l /\ b[j] = a[j]
      BY <2>1, <2>6
    <3>2. Preceded(a, j)
      BY <3>1 DEF Shape, l
    <3>3. a[j][2] \in 1 .. j
      BY <3>2 DEF Preceded
    <3>4. ASSUME NEW m \in 0 .. b[j][2] - 1
          PROVE  b[j - m][2] = b[j][2] - m /\ b[j - m][3] = b[j][3]
      <4>1. m \in 0 .. a[j][2] - 1 /\ j - m \in 1 .. l - w
        BY <3>1, <3>3, <3>4, <2>6
      <4>2. b[j - m] = a[j - m]
        BY <4>1, <2>6
      <4>3. QED
        BY <4>1, <4>2, <3>1, <3>2 DEF Preceded
    <3>5. QED
      BY <3>1, <3>3, <3>4 DEF Preceded
  <2>b. \A x : x \in WholeIds(b) <=> \E j \in 1 .. l - w : b[j][1] = x /\ b[j][2] = b[j][3]
    <3>1. \A x : x \in WholeIds(b) <=> \E j \in 1 .. Len(b) : b[j][1] = x /\ b[j][2] = b[j][3]
      BY <2>9, WholeUnits DEF WholeIn
    <3>2. QED
      BY <3>1, <2>6
  <2>10. ASSUME NEW x, x \in WholeIds(b) PROVE x \in WholeIds(a)
    <3>1. PICK j \in 1 .. l - w : b[j][1] = x /\ b[j][2] = b[j][3]
      BY <2>10, <2>b
    <3>2. j \in 1 .. l /\ b[j] = a[j]
      BY <2>1, <2>6
    <3>3. QED
      BY <3>1, <3>2, <2>7
  <2>11. ASSUME NEW x, x \in WholeIds(a) PROVE x \in WholeIds(b)
    <3>1. PICK j \in 1 .. l : a[j][1] = x /\ a[j][2] = a[j][3]
      BY <2>11, <2>7
    <3>2. ASSUME j \notin 1 .. l - w PROVE FALSE
      <4>1. l - j \in 0 .. w - 1 /\ l - (l - j) = j /\ w - (l - j) \in Int /\ w - (l - j) <= w
        BY <3>2, <2>1, <2>4
      <4>2. a[j][2] = w - (l - j) /\ a[j][3] = z
        BY <4>1, <2>4, <2>8
      <4>3. w \in Nat
        BY <2>4, <2>1
      <4>4. QED
        BY <4>1, <4>2, <4>3, <3>1, <2>a
    <3>3. QED
      BY <3>1, <3>2, <2>6, <2>b
  <2>12. QED
    BY <2>5, <2>9, <2>10, <2>11
<1>3. QED
  BY <1>1, <1>2

-----------------------------------------------------------------------------
(* The inductive invariant.                                                *)

TypeInv ==
    /\ appends \in Nat /\ failed \in BOOLEAN
    /\ server \in {"down", "restoring", "opening", "up", "stopping"}
    /\ writer # NoAppend =>
           /\ writer = [at |-> writer.at, id |-> writer.id, width |-> writer.width]
           /\ writer.at \in 1 .. Len(SyncFiles) /\ writer.id \in Nat
           /\ writer.width \in Nat \ {0}

\* A file the sync task uploads exists.
SyncInv ==
    /\ sync = [pc |-> sync.pc, i |-> sync.i, size |-> sync.size, sizes |-> sync.sizes,
               synced |-> sync.synced, last |-> sync.last]
    /\ sync.i \in 0 .. Len(SyncFiles)
    /\ sync.pc \in {"stat", "upload"} => sync.i # 0
    /\ sync.pc = "upload" => Running /\ SyncFiles[sync.i] \in DOMAIN local

\* Files are made of records, of which crashes may have cut the end.
DataInv ==
    \A f \in DataFiles :
        /\ f \in DOMAIN local => Shape(local[f])
        /\ f \in DOMAIN objects => Shape(objects[f])

\* The append in progress is whole in the files before the one it writes to.
ServerInv ==
    /\ server \in {"up", "stopping"} => DOMAIN local = Names
    /\ writer # NoAppend =>
           /\ server \in {"up", "stopping"}
           /\ \A i \in 1 .. Len(SyncFiles) :
                  i < writer.at => writer.id \in WholeIds(local[SyncFiles[i]])

\* Of two directories: what the one has whole, the other has.
Covers(dir, other) ==
    \A f \in DataFiles : f \in DOMAIN dir =>
        f \in DOMAIN other /\ \A id \in WholeIds(dir[f]) : id \in WholeIds(other[f])
\* Of a restore: what is not to be fetched any more was downloaded.
Fetching ==
    \A f \in DataFiles : f \in DOMAIN objects /\ f \notin toFetch =>
        f \in DOMAIN local /\ local[f] = objects[f]

WholeKept == \A id \in whole : Has(objects, id)
BackupInv ==
    ~failed =>
        /\ WholeKept
        /\ Running \/ (server = "down" /\ HasLocalData) => Covers(objects, local)
        /\ server = "restoring" => Fetching
\* The heads of the disk lead to records, but while it is restored.
HeadsInv == ~failed /\ ~ahead /\ server # "restoring" => HeadsLead(local)

S3Inv == TypeInv /\ SyncInv /\ DataInv /\ ServerInv /\ BackupInv /\ HeadsInv

-----------------------------------------------------------------------------
(* Facts about the files and the invariant.                                *)

\* The files: heads.tbl is the last.
LEMMA FileFacts ==
    /\ Len(SyncFiles) \in Nat \ {0}
    /\ \A i \in 1 .. Len(SyncFiles) : SyncFiles[i] \in DataFiles
    /\ \A f \in DataFiles : \E i \in 1 .. Len(SyncFiles) : f = SyncFiles[i]
    /\ Heads = SyncFiles[Len(SyncFiles)] /\ Heads \in DataFiles
    /\ \A i \in 1 .. Len(SyncFiles) : SyncFiles[i] = Heads => i = Len(SyncFiles)
    /\ DataFiles \subseteq Names /\ RegistryFile \notin DataFiles /\ RegistryFile \in Names
<1>1. Len(SyncFiles) \in Nat \ {0} /\ DOMAIN SyncFiles = 1 .. Len(SyncFiles)
  BY SyncFilesAssumption, EmptySeq, LenProperties
<1>2. /\ \A i \in 1 .. Len(SyncFiles) : SyncFiles[i] \in DataFiles
      /\ \A f \in DataFiles : \E i \in 1 .. Len(SyncFiles) : f = SyncFiles[i]
  BY <1>1 DEF DataFiles, ToSet
<1>3. Heads = SyncFiles[Len(SyncFiles)] /\ Len(SyncFiles) \in 1 .. Len(SyncFiles)
  BY <1>1 DEF Heads, Last
<1>4. \A i \in 1 .. Len(SyncFiles) : SyncFiles[i] = Heads => i = Len(SyncFiles)
  BY <1>1, <1>3, SyncFilesAssumption
<1>5. DataFiles \subseteq Names /\ RegistryFile \notin DataFiles /\ RegistryFile \in Names
  BY SyncFilesAssumption DEF DataFiles, Names
<1>6. QED
  BY <1>1, <1>2, <1>3, <1>4, <1>5

\* An append is in a directory that covers one that has it.
LEMMA HasCovered ==
    ASSUME NEW dir, NEW other, Covers(dir, other), NEW id, Has(dir, id)
    PROVE  Has(other, id)
BY DEF Has, Covers, DataFiles

\* Coverage is transitive.
LEMMA CoversOn ==
    ASSUME NEW dir, NEW mid, NEW other, Covers(dir, mid), Covers(mid, other)
    PROVE  Covers(dir, other)
BY DEF Covers

\* The heads lead to records still if the records are there and the heads are the
\* old ones, or of an append that is whole.
LEMMA HeadsLeadOn ==
    ASSUME NEW dir, NEW other, HeadsLead(dir), Covers(dir, other),
           Heads \in DOMAIN other =>
               \A id \in WholeIds(other[Heads]) :
                   \/ Heads \in DOMAIN dir /\ id \in WholeIds(dir[Heads])
                   \/ id = Junk[1] \/ Has(other, id)
    PROVE  HeadsLead(other)
<1> SUFFICES ASSUME Heads \in DOMAIN other, NEW id \in WholeIds(other[Heads]), id # Junk[1]
             PROVE  Has(other, id)
  BY DEF HeadsLead
<1>1. CASE Heads \in DOMAIN dir /\ id \in WholeIds(dir[Heads])
  <2>1. Has(dir, id)
    BY <1>1 DEF HeadsLead
  <2>2. QED
    BY <2>1, HasCovered
<1>2. QED
  BY <1>1

\* The invariant gives the property.
LEMMA InvServes ==
    ASSUME S3Inv PROVE SyncedServed
<1> SUFFICES ASSUME server = "up", ~failed
             PROVE  (\A id \in whole : Has(local, id)) /\ (ahead \/ HeadsLead(local))
  BY DEF SyncedServed
<1>1. WholeKept /\ Covers(objects, local)
  BY DEF S3Inv, BackupInv, Running
<1>2. \A id \in whole : Has(local, id)
  BY <1>1, HasCovered DEF WholeKept
<1>3. QED
  BY <1>2 DEF S3Inv, HeadsInv

-----------------------------------------------------------------------------
(* The steps of the sync task.                                             *)

\* A step that changes the sync task, and the history of the backup, only.
LEMMA SyncTaskStep ==
    ASSUME S3Inv, UNCHANGED <<local, objects, writer, appends, server, toFetch, failed, ahead>>,
           SyncInv', \A id \in whole' : id \in whole \/ Has(objects, id)
    PROVE  S3Inv'
<1>1. DataInv'
  BY DEF S3Inv, DataInv
<1>2. TypeInv'
  BY DEF S3Inv, TypeInv
<1>3. ServerInv'
  BY DEF S3Inv, ServerInv
<1>4. WholeKept => WholeKept'
  BY DEF WholeKept, Has
<1>5. BackupInv'
  BY <1>4 DEF S3Inv, BackupInv, Running, HasLocalData, Fetching, Covers
<1>6. HeadsInv'
  BY DEF S3Inv, HeadsInv, HeadsLead, Has
<1>7. QED
  BY <1>1, <1>2, <1>3, <1>5, <1>6 DEF S3Inv

\* The sync task goes to the next file or to the registry.
LEMMA NextFileOK ==
    ASSUME SyncInv, sync.pc \in {"stat", "upload"}
    PROVE  /\ NextFile = [pc |-> NextFile.pc, i |-> NextFile.i, size |-> sync.size,
                          sizes |-> sync.sizes, synced |-> sync.synced, last |-> sync.last]
           /\ NextFile.i \in 1 .. Len(SyncFiles) /\ NextFile.pc \in {"stat", "registry"}
<1>1. sync.i \in 1 .. Len(SyncFiles) /\ Len(SyncFiles) \in Nat
  BY FileFacts DEF SyncInv
<1>2. CASE sync.i < Len(SyncFiles)
  <2>1. NextFile = [pc |-> "stat", i |-> sync.i + 1, size |-> sync.size,
                    sizes |-> sync.sizes, synced |-> sync.synced, last |-> sync.last]
    BY <1>2 DEF NextFile, SyncInv
  <2>2. sync.i + 1 \in 1 .. Len(SyncFiles)
    BY <1>1, <1>2
  <2>3. QED
    BY <2>1, <2>2
<1>3. CASE ~(sync.i < Len(SyncFiles))
  <2>1. NextFile = [pc |-> "registry", i |-> sync.i, size |-> sync.size,
                    sizes |-> sync.sizes, synced |-> sync.synced, last |-> sync.last]
    BY <1>3 DEF NextFile, SyncInv
  <2>2. QED
    BY <1>1, <2>1
<1>4. QED
  BY <1>2, <1>3

\* A pass begins.
LEMMA TickKeeps ==
    ASSUME S3Inv, Tick PROVE S3Inv'
<1>1. PICK last : sync' = [pc |-> "stat", i |-> 1, size |-> 0, sizes |-> saved,
                           synced |-> FALSE, last |-> last]
  BY DEF Tick, AtTick
<1>2. SyncInv'
  BY <1>1, FileFacts DEF SyncInv
<1>3. QED
  BY <1>2, SyncTaskStep DEF Tick, SyncStep, disk, bucket

\* The size of a file is taken.
LEMMA StatKeeps ==
    ASSUME S3Inv, Stat PROVE S3Inv'
<1> DEFINE f == SyncFiles[sync.i]
<1>1. SyncInv /\ sync.pc = "stat" /\ Running /\ server' = server /\ local' = local
  BY DEF S3Inv, Stat, SyncStep, disk
<1>2. CASE f \in DOMAIN local /\ Grown(f, Len(local[f]))
  <2>1. sync' = [pc |-> "upload", i |-> sync.i, size |-> Len(local[f]), sizes |-> sync.sizes,
                 synced |-> sync.synced, last |-> sync.last]
    BY <1>1, <1>2 DEF Stat, SyncInv
  <2>2. SyncInv'
    BY <1>1, <1>2, <2>1 DEF SyncInv, Running
  <2>3. QED
    BY <2>2, SyncTaskStep DEF Stat, SyncStep, disk, bucket
<1>3. CASE ~(f \in DOMAIN local /\ Grown(f, Len(local[f])))
  <2>1. sync' = NextFile
    BY <1>3 DEF Stat
  <2>2. SyncInv'
    BY <1>1, <2>1, NextFileOK DEF SyncInv
  <2>3. QED
    BY <2>2, SyncTaskStep DEF Stat, SyncStep, disk, bucket
<1>4. QED
  BY <1>2, <1>3

\* An upload fails.
LEMMA UploadFailsKeeps ==
    ASSUME S3Inv, UploadFails PROVE S3Inv'
<1>1. SyncInv /\ sync.pc = "upload" /\ sync' = NextFile
  BY DEF S3Inv, UploadFails
<1>2. SyncInv'
  BY <1>1, NextFileOK DEF SyncInv
<1>3. QED
  BY <1>2, SyncTaskStep DEF UploadFails, SyncStep, disk, bucket

\* A pass ends.
LEMMA PassEndedOK ==
    ASSUME sync' = PassEnded PROVE SyncInv'
<1>1. PICK pc \in {"done", "tick"} :
          sync' = [pc |-> pc, i |-> 0, size |-> 0, sizes |-> NoSizes,
                   synced |-> FALSE, last |-> FALSE]
  BY DEF PassEnded, AtTick
<1>2. QED
  BY <1>1, FileFacts DEF SyncInv

\* A pass is given up.
LEMMA AbortKeeps ==
    ASSUME S3Inv, Abort PROVE S3Inv'
BY PassEndedOK, SyncTaskStep DEF Abort, SyncStep, disk, bucket

\* A manifest makes what the bucket has part of the backup.
LEMMA UploadManifestKeeps ==
    ASSUME S3Inv, UploadManifest PROVE S3Inv'
<1>1. SyncInv'
  <2>1. CASE sync' = PassEnded
    BY <2>1, PassEndedOK
  <2>2. CASE sync' = [sync EXCEPT !.pc = "save"]
    <3>1. SyncInv
      BY DEF S3Inv
    <3>2. sync' = [pc |-> "save", i |-> sync.i, size |-> sync.size, sizes |-> sync.sizes,
                   synced |-> sync.synced, last |-> sync.last]
      BY <2>2, <3>1 DEF SyncInv
    <3>3. QED
      BY <3>1, <3>2 DEF SyncInv
  <2>3. QED
    BY <2>1, <2>2 DEF UploadManifest
<1>2. \A id \in whole' : id \in whole \/ Has(objects, id)
  BY DEF UploadManifest
<1>3. QED
  BY <1>1, <1>2, SyncTaskStep DEF UploadManifest, SyncStep, disk

\* The sizes are saved, or are not.
LEMMA SaveKeeps ==
    ASSUME S3Inv, SaveState \/ SaveFails PROVE S3Inv'
BY PassEndedOK, SyncTaskStep DEF SaveState, SaveFails, SyncStep, bucket

\* An upload of a file that is on the disk: the bucket then has what the disk has.
LEMMA UploadStep ==
    ASSUME S3Inv, Running, NEW f \in DOMAIN local, objects' = Holding(objects, f, local[f]),
           UNCHANGED <<local, writer, appends, server, toFetch, failed, ahead, whole>>, SyncInv'
    PROVE  S3Inv'
<1>1. /\ DOMAIN objects' = {f} \union DOMAIN objects /\ objects'[f] = local[f]
      /\ \A g \in DOMAIN objects : g # f => objects'[g] = objects[g]
  BY DEF Holding
<1>2. /\ \A g \in DataFiles : g \in DOMAIN objects' =>
             \/ g \in DOMAIN local /\ objects'[g] = local[g]
             \/ g \in DOMAIN objects /\ objects'[g] = objects[g]
  BY <1>1
<1>3. TypeInv' /\ ServerInv'
  BY DEF S3Inv, TypeInv, ServerInv
<1>4. DataInv'
  BY <1>2 DEF S3Inv, DataInv
<1>5. BackupInv'
  <2> SUFFICES ASSUME ~failed PROVE WholeKept' /\ Covers(objects, local)'
    BY DEF BackupInv, Running
  <2>1. WholeKept /\ Covers(objects, local)
    BY DEF S3Inv, BackupInv
  <2>2. Covers(objects, objects')
    BY <1>1, <2>1 DEF Covers
  <2>3. WholeKept'
    BY <2>1, <2>2, HasCovered DEF WholeKept
  <2>4. Covers(objects', local)
    BY <1>2, <2>1 DEF Covers
  <2>5. QED
    BY <2>3, <2>4
<1>6. HeadsInv'
  BY DEF S3Inv, HeadsInv, HeadsLead, Has
<1>7. QED
  BY <1>3, <1>4, <1>5, <1>6 DEF S3Inv

\* One of the files is uploaded.
LEMMA UploadKeeps ==
    ASSUME S3Inv, Upload PROVE S3Inv'
<1> DEFINE f == SyncFiles[sync.i]
<1>1. /\ SyncInv /\ sync.pc = "upload" /\ Running /\ f \in DOMAIN local
      /\ sync' = Recorded(NextFile, f, sync.size)
  BY DEF S3Inv, Upload, SyncInv
<1>2. PICK pc \in {"stat", "registry"}, i \in 1 .. Len(SyncFiles) :
          NextFile = [pc |-> pc, i |-> i, size |-> sync.size,
                      sizes |-> sync.sizes, synced |-> sync.synced, last |-> sync.last]
  BY <1>1, NextFileOK
<1>a. sync' = [pc |-> pc, i |-> i, size |-> sync.size,
               sizes |-> sync'.sizes, synced |-> TRUE, last |-> sync.last]
  BY <1>1, <1>2 DEF Recorded
<1>3. SyncInv'
  BY <1>a, <1>2 DEF SyncInv
<1>4. QED
  BY <1>1, <1>3, UploadStep DEF Upload, Put, SyncStep, disk

\* The registry is uploaded.
LEMMA SyncRegistryKeeps ==
    ASSUME S3Inv, SyncRegistry PROVE S3Inv'
<1>1. /\ SyncInv /\ Running
      /\ UNCHANGED <<local, writer, appends, server, toFetch, failed, ahead, whole>>
  BY DEF S3Inv, SyncRegistry, SyncStep, Put, disk
<1>2. CASE RegistryChanged
  <2>1. /\ RegistryFile \in DOMAIN local
        /\ objects' = Holding(objects, RegistryFile, local[RegistryFile])
        /\ sync' = [pc |-> "manifest", i |-> sync.i, size |-> sync.size,
                    sizes |-> sync'.sizes, synced |-> TRUE, last |-> sync.last]
    BY <1>1, <1>2 DEF SyncRegistry, RegistryChanged, Put, Recorded, SyncInv
  <2>2. SyncInv'
    BY <1>1, <2>1 DEF SyncInv
  <2>3. QED
    BY <1>1, <2>1, <2>2, UploadStep
<1>3. CASE ~RegistryChanged
  <2>1. /\ objects' = objects
        /\ sync' = [pc |-> "manifest", i |-> sync.i, size |-> sync.size,
                    sizes |-> sync.sizes, synced |-> sync.synced, last |-> sync.last]
    BY <1>1, <1>3 DEF SyncRegistry, SyncInv, bucket
  <2>2. SyncInv'
    BY <1>1, <2>1 DEF SyncInv
  <2>3. QED
    BY <1>1, <2>1, <2>2, SyncTaskStep
<1>4. QED
  BY <1>2, <1>3

-----------------------------------------------------------------------------
(* The steps of the store and the registry.                                *)

\* What the disk has grows, the bucket stays as it is.
LEMMA BackupGrows ==
    ASSUME S3Inv, UNCHANGED <<objects, whole>>, Covers(local, local'), Running, ~failed
    PROVE  WholeKept' /\ Covers(objects, local)'
<1>1. WholeKept /\ Covers(objects, local)
  BY DEF S3Inv, BackupInv
<1>2. Covers(objects, local')
  BY <1>1, CoversOn
<1>3. QED
  BY <1>1, <1>2 DEF WholeKept, Has, Covers

\* An append begins.
LEMMA AppendBeginsKeeps ==
    ASSUME S3Inv, NEW n \in 1 .. 2, AppendBegins(n) PROVE S3Inv'
<1>1. /\ appends \in Nat /\ server \in {"up", "stopping"}
      /\ writer' = [at |-> 1, id |-> appends + 1, width |-> n] /\ appends' = appends + 1
      /\ UNCHANGED <<local, objects, server, toFetch, sync, failed, ahead, whole>>
  BY DEF S3Inv, TypeInv, AppendBegins, disk, bucket, history
<1>2. TypeInv'
  <2>1. 1 \in 1 .. Len(SyncFiles) /\ appends + 1 \in Nat /\ n \in Nat \ {0}
    BY <1>1, FileFacts
  <2>2. /\ writer' = [at |-> writer'.at, id |-> writer'.id, width |-> writer'.width]
        /\ writer'.at = 1 /\ writer'.id = appends + 1 /\ writer'.width = n
    BY <1>1
  <2>3. QED
    BY <1>1, <2>1, <2>2 DEF S3Inv, TypeInv
<1>3. SyncInv' /\ DataInv'
  BY <1>1 DEF S3Inv, SyncInv, DataInv, Running
<1>4. ServerInv'
  <2>1. writer'.at = 1 /\ \A i \in 1 .. Len(SyncFiles) : ~(i < 1)
    BY <1>1, FileFacts
  <2>2. QED
    BY <1>1, <2>1 DEF S3Inv, ServerInv
<1>5. BackupInv' /\ HeadsInv'
  BY <1>1 DEF S3Inv, BackupInv, WholeKept, HeadsInv, HeadsLead, Has, Covers, Running
<1>6. QED
  BY <1>2, <1>3, <1>4, <1>5 DEF S3Inv

\* Something is added to the file of the store that is written to.
AddsTo(f, id, n, k) ==
    /\ writer # NoAppend /\ f = SyncFiles[writer.at]
    /\ local' = [local EXCEPT ![f] = @ \o Units(id, n, 1, k)] /\ UNCHANGED objects
Written(f, id, n, k) ==
    /\ DataInv' /\ DOMAIN local = Names /\ DOMAIN local' = Names /\ Covers(local, local')
    /\ WholeIds(local'[f]) = WholeIds(local[f]) \union Added(id, n, k)
    /\ \A g \in DataFiles : g # f => local'[g] = local[g]

\* What is added leaves the records of the file in place.
LEMMA FileWritten ==
    ASSUME S3Inv, NEW f, NEW id \in Nat, NEW n \in Nat, NEW k \in 1 .. n, AddsTo(f, id, n, k)
    PROVE  Written(f, id, n, k)
<1> USE DEF AddsTo
<1>1. writer.at \in 1 .. Len(SyncFiles) /\ DOMAIN local = Names
  BY DEF S3Inv, TypeInv, ServerInv
<1>2. f \in DataFiles /\ f \in DOMAIN local /\ DataFiles \subseteq DOMAIN local
  BY <1>1, FileFacts
<1>3. /\ DOMAIN local' = DOMAIN local /\ local'[f] = local[f] \o Units(id, n, 1, k)
      /\ \A g \in DOMAIN local : g # f => local'[g] = local[g]
  BY <1>2
<1>4. Shape(local[f])
  BY <1>2 DEF S3Inv, DataInv
<1>5. Shape(local'[f]) /\ WholeIds(local'[f]) = WholeIds(local[f]) \union Added(id, n, k)
  <2>1. PICK a, b : a = local[f] /\ b = local'[f]
    OBVIOUS
  <2>2. Shape(a) /\ Longer(a, b, id, n, k)
    BY <2>1, <1>3, <1>4 DEF Longer
  <2>3. Shape(b) /\ WholeAlso(a, b, Added(id, n, k))
    BY <2>2, RecordAdded
  <2>4. QED
    BY <2>1, <2>3 DEF WholeAlso
<1>6. DataInv'
  BY <1>2, <1>3, <1>5 DEF S3Inv, DataInv
<1>7. Covers(local, local')
  BY <1>2, <1>3, <1>5 DEF Covers
<1>8. QED
  BY <1>1, <1>2, <1>3, <1>5, <1>6, <1>7 DEF Written

\* An append writes its record to one file.
LEMMA AppendWritesKeeps ==
    ASSUME S3Inv, AppendWrites PROVE S3Inv'
<1> DEFINE f == SyncFiles[writer.at]
           n == Width(f, writer.width)
<1>1. /\ writer # NoAppend /\ server \in {"up", "stopping"} /\ appends \in Nat
      /\ writer = [at |-> writer.at, id |-> writer.id, width |-> writer.width]
      /\ writer.at \in 1 .. Len(SyncFiles) /\ writer.id \in Nat
      /\ writer.width \in Nat \ {0}
      /\ UNCHANGED <<objects, server, toFetch, sync, appends, failed, ahead, whole>>
  BY DEF AppendWrites, S3Inv, TypeInv, ServerInv, bucket, bounds, history
<1>2. /\ local' = [local EXCEPT ![f] = @ \o Units(writer.id, n, 1, n)]
      /\ writer' = IF writer.at = Len(SyncFiles) THEN NoAppend ELSE [writer EXCEPT !.at = @ + 1]
  BY DEF AppendWrites, RecordOf
<1>3. n \in Nat /\ n \in 1 .. n
  BY <1>1 DEF Width
<1>4. \/ writer' = NoAppend
      \/ /\ writer' = [at |-> writer.at + 1, id |-> writer.id, width |-> writer.width]
         /\ writer.at + 1 \in 1 .. Len(SyncFiles)
  <2>1. CASE writer.at = Len(SyncFiles)
    BY <2>1, <1>2
  <2>2. CASE writer.at # Len(SyncFiles)
    <3>1. writer' = [at |-> writer.at + 1, id |-> writer.id, width |-> writer.width]
      BY <2>2, <1>1, <1>2
    <3>2. writer.at + 1 \in 1 .. Len(SyncFiles)
      BY <2>2, <1>1, FileFacts
    <3>3. QED
      BY <3>1, <3>2
  <2>3. QED
    BY <2>1, <2>2
<1>a. f = SyncFiles[writer.at] /\ f \in DataFiles
  BY <1>1, FileFacts
<1> HIDE DEF f, n
<1>5. /\ DataInv' /\ DOMAIN local = Names /\ DOMAIN local' = Names /\ Covers(local, local')
      /\ WholeIds(local'[f]) = WholeIds(local[f]) \union Added(writer.id, n, n)
      /\ \A g \in DataFiles : g # f => local'[g] = local[g]
  <2>1. PICK id, w, g : id = writer.id /\ w = n /\ g = f
    OBVIOUS
  <2>2. id \in Nat /\ w \in Nat /\ w \in 1 .. w /\ AddsTo(g, id, w, w)
    BY <2>1, <1>1, <1>2, <1>3, <1>a DEF AddsTo
  <2>3. Written(g, id, w, w)
    BY <2>2, FileWritten
  <2>4. QED
    BY <2>1, <2>3 DEF Written
<1>b. WholeIds(local'[f]) = WholeIds(local[f]) \union {writer.id}
  BY <1>5 DEF Added
<1>6. TypeInv'
  BY <1>1, <1>4 DEF S3Inv, TypeInv
<1>7. SyncInv'
  BY <1>1, <1>5 DEF S3Inv, SyncInv, Running
<1>c. \A i \in 1 .. Len(SyncFiles) :
          i < writer.at \/ i = writer.at => writer.id \in WholeIds(local'[SyncFiles[i]])
  <2> SUFFICES ASSUME NEW i \in 1 .. Len(SyncFiles), i < writer.at \/ i = writer.at
               PROVE  writer.id \in WholeIds(local'[SyncFiles[i]])
    OBVIOUS
  <2>1. CASE i = writer.at
    BY <2>1, <1>a, <1>b
  <2>2. CASE i < writer.at
    <3>1. writer.id \in WholeIds(local[SyncFiles[i]])
      BY <2>2, <1>1 DEF S3Inv, ServerInv
    <3>2. SyncFiles[i] \in DataFiles /\ SyncFiles[i] \in DOMAIN local
      BY <1>5, FileFacts
    <3>3. QED
      BY <3>1, <3>2, <1>5 DEF Covers
  <2>3. QED
    BY <2>1, <2>2
<1>8. ServerInv'
  <2>1. ASSUME writer' # NoAppend, NEW i \in 1 .. Len(SyncFiles), i < writer'.at
        PROVE  writer'.id \in WholeIds(local'[SyncFiles[i]])
    <3>1. writer'.id = writer.id /\ writer'.at = writer.at + 1
      BY <2>1, <1>4
    <3>2. i < writer.at \/ i = writer.at
      BY <2>1, <3>1, <1>1
    <3>3. QED
      BY <3>1, <3>2, <1>c
  <2>2. QED
    BY <1>1, <1>5, <2>1 DEF ServerInv
<1>9. BackupInv'
  <2>1. Running
    BY <1>1 DEF Running
  <2>2. QED
    BY <1>1, <1>5, <2>1, BackupGrows DEF BackupInv
<1>d. HeadsInv'
  <2> SUFFICES ASSUME HeadsLead(local) PROVE HeadsLead(local')
    BY <1>1 DEF S3Inv, HeadsInv
  <2>1. CASE f # Heads
    BY <2>1, <1>5, FileFacts, HeadsLeadOn
  <2>2. CASE f = Heads
    <3>1. writer.at = Len(SyncFiles)
      BY <2>2, <1>1, <1>a, FileFacts
    <3>2. \A i \in 1 .. Len(SyncFiles) : i < writer.at \/ i = writer.at
      BY <3>1, FileFacts
    <3>3. \A g \in DataFiles : g \in DOMAIN local' /\ writer.id \in WholeIds(local'[g])
      BY <3>2, <1>c, <1>5, FileFacts
    <3>4. Has(local', writer.id)
      BY <3>3 DEF Has, DataFiles
    <3>5. \A id \in WholeIds(local'[Heads]) : id \in WholeIds(local[Heads]) \/ Has(local', id)
      BY <3>4, <2>2, <1>b
    <3>6. QED
      BY <3>5, <1>5, FileFacts, HeadsLeadOn
  <2>3. QED
    BY <2>1, <2>2
<1>10. QED
  BY <1>5, <1>6, <1>7, <1>8, <1>9, <1>d DEF S3Inv

\* The registry writes to its own file.
LEMMA RegistryWritesKeeps ==
    ASSUME S3Inv, RegistryWrites PROVE S3Inv'
<1>1. /\ appends \in Nat /\ server \in {"up", "stopping"} /\ appends' = appends + 1
      /\ DOMAIN local = Names
      /\ UNCHANGED <<objects, server, toFetch, sync, writer, failed, ahead, whole>>
  BY DEF RegistryWrites, S3Inv, TypeInv, ServerInv, bucket, history
<1>2. DOMAIN local' = DOMAIN local /\ \A f \in DataFiles : local'[f] = local[f]
  BY <1>1, FileFacts DEF RegistryWrites
<1>3. Covers(local, local')
  BY <1>1, <1>2, FileFacts DEF Covers
<1>4. TypeInv'
  <2>1. appends' \in Nat
    BY <1>1
  <2>2. QED
    BY <1>1, <2>1 DEF S3Inv, TypeInv
<1>5. DataInv'
  BY <1>1, <1>2 DEF S3Inv, DataInv
<1>6. SyncInv'
  BY <1>1, <1>2 DEF S3Inv, SyncInv, Running
<1>7. ServerInv'
  BY <1>1, <1>2, FileFacts DEF S3Inv, ServerInv
<1>8. BackupInv'
  <2>1. Running
    BY <1>1 DEF Running
  <2>2. QED
    BY <1>1, <1>3, <2>1, BackupGrows DEF BackupInv
<1>9. HeadsInv'
  <2> SUFFICES ASSUME HeadsLead(local) PROVE HeadsLead(local')
    BY <1>1 DEF S3Inv, HeadsInv
  <2>1. QED
    BY <1>1, <1>2, <1>3, FileFacts, HeadsLeadOn
<1>10. QED
  BY <1>4, <1>5, <1>6, <1>7, <1>8, <1>9 DEF S3Inv

\* Store::open cuts torn records, and only those.
LEMMA OpenStoreKeeps ==
    ASSUME S3Inv, OpenStore PROVE S3Inv'
<1> DEFINE old == [f \in Names |-> IF f \in DOMAIN local THEN local[f] ELSE <<>>]
<1>1. /\ server = "opening" /\ server' = "up" /\ Running
      /\ local' = [f \in Names |-> Repaired(old[f])]
      /\ UNCHANGED <<objects, toFetch, sync, writer, appends, failed, ahead, whole>>
  BY DEF OpenStore, bucket, bounds, Running
<1>2. DOMAIN local' = Names /\ \A f \in DataFiles : local'[f] = Repaired(old[f])
  BY <1>1, FileFacts
<1>3. \A f \in DataFiles : /\ f \in DOMAIN local => old[f] = local[f]
                           /\ f \notin DOMAIN local => old[f] = <<>>
  BY FileFacts
<1> HIDE DEF old
<1>4. Shape(<<>>) /\ WholeIds(<<>>) = {}
  <2>1. Shape(<<>>)
    BY EmptySeq DEF Shape
  <2>2. \A j \in 1 .. Len(<<>>) : FALSE
    BY EmptySeq
  <2>3. QED
    BY <2>1, <2>2, WholeUnits DEF WholeIn
<1>5. \A f \in DataFiles : Shape(old[f])
  BY <1>3, <1>4 DEF S3Inv, DataInv
<1>6. \A f \in DataFiles : Shape(local'[f]) /\ WholeIds(local'[f]) = WholeIds(old[f])
  BY <1>2, <1>5, RepairCuts
<1>7. Covers(local, local')
  BY <1>2, <1>3, <1>6, FileFacts DEF Covers
<1>8. TypeInv'
  BY <1>1 DEF S3Inv, TypeInv
<1>9. SyncInv'
  <2>1. sync.pc = "upload" => SyncFiles[sync.i] \in DOMAIN local'
    BY <1>2, FileFacts DEF S3Inv, SyncInv
  <2>2. QED
    BY <1>1, <2>1 DEF S3Inv, SyncInv, Running
<1>10. DataInv'
  BY <1>1, <1>6 DEF S3Inv, DataInv
<1>11. ServerInv'
  <2>1. writer = NoAppend
    BY <1>1 DEF S3Inv, ServerInv
  <2>2. QED
    BY <1>1, <1>2, <2>1 DEF ServerInv
<1>12. BackupInv'
  BY <1>1, <1>7, BackupGrows DEF BackupInv
<1>13. HeadsInv'
  <2> SUFFICES ASSUME HeadsLead(local) PROVE HeadsLead(local')
    BY <1>1 DEF S3Inv, HeadsInv
  <2>1. \A id \in WholeIds(local'[Heads]) : Heads \in DOMAIN local /\ id \in WholeIds(local[Heads])
    BY <1>3, <1>4, <1>6, FileFacts
  <2>2. QED
    BY <2>1, <1>7, HeadsLeadOn
<1>14. QED
  BY <1>8, <1>9, <1>10, <1>11, <1>12, <1>13 DEF S3Inv

-----------------------------------------------------------------------------
(* The steps of maybe_restore.                                             *)

\* A server that starts: nothing but its state, the files it is to fetch and
\* what is known of the restore changes.
LEMMA StartStep ==
    ASSUME S3Inv, server = "down", server' \in {"opening", "restoring"},
           UNCHANGED <<local, objects, sync, writer, appends, whole, ahead>>,
           failed' \in BOOLEAN, failed => failed',
           ~failed' /\ server' = "opening" => Covers(objects, local),
           ~failed' /\ server' = "restoring" => DOMAIN objects \subseteq toFetch'
    PROVE  S3Inv'
<1>1. writer = NoAppend /\ sync.pc # "upload"
  BY DEF S3Inv, ServerInv, SyncInv, Running
<1>2. DataInv'
  BY DEF S3Inv, DataInv
<1>3. TypeInv'
  BY DEF S3Inv, TypeInv
<1>4. SyncInv' /\ ServerInv'
  BY <1>1 DEF S3Inv, SyncInv, ServerInv
<1>5. BackupInv'
  <2>1. ~failed' => WholeKept'
    BY DEF S3Inv, BackupInv, WholeKept, Has
  <2>2. ~failed' /\ server' = "restoring" => Fetching'
    BY DEF Fetching
  <2>3. Covers(objects, local) => Covers(objects, local)'
    BY DEF Covers
  <2>4. QED
    BY <2>1, <2>2, <2>3 DEF BackupInv, Running
<1>6. HeadsInv'
  BY DEF S3Inv, HeadsInv, HeadsLead, Has
<1>7. QED
  BY <1>2, <1>3, <1>4, <1>5, <1>6 DEF S3Inv

\* A server starts with its data, with what the manifest names or with nothing.
LEMMA StartKeeps ==
    ASSUME S3Inv, StartWithData \/ StartRestore \/ FetchManifestFails PROVE S3Inv'
<1> USE DEF StartWith, disk, bucket
<1>1. failed \in BOOLEAN /\ (DOMAIN objects = {} => Covers(objects, local))
  BY DEF S3Inv, TypeInv, Covers
<1>2. CASE StartWithData
  <2>1. ~failed => Covers(objects, local)
    BY <1>2 DEF StartWithData, S3Inv, BackupInv
  <2>2. QED
    BY <1>1, <1>2, <2>1, StartStep DEF StartWithData
<1>3. CASE StartRestore
  <2>1. failed' = (failed \/ ~(DOMAIN objects \subseteq toFetch'))
    BY <1>3 DEF StartRestore, Misses
  <2>2. /\ server = "down" /\ UNCHANGED <<local, objects, sync, writer, appends, whole, ahead>>
        /\ (server' = "opening" /\ toFetch' = {}) \/ server' = "restoring"
    BY <1>3 DEF StartRestore
  <2>3. ~failed' /\ server' = "opening" => Covers(objects, local)
    BY <1>1, <2>1, <2>2
  <2>4. ~failed' => DOMAIN objects \subseteq toFetch'
    BY <2>1
  <2>5. failed' \in BOOLEAN /\ (failed => failed')
    BY <2>1
  <2>6. server' \in {"opening", "restoring"}
    BY <2>2
  <2>7. QED
    BY <2>2, <2>3, <2>4, <2>5, <2>6, StartStep
<1>4. CASE FetchManifestFails
  <2>1. failed' = (failed \/ ~(DOMAIN objects \subseteq {}))
    BY <1>4 DEF FetchManifestFails, Misses
  <2>2. ~failed' => Covers(objects, local)
    BY <1>1, <2>1
  <2>3. failed' \in BOOLEAN /\ (failed => failed')
    BY <2>1
  <2>4. /\ server = "down" /\ server' = "opening"
        /\ UNCHANGED <<local, objects, sync, writer, appends, whole, ahead>>
    BY <1>4 DEF FetchManifestFails
  <2>5. QED
    BY <2>2, <2>3, <2>4, StartStep
<1>5. QED
  BY <1>2, <1>3, <1>4

\* A download fails: nothing is claimed of the backup any more.
LEMMA DownloadFailsKeeps ==
    ASSUME S3Inv, NEW f, DownloadFails(f) PROVE S3Inv'
<1>1. /\ server = "restoring" /\ server' \in {"opening", "restoring"} /\ failed' = TRUE
      /\ UNCHANGED <<local, objects, sync, writer, appends, whole>>
  BY DEF DownloadFails, Fetched, bucket
<1>2. writer = NoAppend /\ sync.pc # "upload"
  BY <1>1 DEF S3Inv, ServerInv, SyncInv, Running
<1>3. QED
  BY <1>1, <1>2 DEF S3Inv, TypeInv, SyncInv, ServerInv, DataInv, BackupInv, HeadsInv

\* A download brings the object as it is; the restore ends with the last.
LEMMA DownloadKeeps ==
    ASSUME S3Inv, NEW f, Download(f) PROVE S3Inv'
<1>1. /\ server = "restoring" /\ f \in DOMAIN objects /\ toFetch' = toFetch \ {f}
      /\ server' = IF toFetch' = {} THEN "opening" ELSE server
      /\ local' = Holding(local, f, objects[f]) /\ appends \in Nat
      /\ ahead' = (ahead \/ (toFetch' = {} /\ ~HeadsLead(local')))
      /\ UNCHANGED <<objects, sync, writer, appends, whole, failed>>
  BY DEF Download, Fetched, bucket, S3Inv, TypeInv
<1>2. /\ DOMAIN local' = {f} \union DOMAIN local /\ local'[f] = objects[f]
      /\ \A g \in DOMAIN local : g # f => local'[g] = local[g]
  BY <1>1 DEF Holding
<1>3. writer = NoAppend /\ sync.pc # "upload" /\ server' \in {"opening", "restoring"}
  BY <1>1 DEF S3Inv, ServerInv, SyncInv, Running
<1>4. DataInv'
  BY <1>1, <1>2 DEF S3Inv, DataInv
<1>5. TypeInv' /\ SyncInv' /\ ServerInv'
  BY <1>1, <1>3 DEF S3Inv, TypeInv, SyncInv, ServerInv
<1>6. BackupInv'
  <2> SUFFICES ASSUME ~failed
               PROVE  /\ WholeKept' /\ Fetching'
                      /\ server' = "opening" => Covers(objects, local)'
    BY <1>1, <1>3 DEF BackupInv, Running
  <2>1. WholeKept'
    BY <1>1 DEF S3Inv, BackupInv, WholeKept, Has
  <2>2. Fetching
    BY <1>1 DEF S3Inv, BackupInv
  <2>3. \A g \in DataFiles : g \in DOMAIN objects /\ g \notin toFetch' =>
            g \in DOMAIN local' /\ local'[g] = objects[g]
    BY <2>2, <1>1, <1>2 DEF Fetching
  <2>4. Fetching'
    BY <2>3, <1>1 DEF Fetching
  <2>5. server' = "opening" => Covers(objects, local)'
    BY <2>3, <1>1 DEF Covers
  <2>6. QED
    BY <2>1, <2>4, <2>5
<1>7. HeadsInv'
  BY <1>1 DEF HeadsInv
<1>8. QED
  BY <1>4, <1>5, <1>6, <1>7 DEF S3Inv

-----------------------------------------------------------------------------
(* The end of the process.                                                 *)

\* What the end of the process leaves of the record it cuts short.
LEMMA PartOfRecord ==
    ASSUME writer # NoAppend, TypeInv, NEW f, NEW units \in PartOf(f)
    PROVE  \E id \in Nat, n \in Nat : \E k \in 1 .. n :
               /\ units = Units(id, n, 1, k)
               /\ \A x \in Added(id, n, k) : x = Junk[1]
<1>1. CASE units = <<Junk>>
  <2>1. Units(0, 1, 1, 1) = <<Junk>>
    <3>1. 1 - 1 + 1 = 1 /\ \A i \in 1 .. 1 : 1 + i - 1 = 1
      OBVIOUS
    <3>2. Units(0, 1, 1, 1) = [i \in 1 .. 1 |-> <<0, 1, 1>>]
      BY <3>1 DEF Units
    <3>3. QED
      BY <3>2 DEF Junk
  <2>2. Junk[1] = 0
    BY DEF Junk
  <2>3. \A x \in Added(0, 1, 1) : x = Junk[1]
    BY <2>2 DEF Added
  <2>4. 0 \in Nat /\ 1 \in Nat /\ 1 \in 1 .. 1
    OBVIOUS
  <2>5. QED
    BY <1>1, <2>1, <2>3, <2>4
<1>2. CASE units # <<Junk>>
  <2> DEFINE n == Width(f, writer.width)
  <2>1. PICK k \in 1 .. n - 1 : units = Units(writer.id, n, 1, k)
    BY <1>2 DEF PartOf
  <2>2. n \in Nat /\ writer.id \in Nat
    BY DEF Width, TypeInv
  <2> HIDE DEF n
  <2>3. k \in 1 .. n /\ k # n
    BY <2>2
  <2>4. \A x \in Added(writer.id, n, k) : x = Junk[1]
    BY <2>3 DEF Added
  <2>5. QED
    BY <2>1, <2>2, <2>3, <2>4
<1>3. QED
  BY <1>1, <1>2

\* The process ends; what it leaves of a record adds nothing whole.
LEMMA EndsKeeps ==
    ASSUME S3Inv, Ends, failed' = (failed \/ server = "restoring"), server # "down"
    PROVE  S3Inv'
<1>1. /\ server' = "down" /\ sync' = AtTick /\ writer' = NoAppend /\ appends \in Nat
      /\ UNCHANGED <<objects, appends, whole, ahead>>
  BY DEF Ends, bucket, S3Inv, TypeInv
<1>2. /\ DataInv' /\ Covers(local, local')
      /\ Heads \in DOMAIN local' =>
             \A id \in WholeIds(local'[Heads]) :
                 (Heads \in DOMAIN local /\ id \in WholeIds(local[Heads])) \/ id = Junk[1]
  <2>1. CASE UNCHANGED local
    BY <1>1, <2>1 DEF S3Inv, DataInv, Covers
  <2>2. CASE ~UNCHANGED local
    <3>1. PICK f, units : /\ f = SyncFiles[writer.at] /\ units \in PartOf(f) /\ writer # NoAppend
                          /\ local' = [local EXCEPT ![f] = @ \o units]
      BY <2>2 DEF Ends
    <3>2. PICK id \in Nat, n \in Nat : \E k \in 1 .. n :
              units = Units(id, n, 1, k) /\ \A x \in Added(id, n, k) : x = Junk[1]
      BY <3>1, PartOfRecord DEF S3Inv
    <3>3. PICK k \in 1 .. n :
              units = Units(id, n, 1, k) /\ \A x \in Added(id, n, k) : x = Junk[1]
      BY <3>2
    <3>4. AddsTo(f, id, n, k)
      BY <1>1, <3>1, <3>3 DEF AddsTo
    <3>5. Written(f, id, n, k)
      BY <3>4, FileWritten
    <3>6. QED
      BY <3>3, <3>5, FileFacts DEF Written
  <2>3. QED
    BY <2>1, <2>2
<1>3. TypeInv' /\ ServerInv'
  BY <1>1 DEF S3Inv, TypeInv, ServerInv
<1>4. SyncInv'
  BY <1>1, FileFacts DEF SyncInv, AtTick
<1>5. ~failed' => Running /\ ~failed
  BY DEF S3Inv, TypeInv, Running
<1>6. BackupInv'
  BY <1>1, <1>2, <1>5, BackupGrows DEF BackupInv, Running
<1>7. HeadsInv'
  <2> SUFFICES ASSUME ~failed', ~ahead' PROVE HeadsLead(local')
    BY DEF HeadsInv
  <2>1. HeadsLead(local)
    BY <1>1, <1>5 DEF S3Inv, HeadsInv, Running
  <2>2. QED
    BY <2>1, <1>2, HeadsLeadOn
<1>8. QED
  BY <1>2, <1>3, <1>4, <1>6, <1>7 DEF S3Inv

\* A lost volume: the bucket alone remains, and nobody writes.
LEMMA LoseDiskKeeps ==
    ASSUME S3Inv, LoseDisk PROVE S3Inv'
<1>1. /\ server = "down" /\ DOMAIN local' = {} /\ appends \in Nat
      /\ UNCHANGED <<objects, server, toFetch, sync, writer, appends, whole, failed, ahead>>
  BY DEF LoseDisk, Empty, bucket, history, S3Inv, TypeInv
<1>2. writer = NoAppend /\ sync.pc # "upload"
  BY <1>1 DEF S3Inv, ServerInv, SyncInv, Running
<1>3. DataInv' /\ HeadsInv'
  BY <1>1 DEF S3Inv, DataInv, HeadsInv, HeadsLead
<1>4. TypeInv' /\ SyncInv' /\ ServerInv'
  BY <1>1, <1>2 DEF S3Inv, TypeInv, SyncInv, ServerInv
<1>5. BackupInv'
  BY <1>1 DEF S3Inv, BackupInv, WholeKept, Has, Running, HasLocalData
<1>6. QED
  BY <1>3, <1>4, <1>5 DEF S3Inv

\* A server begins to stop.
LEMMA ShutdownKeeps ==
    ASSUME S3Inv, Shutdown PROVE S3Inv'
<1>1. /\ server = "up" /\ server' = "stopping"
      /\ UNCHANGED <<local, objects, toFetch, sync, writer, appends, whole, failed, ahead>>
  BY DEF Shutdown, disk, bucket, history
<1>2. TypeInv' /\ SyncInv' /\ DataInv' /\ ServerInv'
  BY <1>1 DEF S3Inv, TypeInv, SyncInv, DataInv, ServerInv, Running
<1>3. BackupInv'
  BY <1>1 DEF S3Inv, BackupInv, WholeKept, Has, Running, Covers
<1>4. HeadsInv'
  BY <1>1 DEF S3Inv, HeadsInv, HeadsLead, Has
<1>5. QED
  BY <1>2, <1>3, <1>4 DEF S3Inv

-----------------------------------------------------------------------------
(* The theorem.                                                            *)

\* The invariant holds at first.
LEMMA InvInit ==
    ASSUME S3Init PROVE S3Inv
<1>1. DOMAIN local = {} /\ DOMAIN objects = {} /\ writer = NoAppend /\ server = "down"
  BY DEF S3Init, Empty
<1>2. TypeInv /\ ServerInv
  BY <1>1 DEF S3Init, TypeInv, ServerInv
<1>3. SyncInv
  BY FileFacts DEF S3Init, SyncInv, AtTick
<1>4. DataInv /\ HeadsInv
  BY <1>1 DEF DataInv, HeadsInv, HeadsLead
<1>5. BackupInv
  BY <1>1 DEF S3Init, BackupInv, WholeKept, Running, HasLocalData
<1>6. QED
  BY <1>2, <1>3, <1>4, <1>5 DEF S3Inv

\* A step of others changes nothing.
LEMMA InvStutter ==
    ASSUME S3Inv, UNCHANGED s3Vars PROVE S3Inv'
<1>1. UNCHANGED <<local, objects, writer, appends, server, toFetch, failed, ahead, sync, whole>>
  BY DEF s3Vars, disk, bucket, bounds, history
<1>2. SyncInv'
  BY <1>1 DEF S3Inv, SyncInv, Running
<1>3. QED
  BY <1>1, <1>2, SyncTaskStep

\* Every step keeps the invariant.
LEMMA InvNext ==
    ASSUME S3Inv, S3Next PROVE S3Inv'
<1>1. CASE Store
  BY <1>1, AppendBeginsKeeps, AppendWritesKeeps, RegistryWritesKeeps DEF Store
<1>2. CASE OpenStore
  BY <1>2, OpenStoreKeeps
<1>3. CASE Restore
  BY <1>3, StartKeeps, DownloadKeeps, DownloadFailsKeeps DEF Restore
<1>4. CASE SyncTask
  BY <1>4, TickKeeps, StatKeeps, UploadKeeps, UploadFailsKeeps, SyncRegistryKeeps,
     AbortKeeps, UploadManifestKeeps, SaveKeeps DEF SyncTask
<1>5. CASE Stops
  <2>1. CASE Crash
    BY <2>1, EndsKeeps DEF Crash
  <2>2. CASE Exit
    <3>1. failed' = (failed \/ server = "restoring") /\ server # "down" /\ Ends
      BY <2>2 DEF Exit, S3Inv, TypeInv
    <3>2. QED
      BY <3>1, EndsKeeps
  <2>3. QED
    BY <1>5, <2>1, <2>2, LoseDiskKeeps, ShutdownKeeps DEF Stops
<1>6. QED
  BY <1>1, <1>2, <1>3, <1>4, <1>5 DEF S3Next

\* do_sync, maybe_restore and main: a server that is up has the whole records of
\* every append that a manifest made part of the backup, and no head of its own
\* leads nowhere, whatever the files, the appends, the crashes and the torn
\* records, the lost volumes and the failed uploads; but for restores that did not
\* bring back all the bucket had or brought back heads that were ahead of the
\* turns, and for a heads.tbl that a crash misaligned.
THEOREM BackupServed == S3Spec => []SyncedServed
<1>1. S3Inv /\ [S3Next]_s3Vars => S3Inv'
  BY InvNext, InvStutter
<1>2. QED
  BY InvInit, InvServes, <1>1, PTL DEF S3Spec
===============================================================================

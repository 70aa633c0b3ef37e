------------------------------ MODULE Registry ------------------------------
(***************************************************************************)
(* The type registry (server/src/registry/mod.rs).  put_bundle merges a    *)
(* bundle into the maps the projection reads and only then validates the   *)
(* enum references and writes the file; open merges the files of the       *)
(* directory again, in the order read_dir gives them.  A HashMap has no    *)
(* order either, so a merge takes the enums, the types, their versions and *)
(* their tags in any order, and one that is refused leaves behind whatever *)
(* it had merged by then.                                                  *)
(*                                                                         *)
(* A bundle is [id, version, enums, types]: enums maps an enum to its      *)
(* labels, types maps <<type, version>> to [fields, renderer], fields maps *)
(* a tag to its FieldSpec [type, enum, rest], where rest stands for the    *)
(* name, the items and whatever else no tag is compared by.  A version or  *)
(* a tag that is not a number is a negative one.  Both the HTTP handlers   *)
(* and the projection hold the registry's mutex, so only a crash comes     *)
(* between the steps of one call.                                          *)
(***************************************************************************)
EXTENDS Naturals, FiniteSets, Functions

CONSTANTS
    Bundles,        \* the bundles that may be put
    FileOf(_),      \* bundle_filename: not injective, '/' ':' and '#' become '_'
    NoEnum,         \* a field without enum_ref
    NoRenderer,
    MaxFailures     \* bound: crashes and failed writes

\* RegistryBundle and its versions are records, registry_version is a u32.
ASSUME BundlesAssumption ==
    \A b \in Bundles :
        /\ DOMAIN b = {"id", "version", "enums", "types"} /\ b.version \in Nat
        /\ \A k \in DOMAIN b.types : DOMAIN b.types[k] = {"fields", "renderer"}

Torn == [torn |-> TRUE]     \* a file that is not a whole bundle
NoJob == [step |-> "none"]

VARIABLES
    enums, types, tags, bundles, lastBundle,    \* struct Registry
    files,       \* the directory: file name -> bundle
    process,     \* "down", "loading", "up", or "refused": open returned an error
    unread,      \* the files open has not read
    job,         \* the bundle being ingested and what is left to merge
    accepted,    \* history: the bundles answered Created
    failures

memory == <<enums, types, tags, bundles, lastBundle>>
regVars == <<memory, files, process, unread, job, accepted, failures>>

Nothing == [x \in {} |-> x]

\* HashMap::insert, and a file that is created or overwritten.
Inserted(m, d, v) == [x \in {d} \union DOMAIN m |-> IF x = d THEN v ELSE m[x]]

RegistryInit ==
    /\ enums = Nothing /\ types = Nothing /\ tags = Nothing
    /\ bundles = Nothing /\ lastBundle = {}
    /\ files = Nothing /\ process = "up" /\ unread = {}
    /\ job = NoJob /\ accepted = {} /\ failures = 0

-----------------------------------------------------------------------------
(* Ingesting a bundle.                                                     *)

Ingest(b) == [step |-> "merge", bundle |-> b, enums |-> DOMAIN b.enums,
              types |-> DOMAIN b.types, type |-> {}]

\* An error: put_bundle returns it and open fails with it.  Nothing of what
\* was merged is taken back.
Refuse ==
    /\ job' = NoJob
    /\ process' = IF process = "loading" THEN "refused" ELSE process
    /\ UNCHANGED <<files, unread, accepted, failures>>

Continue(j) ==
    /\ job' = j
    /\ UNCHANGED <<files, process, unread, accepted, failures>>

\* Mutant of PutBundle: the file is written before the bundle is ingested.
PutBundleWritesFirst(b) ==
    /\ process = "up" /\ job = NoJob /\ b.id \notin DOMAIN bundles
    /\ job' = Ingest(b) /\ files' = Inserted(files, FileOf(b), b)
    /\ UNCHANGED <<memory, process, unread, accepted, failures>>

\* put_bundle answers for an id it knows from memory: AlreadyExists for the
\* same bytes, an error for others.
PutBundle(b) ==
    /\ process = "up" /\ job = NoJob /\ b.id \notin DOMAIN bundles
    /\ Continue(Ingest(b)) /\ UNCHANGED memory

BadVersion ==
    /\ job.step = "merge" /\ job.bundle.version = 0
    /\ Refuse /\ UNCHANGED memory

MergeEnum(e) ==
    LET mapping == job.bundle.enums[e] IN
    /\ job.step = "merge" /\ job.bundle.version > 0
    /\ IF e \in DOMAIN enums /\ enums[e] # mapping
       THEN Refuse /\ UNCHANGED enums
       ELSE /\ Continue([job EXCEPT !.enums = @ \ {e}])
            /\ enums' = Inserted(enums, e, mapping)
    /\ UNCHANGED <<types, tags, bundles, lastBundle>>

\* The types come after the enums, the versions of one type together.
NextType(k) ==
    /\ job.step = "merge" /\ job.bundle.version > 0 /\ job.enums = {}
    /\ \/ job.type = {k[1]}
       \/ \A other \in job.types : job.type # {other[1]}

\* parse_version and normalize_version: the version and the tags are numbers.
Parsed(k, fields) == k[2] >= 0 /\ \A t \in DOMAIN fields : t >= 0
Parses(k) == Parsed(k, job.bundle.types[k].fields)

RefuseVersion(k) ==
    /\ NextType(k) /\ ~Parses(k)
    /\ Refuse /\ UNCHANGED memory

MergedType(k) == Continue([job EXCEPT !.types = @ \ {k}, !.type = {k[1]}])

\* Mutant of MergeKnownVersion: a known version takes the fields of the new bundle.
MergeKnownVersionReplaces(k) ==
    /\ NextType(k) /\ Parses(k) /\ k \in DOMAIN types
    /\ types' = [types EXCEPT ![k] = job.bundle.types[k]]
    /\ MergedType(k) /\ UNCHANGED <<enums, tags, bundles, lastBundle>>

\* A version that exists must have the same fields; only a renderer may be
\* added to it.
MergeKnownVersion(k) ==
    LET def == job.bundle.types[k] IN
    /\ NextType(k) /\ Parses(k) /\ k \in DOMAIN types
    /\ IF types[k].fields # def.fields
       THEN Refuse /\ UNCHANGED types
       ELSE /\ MergedType(k)
            /\ types' = IF types[k].renderer = NoRenderer
                        THEN [types EXCEPT ![k].renderer = def.renderer] ELSE types
    /\ UNCHANGED <<enums, tags, bundles, lastBundle>>

\* The signature of a tag holds for all versions of its type, seen so far, the
\* refused ones included; the rest of a field may change from one to the next.
Signature(field) == [type |-> field.type, enum |-> field.enum]
TagsOf(k) == {<<k[1], t>> : t \in DOMAIN job.bundle.types[k].fields}
Conflicts(k) ==
    {x \in TagsOf(k) : x \in DOMAIN tags /\ tags[x] # Signature(job.bundle.types[k].fields[x[2]])}
WithTags(k, new) ==
    [x \in new \union DOMAIN tags |->
        IF x \in DOMAIN tags THEN tags[x] ELSE Signature(job.bundle.types[k].fields[x[2]])]

MergeNewVersion(k) ==
    /\ NextType(k) /\ Parses(k) /\ k \notin DOMAIN types /\ Conflicts(k) = {}
    /\ types' = Inserted(types, k, job.bundle.types[k])
    /\ tags' = WithTags(k, TagsOf(k))
    /\ MergedType(k) /\ UNCHANGED <<enums, bundles, lastBundle>>

\* The tags visited before the conflicting one stay assigned.
RefuseTags(k) ==
    /\ NextType(k) /\ Parses(k) /\ k \notin DOMAIN types /\ Conflicts(k) # {}
    /\ \E seen \in SUBSET (TagsOf(k) \ Conflicts(k)) : tags' = WithTags(k, seen)
    /\ Refuse /\ UNCHANGED <<enums, types, bundles, lastBundle>>

\* The references of every type of the registry are checked, whichever bundle
\* brought it.
EnumsKnown(defs, known) ==
    \A k \in DOMAIN defs : \A t \in DOMAIN defs[k].fields :
        defs[k].fields[t].enum \in known \union {NoEnum}

Validate ==
    /\ job.step = "merge" /\ job.bundle.version > 0
    /\ job.enums = {} /\ job.types = {}
    /\ IF EnumsKnown(types, DOMAIN enums)
       THEN Continue([job EXCEPT !.step = "valid"]) ELSE Refuse
    /\ UNCHANGED memory

Remember(b) ==
    /\ bundles' = Inserted(bundles, b.id, b) /\ lastBundle' = {b.id}
    /\ UNCHANGED <<enums, types, tags>>

\* put_bundle after ingest_bundle: fs::write, then the answer Created.
WriteFile ==
    /\ job.step = "valid" /\ process = "up"
    /\ files' = Inserted(files, FileOf(job.bundle), job.bundle)
    /\ Remember(job.bundle)
    /\ accepted' = accepted \union {job.bundle} /\ job' = NoJob
    /\ UNCHANGED <<process, unread, failures>>

\* fs::write truncates the file and fails (a full disk): the error is returned.
WriteFails ==
    /\ job.step = "valid" /\ process = "up" /\ failures < MaxFailures
    /\ files' = Inserted(files, FileOf(job.bundle), Torn)
    /\ failures' = failures + 1 /\ job' = NoJob
    /\ UNCHANGED <<memory, process, unread, accepted>>

-----------------------------------------------------------------------------
(* Crash and restart.                                                      *)

\* The process is killed, in the middle of the fs::write or elsewhere.
Kill ==
    /\ process # "down" /\ failures < MaxFailures
    /\ process' = "down" /\ failures' = failures + 1
    /\ enums' = Nothing /\ types' = Nothing /\ tags' = Nothing
    /\ bundles' = Nothing /\ lastBundle' = {} /\ unread' = {} /\ job' = NoJob
    /\ \/ UNCHANGED files
       \/ /\ process = "up" /\ job.step = "valid"
          /\ files' = Inserted(files, FileOf(job.bundle), Torn)
    /\ UNCHANGED accepted

Open ==
    /\ process = "down"
    /\ process' = IF files = Nothing THEN "up" ELSE "loading"
    /\ unread' = DOMAIN files
    /\ UNCHANGED <<memory, files, job, accepted, failures>>

\* read_dir names the files in any order; what is not JSON ends open.
LoadFile(f) ==
    /\ process = "loading" /\ job = NoJob
    /\ IF files[f] = Torn
       THEN process' = "refused" /\ UNCHANGED <<unread, job>>
       ELSE job' = Ingest(files[f]) /\ unread' = unread \ {f} /\ UNCHANGED process
    /\ UNCHANGED <<memory, files, accepted, failures>>

Loaded ==
    /\ process = "loading" /\ job.step = "valid"
    /\ Remember(job.bundle) /\ job' = NoJob
    /\ process' = IF unread = {} THEN "up" ELSE "loading"
    /\ UNCHANGED <<files, unread, accepted, failures>>

IngestStep ==
    \/ BadVersion \/ Validate
    \/ \E e \in job.enums : MergeEnum(e)
    \/ \E k \in job.types :
           RefuseVersion(k) \/ MergeKnownVersion(k) \/ MergeNewVersion(k) \/ RefuseTags(k)

RegistryNext ==
    \/ \E b \in Bundles : PutBundle(b)
    \/ job # NoJob /\ (IngestStep \/ WriteFile \/ WriteFails \/ Loaded)
    \/ Kill \/ Open \/ \E f \in unread : LoadFile(f)

RegistrySpec == RegistryInit /\ [][RegistryNext]_regVars

-----------------------------------------------------------------------------
(* Properties.                                                             *)

\* ingest_bundle: whatever was put, refused or loaded before, two versions of
\* a type that are served never give a tag two meanings.
TagsAgree ==
    \A k, l \in DOMAIN types : k[1] = l[1] =>
        \A t \in DOMAIN types[k].fields \intersect DOMAIN types[l].fields :
            Signature(types[k].fields[t]) = Signature(types[l].fields[t])

\* A bundle whose file another one overwrote: bundle_filename is not injective.
Overwritten(b) == \E c \in accepted \ {b} : FileOf(c) = FileOf(b)

\* put_bundle and open: what was answered Created is served with its fields and
\* its enums whenever the server is up, after any number of refused bundles,
\* crashes and restarts, unless its file was taken by another bundle; and the
\* versions of a type agree on their tags.
AcceptedServed ==
    TagsAgree /\ (process = "up" => \A b \in accepted : Overwritten(b) \/
        /\ \A e \in DOMAIN b.enums : e \in DOMAIN enums /\ enums[e] = b.enums[e]
        /\ \A k \in DOMAIN b.types :
               k \in DOMAIN types /\ types[k].fields = b.types[k].fields)

\* open: a server that was stopped starts again, unless a crash or a full disk
\* tore a file, or a file's bundle uses an enum of another bundle.
StartsAgain ==
    process = "refused" =>
        \/ \E f \in DOMAIN files : files[f] = Torn
        \/ \E b \in Range(files) : ~EnumsKnown(b.types, DOMAIN b.enums)
=============================================================================

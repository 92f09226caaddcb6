----------------------------- MODULE StorageData -----------------------------
(***************************************************************************)
(* What the calls of packages/firebase_storage/tizen tell Dart of the      *)
(* objects of a bucket: the metadata of one object, through calls and      *)
(* through the events of tasks, and a list of objects, page by page.       *)
(***************************************************************************)
EXTENDS Naturals, SequencesExt, Nothing

CONSTANTS
  Metadata,     \* what Dart's SettableMetadata can be
  Sizes,        \* the sizes of files
  MaxChanges,   \* bound: how often the object is changed
  Objects,      \* the names below the listed reference, in the order of the SDK
  Folders,      \* those of them that are prefixes
  PageSizes     \* maxResults

\* A page token is a number of names, and no number is a missing key or a text.
ASSUME TokenAssumption == Null \notin Nat /\ Empty \notin Nat /\ Null # Empty
ASSUME ObjectsAssumption ==
  /\ Objects \in Seq(ToSet(Objects))
  /\ \A i, j \in 1 .. Len(Objects) : Objects[i] = Objects[j] => i = j
ASSUME PageSizesAssumption == PageSizes \subseteq Nat \ {0}

VARIABLES
  object,     \* the SDK's Metadata of the object, or Null
  changes,    \* how often it was changed
  set,        \* what Dart set of it
  metadata,   \* what getMetadata or updateMetadata told last, Null when it is old
  event,      \* the success event of the last task, Null when it is old
  page,       \* the pageToken Dart sends next, 0 when there is none
  listed      \* listed[n]: how often it was told the name n

storageData == <<object, changes, set, metadata, event, page, listed>>

Settable == {"cacheControl", "contentDisposition", "contentEncoding",
             "contentLanguage", "contentType"}

-----------------------------------------------------------------------------
(* The plugin's conversions.                                                *)

GetArg(map, key) == IF key \in DOMAIN map THEN map[key] ELSE Null

\* Mutant of ParseMetadata: two of the fields are mixed up.
ParseMetadataSwapped(m) ==
  [cache_control       |-> GetArg(m, "cacheControl"),
   content_disposition |-> GetArg(m, "contentEncoding"),
   content_encoding    |-> GetArg(m, "contentDisposition"),
   content_language    |-> GetArg(m, "contentLanguage"),
   content_type        |-> GetArg(m, "contentType"),
   custom_metadata     |-> IF GetArg(m, "customMetadata") = Null THEN << >>
                           ELSE m["customMetadata"]]

\* A key and a value of customMetadata that are no texts are left out; Dart sends texts.
ParseMetadata(m) ==
  [cache_control       |-> GetArg(m, "cacheControl"),
   content_disposition |-> GetArg(m, "contentDisposition"),
   content_encoding    |-> GetArg(m, "contentEncoding"),
   content_language    |-> GetArg(m, "contentLanguage"),
   content_type        |-> GetArg(m, "contentType"),
   custom_metadata     |-> IF GetArg(m, "customMetadata") = Null THEN << >>
                           ELSE m["customMetadata"]]

\* map[key] = value
Insert(map, key, value) ==
  [k \in DOMAIN map \cup {key} |-> IF k = key THEN value ELSE map[k]]

GetMetadataValue(o) ==
  [bucket |-> o.bucket, cacheControl |-> o.cache_control,
   contentDisposition |-> o.content_disposition,
   contentEncoding |-> o.content_encoding, contentLanguage |-> o.content_language,
   contentType |-> o.content_type, fullPath |-> o.path, generation |-> o.generation,
   metadataGeneration |-> o.metadata_generation, md5Hash |-> o.md5_hash,
   metageneration |-> o.metadata_generation, name |-> o.name, size |-> o.size_bytes,
   creationTimeMillis |-> o.creation_time, updatedTimeMillis |-> o.updated_time,
   customMetadata |-> o.custom_metadata]

GetSnapshotMap(path, transferred, total) ==
  [path |-> path, bytesTransferred |-> transferred, totalBytes |-> total]

\* The event of a task that read the object.
GetTaskEventValue(path, transferred, total) ==
  [snapshot |-> GetSnapshotMap(path, transferred, total)]

\* Mutant of GetPutTaskSuccessEventValue: one generation is taken for the other.
GetPutTaskSuccessEventGeneration(path, o) ==
  [snapshot |-> Insert(GetSnapshotMap(path, o.size_bytes, o.size_bytes), "metadata",
      [generation |-> o.generation, fullPath |-> o.path,
       cacheControl |-> o.cache_control, bucket |-> o.bucket,
       metadataGeneration |-> o.generation,
       updatedTimeMillis |-> o.updated_time, size |-> o.size_bytes,
       md5Hash |-> o.md5_hash, creationTimeMillis |-> o.creation_time,
       contentDisposition |-> o.content_disposition,
       contentEncoding |-> o.content_encoding, contentLanguage |-> o.content_language,
       contentType |-> o.content_type, customMetadata |-> o.custom_metadata])]

\* The event of a task that wrote the object, with its metadata.
GetPutTaskSuccessEventValue(path, o) ==
  [snapshot |-> Insert(GetSnapshotMap(path, o.size_bytes, o.size_bytes), "metadata",
      [generation |-> o.generation, fullPath |-> o.path,
       cacheControl |-> o.cache_control, bucket |-> o.bucket,
       metadataGeneration |-> o.metadata_generation,
       updatedTimeMillis |-> o.updated_time, size |-> o.size_bytes,
       md5Hash |-> o.md5_hash, creationTimeMillis |-> o.creation_time,
       contentDisposition |-> o.content_disposition,
       contentEncoding |-> o.content_encoding, contentLanguage |-> o.content_language,
       contentType |-> o.content_type, customMetadata |-> o.custom_metadata])]

\* Mutant of ParseListResult: an empty token is told as well.
ParseListResultAlways(result) ==
  [nextPageToken |-> result.token, items |-> result.items, prefixes |-> result.prefixes]

\* An empty token is left out of the map.
ParseListResult(result) ==
  [nextPageToken |-> IF result.token = Empty THEN Null ELSE result.token,
   items |-> result.items, prefixes |-> result.prefixes]

-----------------------------------------------------------------------------
(* The SDK.                                                                 *)

\* A text that is not set stays as it is, and so does a key of the custom metadata.
Keep(text, old) == IF text = Null THEN old ELSE text

Update(o, m, time) ==
  [o EXCEPT !.cache_control = Keep(m.cache_control, @),
            !.content_disposition = Keep(m.content_disposition, @),
            !.content_encoding = Keep(m.content_encoding, @),
            !.content_language = Keep(m.content_language, @),
            !.content_type = Keep(m.content_type, @),
            !.custom_metadata = m.custom_metadata @@ @,
            !.metadata_generation = @ + 1, !.updated_time = time]

\* An object that was just written; each text it has is one of a kind.
Written(size, time) ==
  [bucket |-> "bucket", path |-> "path", name |-> "name", md5_hash |-> "md5",
   size_bytes |-> size, generation |-> time, metadata_generation |-> 0,
   creation_time |-> time, updated_time |-> time, cache_control |-> Empty,
   content_disposition |-> Empty, content_encoding |-> Empty,
   content_language |-> Empty, content_type |-> Empty, custom_metadata |-> << >>]

\* A page token is the number of names that come before the page.
List(max, token) ==
  LET from  == IF token = Empty THEN 0 ELSE token
      to    == IF from + max < Len(Objects) THEN from + max ELSE Len(Objects)
      names == {Objects[i] : i \in from + 1 .. to}
  IN  [items |-> names \ Folders, prefixes |-> names \cap Folders,
       token |-> IF to = Len(Objects) THEN Empty ELSE to]

-----------------------------------------------------------------------------
(* The calls and tasks.                                                     *)

DartSets(old, m) ==
  [f \in Settable \cup {"customMetadata"} |->
    IF f = "customMetadata" THEN (IF GetArg(m, f) = Null THEN << >> ELSE m[f]) @@ old[f]
    ELSE Keep(GetArg(m, f), old[f])]

Unset == [f \in Settable \cup {"customMetadata"} |->
           IF f = "customMetadata" THEN << >> ELSE Empty]

\* A put task, with metadata.
PutFile(m, size) ==
  /\ changes < MaxChanges
  /\ changes' = changes + 1
  /\ object' = Update(Written(size, changes'), ParseMetadata(m), changes')
  /\ set' = DartSets(Unset, m)
  /\ event' = GetPutTaskSuccessEventValue("path", object')
  /\ metadata' = Null
  /\ UNCHANGED <<page, listed>>

WriteToFile ==
  /\ object # Null
  /\ event' = GetTaskEventValue("path", object.size_bytes, object.size_bytes)
  /\ UNCHANGED <<object, changes, set, metadata, page, listed>>

ReferenceUpdateMetadata(m) ==
  /\ object # Null
  /\ changes < MaxChanges
  /\ changes' = changes + 1
  /\ object' = Update(object, ParseMetadata(m), changes')
  /\ set' = DartSets(set, m)
  /\ metadata' = GetMetadataValue(object')
  /\ event' = Null
  /\ UNCHANGED <<page, listed>>

ReferenceGetMetadata ==
  /\ object # Null
  /\ metadata' = GetMetadataValue(object)
  /\ UNCHANGED <<object, changes, set, event, page, listed>>

Times(n, names) == IF n \in names THEN 1 ELSE 0

\* Dart asks for the next page until it gets no nextPageToken.
ReferenceList(max) ==
  /\ page # 0
  /\ LET result == ParseListResult(List(max, IF page = Null THEN Empty ELSE page))
     IN  /\ listed' = [n \in ToSet(Objects) |->
                        listed[n] + Times(n, result.items) + Times(n, result.prefixes)]
         /\ page' = IF result.nextPageToken = Null THEN 0 ELSE result.nextPageToken
  /\ UNCHANGED <<object, changes, set, metadata, event>>

StorageDataInit ==
  /\ object = Null /\ changes = 0 /\ set = Unset
  /\ metadata = Null /\ event = Null
  /\ page = Null /\ listed = [n \in ToSet(Objects) |-> 0]

StorageDataNext ==
  \/ \E m \in Metadata : ReferenceUpdateMetadata(m) \/ \E size \in Sizes : PutFile(m, size)
  \/ WriteToFile
  \/ ReferenceGetMetadata
  \/ \E max \in PageSizes : ReferenceList(max)

StorageDataSafety == StorageDataInit /\ [][StorageDataNext]_storageData

-----------------------------------------------------------------------------
(* Correctness.                                                             *)

\* What Dart set of an object, in however many calls, is what getMetadata and
\* updateMetadata tell it, field by field.
MetadataReadsBack == metadata # Null => \A f \in DOMAIN set : metadata[f] = set[f]

\* A put task's event tells of an object what getMetadata tells of it, and each
\* task's event its size: the two lists of fields in firebase_storage_utils.cc agree.
EventTellsMetadata ==
  event # Null /\ metadata # Null =>
    /\ event.snapshot.totalBytes = metadata.size
    /\ event.snapshot.path = metadata.fullPath
    /\ "metadata" \in DOMAIN event.snapshot =>
         \A f \in DOMAIN event.snapshot.metadata : event.snapshot.metadata[f] = metadata[f]

\* Page by page Dart gets each name below a reference once, and all of them in the
\* end, however many it asks for at a time.
ListIsComplete ==
  \A n \in ToSet(Objects) : listed[n] <= 1 /\ (page = 0 => listed[n] = 1)
=============================================================================

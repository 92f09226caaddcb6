-------------------------- MODULE StorageData_proofs --------------------------
(***************************************************************************)
(* Proofs about StorageData for any metadata, sizes, names and page sizes, *)
(* and any number of changes: what Dart is told of an object is what the   *)
(* SDK holds of it and what Dart set, and a list is complete.              *)
(***************************************************************************)
EXTENDS StorageData, TLAPS

\* The fields of the SDK's Metadata.
Fields == {"bucket", "path", "name", "md5_hash", "size_bytes", "generation",
           "metadata_generation", "creation_time", "updated_time", "cache_control",
           "content_disposition", "content_encoding", "content_language",
           "content_type", "custom_metadata"}

\* The SDK holds o, and what Dart set of it is st.
Holds(o, st) ==
  /\ o = [f \in Fields |-> o[f]]
  /\ o.path = "path"
  /\ DOMAIN st = Settable \cup {"customMetadata"}
  /\ o.cache_control = st["cacheControl"]
  /\ o.content_disposition = st["contentDisposition"]
  /\ o.content_encoding = st["contentEncoding"]
  /\ o.content_language = st["contentLanguage"]
  /\ o.content_type = st["contentType"]
  /\ o.custom_metadata = st["customMetadata"]

ObjectInv == object # Null => Holds(object, set)

\* Old metadata and events are of the object as it is.
ToldInv ==
  /\ metadata # Null => Holds(object, set) /\ metadata = GetMetadataValue(object)
  /\ event # Null =>
       \/ event = GetPutTaskSuccessEventValue("path", object)
       \/ event = GetTaskEventValue("path", object.size_bytes, object.size_bytes)

\* How many names come before the next page: these were told, and no others.
Before == IF page = Null THEN 0 ELSE IF page = 0 THEN Len(Objects) ELSE page

ListInv ==
  /\ page \in {Null} \cup 0 .. Len(Objects)
  /\ \A i \in 1 .. Len(Objects) : listed[Objects[i]] = IF i <= Before THEN 1 ELSE 0

IInv == ObjectInv /\ ToldInv /\ ListInv

-----------------------------------------------------------------------------
LEMMA WrittenHolds ==
  ASSUME NEW size, NEW time PROVE Holds(Written(size, time), Unset)
BY DEF Holds, Written, Unset, Settable, Fields

\* A change, converted and made, leaves what Dart set.
LEMMA UpdateHolds ==
  ASSUME NEW o, NEW st, NEW m, NEW time, Holds(o, st)
  PROVE  Holds(Update(o, ParseMetadata(m), time), DartSets(st, m))
BY DEF Holds, Update, DartSets, ParseMetadata, Settable, Fields

LEMMA TellsAsSet ==
  ASSUME NEW o, NEW st, Holds(o, st), NEW f \in DOMAIN st
  PROVE  GetMetadataValue(o)[f] = st[f]
BY DEF Holds, GetMetadataValue, Settable

LEMMA EventTells ==
  ASSUME NEW o, NEW st, Holds(o, st), NEW e,
         \/ e = GetPutTaskSuccessEventValue("path", o)
         \/ e = GetTaskEventValue("path", o.size_bytes, o.size_bytes)
  PROVE  /\ e.snapshot.totalBytes = GetMetadataValue(o).size
         /\ e.snapshot.path = GetMetadataValue(o).fullPath
         /\ "metadata" \in DOMAIN e.snapshot =>
              \A f \in DOMAIN e.snapshot.metadata :
                e.snapshot.metadata[f] = GetMetadataValue(o)[f]
<1>1. CASE e = GetTaskEventValue("path", o.size_bytes, o.size_bytes)
  BY <1>1 DEF Holds, GetTaskEventValue, GetSnapshotMap, GetMetadataValue
<1>2. CASE e = GetPutTaskSuccessEventValue("path", o)
  BY <1>2 DEF Holds, GetPutTaskSuccessEventValue, GetSnapshotMap, Insert, GetMetadataValue
<1> QED BY <1>1, <1>2

-----------------------------------------------------------------------------
(* The invariant.                                                           *)

LEMMA InitInv == StorageDataInit => IInv
<1> SUFFICES ASSUME StorageDataInit PROVE IInv
  OBVIOUS
<1>1. ObjectInv /\ ToldInv
  BY DEF StorageDataInit, ObjectInv, ToldInv
<1>2. \A i \in 1 .. Len(Objects) : Objects[i] \in ToSet(Objects)
  BY ObjectsAssumption DEF ToSet
<1>3. ListInv
  BY <1>2, ObjectsAssumption DEF StorageDataInit, ListInv, Before
<1> QED BY <1>1, <1>3 DEF IInv

LEMMA PutFileInv ==
  ASSUME IInv, NEW m \in Metadata, NEW size \in Sizes, PutFile(m, size)
  PROVE  IInv'
<1>1. Holds(object', set')
  BY WrittenHolds, UpdateHolds DEF PutFile
<1>2. ObjectInv' /\ ToldInv'
  BY <1>1 DEF PutFile, ObjectInv, ToldInv
<1>3. ListInv'
  BY DEF IInv, ListInv, Before, PutFile
<1> QED BY <1>2, <1>3 DEF IInv

LEMMA WriteToFileInv ==
  ASSUME IInv, WriteToFile
  PROVE  IInv'
<1>1. ObjectInv' /\ ToldInv'
  BY DEF IInv, ObjectInv, ToldInv, WriteToFile
<1>2. ListInv'
  BY DEF IInv, ListInv, Before, WriteToFile
<1> QED BY <1>1, <1>2 DEF IInv

LEMMA UpdateMetadataInv ==
  ASSUME IInv, NEW m \in Metadata, ReferenceUpdateMetadata(m)
  PROVE  IInv'
<1>1. Holds(object', set')
  BY UpdateHolds DEF IInv, ObjectInv, ReferenceUpdateMetadata
<1>2. ObjectInv' /\ ToldInv'
  BY <1>1 DEF ReferenceUpdateMetadata, ObjectInv, ToldInv
<1>3. ListInv'
  BY DEF IInv, ListInv, Before, ReferenceUpdateMetadata
<1> QED BY <1>2, <1>3 DEF IInv

LEMMA GetMetadataInv ==
  ASSUME IInv, ReferenceGetMetadata
  PROVE  IInv'
<1>1. ObjectInv' /\ ToldInv'
  BY DEF IInv, ObjectInv, ToldInv, ReferenceGetMetadata
<1>2. ListInv'
  BY DEF IInv, ListInv, Before, ReferenceGetMetadata
<1> QED BY <1>1, <1>2 DEF IInv

\* A page tells the names from Before to Before', each as an item or as a prefix.
LEMMA ReferenceListInv ==
  ASSUME IInv, NEW max \in PageSizes, ReferenceList(max)
  PROVE  IInv'
<1> USE TokenAssumption
<1> DEFINE token  == IF page = Null THEN Empty ELSE page
           from   == IF token = Empty THEN 0 ELSE token
           to     == IF from + max < Len(Objects) THEN from + max ELSE Len(Objects)
           names  == {Objects[i] : i \in from + 1 .. to}
           result == ParseListResult(List(max, token))
<1>0. /\ Len(Objects) \in Nat /\ max \in Nat \ {0}
      /\ page \in {Null} \cup 0 .. Len(Objects) /\ page # 0
  BY ObjectsAssumption, PageSizesAssumption DEF IInv, ListInv, ReferenceList
<1>1. from = Before /\ from \in 0 .. Len(Objects)
  BY <1>0 DEF Before
<1>2. to \in from .. Len(Objects) /\ (to = from => to = Len(Objects))
  BY <1>0, <1>1
<1>3. /\ result.items = names \ Folders /\ result.prefixes = names \cap Folders
      /\ result.nextPageToken = IF to = Len(Objects) THEN Null ELSE to
  BY <1>0, <1>1, <1>2 DEF ParseListResult, List
<1>4. /\ listed' = [n \in ToSet(Objects) |->
                     listed[n] + Times(n, result.items) + Times(n, result.prefixes)]
      /\ page' = IF result.nextPageToken = Null THEN 0 ELSE result.nextPageToken
      /\ UNCHANGED <<object, changes, set, metadata, event>>
  BY DEF ReferenceList
<1> HIDE DEF token, from, to, names, result
<1>5. page' = (IF to = Len(Objects) THEN 0 ELSE to) /\ Before' = to
  BY <1>0, <1>1, <1>2, <1>3, <1>4 DEF Before
<1>6. ASSUME NEW i \in 1 .. Len(Objects)
      PROVE  listed'[Objects[i]] = IF i <= to THEN 1 ELSE 0
  <2>1. Objects[i] \in ToSet(Objects)
    BY ObjectsAssumption DEF ToSet
  <2>2. Objects[i] \in names <=> i \in from + 1 .. to
    BY ObjectsAssumption, <1>0, <1>1, <1>2 DEF names
  <2>3. Times(Objects[i], result.items) + Times(Objects[i], result.prefixes)
          = IF i \in from + 1 .. to THEN 1 ELSE 0
    BY <1>3, <2>2 DEF Times
  <2>4. listed[Objects[i]] = IF i <= from THEN 1 ELSE 0
    BY <1>1 DEF IInv, ListInv
  <2>5. listed'[Objects[i]] = listed[Objects[i]]
          + Times(Objects[i], result.items) + Times(Objects[i], result.prefixes)
    BY <1>4, <2>1
  <2> QED BY <1>0, <1>1, <1>2, <2>3, <2>4, <2>5 DEF Times
<1>7. ListInv'
  BY <1>0, <1>1, <1>2, <1>5, <1>6 DEF ListInv
<1>8. ObjectInv' /\ ToldInv'
  BY <1>4 DEF IInv, ObjectInv, ToldInv
<1> QED BY <1>7, <1>8 DEF IInv

LEMMA NextInv == IInv /\ [StorageDataNext]_storageData => IInv'
<1> SUFFICES ASSUME IInv, [StorageDataNext]_storageData PROVE IInv'
  OBVIOUS
<1>1. CASE UNCHANGED storageData
  BY <1>1 DEF storageData, IInv, ObjectInv, ToldInv, ListInv, Before
<1> QED BY <1>1, PutFileInv, WriteToFileInv, UpdateMetadataInv, GetMetadataInv, ReferenceListInv
        DEF StorageDataNext

-----------------------------------------------------------------------------
\* The invariant of StorageData.
THEOREM Invariance == StorageDataSafety => []IInv
<1> QED BY InitInv, NextInv, PTL DEF StorageDataSafety

\* What Dart set of an object, in however many calls, is what it is told of it.
THEOREM MetadataIsReadBack == StorageDataSafety => []MetadataReadsBack
<1>1. IInv => MetadataReadsBack
  BY TellsAsSet DEF IInv, ObjectInv, ToldInv, MetadataReadsBack
<1> QED BY <1>1, Invariance, PTL

\* An event of a task and the metadata agree.
THEOREM EventsTellMetadata == StorageDataSafety => []EventTellsMetadata
<1>1. IInv => EventTellsMetadata
  BY EventTells DEF IInv, ObjectInv, ToldInv, EventTellsMetadata
<1> QED BY <1>1, Invariance, PTL

\* Whatever the sizes of the pages, each name is told once.
THEOREM ListsAreComplete == StorageDataSafety => []ListIsComplete
<1>1. ASSUME IInv PROVE ListIsComplete
  <2>1. ASSUME NEW n \in ToSet(Objects)
        PROVE  \E i \in 1 .. Len(Objects) : n = Objects[i]
    BY ObjectsAssumption DEF ToSet
  <2>2. ASSUME NEW i \in 1 .. Len(Objects)
        PROVE  listed[Objects[i]] <= 1 /\ (page = 0 => listed[Objects[i]] = 1)
    <3>1. listed[Objects[i]] = IF i <= Before THEN 1 ELSE 0
      BY <1>1 DEF IInv, ListInv
    <3>2. page = 0 => i <= Before
      BY TokenAssumption DEF Before
    <3> QED BY <3>1, <3>2
  <2> QED BY <2>1, <2>2 DEF ListIsComplete
<1> QED BY <1>1, Invariance, PTL
=============================================================================

--------------------------- MODULE PigeonMessages ---------------------------
(***************************************************************************)
(* The messages of firebase_core between Dart and the SDK: the options of  *)
(* an App as Pigeon's classes, as the list that goes through the channel   *)
(* (messages.g.cc), and as the SDK's AppOptions.  A field is a text or     *)
(* Null; AppOptions has the empty text for what was never set.             *)
(***************************************************************************)
EXTENDS Naturals, Nothing

\* The fields of PigeonFirebaseOptions.
Required == {"api_key", "app_id", "messaging_sender_id", "project_id"}
Optional ==
  {"auth_domain", "database_u_r_l", "storage_bucket", "measurement_id",
   "tracking_id", "deep_link_u_r_l_scheme", "android_client_id",
   "ios_client_id", "ios_bundle_id", "app_group_id"}

\* Mutant of FromEncodableList: an index of the list is used twice.
FromEncodableListRepeated(list) ==
  [api_key |-> list[1], app_id |-> list[2],
   messaging_sender_id |-> list[3], project_id |-> list[4],
   auth_domain |-> list[5], database_u_r_l |-> list[6],
   storage_bucket |-> list[6], measurement_id |-> list[8],
   tracking_id |-> list[9], deep_link_u_r_l_scheme |-> list[10],
   android_client_id |-> list[11], ios_client_id |-> list[12],
   ios_bundle_id |-> list[13], app_group_id |-> list[14]]

\* PigeonFirebaseOptions to and from the channel's list; TLA+ counts from 1.
ToEncodableList(o) ==
  << o.api_key, o.app_id, o.messaging_sender_id, o.project_id,
     o.auth_domain, o.database_u_r_l, o.storage_bucket, o.measurement_id,
     o.tracking_id, o.deep_link_u_r_l_scheme, o.android_client_id,
     o.ios_client_id, o.ios_bundle_id, o.app_group_id >>

FromEncodableList(list) ==
  [api_key |-> list[1], app_id |-> list[2],
   messaging_sender_id |-> list[3], project_id |-> list[4],
   auth_domain |-> list[5], database_u_r_l |-> list[6],
   storage_bucket |-> list[7], measurement_id |-> list[8],
   tracking_id |-> list[9], deep_link_u_r_l_scheme |-> list[10],
   android_client_id |-> list[11], ios_client_id |-> list[12],
   ios_bundle_id |-> list[13], app_group_id |-> list[14]]

\* PigeonInitializeResponse; neither is_automatic_data_collection_enabled nor
\* plugin_constants is ever set.
ResponseToList(r) == << r.name, ToEncodableList(r.options), Null, << >> >>

ResponseFromList(list) == [name |-> list[1], options |-> FromEncodableList(list[2])]

\* The codec of the channels, with a byte for each class.
WriteValue(class, value) ==
  IF class = "PigeonFirebaseOptions" THEN <<128, ToEncodableList(value)>>
                                     ELSE <<129, ResponseToList(value)>>

ReadValueOfType(bytes) ==
  IF bytes[1] = 128 THEN FromEncodableList(bytes[2]) ELSE ResponseFromList(bytes[2])

\* AppOptions knows no optional texts.
OrEmpty(text) == IF text = Null THEN Empty ELSE text
OrNull(text)  == IF text = Empty THEN Null ELSE text

PigeonFirebaseOptionsToAppOptions(o) ==
  [api_key |-> o.api_key, app_id |-> o.app_id,
   messaging_sender_id |-> o.messaging_sender_id, project_id |-> o.project_id,
   database_url |-> OrEmpty(o.database_u_r_l),
   storage_bucket |-> OrEmpty(o.storage_bucket),
   ga_tracking_id |-> OrEmpty(o.tracking_id)]

OptionsFromFIROptions(a) ==
  [api_key |-> a.api_key, app_id |-> a.app_id,
   messaging_sender_id |-> a.messaging_sender_id, project_id |-> a.project_id,
   auth_domain |-> Null, database_u_r_l |-> OrNull(a.database_url),
   storage_bucket |-> OrNull(a.storage_bucket), measurement_id |-> Null,
   tracking_id |-> OrNull(a.ga_tracking_id), deep_link_u_r_l_scheme |-> Null,
   android_client_id |-> Null, ios_client_id |-> Null,
   ios_bundle_id |-> Null, app_group_id |-> Null]
=============================================================================

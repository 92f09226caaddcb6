\* Four calls to three plugins, two Apps created, of two names; values, priorities
\* and queries; metadata, events and pages.
SPECIFICATION PluginsSpec
CONSTANTS
  None = None
  Null = Null
  Empty = Empty
  MaxCalls = 4
  MaxApps = 2
  Names <- MCNames
  Texts <- MCTexts
  Options <- MCOptions
  Urls <- MCUrls
  Settings = {"on", "off"}
  Writes <- MCWrites
  Modifiers <- MCModifiers
  MaxLater = 2
  Metadata <- MCMetadata
  Sizes = {5}
  MaxChanges = 2
  Objects <- MCObjects
  Folders = {"b"}
  PageSizes = {2}
INVARIANTS
  TypeOK
  DatabaseServesNamedApp
  OptionsSurvive
  
  MetadataReadsBack
  EventTellsMetadata
  ListIsComplete
PROPERTIES
  SettingsFixedByFirstUse
  PluginCallsRepliedOnce
  PluginCallsSettle
CHECK_DEADLOCK FALSE

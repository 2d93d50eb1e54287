SPECIFICATION Spec
CONSTANTS
  Limit = 2
  Gone = Gone
  None = None
  Unset = Unset
  ValidNames = {"default", "home", "play", "work"}
  FreeSettings = {"notes"}
  Trees <- SmallTrees
  Links <- SmallLinks
  Raws <- SmallRaws
  Versions <- SmallVersions
  Caches <- SmallCaches
  Files <- SmallFiles
  Envs <- SmallEnvs
  FlagSets <- SmallFlagSets
  Commands <- SmallCommands
  Stored <- SmallStored
  Manifests <- SmallManifests
  Typed <- SmallTyped
  Lists <- SmallLists
  Arguments <- SmallArguments
  Refusable <- SmallRefusable
  Words <- SmallWords
CHECK_DEADLOCK FALSE
INVARIANTS BundlesRoundTrip ProxiesAreHonoured BrowsersAreChosen LayersAreHeeded EditsAreExact KeysAreHandled

CONSTANTS
  Events = {1, 2}
  Destinations = {"meta", "google"}
  Times <- MCTimes
  NotSet = NotSet
  Stamped <- MCStamped
  Texts <- MCTexts
  NameOf <- MCNameOf
  SourceOf <- MCSourceOf
  ILike <- MCILike
  ILikeWithin <- MCILike
  Includes <- MCIncludes
  PageSize = 1
  ConsoleFilters <- MCConsoleFilters
  Everything <- MCEverything
  NoEvent = NoEvent
  NoAnswer = NoAnswer
  NoFetch = NoFetch
  Main = Main
  Gone = Gone
  Databases <- MCDatabases
  Opened = {1}
  Written = {1}
  MaxClicks = 2
  MaxDisturbances = 1
SPECIFICATION ConsoleSpec
INVARIANTS
  ConsoleTypeOK
  FilterMeansStatus
  PagesCoverMatches
  TotalFitsPage
  HiddenByTimeOrWildcard
  PanelOfSelection
  HintsOfTimelineAreOwn
PROPERTIES
  ResendsOnlySeenFailed
  RefreshShowsReplay
  PanelCatchesUp

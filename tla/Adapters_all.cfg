SPECIFICATION Spec

CONSTANTS
  DraftChoices <- AllDrafts
  PrivacyLevels = {"PUBLIC", "SELF_ONLY"}
  LevelLists <- AllLevels
  MaxCarousel = 2
  ContainerPolls = 2
  RemotePolls = 2
  MaxAttempts = 2
CHECK_DEADLOCK FALSE

INVARIANTS TypeOK RulesForeseeRefusals PreflightAgrees PostsAreComplete DuplicatesOnlyAfterError
  NamedLevelIsPrivate
PROPERTIES ImplementsCalls AttemptsEnd

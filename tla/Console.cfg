CONSTANTS
  Polls = {1, 2}
  TicksPerMs = 2
  Limit = 2
  Horizon = 4
  Scopes = {"default", "all"}
  FirstScope = "default"
  Providers = {"p"}
  Loads = {1, 2}
  MaxVersion = 2
  MaxChoices = 2
  MaxTimers = 2
  AllKeys = {k1, k2}
  OldKeys = {}
  NoKey = none
  Keys = {k1, k2}
  SelectedKey = k1
  Models = {m1, m2}
  Numbers = {"contextWindow"}
  Selects = {"thinking"}
  Inputs = {"baseUrl"}
  Boxes = {"visibility"}
  Options = {"first", "second"}
  PageKeys = {k1, k2}
  MaxWrites = 2
SPECIFICATION FairSpec
INVARIANTS NothingPassed ShownSecretsWork ImportsWerePreviewed CardsShowWhatIsStored
PROPERTIES GraphSettles SecretsStay SavesKeepTheRest PagesComeBack
CHECK_DEADLOCK FALSE

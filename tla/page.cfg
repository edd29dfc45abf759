SPECIFICATION FairSpec
CONSTANTS
  Versions = {2, 3}
  First = 2
  Budgets <- SmallBudgets
  Null = Null
\* Visits, clicks and changes run out.
CHECK_DEADLOCK FALSE
INVARIANTS
  TypeOK
  FullMeansComplete
  BootThemeIsAppTheme
  StoredThemeAgrees
  InitIsOwedItsAnswer
  WatchingPageFollows
  ReloadKeepsTheme
  SettledPageShowsItsTheme
PROPERTIES
  LoaderGoesAway
  InitCompletes

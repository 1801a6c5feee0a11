\* Up to five events around two resets.
SPECIFICATION FeedSpec
CONSTANTS
  Horizon = 2
  MaxEvents = 5
  MaxGeneration = 3
INVARIANTS
  FeedWhole
  FeedChronological
  NewsIsThere
CHECK_DEADLOCK FALSE

SPECIFICATION FairSpec
CONSTANTS
  Attempt = {a1, a2}
  Draft = {blank, full}
  CompleteDraft = {full}
  MaxImages = 2
INVARIANTS
  TypeOK
  OneUploadAtATime
  PublishedComplete
  CalmTapPostsWhatItShows
PROPERTIES
  ImplementsAtomicPublish
  AttemptSettles
CHECK_DEADLOCK FALSE

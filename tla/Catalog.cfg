SPECIFICATION Spec
CONSTANTS
  c1 = c1
  c2 = c2
  l1 = l1
  w1 = w1
  w2 = w2
  v1 = v1
  v2 = v2
  u1 = u1
  n1 = n1
  n2 = n2
  i1 = i1
  i2 = i2
  k1 = k1
  k2 = k2
  r1 = r1
  r2 = r2
  r3 = r3
  s1 = s1
  None = None
  Categories = {c1, c2}
  Levels = {l1}
  Workshops = {w1, w2}
  Reviews = {v1, v2}
  Users = {u1}
  Names = {n1, n2}
  Slugs = {s1}
  SlugOf <- OneSlug
  Images = {i1, i2}
  Matching = {i1, i2}
  Keys = {k1}
  Payloads <- Bodies
  Requests = {r1, r2, r3}
  InitialGroups <- OneCategory
  InitialWorkshops <- OneWorkshop
  Ops = {"createGroup", "updateGroup", "deleteLevel", "deleteCategory", "createWorkshop", "updateWorkshop", "deleteWorkshop", "getAllWorkshops", "createReview", "updateReviewStatus", "deleteReview", "deleteUser"}
  Faults = {"crash", "redis", "audit"}
  MaxFailures = 1
SYMMETRY Slots
INVARIANT TypeOK
INVARIANT StaleOnlyByOverlap
INVARIANT DeletionIsAudited
INVARIANT DestroyedIsNotShown
INVARIANT ReviewsGoWithUser
PROPERTY DeletionSparesLinked
PROPERTY TitlesClashOnlyByOverlap
PROPERTY DeletedIsFinal
CHECK_DEADLOCK FALSE

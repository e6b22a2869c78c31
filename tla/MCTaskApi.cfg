SPECIFICATION Spec
CONSTANTS
  c1 = c1
  c2 = c2
  named = named
  u1 = u1
  u2 = u2
  clip = clip
  NoId = NoId
  Nobody = Nobody
  NoKey = NoKey
  Ids = {named, u1, u2}
  NamedIds = {named}
  Clients = {c1, c2}
  FileNames = {clip}
  Times = {1, 2}
  DefaultPageSize = 1
  MaxPageSize = 2
  FirstPages = {0, 1}
  Sizes = {2, 3}
  MaxFaults = 1
  MaxChanges = 2
  WalksApart = TRUE
SYMMETRY MCSymmetry
INVARIANTS TypeOK AnswersAreTrue OwnSource WalkSeesEveryTask UrlsMeanSuccess
CHECK_DEADLOCK FALSE

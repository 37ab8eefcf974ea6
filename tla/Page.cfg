CONSTANTS
  Slot = {1, 2, 3}
  MaxPublished = 4
SPECIFICATION Spec
INVARIANTS BadgeHonest
PROPERTIES NoOlderThanAsked FollowsBackend

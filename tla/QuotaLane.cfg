SPECIFICATION Spec
CONSTANTS
  Sources = {cli, oauth}
  NoSource = NoSource
  ResetEquivalence = 2
  Thresholds = {20, 50}
  Percentages = {0, 20, 40, 60}
  Boundaries = {0, 3, 4, 6}
  MaxTime = 5
PROPERTIES
  AnnouncementsAlternate
  RestoresAreJustified
  WarnedOncePerFall
  EveryFallIsWarned
  HookAndNotificationAgree

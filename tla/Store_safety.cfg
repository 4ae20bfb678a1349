\* Two configurations, calls of every kind at the same time, failures and crashes.
SPECIFICATION Spec
CONSTANTS
  Slot = {s1, s2}
  Id = {i1, i2}
  Text = {plain, scripted}
  SafeText = {plain}
  Nothing = Nothing
  Torn = Torn
SYMMETRY MCSymmetry
INVARIANTS
  TypeOK
  WholeOrAbsent
  InstalledStays
  RemovedStaysGone
  ListMissesOnlyUnread
  RunsWhatWasApproved
PROPERTIES
  ImplementsTable

\* Overlapping attempts on four snapshots; batches of two rows.
SPECIFICATION Spec
CONSTANTS
  w1 = w1
  w2 = w2
  Workers = {w1, w2}
  Snapshots = {"a", "b", "c", "d"}
  NoSnapshot = "none"
  Projects = {1, 2, 3, 4, 5}
  Content <- Overlapping
  MaxProjects = 4
  BatchSize = 2
  MaxBatches = 2
  MaxGeneration = 3
SYMMETRY Symmetric
CHECK_DEADLOCK FALSE
INVARIANTS PublishedIsWhole StagingIsBounded
PROPERTIES SupersededWritesNothing KeepsView

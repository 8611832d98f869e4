SPECIFICATION Spec
CONSTANTS
  Pages = {1, 2}
  MaxSelections = 2
  Preprocessors = {p1}
  Readers = {o1, o2}
  Correctors = {c1}
  Tuners = {u1}
  Reruns = {q1}
  Resets = {x1}
  Deletions = {d1}
  Overlapping = FALSE
  MaxTx = 5
  Nobody = Nobody
INVARIANTS TypeOK SelectedPagesHaveImages ProcessedImagesExist NothingOfADeletedBook
PROPERTY CorrectionsKept
\* the transactions run out
CHECK_DEADLOCK FALSE

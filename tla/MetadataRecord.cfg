SPECIFICATION FairSpec
CONSTANTS
  Books = {b1, b2}
  Fields = {author, title}
  BookColumns = {title}
  Edits = {e1, e2}
  Imports = {i1, i2}
  Extractions = {x1}
  Reruns = {c1}
  Resets = {c2}
  MaxTx = 3
  author = author
  b1 = b1
  b2 = b2
  c2 = c2
  i2 = i2
  c1 = c1
  e1 = e1
  e2 = e2
  i1 = i1
  title = title
  x1 = x1
  NoBook = NoBook
  Nobody = Nobody
  NoValue = NoValue
INVARIANTS TypeOK NothingOfTheUnfinished
PROPERTIES EveryTransactionEnds EditTouchesOnlyGiven TaskKeepsHumanValues
CHECK_DEADLOCK FALSE

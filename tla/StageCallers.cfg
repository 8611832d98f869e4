SPECIFICATION Spec
CONSTANTS
  Books = {old, new}
  Inherited = {old}
  Handlers = {h1, h2}
  LookupIsBound = FALSE
  NoTx = NoTx
PROPERTY StagesAreTracked
CHECK_DEADLOCK FALSE

SPECIFICATION Spec
CONSTANTS
  e1 = e1
  e2 = e2
  e3 = e3
  old = old
  new = new
  short = short
  quote = quote
  foreign = foreign
  disguised = disguised
  escaped = escaped
  accented = accented
  Missing = Missing
  NoEdit = NoEdit
  Edits = {e1, e2, e3}
  Values = {old, new, short, quote, foreign, disguised, escaped, accented}
  OutOfRange = {short}
  Unquotable = {quote}
  NoAddress = {foreign}
  Decoded <- MCDecoded
  Unsendable = {accented}
  Wants <- MCWants
  Initial <- MCInitial
  MaxFaults = 2
SYMMETRY Symmetry
CHECK_DEADLOCK FALSE
INVARIANT TypeOK
INVARIANT AnsweredEditsLast
INVARIANT SpoiltHasACause
PROPERTY NewKeyWorksAfterStart

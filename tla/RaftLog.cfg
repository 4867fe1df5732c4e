\* An array of two slots that grows to eight, entries of two kinds, one of
\* them refused.
CONSTANTS
  Value = {v, w, r}
  Refused = {r}
  Blank = Blank
  InitialSize = 2
  MaxSize = 8
  MaxIdx = 7
SPECIFICATION Spec
INVARIANTS
  ArrayInv
  ReadsARun
  WholeSuffix
  TailIsLast
PROPERTY ImplementsSequence

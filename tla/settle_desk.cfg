CONSTANTS
  Currencies = {"LBP", "USD"}
  Items <- MCItems
  Driver = d1
  Desks = {a1}
  Blank = Blank
  Bad = Bad
  Typed = {0}
  Forms <- MCForms
  None = None
  ListLimit = 1
  Tries = {1}
  MaxClock = 3
  MaxHandovers = 2
SPECIFICATION Spec
INVARIANT TypeOK RecordedAsAgreed OneHandoverPerPreview 
PROPERTY AnswersSpareTheForm
CHECK_DEADLOCK FALSE

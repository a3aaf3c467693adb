CONSTANTS
  NameOrder <- MCNames
  None = None
  Circuits <- MCCircuits
  Texts <- MCTexts
  MaxEdits <- MCMaxEdits
SPECIFICATION Spec
INVARIANTS
  AcceptedViewsAreExact ViewsAgree
  DecodingRestores
CHECK_DEADLOCK FALSE

CONSTANTS
  Ids <- MCIds
  Notifying <- Sources
  InDepth = 1
  OutDepth = 2
SPECIFICATION FairSpec
INVARIANT TypeOK
PROPERTIES ImplementsChannel NoStreamStaysFull

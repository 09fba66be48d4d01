SPECIFICATION QueriesFairSpec
CONSTANTS
  Jobs = {j1}
  Tabs = {"all", "processing"}
INVARIANTS
  QueriesTypeOK
  RowsMatchTab
  OwnChangesShow
PROPERTIES
  PolledPagesFollow

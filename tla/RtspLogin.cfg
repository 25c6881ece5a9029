SPECIFICATION FairSpec
CONSTANT MaxUpset <- FewUpsets
INVARIANTS
  LoginInStep
PROPERTIES
  LoginCompletes
CHECK_DEADLOCK FALSE

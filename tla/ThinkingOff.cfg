SPECIFICATION Spec
CONSTANTS
  Contracts <- MCContracts
  NoContract = NoContract
  Budgets <- MCBudgets
  BudgetOf <- MCBudgetOf
  NoSuffix = NoSuffix
  OtherSuffixes = {"latest"}
  OtherLevels = {"turbo"}
  Absent = "absent"
  Blank = "blank"
  Models = {"flash"}
  Auths = {a1, a2}
  Efforts = {"absent", "blank", "low", "medium", "max", "turbo", "auto", "off"}
  NoFetch = NoFetch
  MaxUpsets = 3
INVARIANT ExplicitOffIsOff

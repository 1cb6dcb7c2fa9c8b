SPECIFICATION Spec
CONSTANTS
  Modulus = 16
  Addresses <- Two
  Requests = {1, 2}
  Wallets <- SomeWallets
  Coins = {0, 2}
  MaxChanges = 2
CHECK_DEADLOCK FALSE
INVARIANTS
  TypeOK
  FundsAreBacked
  FirstOrRichest
  SufficientOutputFound

SPECIFICATION Spec
CONSTANTS
  Transactions <- Chain
  Addresses <- TwoAddresses
  Hash <- Hashes
  Modulus = 64
  Initially <- Start
  MaxHeight = 2
  MaxErrors = 0
INVARIANTS
  BalanceMatchesHistory

SPECIFICATION Spec
CONSTANTS
  Transactions <- Chain
  Addresses <- TwoAddresses
  Hash <- Hashes
  Modulus = 64
  Initially <- Start
  MaxHeight = 2
  MaxErrors = 1
INVARIANTS
  TypeOK
  CacheFresh
  BalancesExact
  RowsExact
  RowsOnce
  BlockBalances
  SplitExact
  CoinbaseThrows

SPECIFICATION Spec
CONSTANTS
  Modulus = 16
  alice = alice
  carol = carol
  bob = bob
  Wallet = {alice, carol}
  Strangers = {bob}
  Calls <- EdgeCalls
  Coins = {0, 2}
  MaxCoins = 4
  MaxMoney = 6
CHECK_DEADLOCK FALSE
INVARIANTS
  TypeOK
  ConstructedIsValid
  EmptyMeansInsufficient
PROPERTIES
  ExactPayment

SPECIFICATION Spec
CONSTANTS
  alice = alice
  bob = bob
  Addresses = {alice, bob, mint}
  MintAddresses = {mint}
  Amounts = {1}
  Decimals = {6, 9}
  MaxList = 2
SYMMETRY Holders
INVARIANTS
  TypeOK
  PostMatchesAccounts
  DecimalsAreTheMints
PROPERTY
  PreNamesTheHolders

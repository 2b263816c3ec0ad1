SPECIFICATION Spec
CONSTANTS
  alice = alice
  bob = bob
  admin = admin
  vault = vault
  faucet = faucet
  usdt = usdt
  usdc = usdc
  ref1 = ref1
  ref2 = ref2
  TokenConfigs <- MCTokenConfigs
  Users <- MCUsers
  Admin = admin
  TheVault = vault
  Faucet = faucet
  References = {ref1, ref2}
  Amounts = {1}
  ClaimAmount = 2
  Cooldown = 1
  MaxCalls = 5
SYMMETRY MCSymmetry
INVARIANTS
  Backed
  Paced
CHECK_DEADLOCK FALSE

\* One limited tenant with two turns and an exempt one with a third, one slot.
CONSTANTS
  a = a  b = b  op = op
  a1 = a1  a2 = a2  a3 = a3  b1 = b1  b2 = b2  op1 = op1  op2 = op2
  NoTurn = NoTurn
  Tenants <- TwoTenants
  Exempt = {b}
  Turns <- UnevenTurns
  TenantOf <- UnevenTenantOf
  GlobalConcurrency = 1
  TenantConcurrency = 1
  TurnsPerMinute = 2
  TokensPerMinute = 1
  TenantQueueDepth = 1
  GlobalQueueDepth = 0
  TurnRefill = 1
  TokenRefill = 1
  TurnUsage = 2
  OutsideUsage = 1

SPECIFICATION FairSpec
INVARIANTS BudgetsBounded 
PROPERTY WaiterServed

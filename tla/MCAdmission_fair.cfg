\* Three tenants, one exempt: a global cap of 2, one running turn per tenant.
CONSTANTS
  a = a  b = b  op = op
  a1 = a1  a2 = a2  a3 = a3  b1 = b1  b2 = b2  op1 = op1  op2 = op2
  NoTurn = NoTurn
  Tenants <- ThreeTenants
  Exempt = {op}
  Turns <- SixTurns
  TenantOf <- SixTenantOf
  GlobalConcurrency = 2
  TenantConcurrency = 1
  TurnsPerMinute = 0
  TokensPerMinute = 0
  TenantQueueDepth = 1
  GlobalQueueDepth = 3
  TurnRefill = 0
  TokenRefill = 0
  TurnUsage = 0
  OutsideUsage = 0
SYMMETRY SameTenantTurns
SPECIFICATION Spec
INVARIANTS
  TypeOK SlotsAccounted CapsRespected NoIdleSlot
  ServedInTurn WaitersTracked NoLostWakeup

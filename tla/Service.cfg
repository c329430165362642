SPECIFICATION SSpec
CONSTANTS
  dmz = dmz
  a = a
  Base = Base
  None = None
  Roles <- OneRole
  Ops <- OneOp
  RoleOf <- Only
  Historical = {}
  Adoptions = {}
  Independent = {}
  Routers = {}
  Wants = {"running", "stopped"}
  Faults = {"kill", "power", "exit", "lockwait", "late"}
CHECK_DEADLOCK FALSE
INVARIANTS
  AcceptedIsVerified
PROPERTIES
  ImplementsTransaction

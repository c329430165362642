SPECIFICATION Spec
CONSTANTS
  dmz = dmz
  a = a
  b = b
  c = c
  Base = Base
  None = None
  Roles <- OneRole
  Ops <- ThreeOps
  RoleOf <- AllOfRole
  Historical = {a}
  Adoptions = {c}
  Independent = {}
  Routers = {dmz}
  Wants = {"running", "stopped"}
  Faults = {"kill", "power", "exit", "lockwait", "late"}
CHECK_DEADLOCK FALSE
INVARIANTS
  TypeOK
  NoRollback
  CopyIsSafe
  RecoveredIsSafe
  BoundaryBeforeDefinition
PROPERTIES
  BootDecides
  ImplementsPromise

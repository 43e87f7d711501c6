SPECIFICATION AuditSpec
CONSTANTS
  None = None  Unused = Unused  Gone = Gone
  Payloads = {x, y}
  MaxAudit = 2
INVARIANT HonestChainVerifies

----------------------------- MODULE MCAuditTrail -----------------------------
EXTENDS AuditTrail, TLC

CONSTANTS p1, p2, nobody

Symmetric == Permutations({p1, p2})
===============================================================================

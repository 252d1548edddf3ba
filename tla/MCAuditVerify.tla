----------------------------- MODULE MCAuditVerify -----------------------------
EXTENDS AuditVerify, TLC

CONSTANTS p1, p2, nobody

\* A run of verify() is followed as long as the trail verifies (so that it
\* never meets a partition that is gone); the trail without one, always.
Judged == sound

Symmetric == Permutations({p1, p2})
===============================================================================

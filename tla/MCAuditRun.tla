----------------------------- MODULE MCAuditRun -----------------------------
(* Small instances of AuditRun: constants only. *)
EXTENDS AuditRun

CONSTANTS user, org

\* The caller's own admin user, and an organization role that is also an admin.
Two == {user, org}
Caller == {user}
Org == {org}

\* An orthogonal finding; "wildcard grant"; "assume role", which also passes the gate of
\* the cap; ECS Exec without session logging.
Phrases == {{}, {"critical"}, {"high", "trust"}, {"exec"}}
=============================================================================

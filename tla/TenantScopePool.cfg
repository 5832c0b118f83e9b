CONSTANTS
    Requests = {r1, r2}
    Tenants = {t1, t2}
    Connections = {k1, k2}
    None = None
    Nobody = Nobody
    TTL = 2
    MaxTime = 2
SPECIFICATION Spec
INVARIANT RepositorySeesItsTenant
CHECK_DEADLOCK FALSE

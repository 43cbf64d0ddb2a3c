SPECIFICATION Spec
CONSTANTS
    p1 = p1
    p2 = p2
    acme = acme
    home = home
    blank = blank
    platform = platform
    shop = shop
    Provisioner <- MCProvisioner
    Slug <- MCSlug
    NoSlug = blank
    PlatformSlug = home
    PlatformHost = platform
    CustomHost <- MCCustomHost
    MaxTime = 0
    MaxCalls = 3
    MaxFaults = 2
SYMMETRY MCSymmetry
INVARIANTS TypeOK TenantWhole TenantCodesDistinct TenantsDistinct RedisAgrees VerifiedByRecord

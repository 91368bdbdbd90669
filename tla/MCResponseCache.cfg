\* Two bodies, three endpoints, room for two entries and three bytes.
SPECIFICATION Spec
CONSTANTS
    local = local
    cloud = cloud
    mirror = mirror
    Clients = {c1, c2}
    Endpoints = {local, cloud, mirror}
    UpstreamOf <- MCUpstreamOf
    Bodies = {b1, b2}
    Sizes = {1, 2, 4}
    MaxEntries = 2
    MaxBytes = 3
    Ttl = 2
    MaxTime = 2
SYMMETRY Interchangeable
INVARIANTS
    FieldsAgree
    NoForeignReplay
PROPERTIES
    HitsAreFresh
    KeepsPromise

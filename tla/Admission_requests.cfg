SPECIFICATION Spec
SYMMETRY Symmetry
CONSTANTS
    Request = {r1, r2}
    alice = alice
    bob = bob
    t1 = t1
    User = {alice, bob}
    TransportId = {t1}
    Key = {k1, k2}
    NoOne = NoOne
    TTL = 1
    FetchLimit = 1
    MaxGroups = 2
    MaxConfig = 2
    Visits <- MCVisits
INVARIANTS
    ValidAccepted
    WithdrawnKeysExpire
    ConfigInForce
    ProfileFollowsEviction
    SessionIsCallers
PROPERTIES
    ProfilesKept

SPECIFICATION AccountsSpec
CONSTANTS
    m1 = m1
    m2 = m2
    h1 = h1
    h2 = h2
    Machines = {m1, m2}
    Handlers = {h1, h2}
    UserNames = {ann, bob}
    Passwords = {good, other, weak}
    Weak = {weak}
    MaxSeconds = 2
    MaxPerSecond = 2
    MaxRequests = 3
    Nobody = Nobody
SYMMETRY Alike
INVARIANTS
    SessionKnown
    ClientsOfFirst
    SessionIsOwn
    SessionIsUnique
PROPERTIES
    KeepsSession
CHECK_DEADLOCK FALSE

\* A request in flight while access changes.
SPECIFICATION MCSpec

CONSTANTS
    c1 = c1
    h1 = h1
    h2 = h2
    t1 = t1
    t2 = t2
    t3 = t3
    Nil = Nil
    Client = {c1}
    Gateway = {}
    Host = {h1, h2}
    Target = {t1, t2, t3}
    Interface = {portal}
    Worker = {w1, w2}
    Ticker = ticker
    Admin = admin
    Own <- Elsewhere
    MaxValue = 2
    WordSize = 1
    FirstIP = 10
    Answer <- Steady
    Policy <- AllowOrOut
    Firewall = {"iptables"}
    Events = {"portal"}
    Overlap = TRUE
    Fuel = 4

INVARIANTS
    BlockedIsBlocked

\* The events run out.
CHECK_DEADLOCK FALSE

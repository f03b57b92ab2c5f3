\* Fairness, and a pool with an address for every request.
SPECIFICATION MCFairSpec

CONSTANTS
    c1 = c1
    h1 = h1
    h2 = h2
    t1 = t1
    t2 = t2
    t3 = t3
    Nil = Nil
    Client = {c1}
    Gateway = {}
    Host = {h1, h2}
    Target = {t1, t2, t3}
    Interface = {portal}
    Worker = {w1}
    Ticker = ticker
    Admin = admin
    Own <- InThePool
    MaxValue = 5
    WordSize = 1
    FirstIP = 10
    Answer <- Moving
    Policy <- AllowOrOut
    Firewall = {"iptables"}
    Events = {"portal", "timeout", "review"}
    Overlap = FALSE
    Fuel = 5

PROPERTIES
    ExpiredIsRemoved
    RefusalTakesEffect

\* The events run out.
CHECK_DEADLOCK FALSE

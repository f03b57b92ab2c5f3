\* Two requests of one client in flight, a pool of two addresses, calls that
\* fail, and the gateway as its own client.
SPECIFICATION MCSpec

CONSTANTS
    c1 = c1
    h1 = h1
    h2 = h2
    t1 = t1
    t2 = t2
    t3 = t3
    Nil = Nil
    Client = {c1}
    Gateway = {c1}
    Host = {h1, h2}
    Target = {t1, t2, t3}
    Interface = {portal}
    Worker = {w1, w2}
    Ticker = ticker
    Admin = admin
    Own <- Elsewhere
    MaxValue = 1
    WordSize = 1
    FirstIP = 10
    Answer <- Steady
    Policy <- AllowOrOut
    Firewall = {"iptables", "none"}
    Events = {"portal", "flush", "switch", "review", "traffic", "iptables", "conflict"}
    Overlap = TRUE
    Fuel = 3

INVARIANTS
    TypeOK

PROPERTIES
    ReverseTableLeases
    RulePerReservation

\* The events run out.
CHECK_DEADLOCK FALSE

\* The process stops at any step and starts again on its database.
SPECIFICATION MCSpec

CONSTANTS
    c1 = c1
    h1 = h1
    h2 = h2
    t1 = t1
    t2 = t2
    t3 = t3
    Nil = Nil
    Client = {c1}
    Gateway = {}
    Host = {h1, h2}
    Target = {t1, t2, t3}
    Interface = {portal}
    Worker = {w1}
    Ticker = ticker
    Admin = admin
    Own <- Elsewhere
    MaxValue = 2
    WordSize = 1
    FirstIP = 10
    Answer <- Moving
    Policy <- AllowOrOut
    Firewall = {"iptables", "none", "unimplemented"}
    Events = {"portal", "schedule", "timeout", "review", "restart"}
    Overlap = FALSE
    Fuel = 6

INVARIANTS
    AddressIsReserved
    NoForeignRule
    ReservationInv
    ForeignInv

\* The events run out.
CHECK_DEADLOCK FALSE

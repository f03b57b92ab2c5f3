\* An administrator picks another firewall.
SPECIFICATION MCSpec

CONSTANTS
    c1 = c1
    h1 = h1
    h2 = h2
    t1 = t1
    t2 = t2
    t3 = t3
    Nil = Nil
    Client = {c1}
    Gateway = {}
    Host = {h1, h2}
    Target = {t1, t2, t3}
    Interface = {portal}
    Worker = {w1}
    Ticker = ticker
    Admin = admin
    Own <- Elsewhere
    MaxValue = 2
    WordSize = 1
    FirstIP = 10
    Answer <- Steady
    Policy <- AllowOnly
    Firewall = {"iptables", "none"}
    Events = {"switch"}
    Overlap = FALSE
    Fuel = 2

PROPERTIES
    ChosenFirewallServes

\* The events run out.
CHECK_DEADLOCK FALSE

\* Requests, changes of access and the review, one request at a time.
SPECIFICATION MCSpec

CONSTANTS
    c1 = c1
    h1 = h1
    h2 = h2
    t1 = t1
    t2 = t2
    t3 = t3
    Nil = Nil
    Client = {c1}
    Gateway = {}
    Host = {h1, h2}
    Target = {t1, t2, t3}
    Interface = {portal}
    Worker = {w1}
    Ticker = ticker
    Admin = admin
    Own <- InThePool
    MaxValue = 3
    WordSize = 1
    FirstIP = 10
    Answer <- Rotating
    Policy <- AllPolicies
    Firewall = {"iptables"}
    Events = {"portal", "timeout", "review"}
    Overlap = FALSE
    Fuel = 6

INVARIANTS
    AddressIsReserved
    NoForeignRule
    RuleMatchesSession
    ToldIsBlocked
    PolicyApplied
    PolicyInv
    ForeignInv
    RuleInv

PROPERTIES
    UntoldOnlyWhenOwed

\* The events run out.
CHECK_DEADLOCK FALSE

------------------------------- MODULE MCServices -------------------------------
(***************************************************************************)
(* Small instances of the components that share no state: one of them moves *)
(* in a behaviour, and the others stay where they start.                    *)
(***************************************************************************)
EXTENDS MCAddressPool, PacketRewrite, PortalSession, DomainAccess, RuleIndex, Discovery,
        ArpCache, ProxySites, WebShell

VARIABLE component  \* the one that moves

servicesVars == <<component, taken, packetVars, portalVars, accessVars, ruleVars, discoveryVars, arpVars,
                  proxyVars, shellVars>>

--------------------------------------------------------------------------------
(* Packets: 16 bits become two, NEW_IP is the smaller one in its high half *)

Old == [hi |-> 3, lo |-> 1]
New == [hi |-> 2, lo |-> 3]
MCIPAddress == {Old, New}
MCHeader(from, to, check) ==
    [version |-> 4, ihl |-> 5, rest |-> 1, saddr |-> from, daddr |-> to, check |-> check]
MCFrames ==
    {[ethernet |-> e, whole |-> w, proto |-> "ETH_P_IP", source |-> 0, ip |-> MCHeader(from, to, check)] :
        e, w \in BOOLEAN, from, to \in {Old, New}, check \in 0..3}

--------------------------------------------------------------------------------
(* Access: a window over midnight and one of the day, a list of each kind *)

MCHostname == {<<"b", ".">>, <<"a", ".", "B">>, <<"b", "b">>, <<"a", "b", "b", ".">>}
MCLists == [day |-> [allowed |-> {}, blocked |-> {<<"b">>}],
            night |-> [allowed |-> {<<"a", "b">>}, blocked |-> {}]]
DayEntry == [days |-> {1, 2}, from |-> 480, to |-> 1320, profile |-> "day"]
NightEntry == [days |-> {0, 6}, from |-> 1320, to |-> 360, profile |-> "night"]
MCSchedule == {<<DayEntry>>, <<NightEntry>>, <<NightEntry, [DayEntry EXCEPT !.days = {0}]>>}

--------------------------------------------------------------------------------
(* Rules: a name and its parent, three lists *)

com == <<"com">>
acom == <<"a", "com">>
MCRuleSet == <<"ads", "social">>
MCHost == {com, acom}
MCSource == {<<>>, <<[host |-> com, wildcard |-> FALSE]>>,
             <<[host |-> com, wildcard |-> TRUE], [host |-> acom, wildcard |-> FALSE]>>}

--------------------------------------------------------------------------------
(* Discovery: this machine, and two that had the same address *)

Node(mac, ip) == [mac |-> mac, ip |-> ip]
MCOwnNodes == {Node("m0", "i0")}
MCNodeKey == {Node("m0", "i0"), Node("m1", "i1"), Node("m2", "i1")}

--------------------------------------------------------------------------------
(* The others begin anywhere, and stay there: one of their initial states will do *)

PacketRests == skb = CHOOSE frame \in Frames : TRUE
PortalRests == mode = "ModeCaptive" /\ orderly = {}
AccessRests ==
    /\ clock = [weekday |-> 0, minute |-> 0] /\ schedule = <<NightEntry>>
    /\ question = [isLocal |-> FALSE, hostname |-> <<"b", "b">>, rejectReason |-> Allow,
                   sessionProfile |-> NoName, userProfile |-> NoName]
RuleRests == rules = [set \in 1..Len(RuleSet) |-> CHOOSE list \in Source : TRUE]
ArpRests == kernel = [ip \in Ip |-> NoMac]

ServicesInit ==
    /\ component \in {"pool", "packet", "portal", "access", "rules", "discovery", "arp", "proxy", "shell"}
    /\ Init
    /\ PacketInit /\ (component # "packet" => PacketRests /\ user_ip4 = OldIP)
    /\ PortalInit /\ (component # "portal" => PortalRests)
    /\ AccessInit /\ (component # "access" => AccessRests)
    /\ RuleInit /\ (component # "rules" => RuleRests)
    /\ DiscoveryInit
    /\ ArpInit /\ (component # "arp" => ArpRests)
    /\ ProxyInit
    /\ ShellInit

ServicesNext ==
    /\ UNCHANGED component
    /\ IF component = "pool" THEN Next ELSE UNCHANGED taken
    /\ IF component = "packet" THEN PacketNext ELSE UNCHANGED packetVars
    /\ IF component = "portal" THEN PortalNext ELSE UNCHANGED portalVars
    /\ IF component = "access" THEN AccessNext ELSE UNCHANGED accessVars
    /\ IF component = "rules" THEN RuleNext ELSE UNCHANGED ruleVars
    /\ IF component = "discovery" THEN DiscoveryNext ELSE UNCHANGED discoveryVars
    /\ IF component = "arp" THEN ArpNext ELSE UNCHANGED arpVars
    /\ IF component = "proxy" THEN ProxyNext ELSE UNCHANGED proxyVars
    /\ IF component = "shell" THEN ShellNext ELSE UNCHANGED shellVars

ServicesSpec ==
    /\ ServicesInit /\ [][ServicesNext]_servicesVars
    /\ DiscoveryFairness /\ ArpFairness /\ ShellFairness

=============================================================================

------------------------------- MODULE ProxySites -------------------------------
(***************************************************************************)
(* The reverse proxy: the configurations an administrator stores and the    *)
(* sites, filters and certificates ApplyConfiguration makes of them.        *)
(***************************************************************************)
EXTENDS Naturals, FiniteSets

CONSTANTS
    Domain,    \* domain names of proxies
    Waf,       \* names of WAF configurations
    Applying   \* goroutines that handle an administrator's request

\* A stored proxy; one whose URL does not parse is like one that is not enabled.
Proxy == [ssl : BOOLEAN, enabled : BOOLEAN, waf : Waf]
NoProxy == [enabled |-> FALSE, ssl |-> FALSE, waf |-> "none"]

\* A stored WAF configuration: valid or invalid directives, disabled, or no record.
WafState == {"valid", "invalid", "disabled", "none"}

\* What is served for a domain: with or without TLS, through a filter or not.
Site == [ssl : BOOLEAN, filtered : BOOLEAN]
NoSite == [ssl |-> FALSE, filtered |-> FALSE, none |-> TRUE]

VARIABLES
    proxies,    \* the records HttpProxy:<domain>
    wafs,       \* the records WAFConfiguration:<name>
    sites,      \* the sites that are served
    whitelist,  \* the domains the certificate manager answers for
    apply,      \* where each ApplyConfiguration is, and what it has read
    up,         \* the process runs
    applied     \* history: the records have been applied, alone, since they changed

proxyVars == <<proxies, wafs, sites, whitelist, apply, up, applied>>

NoApply == [at |-> "none"]

SitesOf(ps, valid) ==
    [d \in Domain |-> IF ps[d].enabled
                      THEN [ssl |-> ps[d].ssl, filtered |-> ps[d].waf \in valid]
                      ELSE NoSite]

Whitelist(ps) == {d \in Domain : ps[d].enabled /\ ps[d].ssl}

Valid(ws) == {w \in Waf : ws[w] = "valid"}

\* An invalid configuration that is enabled ends in a nil map: a panic.
Panics(ws) == \E w \in Waf : ws[w] = "invalid"

ProxyInit ==
    /\ proxies = [d \in Domain |-> NoProxy]
    /\ wafs \in [Waf -> {"valid"}]
    /\ sites = SitesOf(proxies, Valid(wafs))
    /\ whitelist = {}
    /\ apply = [a \in Applying |-> NoApply]
    /\ up = TRUE
    /\ applied = TRUE

--------------------------------------------------------------------------------
(* The administrator's pages *)

\* A change of a record disturbs whoever is applying the configuration.
Disturbed(jobs) == [a \in Applying |-> IF jobs[a] = NoApply THEN NoApply ELSE [jobs[a] EXCEPT !.alone = FALSE]]

Begin(a) ==
    apply' = [Disturbed(apply) EXCEPT ![a] =
                [at |-> "wafs", valid |-> {}, sites |-> sites, domains |-> {},
                 alone |-> \A b \in Applying : apply[b] = NoApply]]

SaveProxy(a) ==
    /\ up /\ apply[a] = NoApply
    /\ \E d \in Domain, p \in Proxy :
          /\ proxies[d] # NoProxy
          /\ proxies' = [proxies EXCEPT ![d] = p]
    /\ Begin(a)
    /\ applied' = FALSE
    /\ UNCHANGED <<wafs, sites, whitelist, up>>

\* Creating or deleting a WAF configuration, or saving one.
SaveWaf(a) ==
    /\ up /\ apply[a] = NoApply
    /\ \E w \in Waf, state \in WafState : wafs' = [wafs EXCEPT ![w] = state]
    /\ Begin(a)
    /\ applied' = FALSE
    /\ UNCHANGED <<proxies, sites, whitelist, up>>

\* Creating or deleting a proxy applies nothing.
EditProxies ==
    /\ up
    /\ \E d \in Domain, p \in Proxy \cup {NoProxy} :
          /\ (proxies[d] = NoProxy) # (p = NoProxy)
          /\ proxies' = [proxies EXCEPT ![d] = p]
    /\ apply' = Disturbed(apply)
    /\ applied' = FALSE
    /\ UNCHANGED <<wafs, sites, whitelist, up>>

--------------------------------------------------------------------------------
(* ApplyConfiguration *)

\* The web server recovers from a panic and the sites stay as they are.
ReadWafs(a) ==
    /\ up /\ apply[a].at = "wafs"
    /\ apply' = [apply EXCEPT ![a] = IF Panics(wafs) THEN NoApply
                                     ELSE [@ EXCEPT !.at = "proxies", !.valid = Valid(wafs)]]
    /\ UNCHANGED <<proxies, wafs, sites, whitelist, up, applied>>

\* Broken: every site that is enabled goes on the list.
ReadAllProxies(a) ==
    /\ up /\ apply[a].at = "proxies"
    /\ apply' = [apply EXCEPT ![a] = [@ EXCEPT !.at = "certs",
                                        !.sites = SitesOf(proxies, apply[a].valid),
                                        !.domains = {d \in Domain : proxies[d].enabled}]]
    /\ UNCHANGED <<proxies, wafs, sites, whitelist, up, applied>>

ReadProxies(a) ==
    /\ up /\ apply[a].at = "proxies"
    /\ apply' = [apply EXCEPT ![a] = [@ EXCEPT !.at = "certs",
                                        !.sites = SitesOf(proxies, apply[a].valid),
                                        !.domains = Whitelist(proxies)]]
    /\ UNCHANGED <<proxies, wafs, sites, whitelist, up, applied>>

SetCertManager(a) ==
    /\ up /\ apply[a].at = "certs"
    /\ whitelist' = apply[a].domains
    /\ apply' = [apply EXCEPT ![a].at = "sites"]
    /\ UNCHANGED <<proxies, wafs, sites, up, applied>>

SetSites(a) ==
    /\ up /\ apply[a].at = "sites"
    /\ sites' = apply[a].sites
    /\ apply' = [apply EXCEPT ![a] = NoApply]
    /\ applied' = (applied \/ apply[a].alone)
    /\ UNCHANGED <<proxies, wafs, whitelist, up>>

--------------------------------------------------------------------------------
\* The process ends at any time. The next one applies the records before it serves
\* anybody, and nothing recovers from a panic there. The default configuration is
\* created when there is none.
Restart ==
    LET stored == [w \in Waf |-> IF w = "Default" /\ wafs[w] = "none" THEN "valid" ELSE wafs[w]]
    IN  /\ wafs' = stored
        /\ apply' = [a \in Applying |-> NoApply]
        /\ IF Panics(stored)
           THEN up' = FALSE /\ UNCHANGED <<sites, whitelist, applied>>
           ELSE /\ up' = TRUE
                /\ sites' = SitesOf(proxies, Valid(stored))
                /\ whitelist' = Whitelist(proxies)
                /\ applied' = TRUE
        /\ UNCHANGED proxies

ProxyNext ==
    \/ \E a \in Applying :
          \/ SaveProxy(a) \/ SaveWaf(a)
          \/ ReadWafs(a) \/ ReadProxies(a) \/ SetCertManager(a) \/ SetSites(a)
    \/ EditProxies
    \/ Restart

ProxySpec == ProxyInit /\ [][ProxyNext]_proxyVars

--------------------------------------------------------------------------------
\* What is served is what is stored, filters and certificates included, once the
\* records were applied by somebody whom nobody disturbed, and after a restart in
\* the middle of that (httpproxy.go:75-126).
ServedAsStored ==
    up /\ applied => sites = SitesOf(proxies, Valid(wafs)) /\ whitelist = Whitelist(proxies)

=============================================================================

# Sleuth, specified

Sleuth is a DNS server, captive portal and NAT gateway in one Go process. It
answers each device's DNS requests with addresses of a private pool and installs
a NAT rule per answer, so that it decides at any time where what the device sends
to that address really goes: to the host, or, while access is refused, to its own
portal.

This directory holds a specification of that program in TLA+, the TLC models that
check it on small instances, and theorems about it that TLAPS checks for all
instances. All paths below are relative to the root of the repository.

- [The system](#the-system)
- [Modules](#modules)
- [How the model corresponds to the code](#how-the-model-corresponds-to-the-code)
- [Properties](#properties)
- [Runs](#runs)
- [Where the code and its text disagree](#where-the-code-and-its-text-disagree)
- [Proofs](#proofs)
- [What is not modelled](#what-is-not-modelled)
- [Plan](#plan)

## The system

| Part | State | Operations | Talks to |
|---|---|---|---|
| DNS server, `internal/dns/dnsserver.go` | `lastDstIP`, a copy of the firewall manager | `handleDnsRequest` (a goroutine per request), `ReevaluateAccess`, `FlushCache` | security, database, firewall manager, upstream DNS |
| Firewall manager, `internal/firewall/FirewallManager.go` | the active firewall | `Allocate`, `UpdateIPv4`, `FlushSource`, `SetActiveFirewall`, and `ReviewFwdRules` on a ticker | database, firewall backends |
| Firewall backends, `internal/firewall/ipTables.go` and others | the kernel's NAT chains | `Init`, `AddForwardRule`, `RemoveForwardRule`, `GetStats`; all but iptables answer "Not implemented" | the `iptables` program |
| Database, `internal/db/db.go` | Badger on disk: DNS sessions, reverse DNS records, portal sessions, users, roles, profiles, rule sets | one transaction per call | everybody |
| Security, `internal/security/security.go` | none of its own | `GetSessionInfo`, `SetSession`, `ForceLogout`, `SetAccessProfile`, `VerifyDomainAccess`, schedules | database, discovery |
| Portal, `src/portal.go` | settings in memory | every page: `determineRequest`; login, logout, change of profile, page selection | security, DNS server |
| Administration, `src/wc*.go` | none of its own | forms over the database, the flush of a client, the firewall setting | database, DNS server, firewall manager |
| Network discovery, `internal/network` | map of nodes, ARP cache | event loop over four channels | security |
| DNS rules engine, `internal/rules` | rule sets and host rules in the database | `UpdateRuleSet`, `ReIndex`, `Test` | database |
| HTTP proxy, `src/httpproxy.go` | table of sites | `ApplyConfiguration`, `WAFHandler` | database |
| Web shell, `pkg/xtermjs` | a terminal per connection | four goroutines per connection | none |
| eBPF programs, `ebpf/*.c` | maps filled by somebody else | `snat_prog`, `dnat_prog`, `dnat_tc`, `rewrite_connect` | the kernel; nothing in the Go program loads them |

### What is hard

No lock is held over more than one database call. Every DNS request, every page of the
portal, the settings page that switches the firewall and the one-minute review are
goroutines of their own; each reads rows, computes, calls `iptables`, and writes rows
back. Three tables have to agree in
spite of that:

- **DNS sessions** (`dns:<client>:<type>:<name>`): the record a client is answered
  with, its allocated address and the reason access is refused;
- **the reverse table** (`rev:<client>:<type>:<offset>`): which name holds an
  address of the client's pool;
- **the NAT rules** in the kernel, which nobody can enumerate by owner: a rule is
  deleted by rebuilding its text from a session, so a session that changed in the
  wrong order can never delete its rule.

The database survives a restart, the kernel's rules do too, the goroutines do
not. Calls fail: `iptables` may return an error, Badger may refuse to commit. The
pool is finite. Policies change under a request: logout, expiry of the portal
session after 15 minutes, schedules. These are the hazards of `PROJECT.json`, and
the properties below are aimed at them.

What makes each part correct: the *pool* never hands out an offset in use; the
*reverse table* is a lease table; *sessions* answer only with addresses reserved
for their name; *rules* lead to the name's host or the portal and do not multiply;
*access* refused is refused in the kernel and soon; *the review* removes what
expired. *Portal sessions* are open for those who earned them, and a logout is not
undone by the requests that follow it; *schedules* and *lists* mean what they say; a
name on a list tests as listed once the *rule index* is rebuilt; the *listener* reads
whole frames and goes on capturing; a search of the *ARP cache* answers, and not too
early; the *proxy* serves what is stored; a *terminal* that ends leaves no handler
behind and does not take the process with it; a *rewritten packet* has a checksum its
receiver accepts. Some of these do not hold, see [below](#where-the-code-and-its-text-disagree).

## Modules

| Module | Contents |
|---|---|
| `AddressPool` | addresses and offsets, the bitmap search `firstAvailable`; a pure module |
| `AddressLease` | abstract specification of the reverse table: leases are given one at a time on free addresses and end before the address is leased again |
| `Forwarding` | the forwarding core: store, firewall, DNS requests, reevaluation, pages of the portal, flush, review, setting of the firewall, restart, time |
| `ForwardingProperties` | its properties; `Lease` is `AddressLease` with `owner <- rdns` |
| `ReservationInvariant` | the inductive invariants behind `AddressIsReserved` and `FlushForgets` |
| `AccessInvariant` | the inductive invariants behind `PolicyApplied`, `UntoldOnlyWhenOwed`, `NoForeignRule`, `RuleMatchesSession` and `ToldIsBlocked` |
| `PortalSession` | portal sessions: login, logout, change of profile, `GetSessionInfo`, split at every transaction |
| `DomainAccess` | schedules, the choice of a profile, `VerifyDomainAccess` |
| `RuleIndex` | the DNS rules engine: lists, `ReIndex`, the clearing of the host rules, `Test` with the remote service |
| `Discovery` | the capturing socket, the listener, its three parsers, the event loop and name look-ups |
| `ArpCache` | `Search` and `Refresh` and the lock between them |
| `ProxySites` | stored proxies and WAF configurations, `ApplyConfiguration`, restart |
| `WebShell` | the goroutines of one terminal and their `WaitGroup` |
| `PacketRewrite` | the four eBPF programs and the checksum arithmetic |
| `AddressPoolProofs`, `ForwardingProofs`, `ReservationProofs`, `RuleProofs`, `PortalSessionProofs`, `AccessProofs` (schedules, names and the rule index), `PacketRewriteProofs`, `ServicesProofs` (discovery, ARP cache, proxy, web shell, address pool) | the theorems |
| `MCForwarding`, `MCServices`, and `MCAddressPool`, which the latter extends | the models TLC runs |

`Forwarding` extends `AddressPool`; `MCForwarding` bounds the environment of
`Forwarding`. The eight modules from `PortalSession` to `PacketRewrite` share no
state with it or with each other, and use names of their own, so that `MCServices`
can extend them all and let one of them move in each behaviour. `PortalSession`
and `DomainAccess` say in detail what `Forwarding` takes as data: its `policy` is what
`GetSessionInfo` and `VerifyDomainAccess` answer. A definition whose comment begins with "Broken:" is a faulty variant
of the one below it: put in that one's place it makes a property fail, which shows
that the property watches that piece of code.

## How the model corresponds to the code

### State

| Variable | In the code |
|---|---|
| `sessions[<<client, host>>]` | `constants.DNSSession` of type A under `dns:<client>:1:<host>`: `target` and `addr` are `DNSResponse.A.IP` and `.AllocatedIP`, `reason` is `ReasonCode`, `ifc` is `InterfaceIP`, `expired` is whether `SessionExpiry` lies in the past |
| `rdns[<<client, offset>>]` | `constants.ReverseDNS` under `rev:<client>:1:<offset>`, its `Hostname` |
| `nat[<<client, addr>>][dest]` | how many copies of `-s client -d addr -j DNAT --to-destination dest` the chain holds; `iptables -A` appends copies, `-D` deletes one |
| `policy[client]` | what `GetSessionInfo` reports: for each host the result of `VerifyDomainAccess`, and whether an access profile was found |
| `unseen[client]` | there is no portal session, so the next `GetSessionInfo` creates one and asks for a reevaluation |
| `portalFw`, `dnsFw` | `Portal.fw.fw` and the copy in `DnsServer.fw.fw`: `InitDnsServer` takes the manager by value |
| `job[goroutine]` | the local variables of a handler, and where it is; `Ticker` is the review's goroutine, `Admin` the one in `SetActiveFirewall` (main, while `boot`, and the settings page afterwards) |
| `Own[client]` (a constant) | the client's own address, if the pool has it |

Three more variables are history; no step depends on them. `owed` holds the clients whose
portal session a page made, until they are reevaluated; `untold` the sessions that took
a new verdict in `Store`, where no firewall is called; `made` what was stored or reserved
of a client since a flush of it began.

### Steps

A goroutine takes one step per database transaction and one per call of the
firewall; whatever it computes between two of them is part of the step before.
`LookupHit`, `LookupMiss`, `Resolve`, `AllocGet`, `AllocDelete`, `AllocList`,
`AllocCreate`, `AllocAdd`, `Store` are `processDnsQuery` with `processResponse` and
`Allocate`; `Reevaluate`, `ReevalRow`, `ReevalSave`, `ReevalAdd`, `ReevalStore` are
`ReevaluateAccess` with `UpdateIPv4`; `StartPage`, `ViewSession`, `ShowPage` and
`ChangeAccess` are a page of the portal: `determineRequest`, then the page's handler;
`Flush...` is `FlushSource`; `Review...` is `ReviewFwdRules`, run by the one `Ticker`;
`StartSwitch`, `SwitchSet`, `SwitchRow`, `SwitchDelete`, `ClearPrerouting`, `ClearOutput`
and `SwitchAdd` are `SetActiveFirewall` with the `Init` of iptables. `Restart` loses the
goroutines and leaves main in `SetActiveFirewall`, where it may be stopped again; nobody
is served before it is through (`Up`). Each step is enabled exactly when the
goroutine is there (`job[g].pc`), early returns are steps that end the job, and
errors the code ignores (all updates and deletes) leave the goroutine going on.

A few details that decide what the model can find:

- A database update writes the **whole row** the goroutine has in hand.
- `Allocate` takes its session by value, but `DNSResponse.A` is a pointer: the
  address it sets is the caller's too.
- A new portal session makes `StartQuery` reevaluate first; an existing one does not.
- A page asks for the client's session for the page's host first. If there is one, the
  page calls `GetSessionInfo` (`portal.go:147`), which may make the portal session, and
  does not look at `Reevaluate`: `ViewSession`. If that session needs a login and somebody
  is logged in, the page reevaluates; then it does what it was asked for.
- `AddForwardRule` makes no rule for the client's own address and returns no error;
  `RemoveForwardRule` does not make that exception.
- `SetActiveFirewall` works from a snapshot of all sessions. Of each one that had expired it
  deletes the reservation, in a next transaction the session. The two `ClearChain` calls
  and each `AddForwardRule` may fail, and go on.
- Without an access profile `VerifyDomainAccess` writes `AccessBlockedRule` into the
  row it was only asked about (`security.go:406`): `Seen` in `Reevaluate`.
- `GetStats` reads the OUTPUT chain only, so the review extends the sessions of the
  gateway's own requests alone (`Gateway`).
- `"default"` is another name of the first firewall, so `StartSwitch` may initialise the
  active one again.
- A row already read is never read again: `todo`, `at`, `busy` and `offs` are snapshots.

### Abstractions

- Times are bits: a session has expired or not; a cached answer may be found fresh
  or stale at any lookup.
- What a policy says of a host is data (`Policy`), not computed from roles,
  schedules and domain lists. The order of evaluation of several rows of one
  snapshot is left open.
- One administrator switches the firewall at a time, and the assignment to `m.fw` is one
  step (it is a data race in the code: an interface value is two words). The ticker first
  fires after the start is over.
- Whether a page finds somebody logged in is left open, as is the verdict that a login, a
  logout or a profile brings.
- `GetSessionInfo` with the portal session it may create is one step, as are
  `ForceLogout` and `SetSession`.
- Byte counts are left out: any rule that can have counted packets may have
  counted more than last time.
- A host's real address is never the gateway's own (`session.<domain>`, whose rule
  leads to the portal whatever the verdict).
- Each goroutine runs in one chain of the NAT table, told by the client; the
  address a request came in on may differ between requests.

### The other components

**`PortalSession`.** `portalSession` holds the records `session:<IP>`; a goroutine's
job in `serve` says which transaction is next. `GetSessionInfo` (`security.go:178`)
reads, then `SetSession` reads, deletes and creates; `ForceLogout` and
`SetAccessProfile` read, delete and create and look at no error. Two goroutines on one
key may make each other's commit fail (`MayConflict`); Badger's TTL may end a session
between any two steps (`Expire`). The handler's own reevaluation asks for the session
again (`Finish`). Roles, addresses and the profile's name decide nothing here and are
left out; which devices are known is not stored: the user found for an address is any.

**`DomainAccess`.** `Verify` is one call of `VerifyDomainAccess` at some minute of some
weekday; `Tick` lets time go by. Names are sequences of characters, because the code
cuts them at positions.

**`RuleIndex`.** `ReIndex` takes the list of each rule set once and goes through it, one step
per list and per rule, `read` and `write` apart;
`DomScan` and `StoreScan` are `Test` when it asks the remote service. Clearing the host
rules deletes any `PrefetchSize` of them or all, as the iterator does.

**`Discovery`.** One buffer per handle, three parsers that have been given the same
frame, the listener that waits for three `listenDone`; ARP requests go to whoever
takes them from the channel, the loop or one of the goroutines it leaves behind
(`Drain`). Writing to a socket that fails closes it and its buffer (`Write`).

**`ArpCache`.** `RLock`, `Read`, `Miss`, `Lock`, `Refresh`, `RUnlock`, `Answer` are the
statements of `Search`; `pending` keeps new readers out while a writer waits, as
`sync.RWMutex` does.

**`ProxySites`.** `ApplyConfiguration` reads the filters, reads the proxies and replaces
certificates and sites, one step each, for several pages at once. `Restart` may end the
process anywhere.

**`WebShell`.** `keepalive`, `output`, `input` and `handler` are the four goroutines;
`waiter` is the `WaitGroup`'s counter. The tty gives an error once the shell ended; a
browser may leave with a close message or silently.

**`PacketRewrite`.** A 32-bit word is two halves of `Half` values each, so that the
carries between them are those of the code; `Half` is 2^16, and 4 in the run. `csum_add`
of `nat.c` wraps at 32 bits; `bpf_l3_csum_replace` is the kernel's and external. `dnat_tc`
and `dnat_prog` meet frames with an Ethernet header, `snat_prog` frames of any kind: of an
Ethernet frame it takes the hardware addresses for an IP header, which the model takes not
to look like that of a packet to change.
`dnat.c` has a stray letter in line 32 and does not compile; it is modelled without it.

## Properties

All are in `ForwardingProperties`, `ReservationInvariant`, `AccessInvariant` and
`MCAddressPool`. "Between requests" (`Quiet`) means that nobody works for the client, the
ticker sleeps and no firewall is being set.

| Property | Says | Why it could be wrong |
|---|---|---|
| `TypeOK` | shapes; no step meets a nil row, session or request; rule copies are never negative | handlers share rows and copies |
| `ReverseTableLeases` | the reverse table implements `AddressLease` | concurrent `firstAvailable` on equal lists |
| `AddressIsReserved` | a stored session's address is reserved for its own name, except for an expired one while main is deleting it | flush, expiry and restart free reservations by address, in transactions of their own |
| `ReservationInv` | what each goroutine has read agrees with what is stored, well enough for `AddressIsReserved` | lists and rows are written back later |
| `FlushForgets` | after a flush all that is left of the client was made beside it | two lists read at two times, requests that rewrite, delete and reserve meanwhile |
| `NoForeignRule` | a rule leads to a target of the name that holds its address, whenever somebody is served | rules outlive sessions, reservations are reused |
| `RulePerReservation` | the rules of an address and those about to be appended become more one at a time: by a fresh reservation, or when `SetActiveFirewall` installs one of the sessions it read, each once (`InstallsOne`) | append and delete by several goroutines |
| `RuleMatchesSession` | between requests the rule a row describes is installed, unless the row is `untold` or its address the client's own | a rule is found by rebuilding it |
| `ToldIsBlocked` | between requests the address of a blocked session leads only to the portal, unless the row is `untold` | left-over rules |
| `PolicyApplied` | between requests every row carries the present verdict, unless the portal session ended or its reevaluation is `owed` | one reevaluation per portal session |
| `UntoldOnlyWhenOwed` | a lookup from the cache changes a verdict only of a client that is `owed` | whoever else changes the access has to reevaluate before the next lookup |
| `PolicyInv`, `ForeignInv`, `RuleInv` | what the steps between two such moments keep, so that the properties above hold at its end | what a goroutine has read is stale when it writes |
| `ExpiredIsRemoved` | an expired session whose rule can be found goes or is refreshed | removal waits for its rule |
| `RefusalTakesEffect` | a refusal reaches the row and the kernel, unless the policy changes again, the portal session ends or the rule cannot be found | the same |
| `FindsLeastFree` | the bitmap search returns the least free offset | two-level indices |
| `BlockedIsBlocked`, `KeepsAddress`, `ChosenFirewallServes` | promised by comments and by the settings page; the first is `ToldIsBlocked` for every session | see below: they fail |

The properties of the other components are in their modules:

| Property | Says | Why it could be wrong |
|---|---|---|
| `OpenIsEarned` | an open portal session names somebody who logged in there or has a device there | sessions are written back after they were read |
| `LastWishHolds` | a client that waits for its answers has the session it asked for last | three transactions per change, errors ignored |
| `EnabledNotBlocked` | such a client has no blocked session in an enabled user's name | `GetSessionInfo` goes on when `SetSession` fails |
| `PassesInItsWindow`, `RefusesOnlyListed` | a name passes through a profile only in its hours, and is refused only if it is on its list | windows over midnight; ends of names |
| `NothingMissed` | an undisturbed rebuild indexes every listed category | names on several lists, records read and written apart |
| `NothingStale` | and keeps no old one, if the index was emptied | wildcards against whole names |
| `FramesAreWhole`, `CapturesAgain` | parsers read the frame they were given; the listener captures again | one buffer, one count for three parsers |
| `LookupsAreKnown` | the event loop knows every node whose name is looked up | the answer is written through a map entry |
| `MissIsFresh`, `SearchEnds` | an address is unknown only if the kernel did not know it; a search ends | the lock changes hands in the middle |
| `ServedAsStored` | what is served is what is stored once it was applied undisturbed | two lists read at two times, two assignments |
| `EndOfShellEndsHandler` | a shell that ends does not leave its handler waiting | only some goroutines call `Done` |
| `OneDoneWithoutTimeout` | the counter reaches zero once, unless a pong was missed | two goroutines call `Done` |
| `MissedPongDisconnects` | a missed pong ends the handler, not the process | it fails, see below |
| `SnatKeepsChecksum` | a valid header stays valid | end-around carries |
| `PortalTypeOK`, `PacketTypeOK` | shapes: no goroutine writes a session that is not there; halves keep no carry | stale reads; two carries |

`Kept` leaves two addresses out of these properties: the empty text, and the last
address of the pool. The code frees the last one whenever `OffsetFromIP4` is given
something it does not recognise (the empty text, or the *first* address), so its
reservation is not safe; a client has to hold all 65536 addresses to get it.

## Runs

All runs of `MCForwarding` have one client, two hosts and up to three real
addresses. `Fuel` bounds the events of the environment (requests, pages, expiries,
restarts, switches); the steps of goroutines and the ticker are free, so a run
explores every interleaving of up to `Fuel` events and ends. One client is enough:
no table, and no step but the snapshot of the review and of a switch, relates rows
of two clients, and the proofs hold for any number. `MaxValue` is the last offset,
so a pool has `MaxValue + 1` addresses; `WordSize = 1` gives every offset a word of
its own (`Services` has a pool of two words of four). `FirstIP = 10` stands for
10.0.0.1; all that matters is that it is not 0.

| Run | Instance | States | Shows |
|---|---|---|---|
| `Access` | one worker, four policies, h1 with rotating answers, four addresses of which the second is the client's own; pages, login, logout, expiry, review; Fuel 6 | 1.0 million | the tables agree and carry the present policy, the invariants of the proofs hold at every step between, and the exceptions are those of `owed` |
| `Flush` | two workers for one client, flush and deletion of the portal session beside requests, pages and the review; Fuel 3 | 97 000 | a flush leaves only what was made beside it |
| `Crash` | restart at any step, those of the start included, policies that change unnoticed, three firewalls; Fuel 6 | 1.4 million | no wrong host and no lost reservation after a restart |
| `Overlap` | two workers for one client which is the gateway, two addresses, failing `iptables`, refused commits, flush, switches, pages, review with traffic; Fuel 3 | 870 000 | leases and rule counts survive anything |
| `Progress` | fairness; six addresses; Fuel 5 | 73 000 | expiry and refusal take effect |
| `Services` | the eight other components and the pool's search, one per behaviour | 220 000 | their properties |

The bounds are chosen so that the cases that matter happen. Six events are a
request, an expiry, a change of policy, a second host that takes the freed address
and a return to the first; or a request, the end of the portal session, a page, and a
lookup that finds the old verdict. Three events with two workers are two requests that
race and one flush, switch or page between them; with two addresses the pool runs out.
Each "Broken:" variant is caught under the bounds of the run it is named for.

Each run leaves out the events that break its properties for a reason that is known and
described:

- `Access` and `Progress` have one request of a client at a time and no failing calls,
  because verdicts and rules do not survive those (below); one interface (below); no
  `schedule` event, because a schedule that starts does not reevaluate anything; no flush,
  because a flush frees reservations whose older rules it cannot find; no switch.
- `Flush` checks one thing: a request beside a flush may store a session whose reservation
  the flush then deletes, so `AddressIsReserved` does not hold there. Commits are not
  refused: a delete that fails leaves what it should have deleted.
- `Crash` checks nothing about access, because a restart between a change of policy and its
  reevaluation forgets the reevaluation. Its firewall calls do not fail: a `ClearChain` that
  does leaves the rules of the last run beside addresses that are free again.
- `Overlap` has no restart and no end of a portal session, which the theorems about its
  properties have, and checks what survives everything. `AddressIsReserved` does not:
  while `SetActiveFirewall` is between the two deletions of a session, requests find it in
  the cache, and the reservation may go to another name (`FirewallManager.go:104`).
- `Progress` gives the pool an address for every request, because reservations of
  expired sessions are never freed and a session without an address never expires (its
  rule can not be deleted).

The instances of `Services`: one client, two users of whom one is enabled, two
goroutines that serve (the least at which transactions collide); headers of four-valued
halves, in which every pattern of carries occurs; three schedules with windows of the
day and over midnight, at the minutes where they begin and end; two names, one below the
other, on up to three lists, and an iterator that holds one key (with two records it
meets its limit); two machines that had the same address, beside this one, and one
goroutine left behind; two searches and one hardware address; one domain and one
filter, two pages that apply; one terminal whose error limit is 1; every set of taken offsets among eight. No module but
`RuleIndex` (`MaxChanges`) and `Discovery` (`MaxDrains`) needs a bound on its events. The
components meet nowhere, so behaviours in which two of them move would show nothing
more.

**Fairness.** `Fairness` is weak fairness of every goroutine's own steps and of the
ticker: the Go scheduler runs what can run, and the ticker's loop never ends.
Nothing is assumed of clients, administrators, clocks or policies, and none of
strong fairness. A step that may fail is not assumed to succeed: `Progress` has no
failing calls. `DiscoveryFairness` and `ShellFairness` are weak fairness of all the
goroutines' own steps together: something that can run does. Which of them is left
open, and the network and the browser need do nothing. `ArpFairness` is strong for
`RLock` and `Lock` alone, because a `sync.RWMutex` lets in whoever waits: readers that
came while a writer waited go before the next writer; it is weak for the rest.

**Deadlock** is not checked in `MCForwarding`: when the fuel is used up and every
goroutine is idle, the model stops, as a program nobody asks does. It is checked in
`Services` and `Terminal`: none of those components stops for good, as the process ends
only to be started again.

## Where the code and its text disagree

Six runs state what a comment or a page says and show a behaviour that violates it.

- `SwallowedPage`: `ipTables.go:88` says "Block access due to reasoncode". A page of the
  portal makes the portal session, after the old one ended, and drops the reevaluation
  that `GetSessionInfo` asks for (`portal.go:147`). The next request finds a portal session
  and does not reevaluate; its cached row gets the verdict "blocked" and the rule stays
  open. One client that does one thing after the other is enough.
- `SecondAddress`: `FirewallManager.go:188` says "check if IP is already allocated".
  `OffsetFromIP4` compares with a strict `>`, so the first address of the pool reads
  back as `max_value` and is never recognised: the name gets a second address and a
  second rule, and the first ones stay for ever.
- `StaleVerdict`: the same line. A request
  reads the policy; a logout reevaluates the sessions, where the request's is not
  stored yet; the request then installs an open rule. A later lookup from the cache
  marks the session as blocked and leaves the rule as it is.
- `StaleReview`: the same line. The review extends a row by writing back the whole
  row it read before a logout: the table says allowed while the rule leads to the
  portal. The reevaluations that follow look for a rule that is not there, and the
  row ends up blocked with an open rule.
- `SwitchedFirewall`: `templates/settings.html:66` says "Override firewall used to
  apply network access policies." The DNS server has a copy of the manager and goes
  on with the firewall of start-up.
- `Terminal`: `handler_websocket.go:124` says "failed to get response from ping,
  triggering disconnect now...". The keep-alive loop calls `Done`, the handler ends and
  kills the shell, the goroutine that reads the tty gets an error and calls `Done` again
  on a `WaitGroup` of 1. The panic takes DNS server and portal along.

A theorem shows one more, for every packet: `nat.c:57` says "update checksum (RFC 1624
incremental update)", and the checksum it writes is never valid (`RedirectedHeaderIsOff`).

What the models show beside the properties, and no text of the repository promises
otherwise:

- *Rules.* A client that asks for a blocked name through a second address of the server,
  when the answer has rotated, gets a rule to that address (`Allocate` takes the request's
  `if_ip`), while its session keeps the first one's `InterfaceIP` (`dnsserver.go:115` is
  reached by new sessions only): no later update finds the rule. With two values for
  `Interface` the `Access` run violates `RuleMatchesSession`.
- *The client's own address.* If the pool has it and `Allocate` hands it out, the session has no
  rule; the review then never removes the session, because there is no rule to delete.
- *Access.* Without an active profile `VerifyDomainAccess` answers what the session says
  (allowed), although it has written `AccessBlockedRule` into the row it was given. A name
  below an allowed domain matches only by accident: the suffix is taken from the wrong
  end.
- *Portal sessions.* Two first requests of a client at once can leave a blocked session
  in the name of an enabled user (`SetSession` fails for one of them, which then stores
  what the mode says). A login is lost when the old session's TTL ends between
  `SetSession`'s look and its delete.
- *Rule index.* Of more than 100 host rules an unspecified part survives the clearing;
  rule sets that are disabled are indexed as well; two rebuilds at once lose categories.
- *Proxy.* An enabled WAF configuration with a mistake panics on a nil map: the page
  answers with an error, but the record is stored and every later start ends there.
  Creating or deleting a proxy applies nothing. A site whose filter is missing is served
  unfiltered.
- *Terminal.* When the browser is gone, the ping fails and the shell is silent, the
  handler waits for ever. Two goroutines may write to the connection at once, which the
  library may answer with a panic (`Panic`).
- *eBPF.* `dnat.c` counts the checksum's offset without the Ethernet header and changes
  the source address in its place.

## Proofs

TLAPS checks the following for every value of the constants that meets
`PoolAssumption` and `ForwardingAssumption`: any number of clients, hosts,
goroutines and addresses and, where nothing else is said, overlapping requests,
every event and every failure.

- `FirstAvailableIsLeast` (`AddressPoolProofs`): `firstAvailable` returns the least
  offset not taken, and fails only if all are. It rests on `PlaceOfOffset` and
  `OffsetOfPlace` (an offset is a word and a bit in exactly one way) and `MinNat`.
- `OffsetsReadBack`: every offset but 0 survives the conversion to an address and
  back; 0 reads back as the last one.
- `TypeCorrect`: `Spec => []TypeOK`. `TypeOK` is inductive as it stands because
  `Equipped` is part of it: at each step a goroutine has in hand the client, host,
  session information, row or task that the step uses. Without it a step would read
  fields of `Nil`, and a rule count could not be shown to be a natural number.
  One lemma per group of actions (`StartTypes`, `LookupTypes`, `AllocateTypes`,
  `ReevaluateTypes`, `PageTypes`, `FlushTypes`, `ReviewTypes`, `SwitchTypes`,
  `ProcessTypes`, `TimeTypes`) over lemmas on the store, the firewall and a goroutine's
  local state (`SessionsType`, `ReverseType`, `RulesType`, `StepType`).
- `LeaseRefinement`: `Spec => ReverseTableLeases`. With `TypeOK` each step maps to
  `Lease` (`CreateLeases`), `Release` (`DeleteReleases`) or a
  stutter of `AddressLease`. The refinement mapping is the identity on the table;
  that it holds for any interleaving is the content: `firstAvailable` works on a
  list that may be out of date, and `create` is what keeps a reservation.

- `InvariantHolds`, `AddressesStayReserved`: `Spec => []AddressIsReserved`, assuming
  `Orderly`: the requests of one client follow one another, a flush being one of them, no
  update is refused by the database, the review writes no row back, and the firewall is set
  by main alone (one request at a time, and `Events` without `conflict`, `traffic` and
  `switch`). Reviews, restarts, pages, failing `iptables` calls and requests of other
  clients may come between any two steps, and main may be stopped between any two of
  its own. `AddressIsReserved` speaks of stored rows only and is not inductive: `Store`
  writes what a request read many steps ago. `ReservationInv` adds, for each goroutine, what
  it has in hand. `DraftSafe`: the address of a request's row is reserved for its
  name; an offset about to be reserved is still free; so `AllocDelete` is never reached.
  `SnapshotSafe`: a reevaluation's rows have the addresses of the rows they overwrite.
  `FlushSafe`: no row of the client is missing on a flush's list. `WorkersApart`: no two
  goroutines work for one client. `BootSafe`: while main starts nobody else works, and each
  expired session on its list has its reservation or lost it to nobody.
  The proof sees a step from the clients it is not made for (`BystanderKept`,
  `WorkerKeeps`, `OutsideKeeps`) and then each step from its own client.
  `SwitchRowKeeps` is the interesting one: main frees reservations by address, and
  because every address is reserved for one name, it never frees that of a row it keeps;
  a start that was cut short between two deletions is taken up by the next (`RestartKeeps`).
- `FlushIsThorough`: `Spec => FlushForgets`, assuming only that Badger refuses no commit.
  Requests of the client, pages, other flushes, reviews, switches and restarts may come
  between any two of the flush's steps. `FlushInv` says that whatever is stored of the client
  is on the flush's list or newer than the flush, while it deletes sessions and again while
  it deletes reservations; an update rewrites only what is there and so brings nothing old
  back (`RewritingCreatesNone`), and all that creates goes through `CreateDNSSession` and
  `CreateReverseDNS`, which the history remembers (`QueriesRemember`, `OthersRemember`).

`Orderly` cannot be dropped from the first argument: with overlapping requests two
goroutines that look for a free offset for one client find the same one, the second
fails to reserve it and stores the address all the same; and a switch of the settings page
deletes reservation and session one after the other, while a request may use the session
(`Overlap` therefore checks leases and rule counts only).

- `RulesDoNotMultiply` (`ForwardingProofs`): `Spec => RulePerReservation`, for finitely many
  goroutines, targets and interfaces (`Bounded`) and nothing else: requests may overlap,
  calls may fail, the tables may disagree. The property is about a sum, the rules of an
  address plus the goroutines about to append one. A step that appends leaves `Appends`
  in exchange (`ReevalAdd`, `AllocAdd`), one that enters it has just taken a rule away
  (`ReevalRow`) or made a reservation (`AllocCreate`), and each append of
  `SetActiveFirewall` takes a session off the list it read (`SwitchClaims`), whether or not
  the chains could be emptied before. Sums need induction over a finite set, which
  the library cannot give (its theorem takes an operator). The section "Sums over finite sets"
  does it by a least counterexample instead: `MapThenFoldSet` is a recursive *function*,
  `SumsExist` shows it well defined on all subsets at once, and `TotalTakes` and
  `TotalChanges` are what the steps cite.

`AccessInvariant` holds the three invariants of the rules and verdicts, `RuleProofs` the
theorems. Each speaks of what a goroutine has in hand, because `PolicyApplied`,
`RuleMatchesSession` and `ToldIsBlocked` only speak of the moments when nobody works for
the client. All three are also checked by the `Access` run, `ForeignInv` by `Crash` too.

- `PolicyInvHolds`, `PolicyIsApplied`: `Spec => []PolicyApplied`, assuming `Followed`:
  `Orderly`, no schedule starts or ends, no restart. (A schedule changes what a client may
  do and reevaluates nothing, and a restart forgets a reevaluation; the model shows both.)
  Pages, flushes, failing `iptables` calls and the review stay. `InformedBy` says that a
  goroutine and all rows of its client go by *one* policy, the one the client has or, when
  the portal session ended meanwhile, the one it had: every row carries that policy's
  verdict or is still listed by the reevaluation under way, whose tasks carry it. The rows
  of a client that is `owed` are excepted, until `Reevaluate` pays.
- `OnlyOwedAreUntold`: `Spec => UntoldOnlyWhenOwed`, under the same assumption: a request
  whose client is not owed finds its cached row with the verdict it is about to write.
- `ForeignInvHolds`, `NoRuleIsForeign`: `Spec => []NoForeignRule`, assuming `Reserving`:
  `Orderly`, no flush, which frees reservations whose older rules nobody finds, and not
  restarts and failing `iptables` calls together: a `ClearChain` that fails leaves the rules
  of the last run. Either of the two, pages, the review and changed schedules stay.
  `NoForeignRule` alone is not inductive: a rule is appended for a row read long before.
  `Owned` says of every row, stored, on a list or in a request, that its record is one of
  its host's and its address reserved for the host; `RulesAreReserved` that an address with
  a rule is never handed out as a free one; `BootOwned` that main appends the rules of
  sessions that keep their reservations to chains that it emptied.
- `RuleInvHolds`, `SessionHasItsRule`, `BlockedLeadsToPortal`: `Spec => []RuleMatchesSession`
  and `Spec => []ToldIsBlocked`, assuming `Settled`: `Reserving`, no restart, iptables as
  the only backend, no failing call of it, and one interface. Each of these is needed: a failing
  append leaves a session without a rule, a failing delete a second rule, another backend
  none at all, and two interfaces are described above. Any number of clients, hosts,
  goroutines and addresses, rotating answers, all changes of access, with schedules and
  pages that reevaluate nothing, and the review remain.
  `RuleInv` says that an address has at most one rule, and none while a goroutine is about to
  append one (`OneRule`); that a session has the rule it describes unless a reevaluation
  or the review is between its two calls (`StoredServed`); and that what a goroutine has in hand
  is still what is stored (`DraftServed`, `TasksMatch`, `ReviewMatches`), so that the rule it
  deletes is the one installed. `ToldIsBlocked` then follows from there being one rule only.
  Two kinds of session are excepted: those in `untold`, whose verdict changed and whose rule
  did not, and those that answer with the client's own address. That the first exist is
  the finding of `SwallowedPage`.

The hypotheses are satisfied by the runs that check the same properties: `Access` meets
`Followed` and `Settled`, `Crash` meets `Orderly` and `Reserving`, and `Flush` has no
refused commits.

The modules beside `Forwarding`, under their own assumptions on the constants:

- `OpenSessionsAreEarned`, `LastWishesHold`, `NoEnabledUserIsBlocked`, `PortalTypes`
  (`PortalSessionProofs`): the four properties of `PortalSession`, for any number of
  clients, users and goroutines. The invariant `PortalInv` adds to the types what each
  goroutine is about to write. `EarnedInv`: not only an open session but also a session
  in a job was earned. `OrderlyInv` is about the clients that wait for their answers: one
  goroutine works for them; when it is about to create, there is no session, so `create`
  cannot fail; and at each of its transactions it either still carries the last wish or has
  stored it (`Wishes`). `MoveKeeps` shows once what a step has to respect (`Fits`); one lemma
  per action then says what its job is. Other clients are not assumed to be orderly.
- `ScheduleIsItsWindow` (`AccessProofs`): `IsScheduleActive` agrees with the
  minutes of the week an entry describes, for every entry, weekday and minute.
- `PassesOnTime`, `RefusesOnTime` (`AccessProofs`): `PassesInItsWindow` and
  `RefusesOnlyListed`, for every schedule, list, name and minute. `AccessInv` says that a
  verdict belongs to the question that was asked; the rest is `ScheduleIsItsWindow` and what
  the loop over a role's entries returns (`AccessProfile`).
- `RebuildMissesNothing`, `EmptiedIsNotStale` (`AccessProofs`): `NothingMissed` and
  `NothingStale`, for any rule sets and any number of rebuilds that overlapped before.
  `IndexInv` makes them inductive: while nothing has disturbed the rebuild it is the only one
  (`OneRebuild`), the rules it is through with are indexed (`DoneIsIndexed`), and the record it
  read is still the stored one (`ReadIsCurrent`), so writing it back loses nothing; after an
  index that was emptied, all that is in it is listed (`IndexIsListed`).
- `SourceRewritesKeepChecksum`, `RedirectedHeaderIsOff`, `PacketTypes` (`PacketRewriteProofs`):
  by the arithmetic of carries, for every `Half` above 2 (nothing rests on its being a power of 2).
- `StoredIsServed` (`ServicesProofs`): `ProxySpec => []ServedAsStored`, for any number of
  domains, filters and concurrent applications. `ProxyInv` adds what happens before the
  server is set: an application that nothing disturbed has read what is stored, nobody
  else applies (`AloneInv`), and none is under way while `applied` holds (`AppliedInv`).
- `FramesStayWhole`, `LookupsStayKnown` (`ServicesProofs`): for any nodes and any number
  of frames. `FramesAreWhole` alone is not inductive: the listener counts three answers
  without knowing whose they are. `Counted` says which parsers can be waiting at each of
  its steps; after the third answer all of them do.

- `MissesAreFresh` (`ServicesProofs`): for any number of concurrent searches and refreshes.
  `ArpInv` says what a search has in hand once it found nothing: the table, when the search
  looks again, holds what the kernel knew at some time since the search began. That the
  lock is not held between the two looks makes no difference.
- `OneDoneEach` (`ServicesProofs`): `waiter`, the counter plus 1, is 2 minus the two events that call `Done`
  (`Dones`), and neither happens twice.
- `LeastFreeIsFound` (`ServicesProofs`): `FirstAvailableIsLeast` for the specification of
  `MCAddressPool`, which `Services` runs, for every size of pool and word.

So every invariant and action property that a passing run checks is a theorem, under the
assumptions named. Only model-checked are the liveness properties: `ExpiredIsRemoved`, `RefusalTakesEffect`,
`CapturesAgain`, `SearchEnds` and `EndOfShellEndsHandler`. They rest on fairness and ENABLED,
which are out of TLAPS's reach. The properties of the six runs that expect a violation do not
hold; so there is nothing to prove.

## What is not modelled

- Sessions of other types than A. They reach neither firewall nor reverse table,
  with one exception: an answer that lacks a cached AAAA address puts an AAAA record
  into the A field (`dnsserver.go:102`).
- Two administrators who switch the firewall at once, a switch torn between the two words
  of `m.fw`.
- Errors of `GetSessionInfo` when a role is missing, FORWARD accept rules and port
  rules, rows that do not parse.
- Errors of a rule set's download and its parsing, the text of block lists; the
  requests discovery sends and its start-up; `FindByIP` (it walks the node map while the
  event loop writes it, with no lock); serving a request through a proxy; the
  certificates and the rules of a filter; resizing a terminal.
- The administration pages that only store what a form says, page selection and
  registration of the portal, tokens and listeners of the web server, start-up, logs.
- The former DNS filter (blacklist, upstream cache, local records): it is loaded but no
  request reaches it; the calls are commented out, although the repository's README still
  describes them.
- `ebpf/main.go`, an experiment that attaches one program, and `ebpf/vmlinux.h`: 149 499
  lines that `bpftool` generated from a kernel's type information. They hold no
  behaviour; of its types the model has the two headers the programs read. The four C
  programs themselves (212 lines) are modelled.

## Plan

What is left, in the order of what it would add:

1. `PortalSession` in place of the one-step `policy` of `Forwarding`, as a refinement: the
   abstract policy is what the session says between two transactions.
2. A run with sessions of type AAAA, and one with several interfaces.
3. Weaker hypotheses: `Orderly` with switches of the settings page, for the sessions that had
   not expired when it took its snapshot; `Reserving` with flushes, for the clients that were
   never flushed; `PolicyApplied` over a restart, for the clients whose portal session began
   after it; and `Orderly` only for the client a property is about, as `OrderlyInv` does for
   the portal.

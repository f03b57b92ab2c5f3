------------------------------ MODULE Forwarding ------------------------------
(***************************************************************************)
(* The forwarding core of Sleuth.  A client that asks for the address of a *)
(* host is answered with a private address of its own pool; a NAT rule     *)
(* sends what the client then sends to that address either to the host's   *)
(* real address or, while access is refused, to the gateway's own portal.  *)
(* Three tables must agree for this to work: the DNS sessions and the      *)
(* reverse table (both in Badger, both on disk) and the kernel's NAT rules.*)
(*                                                                         *)
(* Nothing locks the three together.  Every DNS request, every portal      *)
(* request and the review ticker is a goroutine of its own, and each one   *)
(* is modelled here with the granularity of the code: one step per Badger  *)
(* transaction and one per call of the firewall, the values carried from   *)
(* one to the next in the goroutine's local record.                        *)
(*                                                                         *)
(* Sessions of type A only: those of other types carry no A record and     *)
(* reach neither the reverse table nor the firewall.                       *)
(***************************************************************************)
EXTENDS AddressPool

CONSTANTS
    Client,      \* source addresses of the devices behind the gateway
    Gateway,     \* the clients that are the gateway itself: rules in OUTPUT
    Host,        \* names asked for
    Target,      \* real addresses of the hosts
    Answer,      \* Answer[h]: the sets of A records upstream may give for h
    Interface,   \* addresses of the gateway (the portal)
    Policy,      \* what GetSessionInfo may say of a client
    Firewall,    \* the names SetActiveFirewall may be given
    Worker,      \* goroutines serving DNS and portal requests
    Ticker,      \* the goroutine started by FirewallManager.Init
    Admin,       \* the goroutine in SetActiveFirewall: main, then the settings page
    Own,         \* Own[c]: the client's own address if the pool has it, or NoIP
    Events,      \* what the environment does, see EventNames
    Overlap,     \* may a client have two requests in flight?
    Nil          \* a nil pointer, or an empty text

\* internal/constants/FwdRule.go
AccessAllowed == 0
AccessBlockedNotAuthenticated == 1
AccessBlockedUnauthorised == 2
AccessBlockedRule == 3
Reason == AccessAllowed .. AccessBlockedRule

(***************************************************************************)
(* Events of the environment, each allowed or not by the constant Events:  *)
(*   "portal"    pages of the portal: views, logins, logouts, profiles     *)
(*   "timeout"   the 15 minute TTL of the portal session runs out          *)
(*   "schedule"  the access changes and no handler runs (a schedule        *)
(*               starts or ends, a role is edited)                         *)
(*   "flush"     an administrator flushes a client or deletes its session  *)
(*   "switch"    an administrator picks another firewall                   *)
(*   "restart"   the process stops and starts again on the same database   *)
(*   "traffic"   packets match the rules counted by GetStats               *)
(*   "iptables"  a call of the iptables program may fail                   *)
(*   "conflict"  Badger refuses to commit an update (ErrConflict)          *)
(*   "review"    the minute of the review ticker passes                    *)
(***************************************************************************)
EventNames == {"portal", "timeout", "schedule", "flush", "switch", "restart",
               "traffic", "iptables", "conflict", "review"}

Key == Client \X Host
Slot == Client \X Offset
Dest == Target \cup Interface

\* constants.DNSSession.  SessionExpiry is kept as whether it lies in the past;
\* DNSExpiry is read by the lookup alone, which may find it in the past or not.
Row == [target  : Target \cup {Nil},     \* DNSResponse.A.IP, or A is nil
        addr    : Address \cup {NoIP},   \* DNSResponse.A.AllocatedIP
        reason  : Reason,                \* ReasonCode
        ifc     : Interface,             \* InterfaceIP
        expired : BOOLEAN]               \* SessionExpiry

\* security.SessionInfo: the result of VerifyDomainAccess for every host, and
\* whether an access profile was found.
SessionInfo == [profile : BOOLEAN, verdict : [Host -> Reason]]

\* One row of a snapshot a handler works through, and the reason it will get.
Task == [key : Key, row : Row, reason : Reason]

ASSUME ForwardingAssumption ==
    /\ IsFiniteSet(Client) /\ IsFiniteSet(Host)
    /\ Gateway \subseteq Client
    /\ Target \cap Interface = {}
    /\ Nil \notin Client \cup Host \cup Target \cup Interface \cup Firewall
    /\ Nil \notin SessionInfo \cup Row \cup Task
    /\ Answer \in [Host -> SUBSET (SUBSET Target)]
    /\ Policy \subseteq SessionInfo
    /\ \A info \in Policy : ~ info.profile =>
          \A host \in Host : info.verdict[host] = AccessAllowed
    /\ Firewall \subseteq {"none", "iptables", "unimplemented"}
    /\ Ticker \notin Worker /\ Admin \notin Worker /\ Admin # Ticker
    /\ Own \in [Client -> Address \cup {NoIP}]
    /\ Events \subseteq EventNames
    /\ Overlap \in BOOLEAN

VARIABLES
    sessions,    \* Badger "dns:<client>:1:<host>": Row or Nil
    rdns,        \* Badger "rev:<client>:1:<offset>": the host or Nil
    nat,         \* kernel: copies of the DNAT rule (client, address) -> dest
    policy,      \* what GetSessionInfo says of the client now
    unseen,      \* the client has no portal session: GetSessionInfo makes one
    portalFw,    \* Portal.fw.fw, used by the ticker, flushes and settings
    dnsFw,       \* DnsServer.fw.fw, a copy made when the portal starts
    job          \* the local state of every goroutine

\* What happened before.  No step of the program depends on it.
VARIABLES
    owed,        \* clients whose portal session a page made, not reevaluated since
    untold,      \* sessions that took a new verdict the firewall was not told of
    made         \* sessions and reservations made since a flush of their client began

db == <<sessions, rdns>>
history == <<owed, untold, made>>
vars == <<sessions, rdns, nat, policy, unseen, portalFw, dnsFw, job, history>>

Goroutine == Worker \cup {Ticker, Admin}

AllocPc == {"allocGet", "allocDelete", "allocList", "allocCreate", "allocAdd",
            "store"}
QueryPc == {"lookup", "resolve"} \cup AllocPc
ReevalPc == {"reevaluate", "reevalRow", "reevalSave", "reevalAdd", "reevalStore"}
FlushPc == {"flushList", "flushRow", "flushDelete", "flushRevList", "flushRev"}
PagePc == {"page", "handle"}
ReviewPc == {"reviewExtend", "reviewRow", "reviewDelete"}
SwitchPc == {"switchSet", "switchRow", "switchDelete", "clearPrerouting",
             "clearOutput", "switchAdd"}
Pc == {"idle"} \cup QueryPc \cup ReevalPc \cup PagePc \cup FlushPc
               \cup ReviewPc \cup SwitchPc

\* Steps in the middle of the work on one row.
RowPc == {"reevalSave", "reevalAdd", "reevalStore", "flushDelete", "reviewDelete",
          "switchDelete"}

Job == [pc     : Pc,
        client : Client \cup {Nil},
        host   : Host \cup {Nil},        \* Nil: not a DNS request
        ifc    : Interface \cup {Nil},   \* the address the request came in on
        ses    : Policy \cup {Nil},      \* SessionInfo read at the start
        row    : Row \cup {Nil},         \* cache; of a page: the host's row
        cached : BOOLEAN,
        offset : Offset,                 \* destIPOffset
        todo   : SUBSET Task,            \* rows left of the snapshot
        at     : Task \cup {Nil},        \* the row being worked on
        busy   : SUBSET Task,            \* rows whose rule carried traffic
        offs   : SUBSET Offset,          \* offsets left to delete
        fw     : Firewall \cup {Nil},    \* the firewall to be made active
        boot   : BOOLEAN]                \* the process is starting

Idle == [pc |-> "idle", client |-> Nil, host |-> Nil, ifc |-> Nil,
         ses |-> Nil, row |-> Nil, cached |-> FALSE, offset |-> 0,
         todo |-> {}, at |-> Nil, busy |-> {}, offs |-> {}, fw |-> Nil,
         boot |-> FALSE]

\* What a goroutine has in hand at each of its steps.
Equipped(local) ==
    /\ local.pc \in QueryPc \cup ReevalPc \cup PagePc \cup FlushPc => local.client # Nil
    /\ local.pc \in QueryPc => local.host # Nil
    /\ local.host # Nil => local.ses # Nil /\ local.ifc # Nil
    /\ local.pc \in AllocPc \cup {"page"} => local.row # Nil
    /\ local.pc \in RowPc => local.at # Nil
    /\ local.pc \in SwitchPc => local.fw # Nil

TypeOK ==
    /\ sessions \in [Key -> Row \cup {Nil}]
    /\ rdns \in [Slot -> Host \cup {Nil}]
    /\ nat \in [Client \X Address -> [Dest -> Nat]]
    /\ policy \in [Client -> Policy]
    /\ unseen \in [Client -> BOOLEAN]
    /\ portalFw \in Firewall
    /\ dnsFw \in Firewall
    /\ job \in [Goroutine -> Job]
    /\ \A g \in Goroutine : Equipped(job[g])
    /\ owed \subseteq Client
    /\ untold \subseteq Key
    /\ made \subseteq Key \cup Slot

NoRules == [slot \in Client \X Address |-> [dest \in Dest |-> 0]]

Init ==
    /\ sessions = [key \in Key |-> Nil]
    /\ rdns = [slot \in Slot |-> Nil]
    /\ nat = NoRules
    /\ policy \in [Client -> Policy]
    /\ unseen = [client \in Client |-> TRUE]
    /\ portalFw \in Firewall
    /\ dnsFw = portalFw
    /\ job = [g \in Goroutine |-> Idle]
    /\ owed = {} /\ untold = {} /\ made = {}

-----------------------------------------------------------------------------
(***************************************************************************)
(* The store.  Each operator is one Badger transaction on one key; a       *)
(* transaction that meets a concurrent one may fail without effect, and no *)
(* caller looks at the error of an update or a delete.                     *)
(***************************************************************************)

Conflict == "conflict" \in Events

\* update: only a row that exists is written.
UpdateDNSSession(key, row) ==
    \/ /\ sessions[key] # Nil
       /\ sessions' = [sessions EXCEPT ![key] = row]
    \/ /\ sessions[key] = Nil \/ Conflict
       /\ UNCHANGED sessions

\* CreateDNSSession: only a row that does not exist is written.
CreateDNSSession(key, row) ==
    \/ /\ sessions[key] = Nil
       /\ sessions' = [sessions EXCEPT ![key] = row]
    \/ /\ sessions[key] # Nil \/ Conflict
       /\ UNCHANGED sessions

DeleteDNSSession(key) ==
    \/ sessions' = [sessions EXCEPT ![key] = Nil]
    \/ Conflict /\ UNCHANGED sessions

DeleteReverseDNS(slot) ==
    \/ rdns' = [rdns EXCEPT ![slot] = Nil]
    \/ Conflict /\ UNCHANGED rdns

\* Broken: set in place of create.
SetReverseDNS(slot, host) == rdns' = [rdns EXCEPT ![slot] = host]

\* CreateReverseDNS succeeds only on a free offset.
CreateReverseDNS(slot, host) ==
    /\ rdns[slot] = Nil
    /\ rdns' = [rdns EXCEPT ![slot] = host]

CreateReverseDNSFails(slot) ==
    /\ rdns[slot] # Nil \/ Conflict
    /\ UNCHANGED rdns

\* GetDNSSessionsForClient, GetDNSSessions: the rows of some clients as tasks.
Stored(clients) ==
    {[key |-> key, row |-> sessions[key], reason |-> sessions[key].reason] :
        key \in {k \in Key : k[1] \in clients /\ sessions[k] # Nil}}

\* Broken: the offsets in use are looked up among the sessions.
ReservedBySessions(client) ==
    {o \in Offset : \E host \in Host :
        /\ sessions[<<client, host>>] # Nil
        /\ sessions[<<client, host>>].addr = IP4fromOffset(o)}

\* GetReverseDNSByClientType
Reserved(client) == {o \in Offset : rdns[<<client, o>>] # Nil}

(***************************************************************************)
(* The firewall.  iptables appends and deletes DNAT rules by their exact   *)
(* text; nftables, ebpf and software-nat answer "Not implemented".         *)
(***************************************************************************)

\* getDestIP
DestIP(row) == IF row.reason > AccessAllowed THEN row.ifc ELSE row.target

\* "unexpected IP allocation": the client's own address gets no rule, and no error.
AddForwardRule(fw, client, addr, dest) ==
    \/ /\ fw = "iptables" /\ addr \notin {NoIP, Own[client]}
       /\ nat' = [nat EXCEPT ![<<client, addr>>][dest] = @ + 1]
    \/ /\ fw # "iptables" \/ addr \in {NoIP, Own[client]} \/ "iptables" \in Events
       /\ UNCHANGED nat

Installed(client, addr, dest) == addr # NoIP /\ nat[<<client, addr>>][dest] > 0

\* Broken: a rule that is not there is deleted all the same.
RemoveUnchecked(fw, client, addr, dest) ==
    /\ fw = "iptables" /\ addr # NoIP
    /\ nat' = [nat EXCEPT ![<<client, addr>>][dest] = @ - 1]

\* Broken: success is reported and the rule stays.
RemoveNothing(fw, client, addr, dest) ==
    /\ fw = "iptables" /\ Installed(client, addr, dest)
    /\ UNCHANGED nat

RemoveForwardRule(fw, client, addr, dest) ==
    /\ fw = "iptables" /\ Installed(client, addr, dest)
    /\ nat' = [nat EXCEPT ![<<client, addr>>][dest] = @ - 1]

RemoveForwardRuleFails(fw, client, addr, dest) ==
    /\ \/ fw # "iptables"
       \/ ~ Installed(client, addr, dest)
       \/ "iptables" \in Events
    /\ UNCHANGED nat

-----------------------------------------------------------------------------
(***************************************************************************)
(* Goroutines.                                                             *)
(***************************************************************************)

Continue(g, local) == job' = [job EXCEPT ![g] = local]
Finish(g) == Continue(g, Idle)
At(g, pc) == job[g].pc = pc

\* The DNS server and the web server are started after the firewall.
Up == ~ job[Admin].boot

\* A worker takes a request of the client.
Accepts(w, client) ==
    /\ w \in Worker
    /\ At(w, "idle")
    /\ Up
    /\ Overlap \/ \A v \in Worker : job[v].client # client

(***************************************************************************)
(* What a request adds to the history.                                     *)
(***************************************************************************)

Flushing(client) ==
    \E w \in Worker : job[w].pc \in FlushPc /\ job[w].client = client

\* The address keeps its rule and the session takes another verdict.
Overwritten(key) ==
    /\ sessions[key] # Nil /\ sessions'[key] # Nil
    /\ sessions'[key].addr = sessions[key].addr
    /\ sessions'[key].reason # sessions[key].reason

Created(key) == sessions[key] = Nil /\ sessions'[key] # Nil
Reserves(slot) == rdns[slot] = Nil /\ rdns'[slot] # Nil

(***************************************************************************)
(* DNS requests: processDnsQuery, processResponse, Allocate.               *)
(***************************************************************************)

\* Broken: a new portal session is not followed by a reevaluation.
StartQueryAtOnce(w, client, host, ifc) ==
    /\ Accepts(w, client)
    /\ Continue(w, [Idle EXCEPT !.pc = "lookup", !.client = client, !.host = host,
                                !.ifc = ifc, !.ses = policy[client]])
    /\ unseen' = [unseen EXCEPT ![client] = FALSE]
    /\ UNCHANGED <<db, nat, policy, portalFw, dnsFw, history>>

\* GetSessionInfo creates the portal session when there is none, and only
\* then asks for a reevaluation.
StartQuery(w, client, host, ifc) ==
    /\ Accepts(w, client)
    /\ Continue(w, [Idle EXCEPT
                       !.pc = IF unseen[client] THEN "reevaluate" ELSE "lookup",
                       !.client = client, !.host = host, !.ifc = ifc,
                       !.ses = policy[client]])
    /\ unseen' = [unseen EXCEPT ![client] = FALSE]
    /\ UNCHANGED <<db, nat, policy, portalFw, dnsFw, history>>

\* A cached answer whose time has not run out is verified again; the firewall
\* is not told.
LookupHit(w) ==
    LET row == sessions[<<job[w].client, job[w].host>>]
    IN  /\ At(w, "lookup")
        /\ row # Nil
        /\ Continue(w, [job[w] EXCEPT
                          !.pc = "store", !.cached = TRUE,
                          !.row = [row EXCEPT
                             !.reason = job[w].ses.verdict[job[w].host]]])
        /\ UNCHANGED <<db, nat, policy, unseen, portalFw, dnsFw, history>>

\* No row, or its time has run out.
LookupMiss(w) ==
    LET row == sessions[<<job[w].client, job[w].host>>]
    IN  /\ At(w, "lookup")
        /\ Continue(w, [job[w] EXCEPT !.pc = "resolve",
                          !.row = row, !.cached = (row # Nil)])
        /\ UNCHANGED <<db, nat, policy, unseen, portalFw, dnsFw, history>>

\* The A record the session gets from an answer: a cached one stays while the
\* answer contains it, a session that never had one never gets one.
Picked(row, records) ==
    IF row = Nil
    THEN IF records = {} THEN {Nil} ELSE records
    ELSE IF row.target = Nil \/ row.target \in records \/ records = {}
         THEN {row.target}
         ELSE records

\* Broken: a new record inherits the address of the old one.
MergedInPlace(local, target) ==
    LET old == local.row
    IN  [target  |-> target,
         addr    |-> IF old # Nil THEN old.addr ELSE NoIP,
         reason  |-> local.ses.verdict[local.host],
         ifc     |-> IF old # Nil THEN old.ifc ELSE local.ifc,
         expired |-> FALSE]

\* The session after an answer.  A record taken from the answer has no
\* allocated address; the one that stays keeps its own.
Merged(local, target) ==
    LET old == local.row
    IN  [target  |-> target,
         addr    |-> IF old # Nil /\ old.target = target THEN old.addr ELSE NoIP,
         reason  |-> local.ses.verdict[local.host],
         ifc     |-> IF old # Nil THEN old.ifc ELSE local.ifc,
         expired |-> FALSE]

\* Where Allocate starts: the reverse table is only asked about an address
\* whose offset is below max_value.
AllocateFrom(row) ==
    IF row.target = Nil THEN "store"
    ELSE IF row.addr # NoIP /\ OffsetFromIP4(row.addr) < MaxValue
         THEN "allocGet"
         ELSE "allocList"

Resolve(w) ==
    /\ At(w, "resolve")
    /\ \E records \in Answer[job[w].host] :
         \E target \in Picked(job[w].row, records) :
            LET row == Merged(job[w], target)
            IN  Continue(w, [job[w] EXCEPT !.pc = AllocateFrom(row), !.row = row])
    /\ UNCHANGED <<db, nat, policy, unseen, portalFw, dnsFw, history>>

\* Upstream fails: NXDOMAIN, and nothing is stored.
ResolveFails(w) ==
    /\ At(w, "resolve")
    /\ Finish(w)
    /\ UNCHANGED <<db, nat, policy, unseen, portalFw, dnsFw, history>>

OwnSlot(w) == <<job[w].client, OffsetFromIP4(job[w].row.addr)>>

\* Broken: the name of the reservation is not compared.
AllocGetAnew(w) ==
    /\ At(w, "allocGet")
    /\ Continue(w, [job[w] EXCEPT !.pc =
          IF rdns[OwnSlot(w)] = Nil THEN "allocList" ELSE "allocDelete"])
    /\ UNCHANGED <<db, nat, policy, unseen, portalFw, dnsFw, history>>

\* "check if IP is already allocated"
AllocGet(w) ==
    /\ At(w, "allocGet")
    /\ Continue(w, [job[w] EXCEPT !.pc =
          IF rdns[OwnSlot(w)] = Nil THEN "allocList"
          ELSE IF rdns[OwnSlot(w)] = job[w].host THEN "store"
          ELSE "allocDelete"])
    /\ UNCHANGED <<db, nat, policy, unseen, portalFw, dnsFw, history>>

AllocDelete(w) ==
    /\ At(w, "allocDelete")
    /\ DeleteReverseDNS(OwnSlot(w))
    /\ Continue(w, [job[w] EXCEPT !.pc = "allocList"])
    /\ UNCHANGED <<sessions, nat, policy, unseen, portalFw, dnsFw, history>>

\* Without a free offset Allocate returns an error nobody reads.
AllocList(w) ==
    LET free == firstAvailable(Reserved(job[w].client))
    IN  /\ At(w, "allocList")
        /\ Continue(w, IF free.found
                       THEN [job[w] EXCEPT !.pc = "allocCreate",
                                           !.offset = free.offset]
                       ELSE [job[w] EXCEPT !.pc = "store"])
        /\ UNCHANGED <<db, nat, policy, unseen, portalFw, dnsFw, history>>

\* Broken: the error of CreateReverseDNS does not keep the rule from being made.
AllocCreateRegardless(w) ==
    LET slot == <<job[w].client, job[w].offset>>
    IN  /\ At(w, "allocCreate")
        /\ CreateReverseDNS(slot, job[w].host) \/ CreateReverseDNSFails(slot)
        /\ Continue(w, [job[w] EXCEPT
                          !.pc = IF dnsFw # "none" THEN "allocAdd" ELSE "store",
                          !.offset = 0, !.row.addr = IP4fromOffset(job[w].offset)])
        /\ made' = made \cup {o \in {slot} : Reserves(o) /\ Flushing(o[1])}
        /\ UNCHANGED <<sessions, nat, policy, unseen, portalFw, dnsFw, owed, untold>>

\* The session takes the address whether or not the reservation succeeded.
AllocCreate(w) ==
    LET slot == <<job[w].client, job[w].offset>>
        Takes(pc) ==
            [job[w] EXCEPT !.pc = pc, !.offset = 0,
                           !.row.addr = IP4fromOffset(job[w].offset)]
    IN  /\ At(w, "allocCreate")
        /\ \/ /\ CreateReverseDNS(slot, job[w].host)
              /\ Continue(w, Takes(IF dnsFw # "none" THEN "allocAdd" ELSE "store"))
           \/ /\ CreateReverseDNSFails(slot)
              /\ Continue(w, Takes("store"))
        /\ made' = made \cup {o \in {slot} : Reserves(o) /\ Flushing(o[1])}
        /\ UNCHANGED <<sessions, nat, policy, unseen, portalFw, dnsFw, owed, untold>>

\* The rule is made for the interface of this request, not of the session.
AllocAdd(w) ==
    LET row == job[w].row
    IN  /\ At(w, "allocAdd")
        /\ AddForwardRule(dnsFw, job[w].client, row.addr,
                          DestIP([row EXCEPT !.ifc = job[w].ifc]))
        /\ Continue(w, [job[w] EXCEPT !.pc = "store"])
        /\ UNCHANGED <<db, policy, unseen, portalFw, dnsFw, history>>

\* The session is stored and the answer sent; the firewall is not told of a new
\* verdict.
Store(w) ==
    LET key == <<job[w].client, job[w].host>>
    IN  /\ At(w, "store")
        /\ IF job[w].cached
           THEN UpdateDNSSession(key, job[w].row)
           ELSE CreateDNSSession(key, job[w].row)
        /\ Finish(w)
        /\ untold' = untold \cup {k \in {key} : Overwritten(k)}
        /\ made' = made \cup {k \in {key} : Created(k) /\ Flushing(k[1])}
        /\ UNCHANGED <<rdns, nat, policy, unseen, portalFw, dnsFw, owed>>

Query(w) ==
    \/ LookupHit(w) \/ LookupMiss(w) \/ Resolve(w) \/ ResolveFails(w)
    \/ AllocGet(w) \/ AllocDelete(w) \/ AllocList(w) \/ AllocCreate(w)
    \/ AllocAdd(w) \/ Store(w)

-----------------------------------------------------------------------------
(***************************************************************************)
(* ReevaluateAccess, run by a DNS request that found no portal session and *)
(* by the portal after it changed what a client may do.                    *)
(***************************************************************************)

\* After the last row a DNS request goes on to its own lookup, a page that only
\* looked at the session to what it was asked for.
NextReeval(local, todo) ==
    IF todo # {} THEN [local EXCEPT !.pc = "reevalRow", !.todo = todo, !.at = Nil]
    ELSE IF local.host # Nil
         THEN [local EXCEPT !.pc = "lookup", !.todo = {}, !.at = Nil]
         ELSE IF local.row # Nil
              THEN [local EXCEPT !.pc = "handle", !.todo = {}, !.at = Nil]
              ELSE Idle

\* The client's rows and their new verdicts.  Without an access profile
\* VerifyDomainAccess marks the row as blocked and allows it.
Reevaluate(w) ==
    LET info == policy[job[w].client]
        Seen(row) == IF info.profile THEN row
                     ELSE [row EXCEPT !.reason = AccessBlockedRule]
        tasks == {[task EXCEPT !.row = Seen(task.row),
                               !.reason = info.verdict[task.key[2]]] :
                    task \in Stored({job[w].client})}
    IN  /\ At(w, "reevaluate")
        /\ Continue(w, NextReeval(job[w],
                          {task \in tasks : task.reason # task.row.reason}))
        /\ unseen' = [unseen EXCEPT ![job[w].client] = FALSE]
        /\ owed' = owed \ {job[w].client}
        /\ UNCHANGED <<db, nat, policy, portalFw, dnsFw, untold, made>>

\* UpdateIPv4, when a firewall is active and the session has an A record:
\* unless the old rule is found and removed nothing else happens in it.
ReevalRow(w) ==
    /\ At(w, "reevalRow")
    /\ \E task \in job[w].todo :
         LET row == task.row
             Goto(pc) == Continue(w, [job[w] EXCEPT !.pc = pc, !.at = task])
         IN  IF dnsFw # "none" /\ row.target # Nil
             THEN \/ /\ RemoveForwardRule(dnsFw, job[w].client, row.addr, DestIP(row))
                     /\ Goto("reevalSave")
                  \/ /\ RemoveForwardRuleFails(dnsFw, job[w].client, row.addr, DestIP(row))
                     /\ Goto("reevalStore")
             ELSE Goto("reevalStore") /\ UNCHANGED nat
    /\ UNCHANGED <<db, policy, unseen, portalFw, dnsFw, history>>

Changed(task) == [task.row EXCEPT !.reason = task.reason]

ReevalSave(w) ==
    /\ At(w, "reevalSave")
    /\ UpdateDNSSession(job[w].at.key, Changed(job[w].at))
    /\ Continue(w, [job[w] EXCEPT !.pc = "reevalAdd"])
    /\ UNCHANGED <<rdns, nat, policy, unseen, portalFw, dnsFw, history>>

\* Broken: the new rule is made for the old reason.
ReevalAddOld(w) ==
    LET row == job[w].at.row
    IN  /\ At(w, "reevalAdd")
        /\ AddForwardRule(dnsFw, job[w].client, row.addr, DestIP(row))
        /\ Continue(w, [job[w] EXCEPT !.pc = "reevalStore"])
        /\ UNCHANGED <<db, policy, unseen, portalFw, dnsFw, history>>

ReevalAdd(w) ==
    LET row == Changed(job[w].at)
    IN  /\ At(w, "reevalAdd")
        /\ AddForwardRule(dnsFw, job[w].client, row.addr, DestIP(row))
        /\ Continue(w, [job[w] EXCEPT !.pc = "reevalStore"])
        /\ UNCHANGED <<db, policy, unseen, portalFw, dnsFw, history>>

\* The row of the snapshot is written back whole.
ReevalStore(w) ==
    LET row == [Changed(job[w].at) EXCEPT !.expired = FALSE]
    IN  /\ At(w, "reevalStore")
        /\ UpdateDNSSession(job[w].at.key, row)
        /\ Continue(w, NextReeval(job[w], job[w].todo \ {job[w].at}))
        /\ UNCHANGED <<rdns, nat, policy, unseen, portalFw, dnsFw, history>>

Reeval(w) ==
    \/ Reevaluate(w) \/ ReevalRow(w) \/ ReevalSave(w) \/ ReevalAdd(w)
    \/ ReevalStore(w)

-----------------------------------------------------------------------------
(***************************************************************************)
(* Pages of the portal: determineRequest, then the handler of the page.    *)
(***************************************************************************)

\* A page is asked for at a name or at the portal's own; it is the client's page
\* only if the name has a session.
StartPage(w, client, host) ==
    LET row == sessions[<<client, host>>]
    IN  /\ "portal" \in Events
        /\ Accepts(w, client)
        /\ Continue(w, [Idle EXCEPT !.pc = IF row = Nil THEN "handle" ELSE "page",
                                    !.client = client, !.row = row])
        /\ UNCHANGED <<db, nat, policy, unseen, portalFw, dnsFw, history>>

\* GetSessionInfo may make the portal session, and what it says of a reevaluation
\* is dropped.  A session found to need a login is reevaluated if somebody is
\* logged in and the page is neither local nor a file.
ViewSession(w) ==
    LET client == job[w].client
    IN  /\ At(w, "page")
        /\ \E pc \in {"handle", "reevaluate"} :
             /\ pc = "reevaluate" => job[w].row.reason = AccessBlockedNotAuthenticated
             /\ Continue(w, [job[w] EXCEPT !.pc = pc])
        /\ unseen' = [unseen EXCEPT ![client] = FALSE]
        /\ owed' = owed \cup {c \in {client} : unseen[c]}
        /\ UNCHANGED <<db, nat, policy, portalFw, dnsFw, untold, made>>

\* The page is shown.
ShowPage(w) ==
    /\ At(w, "handle")
    /\ Finish(w)
    /\ UNCHANGED <<db, nat, policy, unseen, portalFw, dnsFw, history>>

\* Log in or out on the client's page; change the profile of a portal session, or
\* edit one.  The access may stay what it was.
ChangeAccess(w, info) ==
    LET client == job[w].client
    IN  /\ At(w, "handle")
        /\ job[w].row # Nil \/ ~ unseen[client]
        /\ policy' = [policy EXCEPT ![client] = info]
        /\ unseen' = [unseen EXCEPT ![client] = FALSE]
        /\ Continue(w, [job[w] EXCEPT !.pc = "reevaluate", !.row = Nil])
        /\ UNCHANGED <<db, nat, portalFw, dnsFw, history>>

Page(w) ==
    \/ ViewSession(w) \/ ShowPage(w)
    \/ \E info \in Policy : ChangeAccess(w, info)

-----------------------------------------------------------------------------
(***************************************************************************)
(* FlushSource, from the traffic page and after an administrator deleted a *)
(* portal session.  The traffic page calls FlushCache first, which deletes *)
(* nothing (FlushDNSSessions deletes only after an error).                 *)
(***************************************************************************)

\* A first flush of the client starts its list anew.
Remembered(client) ==
    IF Flushing(client) THEN made ELSE {thing \in made : thing[1] # client}

StartFlush(w, client) ==
    /\ "flush" \in Events
    /\ Accepts(w, client)
    /\ Continue(w, [Idle EXCEPT !.pc = "flushList", !.client = client])
    /\ made' = Remembered(client)
    /\ UNCHANGED <<db, nat, policy, unseen, portalFw, dnsFw, owed, untold>>

\* DeleteSession: the next GetSessionInfo finds no portal session.
StartDeleteSession(w, client, info) ==
    /\ "flush" \in Events
    /\ Accepts(w, client)
    /\ ~ unseen[client]
    /\ policy' = [policy EXCEPT ![client] = info]
    /\ unseen' = [unseen EXCEPT ![client] = TRUE]
    /\ Continue(w, [Idle EXCEPT !.pc = "flushList", !.client = client])
    /\ made' = Remembered(client)
    /\ UNCHANGED <<db, nat, portalFw, dnsFw, owed, untold>>

NextFlush(local, todo) ==
    [local EXCEPT !.pc = IF todo = {} THEN "flushRevList" ELSE "flushRow",
                  !.todo = todo, !.at = Nil]

FlushList(w) ==
    /\ At(w, "flushList")
    /\ Continue(w, NextFlush(job[w], Stored({job[w].client})))
    /\ UNCHANGED <<db, nat, policy, unseen, portalFw, dnsFw, history>>

\* A rule that cannot be removed is left behind.
FlushRow(w) ==
    /\ At(w, "flushRow")
    /\ \E task \in job[w].todo :
         LET row == task.row
         IN  /\ IF portalFw # "none" /\ row.target # Nil
                THEN \/ RemoveForwardRule(portalFw, job[w].client, row.addr, DestIP(row))
                     \/ RemoveForwardRuleFails(portalFw, job[w].client, row.addr, DestIP(row))
                ELSE UNCHANGED nat
             /\ Continue(w, [job[w] EXCEPT !.pc = "flushDelete", !.at = task])
    /\ UNCHANGED <<db, policy, unseen, portalFw, dnsFw, history>>

FlushDelete(w) ==
    /\ At(w, "flushDelete")
    /\ DeleteDNSSession(job[w].at.key)
    /\ Continue(w, NextFlush(job[w], job[w].todo \ {job[w].at}))
    /\ UNCHANGED <<rdns, nat, policy, unseen, portalFw, dnsFw, history>>

FlushRevList(w) ==
    LET offs == Reserved(job[w].client)
    IN  /\ At(w, "flushRevList")
        /\ Continue(w, IF offs = {} THEN Idle
                       ELSE [job[w] EXCEPT !.pc = "flushRev", !.offs = offs])
        /\ UNCHANGED <<db, nat, policy, unseen, portalFw, dnsFw, history>>

FlushRev(w) ==
    /\ At(w, "flushRev")
    /\ \E o \in job[w].offs :
         /\ DeleteReverseDNS(<<job[w].client, o>>)
         /\ Continue(w, IF job[w].offs = {o} THEN Idle
                        ELSE [job[w] EXCEPT !.offs = @ \ {o}])
    /\ UNCHANGED <<sessions, nat, policy, unseen, portalFw, dnsFw, history>>

Flush(w) ==
    \/ FlushList(w) \/ FlushRow(w) \/ FlushDelete(w) \/ FlushRevList(w)
    \/ FlushRev(w)

-----------------------------------------------------------------------------
(***************************************************************************)
(* ReviewFwdRules, every minute.                                           *)
(***************************************************************************)

\* The rows whose rule may have counted packets.  GetStats reads the OUTPUT
\* chain, which holds the rules of the gateway's own requests.
Counted(tasks) ==
    IF portalFw = "iptables" /\ "traffic" \in Events
    THEN {task \in tasks :
            /\ task.key[1] \in Gateway
            /\ task.row.target # Nil
            /\ task.row.addr # NoIP
            /\ \E dest \in Dest : Installed(task.key[1], task.row.addr, dest)}
    ELSE {}

NextReview(local, todo) ==
    IF todo = {} THEN Idle
    ELSE [local EXCEPT !.pc = "reviewRow", !.todo = todo, !.at = Nil]

\* The ticker first fires a minute after the start.  The snapshot decides which
\* rows have expired, before and after the rows
\* with traffic are extended in the store.
StartReview ==
    LET tasks == Stored(Client)
        expired == {task \in tasks : task.row.expired}
    IN  /\ "review" \in Events
        /\ At(Ticker, "idle")
        /\ Up
        /\ \E busy \in SUBSET Counted(tasks) :
             Continue(Ticker,
                IF busy = {} THEN NextReview(Idle, expired)
                ELSE [Idle EXCEPT !.pc = "reviewExtend", !.busy = busy,
                                  !.todo = expired])
        /\ UNCHANGED <<db, nat, policy, unseen, portalFw, dnsFw, history>>

ReviewExtend ==
    /\ At(Ticker, "reviewExtend")
    /\ \E task \in job[Ticker].busy :
         /\ UpdateDNSSession(task.key, [task.row EXCEPT !.expired = FALSE])
         /\ Continue(Ticker,
               IF job[Ticker].busy = {task}
               THEN NextReview([job[Ticker] EXCEPT !.busy = {}], job[Ticker].todo)
               ELSE [job[Ticker] EXCEPT !.busy = @ \ {task}])
    /\ UNCHANGED <<rdns, nat, policy, unseen, portalFw, dnsFw, history>>

\* A row is deleted only if its rule was, or if there is none to remove.
ReviewRow ==
    /\ At(Ticker, "reviewRow")
    /\ \E task \in job[Ticker].todo :
         LET row == task.row
             client == task.key[1]
             Goto(pc) == Continue(Ticker, [job[Ticker] EXCEPT !.pc = pc, !.at = task])
         IN  IF portalFw # "none" /\ row.target # Nil
             THEN \/ /\ RemoveForwardRule(portalFw, client, row.addr, DestIP(row))
                     /\ Goto("reviewDelete")
                  \/ /\ RemoveForwardRuleFails(portalFw, client, row.addr, DestIP(row))
                     /\ Continue(Ticker, NextReview(job[Ticker], job[Ticker].todo \ {task}))
             ELSE Goto("reviewDelete") /\ UNCHANGED nat
    /\ UNCHANGED <<db, policy, unseen, portalFw, dnsFw, history>>

ReviewDelete ==
    /\ At(Ticker, "reviewDelete")
    /\ DeleteDNSSession(job[Ticker].at.key)
    /\ Continue(Ticker, NextReview(job[Ticker], job[Ticker].todo \ {job[Ticker].at}))
    /\ UNCHANGED <<rdns, nat, policy, unseen, portalFw, dnsFw, history>>

Review == StartReview \/ ReviewExtend \/ ReviewRow \/ ReviewDelete

-----------------------------------------------------------------------------
(***************************************************************************)
(* SetActiveFirewall: by main before anything else runs, and by the        *)
(* settings page while requests and the review go on.  It works from a     *)
(* snapshot of all sessions; in the end the chains hold one rule for each  *)
(* session of the snapshot that had not expired.                           *)
(***************************************************************************)

Expired(tasks) == {task \in tasks : task.row.expired}

\* First the expired rows, one by one; then, with iptables, its Init.
NextSwitch(local, todo) ==
    IF Expired(todo) # {}
    THEN [local EXCEPT !.pc = "switchRow", !.todo = todo, !.at = Nil]
    ELSE IF local.fw = "iptables"
         THEN [local EXCEPT !.pc = "clearPrerouting", !.at = Nil,
                            !.todo = {task \in todo : task.row.addr # NoIP}]
         ELSE Idle

\* The settings page.  "default" names the first firewall found, so the active
\* one may be initialised again.
StartSwitch(fw) ==
    /\ "switch" \in Events
    /\ At(Admin, "idle")
    /\ Continue(Admin, [Idle EXCEPT !.pc = "switchSet", !.fw = fw,
                                    !.todo = Stored(Client)])
    /\ UNCHANGED <<db, nat, policy, unseen, portalFw, dnsFw, history>>

\* Only the portal's manager changes: the DNS server keeps its copy.
SwitchSet ==
    LET local == job[Admin]
    IN  /\ At(Admin, "switchSet")
        /\ portalFw' = local.fw
        /\ Continue(Admin, IF local.fw = "none" THEN Idle
                           ELSE NextSwitch(local, local.todo))
        /\ UNCHANGED <<db, nat, policy, unseen, dnsFw, history>>

\* Broken: the reservations of sessions that are kept go first.
SwitchRowAny ==
    /\ At(Admin, "switchRow")
    /\ \E task \in job[Admin].todo :
         /\ DeleteReverseDNS(<<task.key[1], OffsetFromIP4(task.row.addr)>>)
         /\ Continue(Admin, [job[Admin] EXCEPT
               !.pc = IF task.row.expired THEN "switchDelete" ELSE "switchRow",
               !.at = task])
    /\ UNCHANGED <<sessions, nat, policy, unseen, portalFw, dnsFw, history>>

\* The reservation that the address of an expired session stands for.
SwitchRow ==
    /\ At(Admin, "switchRow")
    /\ \E task \in Expired(job[Admin].todo) :
         /\ IF task.row.target # Nil
            THEN DeleteReverseDNS(<<task.key[1], OffsetFromIP4(task.row.addr)>>)
            ELSE UNCHANGED rdns
         /\ Continue(Admin, [job[Admin] EXCEPT !.pc = "switchDelete", !.at = task])
    /\ UNCHANGED <<sessions, nat, policy, unseen, portalFw, dnsFw, history>>

SwitchDelete ==
    LET local == job[Admin]
    IN  /\ At(Admin, "switchDelete")
        /\ DeleteDNSSession(local.at.key)
        /\ Continue(Admin, NextSwitch(local, local.todo \ {local.at}))
        /\ UNCHANGED <<rdns, nat, policy, unseen, portalFw, dnsFw, history>>

\* Broken: the chains are not flushed.
ClearChainNot(clients) == UNCHANGED nat

\* An error is printed and the rules stay.
ClearChain(clients) ==
    \/ nat' = [slot \in Client \X Address |->
                  IF slot[1] \in clients THEN NoRules[slot] ELSE nat[slot]]
    \/ "iptables" \in Events /\ UNCHANGED nat

ClearPrerouting ==
    /\ At(Admin, "clearPrerouting")
    /\ ClearChain(Client \ Gateway)
    /\ Continue(Admin, [job[Admin] EXCEPT !.pc = "clearOutput"])
    /\ UNCHANGED <<db, policy, unseen, portalFw, dnsFw, history>>

NextAdd(local, todo) ==
    IF todo = {} THEN Idle ELSE [local EXCEPT !.pc = "switchAdd", !.todo = todo]

ClearOutput ==
    /\ At(Admin, "clearOutput")
    /\ ClearChain(Gateway)
    /\ Continue(Admin, NextAdd(job[Admin], job[Admin].todo))
    /\ UNCHANGED <<db, policy, unseen, portalFw, dnsFw, history>>

SwitchAdd ==
    /\ At(Admin, "switchAdd")
    /\ \E task \in job[Admin].todo :
         /\ AddForwardRule("iptables", task.key[1], task.row.addr, DestIP(task.row))
         /\ Continue(Admin, NextAdd(job[Admin], job[Admin].todo \ {task}))
    /\ UNCHANGED <<db, policy, unseen, portalFw, dnsFw, history>>

Switch ==
    \/ SwitchSet \/ SwitchRow \/ SwitchDelete \/ ClearPrerouting \/ ClearOutput
    \/ SwitchAdd

\* The goroutines and the portal's memory are lost; the database and the
\* kernel's rules are not.  The firewall last set is set again: SaveSettings comes
\* before SetActiveFirewall.
Restart ==
    LET fw == IF At(Admin, "switchSet") THEN job[Admin].fw ELSE portalFw
        main == [Idle EXCEPT !.fw = fw, !.boot = TRUE]
    IN  /\ "restart" \in Events
        /\ portalFw' = fw
        /\ dnsFw' = fw
        /\ job' = [g \in Goroutine |->
                     IF g = Admin /\ fw # "none"
                     THEN NextSwitch(main, Stored(Client))
                     ELSE Idle]
        /\ UNCHANGED <<db, nat, policy, unseen, history>>

(***************************************************************************)
(* Time.                                                                   *)
(***************************************************************************)

SessionExpires(key) ==
    /\ sessions[key] # Nil
    /\ ~ sessions[key].expired
    /\ sessions' = [sessions EXCEPT ![key].expired = TRUE]
    /\ UNCHANGED <<rdns, nat, policy, unseen, portalFw, dnsFw, job, history>>

\* What is about to be reevaluated was written a moment ago, and a portal session
\* lives for 15 minutes.
PortalSessionExpires(client, info) ==
    /\ "timeout" \in Events
    /\ ~ unseen[client]
    /\ \A w \in Worker : job[w].client = client => job[w].pc # "reevaluate"
    /\ unseen' = [unseen EXCEPT ![client] = TRUE]
    /\ policy' = [policy EXCEPT ![client] = info]
    /\ UNCHANGED <<db, nat, portalFw, dnsFw, job, history>>

ScheduleChanges(client, info) ==
    /\ "schedule" \in Events
    /\ policy' = [policy EXCEPT ![client] = info]
    /\ UNCHANGED <<db, nat, unseen, portalFw, dnsFw, job, history>>

-----------------------------------------------------------------------------

Requests(w) ==
    \E client \in Client :
       \/ \E host \in Host, ifc \in Interface : StartQuery(w, client, host, ifc)
       \/ \E host \in Host : StartPage(w, client, host)
       \/ StartFlush(w, client)
       \/ \E info \in Policy : StartDeleteSession(w, client, info)

Serve(w) == Query(w) \/ Reeval(w) \/ Page(w) \/ Flush(w)

Time ==
    \/ \E key \in Key : SessionExpires(key)
    \/ \E client \in Client, info \in Policy :
          PortalSessionExpires(client, info) \/ ScheduleChanges(client, info)

Next ==
    \/ \E w \in Worker : Requests(w) \/ Serve(w)
    \/ Review
    \/ \E fw \in Firewall : StartSwitch(fw)
    \/ Switch
    \/ Restart
    \/ Time

\* The Go scheduler runs every goroutine that can run, and the ticker fires
\* for ever.  Nothing obliges a client, an administrator or a clock.
Fairness ==
    /\ WF_vars(Review)
    /\ WF_vars(Switch)
    /\ \A w \in Worker : WF_vars(Serve(w))

Spec == Init /\ [][Next]_vars /\ Fairness

=============================================================================

-------------------------- MODULE ForwardingProperties --------------------------
(***************************************************************************)
(* What the forwarding core guarantees.  The three tables are written one  *)
(* after the other by goroutines that hold no lock, so each property       *)
(* relates two of them, or one of them before and after a step.            *)
(***************************************************************************)
EXTENDS Forwarding

OffsetOf(addr) == addr - FirstIP

\* The addresses Allocate and SetActiveFirewall recognise as their own: not the
\* empty text, and not the last one, whose offset OffsetFromIP4 also answers for
\* what is not an address of the pool.
Kept(addr) == addr # NoIP /\ OffsetOf(addr) # MaxValue

\* Nobody works for the client, the ticker sleeps, no firewall is being set.
Quiet(client) ==
    /\ \A w \in Worker : job[w].client # client
    /\ At(Ticker, "idle")
    /\ At(Admin, "idle")

\* Main is starting and has yet to delete the expired session.
Dropping(key) == ~ Up /\ \E task \in Expired(job[Admin].todo) : task.key = key

-----------------------------------------------------------------------------
(***************************************************************************)
(* Addresses.                                                              *)
(***************************************************************************)

Lease == INSTANCE AddressLease WITH owner <- rdns, Free <- Nil

\* However many goroutines run Allocate, FlushSource and SetActiveFirewall on the
\* reverse table at once, no reservation ever changes hands in one step: it ends
\* and only then begins anew, one at a time.  firstAvailable is computed on a
\* list read earlier, so this rests on create refusing a key that exists.
ReverseTableLeases == Lease!Spec

\* The address a stored session answers with is reserved for the session's own
\* name: no other name of the client is answered with it as long as it stands
\* (Allocate, FlushSource, ReviewFwdRules).  Only an expired session may have lost it,
\* while main starts, between the two deletions of SetActiveFirewall or because the
\* process stopped there; it goes before anybody is served.
AddressIsReserved ==
    \A key \in Key :
       LET row == sessions[key]
       IN  row # Nil /\ Kept(row.addr) /\ ~ Dropping(key) =>
              rdns[<<key[1], OffsetOf(row.addr)>>] = key[2]

\* When FlushSource is through, all that is left of the client was made by requests
\* that ran beside it, or beside another flush it met: no session and no reservation
\* from before slips through the lists it made earlier, whatever those requests
\* rewrote or freed meanwhile.
FlushForgets ==
    [][\A w \in Worker :
          (FlushRevList(w) \/ FlushRev(w)) /\ job'[w].pc = "idle" =>
             LET client == job[w].client
             IN  /\ \A host \in Host :
                       sessions'[<<client, host>>] # Nil => <<client, host>> \in made
                 /\ \A o \in Offset :
                       rdns'[<<client, o>>] # Nil => <<client, o>> \in made]_vars

\* "check if IP is already allocated": a name that has a reservation for the
\* client is not given a second one.
KeepsAddress ==
    [][\A w \in Worker :
          At(w, "allocCreate") /\ rdns' # rdns =>
              \A o \in Offset : rdns[<<job[w].client, o>>] # job[w].host]_vars

-----------------------------------------------------------------------------
(***************************************************************************)
(* Rules.                                                                  *)
(***************************************************************************)

Targets(host) == UNION Answer[host]

RulesAreOwned ==
    \A slot \in Client \X Address : \A target \in Target :
       nat[slot][target] > 0 /\ Kept(slot[2]) =>
          \E host \in Host : /\ rdns[<<slot[1], OffsetOf(slot[2])>>] = host
                             /\ target \in Targets(host)

\* A rule that leads an address of the pool to a host's real address stands only
\* while that address is reserved for a name that resolves there: nobody who asks
\* for one host is sent to another.  While main sets the firewall nobody is
\* served, and the rules are those of the last run.
NoForeignRule == Up => RulesAreOwned

\* Goroutines about to append a rule for the address.
Pending(slot) ==
    {g \in Goroutine :
        \/ /\ At(g, "allocAdd")
           /\ <<job[g].client, job[g].row.addr>> = slot
        \/ /\ job[g].pc \in {"reevalSave", "reevalAdd"}
           /\ <<job[g].client, job[g].at.row.addr>> = slot}

Claims(slot) ==
    MapThenSumSet(LAMBDA dest : nat[slot][dest], Dest) + Cardinality(Pending(slot))

\* SetActiveFirewall appends the rule of a session it read that has this address.
InstallsOne(slot) ==
    /\ At(Admin, "switchAdd")
    /\ \E task \in job[Admin].todo :
          /\ task.key[1] = slot[1] /\ task.row.addr = slot[2]
          /\ job'[Admin].todo = job[Admin].todo \ {task}

\* Rules do not multiply.  The rules of an address and the requests about to
\* append one become more only one at a time: by a fresh reservation of that
\* address, or when SetActiveFirewall installs one of the sessions it read, each
\* of them once.  UpdateIPv4 appends only after it has removed, whoever else
\* works on the same rows.
RulePerReservation ==
    [][\A slot \in Client \X Address :
          Claims(slot)' > Claims(slot) =>
             /\ Claims(slot)' = Claims(slot) + 1
             /\ \/ /\ rdns[<<slot[1], OffsetOf(slot[2])>>] = Nil
                   /\ rdns'[<<slot[1], OffsetOf(slot[2])>>] # Nil
                \/ InstallsOne(slot)]_vars

\* Between requests the rule that a session's row describes is the one installed:
\* RemoveForwardRule, which rebuilds the rule from the row, will find it.  Not so
\* for a session that took a verdict the firewall was not told of, and the client's
\* own address never gets a rule.
RuleMatchesSession ==
    \A key \in Key \ untold :
       LET row == sessions[key]
       IN  row # Nil /\ Quiet(key[1]) /\ Kept(row.addr) /\ row.addr # Own[key[1]] =>
              Installed(key[1], row.addr, DestIP(row))

\* "Override firewall used to apply network access policies": a request that
\* arrives is served with the firewall chosen last.
ChosenFirewallServes ==
    [][\A w \in Worker : At(w, "idle") /\ ~ At(w, "idle")' => dnsFw = portalFw]_vars

-----------------------------------------------------------------------------
(***************************************************************************)
(* Access.                                                                 *)
(***************************************************************************)

\* Between requests, the address of a session that is marked as blocked leads
\* nowhere but to the portal.
LeadsNowhere(key) ==
    LET row == sessions[key]
    IN  row # Nil /\ Quiet(key[1]) /\ Kept(row.addr) /\ row.reason > AccessAllowed =>
           \A target \in Target : nat[<<key[1], row.addr>>][target] = 0

\* "Block access due to reasoncode", for every session.
BlockedIsBlocked == \A key \in Key : LeadsNowhere(key)

\* A session is blocked as its reason says unless a lookup from the cache changed
\* the reason behind the firewall's back: neither UpdateIPv4 nor Allocate leaves a
\* second rule from a time of access beside the one that leads to the portal.
ToldIsBlocked == \A key \in Key \ untold : LeadsNowhere(key)

\* A lookup from the cache changes a verdict behind the firewall's back only after
\* a page of the portal made the portal session and dropped the reevaluation:
\* whatever else changes the access, the request finds its rows already changed.
UntoldOnlyWhenOwed ==
    [][\A key \in untold' \ untold : key[1] \in owed]_vars

\* Between requests every session carries the verdict the client's policy has
\* now, unless the portal session has ended and the next request reevaluates, or a
\* page took that reevaluation for itself.
PolicyApplied ==
    \A key \in Key :
       /\ sessions[key] # Nil /\ Quiet(key[1])
       /\ ~ unseen[key[1]] /\ key[1] \notin owed
       => sessions[key].reason = policy[key[1]].verdict[key[2]]

-----------------------------------------------------------------------------
(***************************************************************************)
(* Progress, under Fairness.                                               *)
(***************************************************************************)

\* The rule of the session can be found by its row.
Findable(key) ==
    /\ key \notin untold
    /\ sessions[key] # Nil
    /\ sessions[key].addr # Own[key[1]]

\* An expired session is sooner or later removed by ReviewFwdRules, or refreshed
\* by a request: none stays because its rule cannot be found.
ExpiredIsRemoved ==
    \A key \in Key :
       Findable(key) /\ sessions[key].expired ~>
          ~ Findable(key) \/ ~ sessions[key].expired

\* The session is blocked, and its rule leads to the portal.
Refused(key) ==
    LET row == sessions[key]
    IN  /\ row.reason > AccessAllowed
        /\ Kept(row.addr) =>
              /\ \A target \in Target : nat[<<key[1], row.addr>>][target] = 0
              /\ Installed(key[1], row.addr, DestIP(row))

\* When the client's policy refuses a host, the host's session is sooner or later
\* blocked and its rule leads to the portal, unless the policy changes again, the
\* portal session ends, or the rule cannot be found.
RefusalTakesEffect ==
    \A key \in Key :
       /\ policy[key[1]].verdict[key[2]] > AccessAllowed
       /\ ~ unseen[key[1]] /\ key[1] \notin owed /\ Findable(key)
       ~> \/ unseen[key[1]]
          \/ policy[key[1]].verdict[key[2]] = AccessAllowed
          \/ ~ Findable(key)
          \/ Refused(key)

=============================================================================

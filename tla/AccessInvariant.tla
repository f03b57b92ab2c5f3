----------------------------- MODULE AccessInvariant -----------------------------
(***************************************************************************)
(* Why the rules and the verdicts follow the client's policy, when its     *)
(* requests follow one another.  PolicyApplied and RuleMatchesSession      *)
(* speak of moments when nobody works for the client, NoForeignRule of     *)
(* rules alone; the invariants here say what else holds at every step.     *)
(***************************************************************************)
EXTENDS ReservationInvariant

\* Every change of what a client may do is followed by a reevaluation, which is
\* not cut short.
Followed == Orderly /\ "schedule" \notin Events /\ "restart" \notin Events

\* A reservation ends only when a start drops it with its expired session, and the
\* start clears the chains.
Reserving ==
    /\ Orderly
    /\ "flush" \notin Events
    /\ "restart" \notin Events \/ "iptables" \notin Events

\* Every call of the firewall does what it should, and the rule a request appends
\* is for the address every request comes in on.
Settled ==
    /\ Reserving
    /\ {"restart", "iptables"} \cap Events = {}
    /\ Firewall \subseteq {"iptables"}
    /\ \A i, j \in Interface : i = j

-----------------------------------------------------------------------------
(***************************************************************************)
(* Verdicts.                                                               *)
(***************************************************************************)

AtWork(local) == local.pc \in QueryPc \cup ReevalPc

\* The row is on the list of a reevaluation, not yet rewritten.
Listed(local, key) ==
    local.pc \in ReevalPc /\ \E task \in local.todo : task.key = key

\* A request and the client's rows follow the same policy: the one the client has
\* as long as its portal session lasts.  The rows do not if a page made that
\* session.
InformedBy(local, info) ==
    /\ ~ unseen[local.client] => policy[local.client] = info
    /\ local.host # Nil => local.ses = info
    /\ local.client \notin owed =>
          \A host \in Host :
             LET key == <<local.client, host>>
             IN  sessions[key] # Nil =>
                    sessions[key].reason = info.verdict[host] \/ Listed(local, key)
    /\ local.pc \in ReevalPc =>
          \A task \in local.todo : task.reason = info.verdict[task.key[2]]
    /\ local.pc \in AllocPc => local.row.reason = info.verdict[local.host]

Informed(local) ==
    /\ local.pc \in PagePc => local.host = Nil
    /\ AtWork(local) =>
          IF local.pc = "reevaluate"
          THEN /\ ~ unseen[local.client]
               /\ local.host # Nil => local.ses = policy[local.client]
          ELSE \E info \in Policy : InformedBy(local, info)

\* Nothing is under way for the client: its rows follow its policy.
UpToDate(client) ==
    /\ \A w \in Worker : AtWork(job[w]) => job[w].client # client
    /\ ~ unseen[client] /\ client \notin owed
    => \A host \in Host :
          LET row == sessions[<<client, host>>]
          IN  row # Nil => row.reason = policy[client].verdict[host]

PolicyInv ==
    /\ \A client \in Client : UpToDate(client)
    /\ \A w \in Worker : Informed(job[w])

-----------------------------------------------------------------------------
(***************************************************************************)
(* Rules lead where the name leads.                                        *)
(***************************************************************************)

\* A row, stored or in hand: its record is one of the host's, and its address is
\* reserved for the host.
Owned(client, host, row) ==
    /\ row.target \in Targets(host) \cup {Nil}
    /\ Kept(row.addr) =>
          /\ row.target # Nil
          /\ rdns[SlotOf(client, row.addr)] = host

DraftOwned(local) ==
    local.pc \in {"resolve"} \cup AllocPc /\ local.row # Nil =>
       /\ Owned(local.client, local.host, local.row)
       /\ local.pc \in AllocPc \ {"store"} => local.row.target # Nil

TasksOwned(local) ==
    local.pc \in (ReevalPc \ {"reevaluate"}) \cup ReviewPc =>
       /\ local.pc \in RowPc => local.at \in local.todo
       /\ \A task \in local.todo : Owned(task.key[1], task.key[2], task.row)

RulesAreReserved ==
    \A slot \in Client \X Address : \A dest \in Dest :
       nat[slot][dest] > 0 /\ Kept(slot[2]) =>
          rdns[SlotOf(slot[1], slot[2])] # Nil

\* While main starts: the rules it appends are those of sessions that keep their
\* reservations, and the chains were empty.
BootOwned(local) ==
    local.boot =>
       /\ "restart" \in Events
       /\ local.fw = portalFw
       /\ local.pc \in {"clearPrerouting", "clearOutput", "switchAdd"} =>
             portalFw = "iptables"
       /\ local.pc = "clearOutput" =>
             \A slot \in (Client \ Gateway) \X Address : nat[slot] = NoRules[slot]
       /\ \A task \in local.todo :
             task.row.expired \/ Owned(task.key[1], task.key[2], task.row)

ForeignInv ==
    /\ Up \/ At(Admin, "switchAdd") => RulesAreOwned /\ RulesAreReserved
    /\ dnsFw = portalFw
    /\ dnsFw # "iptables" => nat = NoRules
    /\ \A key \in Key : sessions[key] # Nil =>
          Dropping(key) \/ Owned(key[1], key[2], sessions[key])
    /\ \A g \in Worker \cup {Ticker} :
          TasksOwned(job[g]) /\ job[g].pc \notin FlushPc
    /\ \A w \in Worker : DraftOwned(job[w])
    /\ BootOwned(job[Admin])

-----------------------------------------------------------------------------
(***************************************************************************)
(* The rule a session describes is there, and no other.                    *)
(***************************************************************************)

\* The same answer for the same address.
SameAnswer(row, other) ==
    row.target = other.target /\ row.addr = other.addr /\ row.ifc = other.ifc

\* ReviewFwdRules has removed the rule and is about to delete the session.
Deleting(key) == At(Ticker, "reviewDelete") /\ job[Ticker].at.key = key

\* UpdateIPv4 is at work on the session.
Reworking(w, key) ==
    job[w].pc \in {"reevalSave", "reevalAdd", "reevalStore"} /\ job[w].at.key = key

\* An address has one rule at most, and none while one is about to be appended; the
\* client's own has none.
OneRule ==
    \A slot \in Client \X Address :
       Kept(slot[2]) =>
          /\ \A dest \in Dest : nat[slot][dest] <= 1
          /\ \A d, e \in Dest : nat[slot][d] > 0 /\ nat[slot][e] > 0 => d = e
          /\ Pending(slot) # {} \/ slot[2] = Own[slot[1]] =>
                \A dest \in Dest : nat[slot][dest] = 0

Served(client, row) ==
    Kept(row.addr) /\ row.addr # Own[client] => Installed(client, row.addr, DestIP(row))

StoredServed ==
    \A key \in Key \ untold :
       sessions[key] # Nil /\ ~ Deleting(key) /\ (\A w \in Worker : ~ Reworking(w, key)) =>
          Served(key[1], sessions[key])

\* Storing the row changes the verdict of the session and not its rule.
Silences(local) ==
    LET row == sessions[<<local.client, local.host>>]
    IN  row # Nil /\ local.row.addr = row.addr /\ local.row.reason # row.reason

\* Before its row is stored a request's rule is in place; it takes a cached row as
\* it finds it.
DraftServed(local) ==
    LET key == <<local.client, local.host>>
        Storable == ~ local.cached \/ sessions[key] # Nil
    IN  /\ /\ local.pc \in AllocPc \ {"allocAdd"}
           /\ key \notin untold
           /\ Storable /\ ~ Silences(local) /\ ~ Deleting(key)
           => Served(local.client, local.row)
        /\ local.pc = "resolve" /\ local.row # Nil =>
              /\ local.cached
              /\ sessions[key] # Nil =>
                    /\ SameAnswer(local.row, sessions[key])
                    /\ local.row.reason = sessions[key].reason

\* What a reevaluation found is what is stored.  The row it is at may have its new
\* reason, and without a profile every row is taken for a blocked one.
TasksMatch(local) ==
    /\ local.pc \in ReevalPc \ {"reevaluate"} =>
          \A task \in local.todo :
             /\ \A other \in local.todo : task.key = other.key => task = other
             /\ sessions[task.key] # Nil =>
                   /\ SameAnswer(task.row, sessions[task.key])
                   /\ \/ task.row.reason = sessions[task.key].reason
                      \/ task.row.reason = AccessBlockedRule /\ task.reason = AccessAllowed
                      \/ local.pc \in RowPc /\ task = local.at
    /\ /\ local.pc = "reevalStore"
       /\ local.at.key \notin untold
       /\ sessions[local.at.key] # Nil /\ ~ Deleting(local.at.key)
       => Served(local.client, Changed(local.at))

\* The rows the review is through with are those that are left of its snapshot.
ReviewMatches(local) ==
    local.pc \in ReviewPc =>
       \A task \in local.todo :
          /\ sessions[task.key] # Nil
          /\ \A other \in local.todo : task.key = other.key => task = other

RuleInv ==
    /\ OneRule
    /\ StoredServed
    /\ At(Admin, "idle")
    /\ job[Ticker].pc \in {"idle"} \cup ReviewPc
    /\ ReviewMatches(job[Ticker])
    /\ \A w \in Worker : DraftServed(job[w]) /\ TasksMatch(job[w])

=============================================================================

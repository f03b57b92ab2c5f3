-------------------------------- MODULE ArpCache --------------------------------
(***************************************************************************)
(* The cached ARP table and its lock. A search that misses gives up its     *)
(* read lock, has the table read again under the write lock, and looks once *)
(* more. Nobody refreshes the table otherwise: AutoRefresh is never called. *)
(***************************************************************************)
EXTENDS Naturals, FiniteSets

CONSTANTS
    Ip, Mac,    \* addresses
    NoMac,      \* the empty string
    Searching   \* goroutines that search

ASSUME CacheAssumption == NoMac \notin Mac

VARIABLES
    kernel,    \* the ARP table of the operating system
    cached,    \* table
    writer,    \* the goroutine that holds the write lock, if any
    readers,   \* those that hold a read lock
    pending,   \* those that wait for the write lock: no reader passes them
    search,    \* where each search is, for which address and with what result
    seen       \* history: what the kernel's table had for the address since the search began

arpVars == <<kernel, cached, writer, readers, pending, search, seen>>

NoThread == "none"
NoSearch == [at |-> "idle"]

ArpInit ==
    /\ kernel \in [Ip -> Mac \cup {NoMac}]
    /\ cached = [ip \in Ip |-> NoMac]
    /\ writer = NoThread /\ readers = {} /\ pending = {}
    /\ search = [t \in Searching |-> NoSearch]
    /\ seen = [t \in Searching |-> {}]

Searches(t, at) == search[t].at = at

Goes(t, at) == search' = [search EXCEPT ![t].at = at]

--------------------------------------------------------------------------------
\* Entries come and go.
KernelLearns ==
    /\ \E ip \in Ip, mac \in Mac \cup {NoMac} :
          /\ kernel' = [kernel EXCEPT ![ip] = mac]
          /\ seen' = [t \in Searching |-> IF search[t] # NoSearch /\ search[t].ip = ip
                                          THEN seen[t] \cup {mac} ELSE seen[t]]
    /\ UNCHANGED <<cached, writer, readers, pending, search>>

Search(t) ==
    /\ search[t] = NoSearch
    /\ \E ip \in Ip :
          /\ search' = [search EXCEPT ![t] = [at |-> "RLock", ip |-> ip, mac |-> NoMac, missed |-> FALSE]]
          /\ seen' = [seen EXCEPT ![t] = {kernel[ip]}]
    /\ UNCHANGED <<kernel, cached, writer, readers, pending>>

RLock(t) ==
    /\ Searches(t, "RLock")
    /\ writer = NoThread /\ pending = {}
    /\ readers' = readers \cup {t}
    /\ Goes(t, "read")
    /\ UNCHANGED <<kernel, cached, writer, pending, seen>>

\* The second look takes what there is.
Read(t) ==
    /\ Searches(t, "read")
    /\ search' = [search EXCEPT ![t].mac = cached[search[t].ip],
                                ![t].at = IF cached[search[t].ip] = NoMac /\ ~ search[t].missed
                                          THEN "miss" ELSE "RUnlock"]
    /\ UNCHANGED <<kernel, cached, writer, readers, pending, seen>>

\* Broken: the read lock is kept when Refresh is called.
MissLocked(t) ==
    /\ Searches(t, "miss")
    /\ UNCHANGED readers
    /\ pending' = pending \cup {t}
    /\ search' = [search EXCEPT ![t].at = "Lock", ![t].missed = TRUE]
    /\ UNCHANGED <<kernel, cached, writer, seen>>

\* RUnlock, and the call of Refresh.
Miss(t) ==
    /\ Searches(t, "miss")
    /\ readers' = readers \ {t}
    /\ pending' = pending \cup {t}
    /\ search' = [search EXCEPT ![t].at = "Lock", ![t].missed = TRUE]
    /\ UNCHANGED <<kernel, cached, writer, seen>>

Lock(t) ==
    /\ Searches(t, "Lock")
    /\ writer = NoThread /\ readers = {}
    /\ writer' = t
    /\ pending' = pending \ {t}
    /\ Goes(t, "Table")
    /\ UNCHANGED <<kernel, cached, readers, seen>>

\* Broken: what was known already stays.
RefreshMissing(t) ==
    /\ Searches(t, "Table")
    /\ cached' = IF \E ip \in Ip : cached[ip] # NoMac THEN cached ELSE kernel
    /\ writer' = NoThread
    /\ Goes(t, "RLock")
    /\ UNCHANGED <<kernel, readers, pending, seen>>

\* c.table = Table(), and the deferred Unlock.
Refresh(t) ==
    /\ Searches(t, "Table")
    /\ cached' = kernel
    /\ writer' = NoThread
    /\ Goes(t, "RLock")
    /\ UNCHANGED <<kernel, readers, pending, seen>>

RUnlock(t) ==
    /\ Searches(t, "RUnlock")
    /\ readers' = readers \ {t}
    /\ Goes(t, "answer")
    /\ UNCHANGED <<kernel, cached, writer, pending, seen>>

\* The caller has its answer.
Answer(t) ==
    /\ Searches(t, "answer")
    /\ search' = [search EXCEPT ![t] = NoSearch]
    /\ seen' = [seen EXCEPT ![t] = {}]
    /\ UNCHANGED <<kernel, cached, writer, readers, pending>>

ArpStep(t) == RLock(t) \/ Read(t) \/ Miss(t) \/ Lock(t) \/ Refresh(t) \/ RUnlock(t) \/ Answer(t)

ArpNext == KernelLearns \/ \E t \in Searching : Search(t) \/ ArpStep(t)

\* The lock lets everybody in who waits long enough: readers that come while a
\* writer waits are let in before the next writer.
ArpFairness ==
    \A t \in Searching :
        /\ SF_arpVars(RLock(t)) /\ SF_arpVars(Lock(t))
        /\ WF_arpVars(Read(t) \/ Miss(t) \/ Refresh(t) \/ RUnlock(t) \/ Answer(t))

ArpSpec == ArpInit /\ [][ArpNext]_arpVars /\ ArpFairness

--------------------------------------------------------------------------------
\* A search says that there is no hardware address only when the kernel had none
\* for the address at some time since the search began (cache.go:25-39).
MissIsFresh ==
    \A t \in Searching : Searches(t, "answer") /\ search[t].mac = NoMac => NoMac \in seen[t]

\* Every search ends, whatever the others do with the lock (cache.go:25-39).
SearchEnds == \A t \in Searching : search[t] # NoSearch ~> search[t] = NoSearch

=============================================================================

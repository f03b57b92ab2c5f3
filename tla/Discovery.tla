------------------------------- MODULE Discovery -------------------------------
(***************************************************************************)
(* The discovery of the nodes of the network. The listener captures a frame *)
(* into one buffer and hands it to three parsers; the parsers send what     *)
(* they understood to the event loop, which keeps the table of nodes.       *)
(***************************************************************************)
EXTENDS Integers, Sequences

CONSTANTS
    NodeKey,    \* pairs of a hardware and an IP address
    OwnNodes,   \* those of this machine's interfaces
    MaxDrains   \* bound: draining goroutines that are told apart

Methods == <<"arp", "mdns", "nbns">>  \* in the order in which the listener serves them
Method == {Methods[i] : i \in 1..3}

ASSUME DiscoveryAssumption == OwnNodes \subseteq NodeKey /\ MaxDrains \in Nat

\* A frame that one of the methods understands, or none.
Captured == [method : Method \cup {"other"}, node : NodeKey]
Freed == [method |-> "freed"]  \* the memory of a handle that was closed

VARIABLES
    buffer,     \* the buffer of ZeroCopyReadPacketData
    listener,   \* what the listener does next, and for which method
    parser,     \* what each parser is doing
    given,      \* the frame each parser was given, or the node it reports
    Nodes,      \* the table of nodes; the names found for them decide nothing here
    lookups,    \* nodes whose dnsRequest has not answered
    drains,     \* goroutines that only empty the channel arp
    reset       \* history: the interface was opened again

discoveryVars == <<buffer, listener, parser, given, Nodes, lookups, drains, reset>>

Reading == [at |-> "read", n |-> 0]

DiscoveryInit ==
    /\ buffer = Freed
    /\ listener = Reading
    /\ parser = [m \in Method |-> "wait"]
    /\ given = [m \in Method |-> Freed]
    /\ Nodes = OwnNodes
    /\ lookups = {}
    /\ drains = 0
    /\ reset = FALSE

table == <<Nodes, lookups, drains>>

--------------------------------------------------------------------------------
(* The listener *)

\* The next frame is written over the one before.
Capture ==
    /\ listener.at = "read"
    /\ buffer' \in Captured
    /\ listener' = [at |-> "give", n |-> 1]
    /\ UNCHANGED <<parser, given, table, reset>>

Give ==
    /\ listener.at = "give" /\ parser[Methods[listener.n]] = "wait"
    /\ parser' = [parser EXCEPT ![Methods[listener.n]] = "parse"]
    /\ given' = [given EXCEPT ![Methods[listener.n]] = buffer]
    /\ listener' = IF listener.n < 3 THEN [listener EXCEPT !.n = @ + 1] ELSE [at |-> "join", n |-> 1]
    /\ UNCHANGED <<buffer, table, reset>>

\* Broken: the listener counts two.
JoinTwo ==
    /\ listener.at = "join"
    /\ \E m \in Method :
          /\ parser[m] = "done"
          /\ parser' = [parser EXCEPT ![m] = "wait"]
          /\ given' = [given EXCEPT ![m] = Freed]
    /\ listener' = IF listener.n < 2 THEN [listener EXCEPT !.n = @ + 1] ELSE Reading
    /\ UNCHANGED <<buffer, table, reset>>

\* One of the three listenDone.
Join ==
    /\ listener.at = "join"
    /\ \E m \in Method :
          /\ parser[m] = "done"
          /\ parser' = [parser EXCEPT ![m] = "wait"]
          /\ given' = [given EXCEPT ![m] = Freed]
    /\ listener' = IF listener.n < 3 THEN [listener EXCEPT !.n = @ + 1] ELSE Reading
    /\ UNCHANGED <<buffer, table, reset>>

\* A request that cannot be written closes the handle and its buffer, whoever reads it.
Write ==
    /\ ~ reset
    /\ buffer' = Freed
    /\ reset' = TRUE
    /\ UNCHANGED <<listener, parser, given, table>>

--------------------------------------------------------------------------------
(* The parsers *)

\* Broken: a frame that is of no use is dropped without listenDone.
ParseDropping(m) ==
    /\ parser[m] = "parse"
    /\ IF buffer # Freed /\ buffer.method = m
       THEN /\ parser' = [parser EXCEPT ![m] = "send"]
            /\ given' = [given EXCEPT ![m] = buffer]
       ELSE /\ parser' = [parser EXCEPT ![m] = "wait"]
            /\ UNCHANGED given
    /\ UNCHANGED <<buffer, listener, table, reset>>

\* What the buffer holds is copied before it is sent.
Parse(m) ==
    /\ parser[m] = "parse"
    /\ IF buffer # Freed /\ buffer.method = m
       THEN /\ parser' = [parser EXCEPT ![m] = "send"]
            /\ given' = [given EXCEPT ![m] = buffer]
       ELSE /\ parser' = [parser EXCEPT ![m] = "done"]
            /\ UNCHANGED given
    /\ UNCHANGED <<buffer, listener, table, reset>>

Sends(m) == parser[m] = "send"

Sent(m) == parser' = [parser EXCEPT ![m] = "done"]

--------------------------------------------------------------------------------
(* The event loop *)

\* Every turn of the loop leaves one goroutine more that takes from arp.
Turn == drains' = IF drains < MaxDrains THEN drains + 1 ELSE drains

Seen(node) == Nodes' = Nodes \cup {node}

\* Broken: the look-up begins before the node is in the table.
LookUpFirst ==
    /\ Sends("arp") /\ Sent("arp") /\ Turn
    /\ LET node == given["arp"].node
       IN  /\ IF node \in lookups THEN Seen(node) ELSE UNCHANGED Nodes
           /\ lookups' = IF node \in Nodes THEN lookups ELSE lookups \cup {node}
    /\ UNCHANGED <<buffer, listener, given, reset>>

\* A node seen for the first time is looked up by name.
ReceiveArp ==
    /\ Sends("arp") /\ Sent("arp") /\ Turn
    /\ LET node == given["arp"].node
       IN  /\ Seen(node)
           /\ lookups' = IF node \in Nodes THEN lookups ELSE lookups \cup {node}
    /\ UNCHANGED <<buffer, listener, given, reset>>

ReceiveName(m) ==
    /\ m # "arp"
    /\ Sends(m) /\ Sent(m) /\ Turn
    /\ Seen(given[m].node)
    /\ UNCHANGED <<buffer, listener, given, lookups, reset>>

\* Nodes[req.key].Dns = req.dns: a node that is not there stops the process.
ReceiveDns ==
    /\ \E node \in lookups : lookups' = lookups \ {node}
    /\ Turn
    /\ UNCHANGED <<buffer, listener, parser, given, Nodes, reset>>

LookupFails ==
    /\ \E node \in lookups : lookups' = lookups \ {node}
    /\ UNCHANGED <<buffer, listener, parser, given, Nodes, drains, reset>>

\* A draining goroutine takes the sighting instead of the loop.
Drain ==
    /\ drains > 0
    /\ Sends("arp") /\ Sent("arp")
    /\ UNCHANGED <<buffer, listener, given, table, reset>>

DiscoveryNext ==
    \/ Capture \/ Give \/ Join \/ Write
    \/ \E m \in Method : Parse(m) \/ ReceiveName(m)
    \/ ReceiveArp \/ ReceiveDns \/ LookupFails \/ Drain

\* Some goroutine that can run does; the network need not send another frame.
DiscoveryFairness ==
    WF_discoveryVars(Give \/ Join \/ ReceiveArp \/ Drain \/ \E m \in Method : Parse(m) \/ ReceiveName(m))

DiscoverySpec == DiscoveryInit /\ [][DiscoveryNext]_discoveryVars /\ DiscoveryFairness

--------------------------------------------------------------------------------
\* A parser reads the frame it was given: the next one is captured into the buffer
\* only when all three are done, as long as the interface is not opened again
\* (listener.go:35-45, rawsocket.go:73-79).
FramesAreWhole == \A m \in Method : parser[m] = "parse" => given[m] = buffer \/ reset

\* The loop never names a node that is not in its table (network.go:263-264).
LookupsAreKnown == lookups \subseteq Nodes

\* Every frame is let go by all the parsers, and the listener captures again
\* (listener.go:35-45, method-arp.go:72-76).
CapturesAgain == listener.at # "read" ~> listener.at = "read"

=============================================================================

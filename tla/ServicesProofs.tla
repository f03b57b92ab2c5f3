---------------------------- MODULE ServicesProofs -----------------------------
(***************************************************************************)
(* Network discovery, the ARP cache, the HTTP proxy and the web shell, each *)
(* for any number of nodes, searches, sites and applications, and the      *)
(* search for a free address on a table of any history.                    *)
(***************************************************************************)
EXTENDS AddressPoolProofs, MCAddressPool, Discovery, ArpCache, ProxySites, WebShell

--------------------------------------------------------------------------------
(* Discovery: the three parsers and the one buffer. While a parser has a frame, the
   listener does not capture the next one. *)

Waits(m) == parser[m] = "wait"

DiscoveryTypeOK ==
    /\ buffer \in Captured \cup {Freed}
    /\ parser \in [Method -> {"wait", "parse", "send", "done"}]
    /\ given \in [Method -> Captured \cup {Freed}]
    /\ listener \in [at : {"read", "give", "join"}, n : 0..3]

\* How many parsers wait, by what the listener does next.
Counted ==
    /\ listener.at = "read" => \A m \in Method : Waits(m)
    /\ listener.at = "give" =>
         /\ listener.n \in 1..3
         /\ \A i \in 1..3 : Waits(Methods[i]) <=> i >= listener.n
    /\ listener.at = "join" =>
         /\ listener.n \in 1..3
         /\ listener.n = 1 => \A m \in Method : ~ Waits(m)
         /\ listener.n = 2 => \E k \in Method : \A m \in Method : Waits(m) <=> m = k
         /\ listener.n = 3 => \E k \in Method : \A m \in Method : Waits(m) <=> m # k

DiscoveryInv == DiscoveryTypeOK /\ Counted /\ FramesAreWhole /\ LookupsAreKnown

--------------------------------------------------------------------------------
LEMMA ThreeMethods ==
    /\ Methods[1] = "arp" /\ Methods[2] = "mdns" /\ Methods[3] = "nbns"
    /\ Method = {"arp", "mdns", "nbns"}
    /\ \A i \in 1..3 : Methods[i] \in Method
    /\ \A i, j \in 1..3 : Methods[i] = Methods[j] => i = j
    /\ \A m \in Method : \E i \in 1..3 : m = Methods[i]
<1>1. Methods[1] = "arp" /\ Methods[2] = "mdns" /\ Methods[3] = "nbns"
  BY SMT DEF Methods
<1>2. \A i \in 1..3 : i = 1 \/ i = 2 \/ i = 3
  BY SMT
<1>3. Method = {"arp", "mdns", "nbns"}
  BY <1>1, <1>2, SMT DEF Method
<1>4. \A m \in Method : \E i \in 1..3 : m = Methods[i]
  BY DEF Method
<1>5. "arp" # "mdns" /\ "arp" # "nbns" /\ "mdns" # "nbns"
  BY SMT
<1>6. \A i, j \in 1..3 : Methods[i] = Methods[j] => i = j
  BY <1>1, <1>2, <1>5, Zenon
<1>7. \A i \in 1..3 : Methods[i] \in Method
  BY DEF Method
<1>8. QED BY <1>1, <1>3, <1>4, <1>6, <1>7

\* A parser that goes on changes nothing the listener counts.
LEMMA ParserKeeps ==
    ASSUME DiscoveryInv, NEW m \in Method, ~ Waits(m), NEW at, at = "send" \/ at = "done",
           NEW frame \in Captured \cup {Freed},
           parser' = [parser EXCEPT ![m] = at], given' = [given EXCEPT ![m] = frame],
           UNCHANGED <<buffer, listener, reset>>
    PROVE  DiscoveryTypeOK' /\ Counted' /\ FramesAreWhole'
<1>1. DiscoveryTypeOK'
  BY SMT DEF DiscoveryInv, DiscoveryTypeOK
<1>2. \A k \in Method : /\ parser'[k] = IF k = m THEN at ELSE parser[k]
                        /\ given'[k] = IF k = m THEN frame ELSE given[k]
  BY Zenon DEF DiscoveryInv, DiscoveryTypeOK
<1>3. at # "wait" /\ at # "parse"
  BY SMT
<1>4. \A k \in Method : Waits(k)' <=> Waits(k)
  BY <1>2, <1>3, Zenon DEF Waits
<1>5. \A i \in 1..3 : Waits(Methods[i])' <=> Waits(Methods[i])
  BY <1>4, ThreeMethods, Zenon DEF Waits
<1>6. Counted'
  BY <1>4, <1>5, Zenon DEF DiscoveryInv, Counted
<1>7. FramesAreWhole'
  BY <1>2, <1>3, Zenon DEF DiscoveryInv, FramesAreWhole
<1>8. QED BY <1>1, <1>6, <1>7

LEMMA CaptureKeeps ==
    ASSUME DiscoveryInv, Capture PROVE DiscoveryInv'
<1>1. /\ listener.at = "read" /\ listener' = [at |-> "give", n |-> 1] /\ buffer' \in Captured
      /\ UNCHANGED <<parser, given, Nodes, lookups, reset>>
  BY DEF Capture, table
<1>2. \A m \in Method : Waits(m)
  BY <1>1 DEF DiscoveryInv, Counted
<1>3. DiscoveryTypeOK'
  BY <1>1, SMT DEF DiscoveryInv, DiscoveryTypeOK
<1>4. listener'.at = "give" /\ listener'.n = 1
  BY <1>1
<1>5. \A i \in 1..3 : Waits(Methods[i])' /\ i >= 1
  BY <1>1, <1>2, ThreeMethods, SMT DEF Waits
<1>6. Counted'
  BY <1>4, <1>5, SMT DEF Counted
<1>7. FramesAreWhole'
  <2>1. "wait" # "parse"
    BY SMT
  <2>2. QED BY <1>1, <1>2, <2>1, Zenon DEF FramesAreWhole, Waits
<1>8. QED BY <1>1, <1>3, <1>6, <1>7 DEF DiscoveryInv, LookupsAreKnown

LEMMA GiveKeeps ==
    ASSUME DiscoveryInv, Give PROVE DiscoveryInv'
<1> DEFINE n == listener.n
           m == Methods[n]
<1>1. /\ listener.at = "give" /\ Waits(m)
      /\ parser' = [parser EXCEPT ![m] = "parse"] /\ given' = [given EXCEPT ![m] = buffer]
      /\ listener' = IF n < 3 THEN [listener EXCEPT !.n = n + 1] ELSE [at |-> "join", n |-> 1]
      /\ UNCHANGED <<buffer, Nodes, lookups, reset>>
  BY DEF Give, table, Waits
<1>2. n \in 1..3 /\ m \in Method /\ \A i \in 1..3 : Waits(Methods[i]) <=> i >= n
  BY <1>1, ThreeMethods, Zenon DEF DiscoveryInv, Counted
<1>3. \A k \in Method : /\ parser'[k] = IF k = m THEN "parse" ELSE parser[k]
                        /\ given'[k] = IF k = m THEN buffer ELSE given[k]
  BY <1>1, Zenon DEF DiscoveryInv, DiscoveryTypeOK
<1>4. \/ n < 3 /\ listener'.at = "give" /\ listener'.n = n + 1
      \/ n = 3 /\ listener'.at = "join" /\ listener'.n = 1
  BY <1>1, <1>2, SMT DEF DiscoveryInv, DiscoveryTypeOK
<1>5. listener' \in [at : {"read", "give", "join"}, n : 0..3]
  BY <1>1, <1>2, SMT DEF DiscoveryInv, DiscoveryTypeOK
<1>6. DiscoveryTypeOK'
  BY <1>1, <1>2, <1>5, SMT DEF DiscoveryInv, DiscoveryTypeOK
<1>7. \A i \in 1..3 : Waits(Methods[i])' <=> i >= n + 1
  <2> TAKE i \in 1..3
  <2>1. Methods[i] \in Method /\ (Methods[i] = m <=> i = n)
    BY <1>2, ThreeMethods, Zenon
  <2>2. CASE i = n
    <3>1. ~ Waits(Methods[i])'
      <4>1. "parse" # "wait"
        BY SMT
      <4>2. QED BY <1>3, <2>1, <2>2, <4>1, Zenon DEF Waits
    <3>2. ~ (i >= n + 1)
      BY <1>2, <2>2, SMT
    <3>3. QED BY <3>1, <3>2
  <2>3. CASE i # n
    <3>1. Waits(Methods[i])' <=> Waits(Methods[i])
      BY <1>3, <2>1, <2>3, Zenon DEF Waits
    <3>2. i >= n <=> i >= n + 1
      BY <1>2, <2>3, SMT
    <3>3. QED BY <1>2, <3>1, <3>2, Zenon
  <2>4. QED BY <2>2, <2>3
<1> HIDE DEF n, m
<1>8. Counted'
  <2>1. CASE n < 3 /\ listener'.at = "give" /\ listener'.n = n + 1
    <3>1. n + 1 \in 1..3
      BY <1>2, <2>1, SMT
    <3>2. QED BY <1>7, <2>1, <3>1, SMT DEF Counted
  <2>2. CASE n = 3 /\ listener'.at = "join" /\ listener'.n = 1
    <3>1. \A i \in 1..3 : ~ Waits(Methods[i])'
      BY <1>7, <2>2, SMT
    <3>2. \A k \in Method : ~ Waits(k)'
      <4> TAKE k \in Method
      <4>1. PICK i \in 1..3 : k = Methods[i]
        BY ThreeMethods, Zenon
      <4>2. QED BY <3>1, <4>1 DEF Waits
    <3>3. QED BY <2>2, <3>2, SMT DEF Counted
  <2>3. QED BY <1>4, <2>1, <2>2
<1>9. FramesAreWhole'
  BY <1>1, <1>3, Zenon DEF DiscoveryInv, FramesAreWhole
<1>10. QED BY <1>1, <1>6, <1>8, <1>9 DEF DiscoveryInv, LookupsAreKnown

\* One more waits; after the third all do.
LEMMA JoinKeeps ==
    ASSUME DiscoveryInv, Join PROVE DiscoveryInv'
<1> DEFINE n == listener.n
<1>1. PICK m \in Method : /\ parser[m] = "done"
                          /\ parser' = [parser EXCEPT ![m] = "wait"]
                          /\ given' = [given EXCEPT ![m] = Freed]
  BY Zenon DEF Join
<1>2. /\ listener.at = "join"
      /\ listener' = IF n < 3 THEN [listener EXCEPT !.n = n + 1] ELSE Reading
      /\ UNCHANGED <<buffer, Nodes, lookups, reset>>
  BY DEF Join, table
<1>3. /\ n \in 1..3
      /\ n = 1 => \A k \in Method : ~ Waits(k)
      /\ n = 2 => \E j \in Method : \A k \in Method : Waits(k) <=> k = j
      /\ n = 3 => \E j \in Method : \A k \in Method : Waits(k) <=> k # j
  BY <1>2 DEF DiscoveryInv, Counted
<1>4. \A k \in Method : /\ parser'[k] = IF k = m THEN "wait" ELSE parser[k]
                        /\ given'[k] = IF k = m THEN Freed ELSE given[k]
  BY <1>1, Zenon DEF DiscoveryInv, DiscoveryTypeOK
<1>5. ~ Waits(m)
  BY <1>1, SMT DEF Waits
<1>6. \A k \in Method : Waits(k)' <=> k = m \/ Waits(k)
  BY <1>4, Zenon DEF Waits
<1>7. \/ n < 3 /\ listener'.at = "join" /\ listener'.n = n + 1
      \/ n = 3 /\ listener'.at = "read"
  BY <1>2, <1>3, SMT DEF DiscoveryInv, DiscoveryTypeOK, Reading
<1>8. listener' \in [at : {"read", "give", "join"}, n : 0..3]
  BY <1>2, <1>3, SMT DEF DiscoveryInv, DiscoveryTypeOK, Reading
<1>9. DiscoveryTypeOK'
  BY <1>1, <1>2, <1>8, SMT DEF DiscoveryInv, DiscoveryTypeOK
<1> HIDE DEF n
<1>10. ASSUME n = 1 PROVE Counted'
  <2>1. \A k \in Method : Waits(k)' <=> k = m
    BY <1>3, <1>6, <1>10
  <2>2. listener'.at = "join" /\ listener'.n = 2
    BY <1>7, <1>10, SMT
  <2>3. \E j \in Method : \A k \in Method : Waits(k)' <=> k = j
    BY <2>1
  <2>4. Counted'
    BY <2>2, <2>3, SMT DEF Counted
  <2>5. QED BY <2>4
<1>11. ASSUME n = 2 PROVE Counted'
  <2>1. PICK j \in Method : \A k \in Method : Waits(k) <=> k = j
    BY <1>3, <1>11
  <2>2. j # m
    BY <1>5, <2>1
  <2>3. PICK t \in Method : t # j /\ t # m
    BY <2>2, ThreeMethods, SMT
  <2>4. \A k \in Method : k = j \/ k = m \/ k = t
    BY <2>2, <2>3, ThreeMethods, SMT
  <2>5. \A k \in Method : Waits(k)' <=> k # t
    BY <1>6, <2>1, <2>3, <2>4, Zenon
  <2>6. listener'.at = "join" /\ listener'.n = 3
    BY <1>7, <1>11, SMT
  <2>7. \E q \in Method : \A k \in Method : Waits(k)' <=> k # q
    BY <2>5
  <2>8. QED BY <2>6, <2>7, SMT DEF Counted
<1>12. ASSUME n = 3 PROVE Counted'
  <2>1. PICK j \in Method : \A k \in Method : Waits(k) <=> k # j
    BY <1>3, <1>12
  <2>2. \A k \in Method : Waits(k)'
    BY <1>5, <1>6, <2>1, Zenon
  <2>3. listener'.at = "read"
    BY <1>7, <1>12, SMT
  <2>4. QED BY <2>2, <2>3, SMT DEF Counted
<1>13. Counted'
  BY <1>3, <1>10, <1>11, <1>12, SMT
<1>14. FramesAreWhole'
  <2>1. "wait" # "parse"
    BY SMT
  <2>2. QED BY <1>2, <1>4, <2>1, Zenon DEF DiscoveryInv, FramesAreWhole
<1>15. QED BY <1>2, <1>9, <1>13, <1>14 DEF DiscoveryInv, LookupsAreKnown

LEMMA WriteKeeps ==
    ASSUME DiscoveryInv, Write PROVE DiscoveryInv'
<1>1. buffer' = Freed /\ reset' /\ UNCHANGED <<listener, parser, given, Nodes, lookups>>
  BY DEF Write, table
<1>2. DiscoveryTypeOK'
  BY <1>1, Zenon DEF DiscoveryInv, DiscoveryTypeOK
<1>3. Counted'
  BY <1>1 DEF DiscoveryInv, Counted, Waits
<1>4. QED BY <1>1, <1>2, <1>3 DEF DiscoveryInv, FramesAreWhole, LookupsAreKnown

LEMMA ParseKeeps ==
    ASSUME DiscoveryInv, NEW m \in Method, Parse(m) PROVE DiscoveryInv'
<1>1. parser[m] = "parse" /\ UNCHANGED <<buffer, listener, Nodes, lookups, reset>>
  BY DEF Parse, table
<1>2. ~ Waits(m)
  BY <1>1, SMT DEF Waits
<1>3. given = [given EXCEPT ![m] = given[m]] /\ given[m] \in Captured \cup {Freed}
  BY SMT DEF DiscoveryInv, DiscoveryTypeOK
<1>4. buffer \in Captured \cup {Freed}
  BY DEF DiscoveryInv, DiscoveryTypeOK
<1>5. CASE parser' = [parser EXCEPT ![m] = "send"] /\ given' = [given EXCEPT ![m] = buffer]
  <2>1. DiscoveryTypeOK' /\ Counted' /\ FramesAreWhole'
    BY <1>1, <1>2, <1>4, <1>5, ParserKeeps, Zenon
  <2>2. QED BY <1>1, <2>1 DEF DiscoveryInv, LookupsAreKnown
<1>6. CASE parser' = [parser EXCEPT ![m] = "done"] /\ UNCHANGED given
  <2>1. given' = [given EXCEPT ![m] = given[m]]
    BY <1>3, <1>6
  <2>2. DiscoveryTypeOK' /\ Counted' /\ FramesAreWhole'
    BY <1>1, <1>2, <1>3, <1>6, <2>1, ParserKeeps, Zenon
  <2>3. QED BY <1>1, <2>2 DEF DiscoveryInv, LookupsAreKnown
<1>7. QED BY <1>5, <1>6 DEF Parse

\* A sighting is taken from the channel.
LEMMA SentKeeps ==
    ASSUME DiscoveryInv, NEW m \in Method, Sends(m), Sent(m), UNCHANGED <<buffer, listener, given, reset>>,
           lookups' \subseteq Nodes'
    PROVE  DiscoveryInv'
<1>1. ~ Waits(m)
  BY SMT DEF Waits, Sends
<1>2. given' = [given EXCEPT ![m] = given[m]] /\ given[m] \in Captured \cup {Freed}
  BY SMT DEF DiscoveryInv, DiscoveryTypeOK
<1>3. parser' = [parser EXCEPT ![m] = "done"]
  BY DEF Sent
<1>4. DiscoveryTypeOK' /\ Counted' /\ FramesAreWhole'
  BY <1>1, <1>2, <1>3, ParserKeeps, Zenon
<1>5. QED BY <1>4 DEF DiscoveryInv, LookupsAreKnown

LEMMA LoopKeeps ==
    ASSUME DiscoveryInv,
           ReceiveArp \/ Drain \/ ReceiveDns \/ LookupFails \/ \E m \in Method : ReceiveName(m)
    PROVE  DiscoveryInv'
<1>1. "arp" \in Method /\ lookups \subseteq Nodes
  BY ThreeMethods, SMT DEF DiscoveryInv, LookupsAreKnown
<1>2. CASE ReceiveArp
  <2>1. lookups' \subseteq Nodes'
    BY <1>1, <1>2, SMT DEF ReceiveArp, Seen
  <2>2. QED BY <1>1, <1>2, <2>1, SentKeeps DEF ReceiveArp
<1>3. CASE Drain
  <2>1. lookups' \subseteq Nodes'
    BY <1>1, <1>3 DEF Drain, table
  <2>2. QED BY <1>1, <1>3, <2>1, SentKeeps DEF Drain
<1>4. ASSUME NEW m \in Method, ReceiveName(m) PROVE DiscoveryInv'
  <2>1. lookups' \subseteq Nodes'
    BY <1>1, <1>4, SMT DEF ReceiveName, Seen
  <2>2. QED BY <1>4, <2>1, SentKeeps DEF ReceiveName
<1>5. CASE ReceiveDns \/ LookupFails
  <2>1. lookups' \subseteq Nodes' /\ UNCHANGED <<buffer, listener, parser, given, reset>>
    BY <1>1, <1>5, SMT DEF ReceiveDns, LookupFails
  <2>2. DiscoveryTypeOK'
    BY <2>1, Zenon DEF DiscoveryInv, DiscoveryTypeOK
  <2>3. Counted' /\ FramesAreWhole'
    BY <2>1 DEF DiscoveryInv, Counted, Waits, FramesAreWhole
  <2>4. QED BY <2>1, <2>2, <2>3 DEF DiscoveryInv, LookupsAreKnown
<1>6. QED BY <1>2, <1>3, <1>4, <1>5

--------------------------------------------------------------------------------
(* The theorems *)

LEMMA DiscoveryStarts == ASSUME DiscoveryInit PROVE DiscoveryInv
<1>1. DiscoveryTypeOK
  BY SMT DEF DiscoveryInit, DiscoveryTypeOK, Reading
<1>2. \A m \in Method : Waits(m)
  BY Zenon DEF DiscoveryInit, Waits
<1>3. listener.at = "read"
  BY DEF DiscoveryInit, Reading
<1>4. Counted
  BY <1>2, <1>3, SMT DEF Counted
<1>5. "wait" # "parse"
  BY SMT
<1>6. FramesAreWhole /\ LookupsAreKnown
  BY <1>2, <1>5, Zenon DEF DiscoveryInit, FramesAreWhole, LookupsAreKnown, Waits
<1>7. QED BY <1>1, <1>4, <1>6 DEF DiscoveryInv

LEMMA DiscoveryAlways == DiscoverySpec => []DiscoveryInv
<1>1. DiscoveryInit => DiscoveryInv
  BY DiscoveryStarts
<1>2. DiscoveryInv /\ [DiscoveryNext]_discoveryVars => DiscoveryInv'
  <2> SUFFICES ASSUME DiscoveryInv, [DiscoveryNext]_discoveryVars PROVE DiscoveryInv'
    OBVIOUS
  <2>1. CASE UNCHANGED discoveryVars
    <3>1. UNCHANGED <<buffer, listener, parser, given, Nodes, lookups, reset>>
      BY <2>1 DEF discoveryVars
    <3>2. DiscoveryTypeOK'
      BY <3>1, Zenon DEF DiscoveryInv, DiscoveryTypeOK
    <3>3. Counted' /\ FramesAreWhole'
      BY <3>1 DEF DiscoveryInv, Counted, Waits, FramesAreWhole
    <3>4. QED BY <3>1, <3>2, <3>3 DEF DiscoveryInv, LookupsAreKnown
  <2>2. CASE DiscoveryNext
    BY <2>2, CaptureKeeps, GiveKeeps, JoinKeeps, WriteKeeps, ParseKeeps, LoopKeeps, Zenon DEF DiscoveryNext
  <2>3. QED BY <2>1, <2>2
<1>3. QED BY <1>1, <1>2, PTL DEF DiscoverySpec

\* The next frame is captured only when every parser has let the last one go: however
\* many frames come, and however the parsers and the event loop take turns
\* (listener.go:35-45, rawsocket.go:73-79).
THEOREM FramesStayWhole == DiscoverySpec => []FramesAreWhole
<1>1. DiscoveryInv => FramesAreWhole
  BY DEF DiscoveryInv
<1>2. QED BY <1>1, DiscoveryAlways, PTL

\* The event loop finds every node whose name was looked up (network.go:263-278).
THEOREM LookupsStayKnown == DiscoverySpec => []LookupsAreKnown
<1>1. DiscoveryInv => LookupsAreKnown
  BY DEF DiscoveryInv
<1>2. QED BY <1>1, DiscoveryAlways, PTL

--------------------------------------------------------------------------------
(* The ARP cache *)

Looking == {"RLock", "read", "miss", "Lock", "Table", "RUnlock", "answer"}

SearchOf == [at : Looking, ip : Ip, mac : Mac \cup {NoMac}, missed : BOOLEAN]

ArpTypeOK ==
    /\ kernel \in [Ip -> Mac \cup {NoMac}]
    /\ cached \in [Ip -> Mac \cup {NoMac}]
    /\ search \in [Searching -> SearchOf \cup {NoSearch}]
    /\ seen \in [Searching -> SUBSET (Mac \cup {NoMac})]

\* What a search may rely on: the kernel's entry is one it has seen, so is the table's
\* when it was read again for this search, and so is the lack of an answer.
SearchIsFresh(s, entries, copy, known) ==
    /\ entries[s.ip] \in known
    /\ s.missed /\ s.at \in {"RLock", "read"} => copy[s.ip] \in known
    /\ s.at \in {"RUnlock", "answer"} => s.mac # NoMac \/ NoMac \in known

ArpInv ==
    /\ ArpTypeOK
    /\ \A t \in Searching : search[t] # NoSearch => SearchIsFresh(search[t], kernel, cached, seen[t])

\* A search at another place.
Placed(s, at) == [s EXCEPT !.at = at]
Missed(s, at) == [s EXCEPT !.at = at, !.missed = TRUE]

LEMMA NoSearchIsNoRecord == NoSearch \notin SearchOf /\ NoSearch.at = "idle" /\ "idle" \notin Looking
BY SMT DEF NoSearch, SearchOf, Looking

LEMMA Inside ==
    ASSUME ArpInv, NEW t \in Searching, search[t].at \in Looking
    PROVE  search[t] # NoSearch /\ search[t] \in SearchOf /\ SearchIsFresh(search[t], kernel, cached, seen[t])
BY NoSearchIsNoRecord, Zenon DEF ArpInv, ArpTypeOK

LEMMA SearchGoes ==
    ASSUME NEW s \in SearchOf, NEW at \in Looking, NEW next, next = Placed(s, at)
    PROVE  next \in SearchOf /\ next.at = at /\ next.ip = s.ip /\ next.mac = s.mac /\ next.missed = s.missed
<1>1. next \in SearchOf
  BY SMT DEF SearchOf, Placed
<1>2. next.at = at /\ next.ip = s.ip
  BY SMT DEF SearchOf, Placed
<1>3. next.mac = s.mac /\ next.missed = s.missed
  BY SMT DEF SearchOf, Placed
<1>4. QED BY <1>1, <1>2, <1>3

\* And with what it found there.
LEMMA SearchFinds ==
    ASSUME NEW s \in SearchOf, NEW at \in Looking, NEW mac \in Mac \cup {NoMac}, NEW next,
           next = Placed([s EXCEPT !.mac = mac], at)
    PROVE  next \in SearchOf /\ next.at = at /\ next.ip = s.ip /\ next.mac = mac
<1> DEFINE found == [s EXCEPT !.mac = mac]
<1>1. found \in SearchOf /\ found.ip = s.ip /\ found.mac = mac
  BY SMT DEF SearchOf, Placed
<1>2. next = Placed(found, at)
  BY SMT DEF SearchOf, Placed
<1> HIDE DEF found
<1>3. QED BY <1>1, <1>2, SearchGoes, Zenon

LEMMA SearchMisses ==
    ASSUME NEW s \in SearchOf, NEW at \in Looking, NEW next, next = Missed(s, at)
    PROVE  next \in SearchOf /\ next.at = at /\ next.ip = s.ip
<1> DEFINE gone == Placed(s, at)
<1>1. next = [gone EXCEPT !.missed = TRUE]
  BY SMT DEF SearchOf, Placed, Missed
<1>2. gone \in SearchOf /\ gone.at = at /\ gone.ip = s.ip
  <2>1. gone = Placed(s, at)
    OBVIOUS
  <2> HIDE DEF gone
  <2>2. QED BY <2>1, SearchGoes, Zenon
<1> HIDE DEF gone
<1>3. next \in SearchOf
  BY <1>1, <1>2, Zenon DEF SearchOf
<1>4. next.at = at /\ next.ip = s.ip
  BY <1>1, <1>2, SMT DEF SearchOf
<1>5. QED BY <1>3, <1>4

\* One search goes on, and neither the kernel's table nor the cached one changes.
LEMMA SearchKeeps ==
    ASSUME ArpInv, NEW t \in Searching, NEW next \in SearchOf \cup {NoSearch},
           search' = [search EXCEPT ![t] = next],
           NEW known \in SUBSET (Mac \cup {NoMac}), seen' = [seen EXCEPT ![t] = known],
           UNCHANGED <<kernel, cached>>,
           next # NoSearch => SearchIsFresh(next, kernel, cached, known)
    PROVE  ArpInv'
<1>1. \A k \in Searching : /\ search'[k] = IF k = t THEN next ELSE search[k]
                           /\ seen'[k] = IF k = t THEN known ELSE seen[k]
  BY Zenon DEF ArpInv, ArpTypeOK
<1>2. ArpTypeOK'
  BY SMT DEF ArpInv, ArpTypeOK
<1>3. ASSUME NEW k \in Searching, search'[k] # NoSearch
      PROVE  SearchIsFresh(search'[k], kernel, cached, seen'[k])
  BY <1>1, <1>3, Zenon DEF ArpInv
<1>4. kernel' = kernel /\ cached' = cached
  OBVIOUS
<1>5. QED BY <1>2, <1>3, <1>4, Zenon DEF ArpInv

LEMMA KernelLearnsKeeps ==
    ASSUME ArpInv, KernelLearns PROVE ArpInv'
<1>1. PICK ip \in Ip, mac \in Mac \cup {NoMac} :
          /\ kernel' = [kernel EXCEPT ![ip] = mac]
          /\ seen' = [t \in Searching |-> IF search[t] # NoSearch /\ search[t].ip = ip
                                          THEN seen[t] \cup {mac} ELSE seen[t]]
  BY Zenon DEF KernelLearns
<1>2. cached' = cached /\ search' = search
  BY Zenon DEF KernelLearns
<1>3. ArpTypeOK'
  <2>1. kernel' \in [Ip -> Mac \cup {NoMac}]
    BY <1>1, Zenon DEF ArpInv, ArpTypeOK
  <2>2. \A t \in Searching : seen[t] \cup {mac} \in SUBSET (Mac \cup {NoMac}) /\ seen[t] \in SUBSET (Mac \cup {NoMac})
    BY Zenon DEF ArpInv, ArpTypeOK
  <2>3. seen' \in [Searching -> SUBSET (Mac \cup {NoMac})]
    BY <1>1, <2>2, Zenon
  <2>4. QED BY <1>2, <2>1, <2>3, Zenon DEF ArpInv, ArpTypeOK
<1>4. ASSUME NEW t \in Searching, search'[t] # NoSearch
      PROVE  SearchIsFresh(search'[t], kernel', cached', seen'[t])
  <2> DEFINE s == search[t]
  <2>1. search'[t] = s /\ s # NoSearch
    BY <1>2, <1>4
  <2>2. SearchIsFresh(s, kernel, cached, seen[t]) /\ s \in SearchOf
    BY <2>1, Zenon DEF ArpInv, ArpTypeOK
  <2>3. s.ip \in Ip
    BY <2>2, SMT DEF SearchOf
  <2>4. seen'[t] = IF s.ip = ip THEN seen[t] \cup {mac} ELSE seen[t]
    BY <1>1, <2>1, Zenon
  <2>5. kernel'[s.ip] = IF s.ip = ip THEN mac ELSE kernel[s.ip]
    BY <1>1, <2>3, Zenon DEF ArpInv, ArpTypeOK
  <2> HIDE DEF s
  <2>6. kernel'[s.ip] \in seen'[t] /\ seen[t] \subseteq seen'[t]
    BY <2>2, <2>4, <2>5, Zenon DEF SearchIsFresh
  <2>7. QED BY <1>2, <2>1, <2>2, <2>6, Zenon DEF SearchIsFresh
<1>5. QED BY <1>3, <1>4, Zenon DEF ArpInv

LEMMA BeginSearchKeeps ==
    ASSUME ArpInv, NEW t \in Searching, Search(t) PROVE ArpInv'
<1>1. PICK ip \in Ip :
          /\ search' = [search EXCEPT ![t] = [at |-> "RLock", ip |-> ip, mac |-> NoMac, missed |-> FALSE]]
          /\ seen' = [seen EXCEPT ![t] = {kernel[ip]}]
  BY Zenon DEF Search
<1> DEFINE next == [at |-> "RLock", ip |-> ip, mac |-> NoMac, missed |-> FALSE]
<1>2. next.at = "RLock" /\ next.ip = ip /\ next.missed = FALSE
  OBVIOUS
<1>3. "RLock" \in Looking /\ "RLock" \notin {"RUnlock", "answer"}
  BY SMT DEF Looking
<1>4. next \in SearchOf
  BY <1>3, Zenon DEF SearchOf
<1>5. search' = [search EXCEPT ![t] = next]
  BY <1>1
<1> HIDE DEF next
<1>6. {kernel[ip]} \in SUBSET (Mac \cup {NoMac})
  BY Zenon DEF ArpInv, ArpTypeOK
<1>7. SearchIsFresh(next, kernel, cached, {kernel[ip]})
  BY <1>2, <1>3, Zenon DEF SearchIsFresh
<1>8. UNCHANGED <<kernel, cached>>
  BY DEF Search
<1>9. QED BY <1>1, <1>4, <1>5, <1>6, <1>7, <1>8, SearchKeeps, Zenon

\* A step that takes a search to another place keeps what it may rely on, unless it is
\* one after which the search relies on more.
LEMMA GoesKeeps ==
    ASSUME ArpInv, NEW t \in Searching, search[t].at \in Looking, NEW at \in Looking, Goes(t, at),
           search[t].missed /\ at \in {"RLock", "read"} => cached[search[t].ip] \in seen[t],
           at \in {"RUnlock", "answer"} => search[t].mac # NoMac \/ NoMac \in seen[t],
           UNCHANGED <<kernel, cached, seen>>
    PROVE  ArpInv'
<1> DEFINE s == search[t]
           next == [s EXCEPT !.at = at]
<1>1. s \in SearchOf /\ s # NoSearch /\ SearchIsFresh(s, kernel, cached, seen[t])
  BY Inside, Zenon
<1>2. NoMac \in Mac \cup {NoMac}
  OBVIOUS
<1>3. next \in SearchOf /\ next.at = at /\ next.ip = s.ip /\ next.mac = s.mac /\ next.missed = s.missed
  <2>1. next = Placed(s, at)
    BY DEF Placed
  <2> HIDE DEF s, next
  <2>2. QED BY <1>1, <2>1, SearchGoes, Zenon
<1>4. search' = [search EXCEPT ![t] = next]
  BY Zenon DEF Goes
<1>5. seen' = [seen EXCEPT ![t] = seen[t]] /\ seen[t] \in SUBSET (Mac \cup {NoMac})
  BY SMT DEF ArpInv, ArpTypeOK
<1> HIDE DEF next
<1>6. SearchIsFresh(next, kernel, cached, seen[t])
  BY <1>1, <1>3, Zenon DEF SearchIsFresh
<1>7. QED BY <1>3, <1>4, <1>5, <1>6, SearchKeeps, Zenon

LEMMA RLockKeeps ==
    ASSUME ArpInv, NEW t \in Searching, RLock(t) PROVE ArpInv'
<1>1. /\ search[t].at = "RLock" /\ Goes(t, "read") /\ UNCHANGED <<kernel, cached, seen>>
  BY Zenon DEF RLock, Searches
<1>2. "RLock" \in Looking /\ "read" \in Looking /\ "read" \notin {"RUnlock", "answer"}
  BY SMT DEF Looking
<1>3. search[t].missed => cached[search[t].ip] \in seen[t]
  BY <1>1, <1>2, Inside, Zenon DEF SearchIsFresh
<1>4. QED BY <1>1, <1>2, <1>3, GoesKeeps, Zenon

LEMMA ReadKeeps ==
    ASSUME ArpInv, NEW t \in Searching, Read(t) PROVE ArpInv'
<1> DEFINE s == search[t]
           found == cached[s.ip]
           at == IF found = NoMac /\ ~ s.missed THEN "miss" ELSE "RUnlock"
           next == [s EXCEPT !.mac = found, !.at = at]
<1>1. s.at = "read" /\ UNCHANGED <<kernel, cached, seen>> /\ search' = [search EXCEPT ![t] = next]
  BY Zenon DEF Read, Searches
<1>2. "read" \in Looking /\ at \in Looking /\ "miss" \notin {"RLock", "read", "RUnlock", "answer"}
      /\ "RUnlock" \notin {"RLock", "read"}
  BY SMT DEF Looking
<1>3. s \in SearchOf /\ s # NoSearch /\ SearchIsFresh(s, kernel, cached, seen[t])
  BY <1>1, <1>2, Inside, Zenon
<1>4. s.ip \in Ip /\ s.missed \in BOOLEAN
  BY <1>3, SMT DEF SearchOf
<1>5. found \in Mac \cup {NoMac}
  BY <1>4, Zenon DEF ArpInv, ArpTypeOK
<1>6. at = "miss" \/ (at = "RUnlock" /\ (found # NoMac \/ s.missed))
  OBVIOUS
<1>7. next \in SearchOf /\ next.at = at /\ next.ip = s.ip /\ next.mac = found
  <2>1. next = Placed([s EXCEPT !.mac = found], at)
    <3>1. s \in SearchOf
      BY <1>3
    <3> HIDE DEF s, found, at
    <3>2. QED BY <3>1, SMT DEF Placed, SearchOf
  <2> HIDE DEF s, found, at, next
  <2>2. QED BY <1>2, <1>3, <1>5, <2>1, SearchFinds, SMT
<1>8. s.missed => found \in seen[t]
  BY <1>1, <1>3, Zenon DEF SearchIsFresh
<1>9. kernel[s.ip] \in seen[t]
  BY <1>3, Zenon DEF SearchIsFresh
<1> HIDE DEF next, at, found, s
<1>10. SearchIsFresh(next, kernel, cached, seen[t])
  BY <1>2, <1>6, <1>7, <1>8, <1>9, Zenon DEF SearchIsFresh
<1>11. seen' = [seen EXCEPT ![t] = seen[t]] /\ seen[t] \in SUBSET (Mac \cup {NoMac})
  BY <1>1, SMT DEF ArpInv, ArpTypeOK
<1>12. QED BY <1>1, <1>7, <1>10, <1>11, SearchKeeps, Zenon

LEMMA MissKeeps ==
    ASSUME ArpInv, NEW t \in Searching, Miss(t) PROVE ArpInv'
<1> DEFINE s == search[t]
           next == [s EXCEPT !.at = "Lock", !.missed = TRUE]
<1>1. s.at = "miss" /\ UNCHANGED <<kernel, cached, seen>> /\ search' = [search EXCEPT ![t] = next]
  BY Zenon DEF Miss, Searches
<1>2. "miss" \in Looking /\ "Lock" \in Looking /\ "Lock" \notin {"RLock", "read", "RUnlock", "answer"}
  BY SMT DEF Looking
<1>3. s \in SearchOf /\ s # NoSearch /\ SearchIsFresh(s, kernel, cached, seen[t])
  BY <1>1, <1>2, Inside, Zenon
<1>4. next \in SearchOf /\ next.at = "Lock" /\ next.ip = s.ip
  <2>1. next = Missed(s, "Lock")
    BY DEF Missed
  <2> HIDE DEF s, next
  <2>2. QED BY <1>2, <1>3, <2>1, SearchMisses, SMT
<1> HIDE DEF next
<1>5. SearchIsFresh(next, kernel, cached, seen[t])
  BY <1>2, <1>3, <1>4, Zenon DEF SearchIsFresh
<1>6. seen' = [seen EXCEPT ![t] = seen[t]] /\ seen[t] \in SUBSET (Mac \cup {NoMac})
  BY <1>1, SMT DEF ArpInv, ArpTypeOK
<1>7. QED BY <1>1, <1>4, <1>5, <1>6, SearchKeeps, Zenon

LEMMA LockKeeps ==
    ASSUME ArpInv, NEW t \in Searching, Lock(t) PROVE ArpInv'
<1>1. search[t].at = "Lock" /\ Goes(t, "Table") /\ UNCHANGED <<kernel, cached, seen>>
  BY Zenon DEF Lock, Searches
<1>2. "Lock" \in Looking /\ "Table" \in Looking /\ "Table" \notin {"RLock", "read", "RUnlock", "answer"}
  BY SMT DEF Looking
<1>3. QED BY <1>1, <1>2, GoesKeeps, Zenon

\* Every search that relies on the cached table has seen the kernel's.
LEMMA RefreshKeeps ==
    ASSUME ArpInv, NEW t \in Searching, Refresh(t) PROVE ArpInv'
<1> DEFINE s == search[t]
           next == [s EXCEPT !.at = "RLock"]
<1>1. s.at = "Table" /\ cached' = kernel /\ UNCHANGED <<kernel, seen>> /\ search' = [search EXCEPT ![t] = next]
  BY Zenon DEF Refresh, Searches, Goes
<1>2. "Table" \in Looking /\ "RLock" \in Looking /\ "RLock" \notin {"RUnlock", "answer"}
  BY SMT DEF Looking
<1>3. s \in SearchOf /\ s # NoSearch
  BY <1>1, <1>2, Inside, Zenon
<1>4. NoMac \in Mac \cup {NoMac}
  OBVIOUS
<1>5. next \in SearchOf /\ next.at = "RLock" /\ next.ip = s.ip
  <2>1. next = Placed(s, "RLock")
    BY DEF Placed
  <2> HIDE DEF s, next
  <2>2. QED BY <1>2, <1>3, <2>1, SearchGoes, SMT
<1> HIDE DEF next
<1>6. \A k \in Searching : search'[k] = IF k = t THEN next ELSE search[k]
  BY <1>1, Zenon DEF ArpInv, ArpTypeOK
<1>7. ArpTypeOK'
  <2>1. search' \in [Searching -> SearchOf \cup {NoSearch}]
    BY <1>1, <1>5, SMT DEF ArpInv, ArpTypeOK
  <2>2. QED BY <1>1, <2>1, Zenon DEF ArpInv, ArpTypeOK
<1>8. ASSUME NEW k \in Searching, search'[k] # NoSearch
      PROVE  SearchIsFresh(search'[k], kernel, kernel, seen[k])
  <2>1. search[k] # NoSearch
    BY <1>3, <1>6, <1>8, Zenon
  <2>2. SearchIsFresh(search[k], kernel, cached, seen[k])
    BY <2>1, Zenon DEF ArpInv
  <2>3. CASE k = t
    <3>1. search'[k] = next
      BY <1>6, <2>3
    <3>2. kernel[next.ip] \in seen[k]
      BY <1>5, <2>2, <2>3, Zenon DEF SearchIsFresh
    <3>3. QED BY <1>2, <1>5, <3>1, <3>2, Zenon DEF SearchIsFresh
  <2>4. CASE k # t
    <3>1. search'[k] = search[k]
      BY <1>6, <2>4
    <3>2. QED BY <2>2, <3>1, Zenon DEF SearchIsFresh
  <2>5. QED BY <2>3, <2>4
<1>9. QED BY <1>1, <1>7, <1>8, Zenon DEF ArpInv

LEMMA RUnlockKeeps ==
    ASSUME ArpInv, NEW t \in Searching, RUnlock(t) PROVE ArpInv'
<1>1. search[t].at = "RUnlock" /\ Goes(t, "answer") /\ UNCHANGED <<kernel, cached, seen>>
  BY Zenon DEF RUnlock, Searches
<1>2. "RUnlock" \in Looking /\ "answer" \in Looking /\ "answer" \notin {"RLock", "read"}
  BY SMT DEF Looking
<1>3. search[t].mac # NoMac \/ NoMac \in seen[t]
  BY <1>1, <1>2, Inside, Zenon DEF SearchIsFresh
<1>4. QED BY <1>1, <1>2, <1>3, GoesKeeps, Zenon

LEMMA AnswerKeeps ==
    ASSUME ArpInv, NEW t \in Searching, Answer(t) PROVE ArpInv'
<1>1. /\ search' = [search EXCEPT ![t] = NoSearch] /\ seen' = [seen EXCEPT ![t] = {}]
      /\ UNCHANGED <<kernel, cached>>
  BY Zenon DEF Answer
<1>2. {} \in SUBSET (Mac \cup {NoMac})
  OBVIOUS
<1>3. QED BY <1>1, <1>2, SearchKeeps, Zenon

LEMMA ArpStarts == ASSUME ArpInit PROVE ArpInv
<1>1. \A t \in Searching : search[t] = NoSearch
  BY Zenon DEF ArpInit
<1>2. ArpTypeOK
  BY Zenon DEF ArpInit, ArpTypeOK
<1>3. QED BY <1>1, <1>2, Zenon DEF ArpInv

\* Who is told that the kernel has no hardware address for an address was told so of a
\* time within its search: a search that missed looks again only at a table that was
\* read after it began, by it or by another one (cache.go:25-39).
THEOREM MissesAreFresh == ArpSpec => []MissIsFresh
<1>1. ArpInit => ArpInv
  BY ArpStarts
<1>2. ArpInv /\ [ArpNext]_arpVars => ArpInv'
  <2> SUFFICES ASSUME ArpInv, [ArpNext]_arpVars PROVE ArpInv'
    OBVIOUS
  <2>1. CASE UNCHANGED arpVars
    <3>1. UNCHANGED <<kernel, cached, search, seen>>
      BY <2>1 DEF arpVars
    <3>2. QED BY <3>1 DEF ArpInv, ArpTypeOK, SearchIsFresh
  <2>2. CASE KernelLearns
    BY <2>2, KernelLearnsKeeps
  <2>3. ASSUME NEW t \in Searching, Search(t) \/ ArpStep(t) PROVE ArpInv'
    BY <2>3, BeginSearchKeeps, RLockKeeps, ReadKeeps, MissKeeps, LockKeeps, RefreshKeeps,
       RUnlockKeeps, AnswerKeeps, Zenon DEF ArpStep
  <2>4. QED BY <2>1, <2>2, <2>3, Zenon DEF ArpNext
<1>3. ArpInv => MissIsFresh
  <2> SUFFICES ASSUME ArpInv, NEW t \in Searching, search[t].at = "answer", search[t].mac = NoMac
               PROVE  NoMac \in seen[t]
    BY Zenon DEF MissIsFresh, Searches
  <2>1. "answer" \in Looking /\ "answer" \in {"RUnlock", "answer"}
    BY DEF Looking
  <2>2. QED BY <2>1, Inside, Zenon DEF SearchIsFresh
<1>4. QED BY <1>1, <1>2, <1>3, PTL DEF ArpSpec

--------------------------------------------------------------------------------
(* The HTTP proxy: what every application may rely on while nobody disturbs it, and what
   the records and the server agree on when one has ended *)

Places == {"wafs", "proxies", "certs", "sites"}

Sites == [Domain -> Site \cup {NoSite}]

Job == [at : Places, valid : SUBSET Waf, sites : Sites, domains : SUBSET Domain, alone : BOOLEAN]

ProxyTypeOK ==
    /\ apply \in [Applying -> Job \cup {NoApply}]
    /\ sites \in Sites
    /\ proxies \in [Domain -> Proxy \cup {NoProxy}]
    /\ up \in BOOLEAN /\ applied \in BOOLEAN

\* What an application that nobody disturbed has read and done.
Reads(job, list) ==
    /\ job.at = "proxies" => job.valid = Valid(wafs)
    /\ job.at \in {"certs", "sites"} => job.sites = SitesOf(proxies, Valid(wafs)) /\ job.domains = Whitelist(proxies)
    /\ job.at = "sites" => list = Whitelist(proxies)

\* The jobs that ReadWafs and ReadProxies leave.
WafsRead(job, valid) == [job EXCEPT !.at = "proxies", !.valid = valid]
ProxiesRead(job, made, domains) == [job EXCEPT !.at = "certs", !.sites = made, !.domains = domains]

AloneInv ==
    \A a \in Applying : apply[a] # NoApply /\ apply[a].alone =>
        /\ Reads(apply[a], whitelist)
        /\ \A b \in Applying \ {a} : apply[b] = NoApply

AppliedInv ==
    up /\ applied =>
        /\ \A a \in Applying : apply[a] = NoApply
        /\ sites = SitesOf(proxies, Valid(wafs)) /\ whitelist = Whitelist(proxies)

ProxyInv == ProxyTypeOK /\ AloneInv /\ AppliedInv

--------------------------------------------------------------------------------
LEMMA NoApplyIsNoJob == NoApply \notin Job /\ NoApply.at = "none" /\ "none" \notin Places
BY SMT DEF NoApply, Job, Places

LEMMA SitesType ==
    ASSUME NEW ps \in [Domain -> Proxy \cup {NoProxy}], NEW valid
    PROVE  SitesOf(ps, valid) \in Sites /\ Whitelist(ps) \in SUBSET Domain
<1>1. \A d \in Domain : ps[d].enabled => [ssl |-> ps[d].ssl, filtered |-> ps[d].waf \in valid] \in Site
  BY SMT DEF Proxy, NoProxy, Site
<1>2. SitesOf(ps, valid) \in Sites
  BY <1>1, Zenon DEF SitesOf, Sites
<1>3. Whitelist(ps) \in SUBSET Domain
  BY DEF Whitelist
<1>4. QED BY <1>2, <1>3

\* A job with some of its fields written anew.
LEMMA JobEdits ==
    ASSUME NEW job \in Job
    PROVE  /\ [job EXCEPT !.alone = FALSE] \in Job
           /\ [job EXCEPT !.alone = FALSE].alone = FALSE
           /\ [job EXCEPT !.at = "sites"] \in Job
           /\ [job EXCEPT !.at = "sites"].at = "sites"
           /\ [job EXCEPT !.at = "sites"].alone = job.alone
           /\ [job EXCEPT !.at = "sites"].sites = job.sites
           /\ [job EXCEPT !.at = "sites"].domains = job.domains
<1>1. [job EXCEPT !.alone = FALSE] \in Job
  BY Zenon DEF Job
<1>2. [job EXCEPT !.alone = FALSE].alone = FALSE
  BY SMT DEF Job
<1>3. [job EXCEPT !.at = "sites"] \in Job
  BY SMT DEF Job, Places
<1>4. [job EXCEPT !.at = "sites"].at = "sites"
  BY SMT DEF Job
<1>5. [job EXCEPT !.at = "sites"].alone = job.alone
  BY SMT DEF Job
<1>6. [job EXCEPT !.at = "sites"].sites = job.sites
  BY SMT DEF Job
<1>7. [job EXCEPT !.at = "sites"].domains = job.domains
  BY SMT DEF Job
<1>8. QED BY <1>1, <1>2, <1>3, <1>4, <1>5, <1>6, <1>7

LEMMA JobReadsWafs ==
    ASSUME NEW job \in Job, NEW valid \in SUBSET Waf, NEW next,
           next = WafsRead(job, valid)
    PROVE  next \in Job /\ next.at = "proxies" /\ next.valid = valid /\ next.alone = job.alone
<1>1. next = [[job EXCEPT !.at = "proxies"] EXCEPT !.valid = valid]
  BY SMT DEF WafsRead, Job
<1>2. [job EXCEPT !.at = "proxies"] \in Job
  BY SMT DEF WafsRead, Job, Places
<1>3. \A j \in Job : [j EXCEPT !.valid = valid] \in Job
  BY SMT DEF WafsRead, Job
<1>4. next \in Job
  BY <1>1, <1>2, <1>3, Zenon
<1>5. next.at = "proxies" /\ next.valid = valid
  BY SMT DEF WafsRead, Job
<1>6. next.alone = job.alone
  BY SMT DEF WafsRead, Job
<1>7. QED BY <1>4, <1>5, <1>6

LEMMA JobReadsProxies ==
    ASSUME NEW job \in Job, NEW made \in Sites, NEW domains \in SUBSET Domain, NEW next,
           next = ProxiesRead(job, made, domains)
    PROVE  /\ next \in Job /\ next.at = "certs" /\ next.sites = made /\ next.domains = domains
           /\ next.alone = job.alone
<1>1. next = [[[job EXCEPT !.at = "certs"] EXCEPT !.sites = made] EXCEPT !.domains = domains]
  BY SMT DEF ProxiesRead, Job
<1>2. [job EXCEPT !.at = "certs"] \in Job
  BY SMT DEF ProxiesRead, Job, Places
<1>3. \A j \in Job : [j EXCEPT !.sites = made] \in Job /\ [j EXCEPT !.domains = domains] \in Job
  BY SMT DEF ProxiesRead, Job
<1>4. next \in Job
  BY <1>1, <1>2, <1>3, Zenon
<1>5. next.at = "certs" /\ next.sites = made
  BY SMT DEF ProxiesRead, Job
<1>6. next.domains = domains
  BY SMT DEF ProxiesRead, Job
<1>7. next.alone = job.alone
  BY SMT DEF ProxiesRead, Job
<1>8. QED BY <1>4, <1>5, <1>6, <1>7

LEMMA DisturbedJobs ==
    ASSUME ProxyTypeOK, NEW a \in Applying
    PROVE  /\ Disturbed(apply)[a] \in Job \cup {NoApply}
           /\ Disturbed(apply)[a] = NoApply \/ Disturbed(apply)[a].alone = FALSE
           /\ Disturbed(apply)[a] = NoApply <=> apply[a] = NoApply
<1>1. Disturbed(apply)[a] = IF apply[a] = NoApply THEN NoApply ELSE [apply[a] EXCEPT !.alone = FALSE]
  BY Zenon DEF Disturbed
<1>2. apply[a] \in Job \cup {NoApply}
  BY Zenon DEF ProxyTypeOK
<1>3. CASE apply[a] = NoApply
  BY <1>1, <1>3, Zenon
<1>4. CASE apply[a] \in Job
  <2>1. apply[a] # NoApply
    BY <1>4, NoApplyIsNoJob, Zenon
  <2> DEFINE job == [apply[a] EXCEPT !.alone = FALSE]
  <2>2. job \in Job /\ job.alone = FALSE
    BY <1>4, JobEdits, Zenon
  <2>3. Disturbed(apply)[a] = job
    BY <1>1, <2>1, Zenon
  <2> HIDE DEF job
  <2>4. QED BY <2>1, <2>2, <2>3, NoApplyIsNoJob, Zenon
<1>5. QED BY <1>2, <1>3, <1>4

LEMMA DisturbedType ==
    ASSUME ProxyTypeOK PROVE Disturbed(apply) \in [Applying -> Job \cup {NoApply}]
<1>1. \A a \in Applying :
        (IF apply[a] = NoApply THEN NoApply ELSE [apply[a] EXCEPT !.alone = FALSE]) \in Job \cup {NoApply}
  <2> TAKE a \in Applying
  <2>1. Disturbed(apply)[a] = IF apply[a] = NoApply THEN NoApply ELSE [apply[a] EXCEPT !.alone = FALSE]
    BY Zenon DEF Disturbed
  <2>2. QED BY <2>1, DisturbedJobs, Zenon
<1>2. QED BY <1>1, Zenon DEF Disturbed

--------------------------------------------------------------------------------
(* Steps of an application *)

LEMMA AtWork ==
    ASSUME ProxyInv, NEW a \in Applying, apply[a].at \in Places
    PROVE  /\ apply[a] \in Job /\ apply[a] # NoApply
           /\ \A b \in Applying \ {a} : apply[b] # NoApply => ~ apply[b].alone
           /\ ~ (up /\ applied)
           /\ apply[a].alone => Reads(apply[a], whitelist) /\ \A b \in Applying \ {a} : apply[b] = NoApply
<1>1. apply[a] # NoApply
  BY NoApplyIsNoJob, Zenon
<1>2. apply[a] \in Job
  BY <1>1, Zenon DEF ProxyInv, ProxyTypeOK
<1>3. \A b \in Applying \ {a} : apply[b] # NoApply => ~ apply[b].alone
  BY <1>1, Zenon DEF ProxyInv, AloneInv
<1>4. ~ (up /\ applied)
  BY <1>1, Zenon DEF ProxyInv, AppliedInv
<1>5. apply[a].alone => Reads(apply[a], whitelist) /\ \A b \in Applying \ {a} : apply[b] = NoApply
  BY <1>1, Zenon DEF ProxyInv, AloneInv
<1>6. QED BY <1>1, <1>2, <1>3, <1>4, <1>5

LEMMA JobKeeps ==
    ASSUME ProxyInv, NEW a \in Applying, apply[a].at \in Places, NEW next \in Job \cup {NoApply},
           apply' = [apply EXCEPT ![a] = next],
           UNCHANGED <<proxies, wafs, sites, up, applied>>,
           next # NoApply => next.alone = apply[a].alone,
           next # NoApply /\ next.alone => Reads(next, whitelist')
    PROVE  ProxyInv'
<1>1. \A b \in Applying : apply'[b] = IF b = a THEN next ELSE apply[b]
  BY Zenon DEF ProxyInv, ProxyTypeOK
<1>2. ProxyTypeOK'
  <2>1. apply' \in [Applying -> Job \cup {NoApply}]
    BY SMT DEF ProxyInv, ProxyTypeOK
  <2>2. QED BY <2>1, Zenon DEF ProxyInv, ProxyTypeOK
<1>3. AloneInv'
  <2> SUFFICES ASSUME NEW b \in Applying, apply'[b] # NoApply, apply'[b].alone
               PROVE  Reads(apply[b], whitelist)' /\ \A c \in Applying \ {b} : apply'[c] = NoApply
    BY Zenon DEF AloneInv
  <2>1. b = a
    BY <1>1, AtWork, Zenon
  <2>2. apply'[b] = next /\ \A c \in Applying \ {b} : apply'[c] = NoApply
    BY <1>1, <2>1, AtWork, Zenon
  <2>3. Reads(next, whitelist')
    BY <2>2
  <2>4. Reads(apply[b], whitelist)'
    <3>1. Valid(wafs)' = Valid(wafs) /\ Whitelist(proxies)' = Whitelist(proxies)
          /\ SitesOf(proxies, Valid(wafs))' = SitesOf(proxies, Valid(wafs))
      BY Zenon DEF Valid, SitesOf, Whitelist
    <3>2. QED BY <2>2, <2>3, <3>1, Zenon DEF Reads
  <2>5. QED BY <2>2, <2>4
<1>4. AppliedInv'
  BY AtWork, Zenon DEF AppliedInv
<1>5. QED BY <1>2, <1>3, <1>4 DEF ProxyInv

LEMMA ReadWafsKeeps ==
    ASSUME ProxyInv, NEW a \in Applying, ReadWafs(a) PROVE ProxyInv'
<1> DEFINE next == WafsRead(apply[a], Valid(wafs))
<1>1. apply[a].at \in Places /\ UNCHANGED <<proxies, wafs, sites, up, applied>>
  BY SMT DEF ReadWafs, Places
<1>2. Valid(wafs) \in SUBSET Waf
  BY DEF Valid
<1>3. next = WafsRead(apply[a], Valid(wafs))
  OBVIOUS
<1>4. apply' = [apply EXCEPT ![a] = NoApply] \/ apply' = [apply EXCEPT ![a] = next]
  BY Zenon DEF ReadWafs, WafsRead
<1> HIDE DEF next
<1>5. next \in Job /\ next.at = "proxies" /\ next.valid = Valid(wafs) /\ next.alone = apply[a].alone
  <2>1. apply[a] \in Job
    BY <1>1, AtWork, Zenon
  <2>2. QED BY <1>2, <1>3, <2>1, JobReadsWafs
<1>6. Reads(next, whitelist')
  <2>1. "proxies" \notin {"certs", "sites"} /\ "proxies" # "sites"
    BY SMT
  <2>2. QED BY <1>1, <1>5, <2>1, Zenon DEF Reads, Valid
<1>7. CASE apply' = [apply EXCEPT ![a] = NoApply]
  BY <1>1, <1>7, JobKeeps, Zenon
<1>8. CASE apply' = [apply EXCEPT ![a] = next]
  BY <1>1, <1>5, <1>6, <1>8, JobKeeps, Zenon
<1>9. QED BY <1>4, <1>7, <1>8

LEMMA ReadProxiesKeeps ==
    ASSUME ProxyInv, NEW a \in Applying, ReadProxies(a) PROVE ProxyInv'
<1> DEFINE made == SitesOf(proxies, apply[a].valid)
           next == ProxiesRead(apply[a], made, Whitelist(proxies))
<1>1. apply[a].at \in Places /\ apply[a].at = "proxies" /\ UNCHANGED <<proxies, wafs, sites, up, applied>>
  BY SMT DEF ReadProxies, Places
<1>2. made \in Sites /\ Whitelist(proxies) \in SUBSET Domain
  BY SitesType, Zenon DEF ProxyInv, ProxyTypeOK
<1>3. next = ProxiesRead(apply[a], made, Whitelist(proxies))
  OBVIOUS
<1>4. apply' = [apply EXCEPT ![a] = next]
  BY Zenon DEF ReadProxies, ProxiesRead
<1>5. apply[a].alone => made = SitesOf(proxies, Valid(wafs))
  BY <1>1, AtWork, Zenon DEF Reads
<1> HIDE DEF next, made
<1>6. next \in Job /\ next.at = "certs" /\ next.sites = made /\ next.domains = Whitelist(proxies) /\ next.alone = apply[a].alone
  <2>1. apply[a] \in Job
    BY <1>1, AtWork, Zenon
  <2>2. QED BY <1>2, <1>3, <2>1, JobReadsProxies
<1>7. next.alone => Reads(next, whitelist')
  <2>1. "certs" # "proxies" /\ "certs" # "sites"
    BY SMT
  <2>2. QED BY <1>1, <1>5, <1>6, <2>1, Zenon DEF Reads, Valid, SitesOf, Whitelist
<1>8. QED BY <1>1, <1>4, <1>6, <1>7, JobKeeps, Zenon

LEMMA SetCertManagerKeeps ==
    ASSUME ProxyInv, NEW a \in Applying, SetCertManager(a) PROVE ProxyInv'
<1> DEFINE next == [apply[a] EXCEPT !.at = "sites"]
<1>1. apply[a].at \in Places /\ apply[a].at = "certs" /\ UNCHANGED <<proxies, wafs, sites, up, applied>>
  BY SMT DEF SetCertManager, Places
<1>2. apply' = [apply EXCEPT ![a] = next] /\ whitelist' = apply[a].domains
  BY Zenon DEF SetCertManager
<1>3. next \in Job /\ next.at = "sites" /\ next.sites = apply[a].sites /\ next.domains = apply[a].domains
      /\ next.alone = apply[a].alone
  BY <1>1, AtWork, JobEdits, Zenon
<1> HIDE DEF next
<1>4. next.alone => Reads(next, whitelist')
  <2>1. "sites" # "proxies"
    BY SMT
  <2>2. apply[a].alone => apply[a].sites = SitesOf(proxies, Valid(wafs)) /\ apply[a].domains = Whitelist(proxies)
    BY <1>1, AtWork, Zenon DEF Reads
  <2>3. QED BY <1>1, <1>2, <1>3, <2>1, <2>2, Zenon DEF Reads, Valid, SitesOf, Whitelist
<1>5. QED BY <1>1, <1>2, <1>3, <1>4, JobKeeps, Zenon

\* The last assignment of an application that nobody disturbed makes the records and
\* what is served agree.
LEMMA SetSitesKeeps ==
    ASSUME ProxyInv, NEW a \in Applying, SetSites(a) PROVE ProxyInv'
<1>1. apply[a].at \in Places /\ apply[a].at = "sites" /\ UNCHANGED <<proxies, wafs, whitelist, up>>
  BY SMT DEF SetSites, Places
<1>2. /\ sites' = apply[a].sites
      /\ apply' = [apply EXCEPT ![a] = NoApply]
      /\ applied' = (applied \/ apply[a].alone)
  BY Zenon DEF SetSites
<1>3. \A b \in Applying : apply'[b] = IF b = a THEN NoApply ELSE apply[b]
  BY <1>2, Zenon DEF ProxyInv, ProxyTypeOK
<1>4. ProxyTypeOK'
  <2>1. apply' \in [Applying -> Job \cup {NoApply}]
    BY <1>2, SMT DEF ProxyInv, ProxyTypeOK
  <2>2. apply[a].sites \in Sites /\ apply[a].alone \in BOOLEAN
    BY <1>1, AtWork, SMT DEF Job
  <2>3. applied' \in BOOLEAN
    BY <1>2, <2>2, Zenon DEF ProxyInv, ProxyTypeOK
  <2>4. QED BY <1>1, <1>2, <2>1, <2>2, <2>3, Zenon DEF ProxyInv, ProxyTypeOK
<1>5. AloneInv'
  BY <1>1, <1>3, AtWork, Zenon DEF AloneInv
<1>6. AppliedInv'
  <2> SUFFICES ASSUME up', applied'
               PROVE  /\ \A b \in Applying : apply'[b] = NoApply
                      /\ sites' = SitesOf(proxies, Valid(wafs))' /\ whitelist' = Whitelist(proxies)'
    BY Zenon DEF AppliedInv
  <2>1. apply[a].alone
    BY <1>1, <1>2, AtWork, Zenon
  <2>2. Reads(apply[a], whitelist) /\ \A b \in Applying \ {a} : apply[b] = NoApply
    BY <1>1, <2>1, AtWork, Zenon
  <2>3. sites' = SitesOf(proxies, Valid(wafs)) /\ whitelist = Whitelist(proxies)
    BY <1>1, <1>2, <2>2, Zenon DEF Reads
  <2>4. QED BY <1>1, <1>3, <2>2, <2>3, Zenon DEF SitesOf, Valid, Whitelist
<1>7. QED BY <1>4, <1>5, <1>6 DEF ProxyInv

--------------------------------------------------------------------------------
(* The pages and the process *)

\* A job that has just begun has read nothing yet.
LEMMA BeginKeeps ==
    ASSUME ProxyInv, NEW a \in Applying, Begin(a), apply[a] = NoApply,
           applied' = FALSE, UNCHANGED <<sites, up>>,
           proxies' \in [Domain -> Proxy \cup {NoProxy}]
    PROVE  ProxyInv'
<1> DEFINE alone == \A b \in Applying : apply[b] = NoApply
           job == [at |-> "wafs", valid |-> {}, sites |-> sites, domains |-> {}, alone |-> alone]
<1>1. apply' = [Disturbed(apply) EXCEPT ![a] = job]
  BY Zenon DEF Begin
<1>2. alone \in BOOLEAN
  OBVIOUS
<1>3. sites \in Sites /\ "wafs" \in Places
  BY SMT DEF ProxyInv, ProxyTypeOK, Places
<1>4. job.at = "wafs" /\ job.alone = alone
  BY Zenon
<1>5. job \in Job
  <2> HIDE DEF alone
  <2>1. QED BY <1>2, <1>3, Zenon DEF Job
<1>6. \A b \in Applying : apply'[b] = IF b = a THEN job ELSE Disturbed(apply)[b]
  <2> HIDE DEF job
  <2>1. DOMAIN Disturbed(apply) = Applying
    BY Zenon DEF Disturbed
  <2>2. QED BY <1>1, <2>1, Zenon
<1>7. job # NoApply
  <2> HIDE DEF job
  <2>1. QED BY <1>5, NoApplyIsNoJob, Zenon
<1>8. alone <=> \A b \in Applying : apply[b] = NoApply
  OBVIOUS
<1> HIDE DEF job, alone
<1>9. \A b \in Applying : /\ Disturbed(apply)[b] \in Job \cup {NoApply}
                          /\ Disturbed(apply)[b] = NoApply \/ Disturbed(apply)[b].alone = FALSE
                          /\ Disturbed(apply)[b] = NoApply <=> apply[b] = NoApply
  BY DisturbedJobs, Zenon DEF ProxyInv
<1>10. ProxyTypeOK'
  <2>1. apply' \in [Applying -> Job \cup {NoApply}]
    <3>1. Disturbed(apply) \in [Applying -> Job \cup {NoApply}]
      BY DisturbedType DEF ProxyInv
    <3>2. QED BY <1>1, <1>5, <3>1, Zenon
  <2>2. QED BY <2>1, Zenon DEF ProxyInv, ProxyTypeOK
<1>11. AloneInv'
  <2> SUFFICES ASSUME NEW b \in Applying, apply'[b] # NoApply, apply'[b].alone
               PROVE  Reads(apply[b], whitelist)' /\ \A c \in Applying \ {b} : apply'[c] = NoApply
    BY Zenon DEF AloneInv
  <2>1. b = a /\ apply'[b] = job
    <3>1. ASSUME b # a PROVE FALSE
      <4>1. apply'[b] = Disturbed(apply)[b]
        BY <1>6, <3>1
      <4>2. Disturbed(apply)[b] = NoApply \/ Disturbed(apply)[b].alone = FALSE
        BY <1>9
      <4>3. QED BY <4>1, <4>2
    <3>2. b = a
      BY <3>1
    <3>3. QED BY <1>6, <3>2, Zenon
  <2>2. \A c \in Applying \ {b} : apply'[c] = NoApply
    BY <1>4, <1>6, <1>8, <1>9, <2>1, Zenon
  <2>3. "wafs" # "proxies" /\ "wafs" \notin {"certs", "sites"} /\ "wafs" # "sites"
    BY SMT
  <2>4. Reads(apply[b], whitelist)'
    BY <1>4, <2>1, <2>3, Zenon DEF Reads
  <2>5. QED BY <2>2, <2>4
<1>12. AppliedInv'
  BY DEF AppliedInv
<1>13. QED BY <1>10, <1>11, <1>12 DEF ProxyInv

LEMMA SaveProxyKeeps ==
    ASSUME ProxyInv, NEW a \in Applying, SaveProxy(a) PROVE ProxyInv'
<1>1. PICK d \in Domain, p \in Proxy : proxies' = [proxies EXCEPT ![d] = p]
  BY Zenon DEF SaveProxy
<1>2. proxies' \in [Domain -> Proxy \cup {NoProxy}]
  BY <1>1, SMT DEF ProxyInv, ProxyTypeOK
<1>3. QED BY <1>2, BeginKeeps, Zenon DEF SaveProxy

LEMMA SaveWafKeeps ==
    ASSUME ProxyInv, NEW a \in Applying, SaveWaf(a) PROVE ProxyInv'
<1>1. proxies' \in [Domain -> Proxy \cup {NoProxy}]
  BY Zenon DEF SaveWaf, ProxyInv, ProxyTypeOK
<1>2. QED BY <1>1, BeginKeeps, Zenon DEF SaveWaf

LEMMA EditProxiesKeeps ==
    ASSUME ProxyInv, EditProxies PROVE ProxyInv'
<1>1. PICK d \in Domain, p \in Proxy \cup {NoProxy} : proxies' = [proxies EXCEPT ![d] = p]
  BY Zenon DEF EditProxies
<1>2. proxies' \in [Domain -> Proxy \cup {NoProxy}]
  BY <1>1, SMT DEF ProxyInv, ProxyTypeOK
<1>3. apply' = Disturbed(apply) /\ applied' = FALSE /\ UNCHANGED <<sites, up>>
  BY Zenon DEF EditProxies
<1>4. \A b \in Applying : /\ Disturbed(apply)[b] \in Job \cup {NoApply}
                          /\ Disturbed(apply)[b] = NoApply \/ Disturbed(apply)[b].alone = FALSE
  BY DisturbedJobs, Zenon DEF ProxyInv
<1>5. apply' \in [Applying -> Job \cup {NoApply}]
  BY <1>3, DisturbedType, Zenon DEF ProxyInv
<1>6. ProxyTypeOK'
  BY <1>2, <1>3, <1>5, Zenon DEF ProxyInv, ProxyTypeOK
<1>7. AloneInv'
  <2>1. \A b \in Applying : apply'[b] = NoApply \/ ~ apply'[b].alone
    BY <1>3, <1>4, Zenon
  <2>2. QED BY <2>1, Zenon DEF AloneInv
<1>8. AppliedInv'
  BY <1>3 DEF AppliedInv
<1>9. QED BY <1>6, <1>7, <1>8 DEF ProxyInv

LEMMA RestartKeeps ==
    ASSUME ProxyInv, Restart PROVE ProxyInv'
<1>1. apply' = [a \in Applying |-> NoApply] /\ proxies' = proxies
  BY Zenon DEF Restart
<1>2. \/ up' = FALSE /\ UNCHANGED <<sites, whitelist, applied>>
      \/ /\ up' = TRUE /\ applied' = TRUE
         /\ sites' = SitesOf(proxies, Valid(wafs')) /\ whitelist' = Whitelist(proxies)
  BY Zenon DEF Restart
<1>3. \A a \in Applying : apply'[a] = NoApply
  BY <1>1, Zenon
<1>4. ProxyTypeOK'
  <2>1. apply' \in [Applying -> Job \cup {NoApply}]
    BY <1>1, Zenon
  <2>2. sites' \in Sites
    BY <1>2, SitesType, Zenon DEF ProxyInv, ProxyTypeOK
  <2>3. up' \in BOOLEAN /\ applied' \in BOOLEAN
    BY <1>2, Zenon DEF ProxyInv, ProxyTypeOK
  <2>4. QED BY <1>1, <2>1, <2>2, <2>3, Zenon DEF ProxyInv, ProxyTypeOK
<1>5. AloneInv'
  BY <1>3, Zenon DEF AloneInv
<1>6. AppliedInv'
  <2>1. Valid(wafs)' = Valid(wafs') /\ SitesOf(proxies, Valid(wafs))' = SitesOf(proxies, Valid(wafs'))
        /\ Whitelist(proxies)' = Whitelist(proxies)
    BY <1>1 DEF Valid, SitesOf, Whitelist
  <2>2. QED BY <1>2, <1>3, <2>1, Zenon DEF AppliedInv
<1>7. QED BY <1>4, <1>5, <1>6 DEF ProxyInv

--------------------------------------------------------------------------------
(* The theorem *)

LEMMA ProxyStarts == ASSUME ProxyInit PROVE ProxyInv
<1>1. /\ proxies = [d \in Domain |-> NoProxy] /\ sites = SitesOf(proxies, Valid(wafs)) /\ whitelist = {}
      /\ apply = [a \in Applying |-> NoApply] /\ up = TRUE /\ applied = TRUE
  BY Zenon DEF ProxyInit
<1>2. proxies \in [Domain -> Proxy \cup {NoProxy}] /\ \A d \in Domain : proxies[d] = NoProxy
  BY <1>1, Zenon
<1>3. sites \in Sites
  BY <1>1, <1>2, SitesType, Zenon
<1>4. apply \in [Applying -> Job \cup {NoApply}] /\ \A a \in Applying : apply[a] = NoApply
  BY <1>1, Zenon
<1>5. Whitelist(proxies) = {}
  <2>1. NoProxy.enabled = FALSE
    BY Zenon DEF NoProxy
  <2>2. QED BY <1>2, <2>1, Zenon DEF Whitelist
<1>6. QED BY <1>1, <1>2, <1>3, <1>4, <1>5, Zenon DEF ProxyInv, ProxyTypeOK, AloneInv, AppliedInv

LEMMA ProxyStays == ASSUME ProxyInv, UNCHANGED proxyVars PROVE ProxyInv'
<1>1. UNCHANGED <<proxies, wafs, sites, whitelist, apply, up, applied>>
  BY DEF proxyVars
<1>2. ProxyTypeOK'
  BY <1>1 DEF ProxyInv, ProxyTypeOK
<1>3. AloneInv'
  BY <1>1 DEF ProxyInv, AloneInv, Reads, Valid, SitesOf, Whitelist
<1>4. AppliedInv'
  BY <1>1 DEF ProxyInv, AppliedInv, Valid, SitesOf, Whitelist
<1>5. QED BY <1>2, <1>3, <1>4 DEF ProxyInv

\* Once the records were applied by somebody whom nobody disturbed, and after a
\* restart, exactly the stored sites are served, through the filters that are valid,
\* and certificates are asked for exactly their domains (httpproxy.go:75-126).
THEOREM StoredIsServed == ProxySpec => []ServedAsStored
<1>1. ProxyInit => ProxyInv
  BY ProxyStarts
<1>2. ProxyInv /\ [ProxyNext]_proxyVars => ProxyInv'
  <2> SUFFICES ASSUME ProxyInv, [ProxyNext]_proxyVars PROVE ProxyInv'
    OBVIOUS
  <2>1. CASE UNCHANGED proxyVars
    BY <2>1, ProxyStays
  <2>2. CASE ProxyNext
    BY <2>2, SaveProxyKeeps, SaveWafKeeps, ReadWafsKeeps, ReadProxiesKeeps, SetCertManagerKeeps,
       SetSitesKeeps, EditProxiesKeeps, RestartKeeps, Zenon DEF ProxyNext
  <2>3. QED BY <2>1, <2>2
<1>3. ProxyInv => ServedAsStored
  BY Zenon DEF ProxyInv, AppliedInv, ServedAsStored
<1>4. QED BY <1>1, <1>2, <1>3, PTL DEF ProxySpec

--------------------------------------------------------------------------------
(* The web shell *)

\* How often Done was called: once when the way from the shell to the browser ended, and
\* once when a pong was missed.
Dones == (IF output = "ended" THEN 1 ELSE 0) + (IF keepalive = "timeout" THEN 1 ELSE 0)

ShellInv ==
    /\ output \in {"read", "write", "bye", "ended"}
    /\ keepalive \in {"ping", "write", "sleep", "timeout", "failed"}
    /\ waiter = 2 - Dones

\* The WaitGroup goes below zero only when the shell's end was followed by a missed pong,
\* or the other way round: neither counts twice, and a failed ping does not count
\* (handler_websocket.go:115-128, 137-151).
THEOREM OneDoneEach == ShellSpec => []OneDoneWithoutTimeout
<1>1. ShellInit => ShellInv
  BY SMT DEF ShellInit, ShellInv, Dones
<1>2. ShellInv /\ [ShellNext]_shellVars => ShellInv'
  <2> SUFFICES ASSUME ShellInv, [ShellNext]_shellVars PROVE ShellInv'
    OBVIOUS
  <2> USE DEF ShellInv, Dones, Done, NotDone
  <2>1. CASE UNCHANGED shellVars
    BY <2>1, SMT DEF shellVars
  <2>2. CASE Panic
    BY <2>2, SMT DEF Panic
  <2>3. CASE Ping
    BY <2>3, SMT DEF Ping, KeepaliveIs
  <2>4. CASE Pinged
    BY <2>4, SMT DEF Pinged, KeepaliveIs
  <2>5. CASE Wake
    <3>1. /\ keepalive = "sleep" /\ output' = output
          /\ \/ keepalive' = "timeout" /\ waiter' = waiter - 1
             \/ keepalive' = "ping" /\ waiter' = waiter
      BY <2>5, Zenon DEF Wake, KeepaliveIs
    <3>2. QED BY <3>1, SMT
  <2>6. CASE ReadTty
    <3>1. /\ output = "read" /\ keepalive' = keepalive
          /\ \/ output' = "ended" /\ waiter' = waiter - 1
             \/ output' \in {"write", "bye"} /\ waiter' = waiter
      BY <2>6, Zenon DEF ReadTty, OutputIs
    <3>2. QED BY <3>1, SMT
  <2>7. CASE WriteBrowser
    BY <2>7, SMT DEF WriteBrowser, OutputIs
  <2>8. CASE SayBye
    BY <2>8, SMT DEF SayBye, OutputIs
  <2>9. CASE ReadBrowser
    BY <2>9, SMT DEF ReadBrowser
  <2>10. CASE Wait \/ Close \/ Leave
    BY <2>10, SMT DEF Wait, Close, Leave
  <2>11. CASE OpenShell
    BY <2>11, SMT DEF OpenShell
  <2>12. QED
    BY <2>1, <2>2, <2>3, <2>4, <2>5, <2>6, <2>7, <2>8, <2>9, <2>10, <2>11 DEF ShellNext
<1>3. ShellInv => OneDoneWithoutTimeout
  BY SMT DEF ShellInv, Dones, OneDoneWithoutTimeout
<1>4. QED BY <1>1, <1>2, <1>3, PTL DEF ShellSpec

--------------------------------------------------------------------------------
(* The address pool: the table of taken offsets never leaves the pool, so that it
   is full exactly when it is the pool. *)

\* However offsets were taken and given back, the search answers with the least one
\* that is free and says no only when the pool is used up (firstAvailable).
THEOREM LeastFreeIsFound == Spec => []FindsLeastFree
<1> DEFINE InPool == taken \subseteq Offset
<1>1. Init => InPool
  BY DEF Init
<1>2. InPool /\ [Next]_taken => InPool'
  <2> SUFFICES ASSUME InPool, [Next]_taken
               PROVE  InPool'
    OBVIOUS
  <2>1. CASE Take
    <3>1. firstAvailable(taken).offset \in Offset
      BY <2>1, FirstAvailableIsLeast DEF Take
    <3> QED BY <2>1, <3>1 DEF Take
  <2>2. CASE GiveBack
    BY <2>2 DEF GiveBack
  <2>3. CASE UNCHANGED taken
    BY <2>3
  <2> QED BY <2>1, <2>2, <2>3 DEF Next
<1>3. InPool => FindsLeastFree
  <2> SUFFICES ASSUME InPool
               PROVE  FindsLeastFree
    OBVIOUS
  <2> DEFINE free == firstAvailable(taken)
  <2>1. IF free.found
        THEN /\ free.offset \in Offset \ taken
             /\ \A n \in Offset \ taken : free.offset <= n
        ELSE Offset \subseteq taken
    BY FirstAvailableIsLeast
  <2>2. free.found \in BOOLEAN
    BY DEF firstAvailable
  <2> HIDE DEF free
  <2>3. taken = Offset <=> Offset \subseteq taken
    OBVIOUS
  <2>4. IF taken = Offset
        THEN ~ free.found
        ELSE /\ free.found
             /\ free.offset \in Offset \ taken
             /\ \A offset \in Offset \ taken : free.offset <= offset
    BY <2>1, <2>2, <2>3, Zenon
  <2> QED BY <2>4 DEF FindsLeastFree, free
<1>4. QED BY <1>1, <1>2, <1>3, PTL DEF Spec

================================================================================

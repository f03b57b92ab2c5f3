----------------------------- MODULE PacketRewrite -----------------------------
(***************************************************************************)
(* The eBPF programs of src/ebpf: dnat_tc and dnat_prog rewrite the        *)
(* destination of a frame, snat_prog the source of a packet, and           *)
(* rewrite_connect the address a socket connects to.                       *)
(*                                                                         *)
(* A 32-bit word is a pair of 16-bit halves, as the machine loads them, so *)
(* that the arithmetic of the Internet checksum keeps its width: the sum   *)
(* of the halves with end-around carry.                                    *)
(***************************************************************************)
EXTENDS Naturals, FiniteSets

CONSTANTS
    Half,        \* the number of values of 16 bits, 65536
    OldIP,       \* OLD_IP and NEW_IP as words in network byte order, loaded
    NewIP,       \*   by the machine
    IPAddress,   \* the addresses that occur
    MapEntries   \* max_entries of both maps, 1024

Word == [hi : 0..Half - 1, lo : 0..Half - 1]

\* On a little-endian machine OLD_IP loads as 7B7B 7B0A, NEW_IP as 7798 FB8E.
ASSUME PacketAssumption ==
    /\ Half \in Nat \ {0, 1, 2}
    /\ OldIP \in Word /\ NewIP \in Word
    /\ NewIP.hi < OldIP.hi /\ OldIP.hi - NewIP.hi < Half - 1
    /\ IPAddress \subseteq Word /\ OldIP \in IPAddress /\ NewIP \in IPAddress
    /\ MapEntries \in Nat

NoEntry == [hi |-> Half, lo |-> Half]  \* a key that is not in a map

\* The IPv4 header; rest is the sum of the fields the programs leave alone, which
\* is not zero because the version is one of them.
Header == [version : {4, 6}, ihl : {4, 5}, rest : 1..Half - 1,
           saddr : IPAddress, daddr : IPAddress, check : 0..Half - 1]

\* A packet at a hook: with or without an Ethernet header (source is the last
\* half of its h_source), long enough for the headers or not.
Frame == [ethernet : BOOLEAN, whole : BOOLEAN, proto : {"ETH_P_IP", "other"},
          source : 0..Half - 1, ip : Header]

CONSTANT Frames  \* the packets that arrive
ASSUME FramesAssumption == Frames \subseteq Frame

VARIABLES
    skb,       \* the packet in the hands of the kernel
    user_ip4,  \* the address of a connecting socket
    nat_map,   \* the map of dnat.c and of sock.c
    snat_map   \* the map of snat.c

packetVars == <<skb, user_ip4, nat_map, snat_map>>

--------------------------------------------------------------------------------
(* Checksums *)

Not(half) == Half - 1 - half

NotWord(word) == [hi |-> Not(word.hi), lo |-> Not(word.lo)]

\* Addition with end-around carry.
OnesAdd(a, b) == IF a + b < Half THEN a + b ELSE a + b - Half + 1

\* 32 bits to 16: the second folding adds at most one carry.
csum_fold(csum) == Not(OnesAdd(csum.hi, csum.lo))

Carry(x) == IF x < Half THEN 0 ELSE 1

\* Broken: the half keeps its carry.
Unwrapped(x) == x

Wrapped(x) == IF x < Half THEN x ELSE x - Half

\* Addition modulo 2^32: the carry out of the high half is gone.
csum_add(sum, val) ==
    [hi |-> Wrapped(sum.hi + val.hi + Carry(sum.lo + val.lo)),
     lo |-> Wrapped(sum.lo + val.lo)]

\* ~ip->check in 32 bits: the high half is all ones.
Complemented(check) == [hi |-> Half - 1, lo |-> Not(check)]

\* What the kernel's bpf_l3_csum_replace makes of a checksum.
l3_csum_replace(check, from, to) ==
    Not(OnesAdd(OnesAdd(Not(check), OnesAdd(Not(from.hi), Not(from.lo))),
                OnesAdd(to.hi, to.lo)))

\* A receiver adds up the header and accepts it when the sum is all ones.
HeaderSum(ip) ==
    OnesAdd(OnesAdd(ip.rest, ip.check),
            OnesAdd(OnesAdd(ip.saddr.hi, ip.saddr.lo),
                    OnesAdd(ip.daddr.hi, ip.daddr.lo)))

HeaderValid(ip) == HeaderSum(ip) = Half - 1

--------------------------------------------------------------------------------
(* The programs *)

dnat_tc(frame) ==
    IF frame.whole /\ frame.proto = "ETH_P_IP" /\ frame.ip.daddr = OldIP
    THEN LET csum == csum_add(csum_add(Complemented(frame.ip.check), NotWord(OldIP)), NewIP)
         IN  [frame EXCEPT !.ip.check = csum_fold(csum), !.ip.daddr = NewIP]
    ELSE frame

\* The offset of the checksum is counted from the IP header, but the frame
\* begins with the Ethernet header: the source address is changed instead.
dnat_prog(frame, map) ==
    IF frame.whole /\ frame.ip.version = 4 /\ map[frame.ip.daddr] # NoEntry
    THEN [frame EXCEPT
            !.ip.daddr = map[frame.ip.daddr],
            !.source = l3_csum_replace(@, frame.ip.daddr, map[frame.ip.daddr])]
    ELSE frame

\* Broken: the old and the new address change places.
SwappedSnat(frame, map) ==
    IF /\ ~ frame.ethernet /\ frame.whole
       /\ frame.ip.version = 4 /\ frame.ip.ihl = 5 /\ map[frame.ip.saddr] # NoEntry
    THEN [frame EXCEPT
            !.ip.saddr = map[frame.ip.saddr],
            !.ip.check = l3_csum_replace(@, map[frame.ip.saddr], frame.ip.saddr)]
    ELSE frame

\* The frame is read as if it began with the IP header.  Of an Ethernet frame that
\* is a hardware address, taken not to look like the header of a packet to change.
snat_prog(frame, map) ==
    IF /\ ~ frame.ethernet /\ frame.whole
       /\ frame.ip.version = 4 /\ frame.ip.ihl = 5 /\ map[frame.ip.saddr] # NoEntry
    THEN [frame EXCEPT
            !.ip.saddr = map[frame.ip.saddr],
            !.ip.check = l3_csum_replace(@, frame.ip.saddr, map[frame.ip.saddr])]
    ELSE frame

rewrite_connect(dst, map) == IF map[dst] # NoEntry THEN map[dst] ELSE dst

--------------------------------------------------------------------------------
NoEntries == [address \in IPAddress |-> NoEntry]

Entries(map) == {address \in IPAddress : map[address] # NoEntry}

PacketInit ==
    /\ skb \in Frames
    /\ user_ip4 \in IPAddress
    /\ nat_map = NoEntries
    /\ snat_map = NoEntries

\* dnat_tc and dnat_prog are attached to Ethernet interfaces (readme.txt), snat_prog
\* to any.
DnatTc == skb.ethernet /\ skb' = dnat_tc(skb) /\ UNCHANGED <<user_ip4, nat_map, snat_map>>

DnatProg ==
    skb.ethernet /\ skb' = dnat_prog(skb, nat_map) /\ UNCHANGED <<user_ip4, nat_map, snat_map>>

SnatProg ==
    skb' = snat_prog(skb, snat_map) /\ UNCHANGED <<user_ip4, nat_map, snat_map>>

Connect ==
    user_ip4' = rewrite_connect(user_ip4, nat_map) /\ UNCHANGED <<skb, nat_map, snat_map>>

\* Somebody outside the repository fills the maps of the attached programs.
Filled(map, key, value) ==
    IF key \in Entries(map) \/ Cardinality(Entries(map)) < MapEntries
    THEN [map EXCEPT ![key] = value]
    ELSE map

FillNat ==
    /\ \E key, value \in IPAddress : nat_map' = Filled(nat_map, key, value)
    /\ UNCHANGED <<skb, user_ip4, snat_map>>

FillSnat ==
    /\ \E key, value \in IPAddress : snat_map' = Filled(snat_map, key, value)
    /\ UNCHANGED <<skb, user_ip4, nat_map>>

PacketNext == DnatTc \/ DnatProg \/ SnatProg \/ Connect \/ FillNat \/ FillSnat

PacketSpec == PacketInit /\ [][PacketNext]_packetVars

--------------------------------------------------------------------------------
PacketTypeOK ==
    /\ skb \in Frame
    /\ user_ip4 \in IPAddress
    /\ nat_map \in [IPAddress -> IPAddress \cup {NoEntry}]
    /\ snat_map \in [IPAddress -> IPAddress \cup {NoEntry}]

\* A packet whose header adds up still does after snat.c gave it another source,
\* however often and with whatever entries (snat.c:35-45).
SnatKeepsChecksum == [][SnatProg /\ HeaderValid(skb.ip) => HeaderValid(skb'.ip)]_packetVars

=============================================================================

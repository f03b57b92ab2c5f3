----------------------------- MODULE AddressPool -----------------------------
(***************************************************************************)
(* The private IPv4 addresses Sleuth hands out in place of the real ones.  *)
(* Every client owns the same pool: the MaxValue + 1 addresses that start  *)
(* at FirstIP ("10.0.0.1").  An address is stored as its text in the DNS   *)
(* session and as its offset in the reverse table, so the two conversions  *)
(* and the search for a free offset (internal/firewall/FirewallManager.go) *)
(* decide which reservation a session's address stands for.                *)
(*                                                                         *)
(* The code fixes MaxValue = 65535, WordSize = 64 and FirstIP = 167772161. *)
(***************************************************************************)
EXTENDS Integers, FiniteSetsExt

CONSTANTS
    MaxValue,    \* max_value: the highest offset
    WordSize,    \* bits in one word of the bitmap firstAvailable scans
    FirstIP      \* the address of offset 0, as the integer ip4ToInt gives

ASSUME PoolAssumption ==
    /\ MaxValue \in Nat
    /\ WordSize \in Nat \ {0}
    /\ FirstIP \in Nat \ {0}
    /\ (MaxValue + 1) % WordSize = 0

Offset == 0 .. MaxValue

\* The text of an absent address is "", which ip4ToInt reads as 0.
NoIP == 0

IP4fromOffset(offset) == FirstIP + offset

Address == {IP4fromOffset(offset) : offset \in Offset}

\* The comparison is strict: the first address of the pool, and any text that
\* is not an IPv4 address, come back as MaxValue.
OffsetFromIP4(ip) == IF ip > FirstIP THEN ip - FirstIP ELSE MaxValue

-----------------------------------------------------------------------------

\* Broken: the last word of the bitmap is forgotten.
WordsButLast == 0 .. (MaxValue \div WordSize) - 1

\* seen [(max_value + 1) / 64]uint64
Words == 0 .. ((MaxValue + 1) \div WordSize) - 1
Bits == 0 .. WordSize - 1

FreeBits(seen, word) == {bit \in Bits : word * WordSize + bit \notin seen}

\* The lowest clear bit of the first word that is not full, as the pair
\* (offset, found) of the Go function.
firstAvailable(seen) ==
    LET notFull == {word \in Words : FreeBits(seen, word) # {}}
        word == Min(notFull)
    IN  IF notFull = {}
        THEN [offset |-> 0, found |-> FALSE]
        ELSE [offset |-> word * WordSize + Min(FreeBits(seen, word)),
              found |-> TRUE]

=============================================================================

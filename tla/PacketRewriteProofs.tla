-------------------------- MODULE PacketRewriteProofs --------------------------
(***************************************************************************)
(* The checksum arithmetic of the eBPF programs for every width.           *)
(***************************************************************************)
EXTENDS PacketRewrite, TLAPS

HalfWord == 0..Half - 1

LEMMA OnesAddType ==
    ASSUME NEW a \in HalfWord, NEW b \in HalfWord
    PROVE  OnesAdd(a, b) \in HalfWord
BY PacketAssumption DEF OnesAdd, HalfWord

LEMMA OnesAddCommutes ==
    ASSUME NEW a \in HalfWord, NEW b \in HalfWord
    PROVE  OnesAdd(a, b) = OnesAdd(b, a)
BY PacketAssumption DEF OnesAdd, HalfWord

LEMMA OnesAddAssociates ==
    ASSUME NEW a \in HalfWord, NEW b \in HalfWord, NEW c \in HalfWord
    PROVE  OnesAdd(OnesAdd(a, b), c) = OnesAdd(a, OnesAdd(b, c))
BY PacketAssumption DEF OnesAdd, HalfWord

\* The arithmetic of l3_csum_replace: others, old and new are sums of halves.
LEMMA ReplaceSums ==
    ASSUME NEW others \in HalfWord, NEW check \in HalfWord,
           NEW hi \in HalfWord, NEW lo \in HalfWord, NEW new \in HalfWord,
           OnesAdd(OnesAdd(others, check), OnesAdd(hi, lo)) = Half - 1,
           others # 0
    PROVE  OnesAdd(OnesAdd(others,
               Not(OnesAdd(OnesAdd(Not(check), OnesAdd(Not(hi), Not(lo))), new))), new) = Half - 1
<1> DEFINE old == OnesAdd(hi, lo)
           nold == OnesAdd(Not(hi), Not(lo))
           total == OnesAdd(Not(check), nold)
<1>1. old \in HalfWord /\ nold \in HalfWord /\ total \in HalfWord
  BY PacketAssumption DEF OnesAdd, HalfWord, Not
<1>2. \/ old + nold = Half - 1
      \/ old = Half - 1 /\ nold = Half - 1
  BY PacketAssumption DEF OnesAdd, HalfWord, Not
<1>3. \/ others + check + old = Half - 1
      \/ others + check + old = 2 * (Half - 1)
      \/ others + check + old = 3 * (Half - 1)
  <2> HIDE DEF old
  <2>1. OnesAdd(OnesAdd(others, check), old) = Half - 1
    BY DEF old
  <2> QED BY <1>1, <2>1, PacketAssumption DEF OnesAdd, HalfWord
<1> HIDE DEF old, nold
<1>4. total = others \/ (total = 0 /\ others = Half - 1) \/ (total = Half - 1 /\ others = 0)
  <2> DEFINE m == Half - 1
             over == m - check + nold
  <2>1. total = IF over < m + 1 THEN over ELSE over - m
    BY <1>1, PacketAssumption DEF OnesAdd, HalfWord, Not, total
  <2>2. /\ m \in Nat \ {0} /\ old \in 0..m /\ nold \in 0..m /\ total \in 0..m
        /\ others \in 0..m /\ check \in 0..m
    BY <1>1, PacketAssumption DEF HalfWord
  <2>3. \/ others + check + old = m
        \/ others + check + old = m + m
        \/ others + check + old = m + m + m
    BY <1>1, <1>3, PacketAssumption DEF HalfWord
  <2> HIDE DEF total, m
  <2>4. total = others \/ (total = 0 /\ others = m) \/ (total = m /\ others = 0)
    BY <1>2, <2>1, <2>2, <2>3 DEF m
  <2> QED BY <2>4 DEF m
<1> HIDE DEF total
<1>5. OnesAdd(OnesAdd(others, Not(OnesAdd(total, new))), new) = Half - 1
  BY <1>1, <1>4, PacketAssumption DEF OnesAdd, HalfWord, Not
<1> QED BY <1>5 DEF total, nold

\* The arithmetic of dnat_tc. The first addition starts from a high half of all
\* ones, the second adds a smaller address than was taken off: one of them has a
\* carry out of 32 bits, and never both.
OneShort(total) ==
    LET m == Half - 1
    IN  total = m - 1 \/ total = m + m - 1 \/ total = m + m + m - 1

LEMMA FoldSums ==
    ASSUME NEW check \in HalfWord
    PROVE  LET first  == csum_add(Complemented(check), NotWord(OldIP))
               second == csum_add(first, NewIP)
           IN  /\ second.hi \in HalfWord /\ second.lo \in HalfWord
               /\ OneShort(second.hi + second.lo + check + OldIP.hi + OldIP.lo - NewIP.hi - NewIP.lo)
<1> DEFINE first == csum_add(Complemented(check), NotWord(OldIP))
           second == csum_add(first, NewIP)
<1>1. /\ OldIP.hi \in HalfWord /\ OldIP.lo \in HalfWord
      /\ NewIP.hi \in HalfWord /\ NewIP.lo \in HalfWord
  BY PacketAssumption DEF HalfWord, Word
<1>2. /\ Complemented(check).hi = Half - 1 /\ Complemented(check).lo = Half - 1 - check
      /\ NotWord(OldIP).hi = Half - 1 - OldIP.hi /\ NotWord(OldIP).lo = Half - 1 - OldIP.lo
  BY DEF Complemented, NotWord, Not
<1>3. IF Half - 1 - check + (Half - 1 - OldIP.lo) < Half
      THEN /\ first.lo = Half - 1 - check + (Half - 1 - OldIP.lo)
           /\ first.hi = IF OldIP.hi = Half - 1 THEN Half - 1 ELSE Half - 2 - OldIP.hi
      ELSE /\ first.lo = Half - 2 - check - OldIP.lo
           /\ first.hi = Half - 1 - OldIP.hi
  <2>1. /\ first.lo = Wrapped(Half - 1 - check + (Half - 1 - OldIP.lo))
        /\ first.hi = Wrapped(Half - 1 + (Half - 1 - OldIP.hi)
                                + Carry(Half - 1 - check + (Half - 1 - OldIP.lo)))
    BY <1>2 DEF csum_add
  <2> HIDE DEF first
  <2> QED BY <1>1, <2>1, PacketAssumption DEF HalfWord, Wrapped, Carry
<1>4. /\ second.lo = Wrapped(first.lo + NewIP.lo)
      /\ second.hi = Wrapped(first.hi + NewIP.hi + Carry(first.lo + NewIP.lo))
  BY DEF csum_add
<1> HIDE DEF first, second
<1>5. second.hi \in HalfWord /\ second.lo \in HalfWord
  BY <1>1, <1>3, <1>4, PacketAssumption DEF HalfWord, Wrapped, Carry
<1> DEFINE m == Half - 1
           total == second.hi + second.lo + check + OldIP.hi + OldIP.lo - NewIP.hi - NewIP.lo
<1>6. first.hi \in HalfWord /\ first.lo \in HalfWord
  BY <1>1, <1>3, PacketAssumption DEF HalfWord
<1>7. \/ /\ first.lo = m + m - check - OldIP.lo
         /\ OldIP.hi = m /\ first.hi = m
      \/ /\ first.lo = m + m - check - OldIP.lo
         /\ first.hi = m - 1 - OldIP.hi
      \/ /\ first.lo = m - 1 - check - OldIP.lo
         /\ first.hi = m - OldIP.hi
  BY <1>1, <1>3, PacketAssumption DEF HalfWord
\* The high half of the sum is what is left of the old and the new address's.
<1>8. LET carry == Carry(first.lo + NewIP.lo)
          high  == m - OldIP.hi + NewIP.hi
      IN  \/ first.lo = m + m - check - OldIP.lo /\ second.hi = high - 1 + carry
          \/ first.lo = m - 1 - check - OldIP.lo /\ second.hi = high + carry
  <2>1. Carry(first.lo + NewIP.lo) \in {0, 1}
    BY <1>1, <1>6 DEF Carry
  <2> DEFINE carry == Carry(first.lo + NewIP.lo)
  <2>2. NewIP.hi < OldIP.hi /\ OldIP.hi - NewIP.hi < m
    BY PacketAssumption
  <2> HIDE DEF carry
  <2>3. CASE first.hi = m /\ OldIP.hi = m /\ first.lo = m + m - check - OldIP.lo
    <3>1. second.hi = NewIP.hi - 1 + carry
      BY <1>1, <1>4, <2>1, <2>2, <2>3, PacketAssumption DEF HalfWord, Wrapped, carry
    <3> QED BY <1>1, <2>3, <3>1, PacketAssumption DEF HalfWord, carry
  <2>4. CASE first.hi = m - 1 - OldIP.hi /\ first.lo = m + m - check - OldIP.lo
    <3>1. second.hi = first.hi + NewIP.hi + carry
      BY <1>1, <1>4, <2>1, <2>2, <2>4, PacketAssumption DEF HalfWord, Wrapped, carry
    <3> QED BY <1>1, <2>1, <2>4, <3>1, PacketAssumption DEF HalfWord, carry
  <2>5. CASE first.hi = m - OldIP.hi /\ first.lo = m - 1 - check - OldIP.lo
    <3>1. second.hi = first.hi + NewIP.hi + carry
      BY <1>1, <1>4, <2>1, <2>2, <2>5, PacketAssumption DEF HalfWord, Wrapped, carry
    <3> QED BY <1>1, <2>1, <2>5, <3>1, PacketAssumption DEF HalfWord, carry
  <2> QED BY <1>7, <2>3, <2>4, <2>5
<1>9. total = m - 1 \/ total = m + m - 1 \/ total = m + m + m - 1
  <2>1. \/ Carry(first.lo + NewIP.lo) = 0 /\ second.lo = first.lo + NewIP.lo
        \/ Carry(first.lo + NewIP.lo) = 1 /\ second.lo = first.lo + NewIP.lo - Half
    BY <1>1, <1>4, <1>6, PacketAssumption DEF HalfWord, Carry, Wrapped
  <2> QED BY <1>1, <1>6, <1>8, <2>1, PacketAssumption DEF HalfWord
<1>10. OneShort(total)
  BY <1>9 DEF OneShort
<1> QED BY <1>5, <1>10 DEF first, second

\* plain is sum but for a few multiples of Half - 1.
LessCarries(plain, sum) ==
    LET m == Half - 1
    IN  \/ plain = sum
        \/ plain = sum + m
        \/ plain = sum + m + m
        \/ plain = sum + m + m + m
        \/ plain = sum + m + m + m + m

LEMMA SumOfFour ==
    ASSUME NEW a \in HalfWord, NEW b \in HalfWord, NEW c \in HalfWord,
           NEW d \in HalfWord, NEW e \in HalfWord
    PROVE  /\ OnesAdd(OnesAdd(a, b), OnesAdd(c, OnesAdd(d, e))) \in HalfWord
           /\ LessCarries(a + b + c + d + e, OnesAdd(OnesAdd(a, b), OnesAdd(c, OnesAdd(d, e))))
<1> DEFINE m  == Half - 1
           ab == OnesAdd(a, b)
           de == OnesAdd(d, e)
           cde == OnesAdd(c, de)
           sum == OnesAdd(ab, cde)
<1>1. ab \in HalfWord /\ (ab = a + b \/ ab + m = a + b)
  BY PacketAssumption DEF OnesAdd, HalfWord
<1>2. de \in HalfWord /\ (de = d + e \/ de + m = d + e)
  BY PacketAssumption DEF OnesAdd, HalfWord
<1> HIDE DEF ab, de
<1>3. cde \in HalfWord /\ (cde = c + de \/ cde + m = c + de)
  BY <1>2, PacketAssumption DEF OnesAdd, HalfWord
<1> HIDE DEF cde
<1>4. sum \in HalfWord /\ (sum = ab + cde \/ sum + m = ab + cde)
  BY <1>1, <1>3, PacketAssumption DEF OnesAdd, HalfWord
<1> HIDE DEF sum
<1>5. LessCarries(a + b + c + d + e, sum)
  BY <1>1, <1>2, <1>3, <1>4, PacketAssumption DEF HalfWord, LessCarries
<1> QED BY <1>4, <1>5 DEF sum, ab, cde, de

LEMMA HeaderHalves ==
    ASSUME NEW ip \in Header
    PROVE  /\ ip.check \in HalfWord /\ ip.rest \in HalfWord /\ ip.rest # 0
           /\ ip.saddr.hi \in HalfWord /\ ip.saddr.lo \in HalfWord
           /\ ip.daddr.hi \in HalfWord /\ ip.daddr.lo \in HalfWord
BY PacketAssumption DEF Header, Word, HalfWord

\* What dnat_tc makes of a valid header: one more than all ones.
LEMMA OffByOne ==
    ASSUME NEW ip \in Header, NEW csum \in Word, ip.daddr = OldIP, HeaderValid(ip),
           OneShort(csum.hi + csum.lo + ip.check + OldIP.hi + OldIP.lo - NewIP.hi - NewIP.lo)
    PROVE  HeaderSum([ip EXCEPT !.check = csum_fold(csum), !.daddr = NewIP]) = 1
<1> DEFINE m == Half - 1
           rest == ip.rest
           check == ip.check
           source == OnesAdd(ip.saddr.hi, ip.saddr.lo)
           oh == OldIP.hi
           ol == OldIP.lo
           nh == NewIP.hi
           nl == NewIP.lo
           hi == csum.hi
           lo == csum.lo
           folded == Not(OnesAdd(hi, lo))
           sum == OnesAdd(OnesAdd(rest, folded), OnesAdd(source, OnesAdd(nh, nl)))
           before == rest + check + source + oh + ol
           after == rest + folded + source + nh + nl
<1>1. /\ rest \in HalfWord /\ check \in HalfWord /\ source \in HalfWord
      /\ oh \in HalfWord /\ ol \in HalfWord /\ nh \in HalfWord /\ nl \in HalfWord
      /\ hi \in HalfWord /\ lo \in HalfWord /\ rest # 0
  BY HeaderHalves, OnesAddType, PacketAssumption DEF Word, HalfWord
<1>2. OnesAdd(OnesAdd(rest, check), OnesAdd(source, OnesAdd(oh, ol))) = Half - 1
  BY DEF HeaderValid, HeaderSum
<1>3. OneShort(hi + lo + check + oh + ol - nh - nl)
  OBVIOUS
<1>4. HeaderSum([ip EXCEPT !.check = csum_fold(csum), !.daddr = NewIP]) = sum
  <2> DEFINE new == [ip EXCEPT !.check = csum_fold(csum), !.daddr = NewIP]
  <2>1. /\ new.rest = rest /\ new.check = folded
        /\ new.saddr = ip.saddr /\ new.daddr = NewIP
    BY DEF Header, csum_fold
  <2> HIDE DEF new
  <2>2. HeaderSum(new) = sum
    BY <2>1 DEF HeaderSum
  <2> QED BY <2>2 DEF new
<1> HIDE DEF rest, check, source, oh, ol, nh, nl, hi, lo
<1>5. folded \in HalfWord /\ (folded = m - hi - lo \/ folded = m + m - hi - lo)
  BY <1>1, PacketAssumption DEF OnesAdd, Not, HalfWord
<1> HIDE DEF folded
<1>6. \/ before = m
      \/ before = m + m
      \/ before = m + m + m
      \/ before = m + m + m + m
      \/ before = m + m + m + m + m
  <2>1. LessCarries(before, m)
    BY <1>1, <1>2, SumOfFour
  <2> QED BY <1>1, <2>1, PacketAssumption DEF LessCarries, HalfWord
<1>7. sum \in HalfWord /\ LessCarries(after, sum)
  BY <1>1, <1>5, SumOfFour
<1> HIDE DEF sum
<1>8. \/ after = before + 1
      \/ after = before + 1 - m
      \/ after = before + 1 - m - m
      \/ after = before + 1 + m
  BY <1>1, <1>3, <1>5, PacketAssumption DEF HalfWord, OneShort
<1> HIDE DEF before, after
<1>9. sum = 1
  BY <1>1, <1>6, <1>7, <1>8, PacketAssumption DEF HalfWord, LessCarries
<1> QED BY <1>4, <1>9

\* nat.c promises an incremental update of the checksum (nat.c:57). Whatever the
\* packet, the header it leaves adds up to one instead of all ones: every packet
\* dnat_tc redirects is one that receivers drop.
THEOREM RedirectedHeaderIsOff ==
    ASSUME NEW frame \in Frame, frame.whole, frame.proto = "ETH_P_IP",
           frame.ip.daddr = OldIP, HeaderValid(frame.ip)
    PROVE  HeaderSum(dnat_tc(frame).ip) = 1 /\ ~ HeaderValid(dnat_tc(frame).ip)
<1> DEFINE csum == csum_add(csum_add(Complemented(frame.ip.check), NotWord(OldIP)), NewIP)
<1>1. frame.ip \in Header
  BY DEF Frame
<1>2. /\ csum.hi \in HalfWord /\ csum.lo \in HalfWord
      /\ OneShort(csum.hi + csum.lo + frame.ip.check + OldIP.hi + OldIP.lo - NewIP.hi - NewIP.lo)
  BY <1>1, HeaderHalves, FoldSums
<1>3. csum = [hi |-> csum.hi, lo |-> csum.lo]
  BY DEF csum_add
<1>4. dnat_tc(frame) = [frame EXCEPT !.ip.check = csum_fold(csum), !.ip.daddr = NewIP]
  BY DEF dnat_tc
<1>5. dnat_tc(frame).ip = [frame.ip EXCEPT !.check = csum_fold(csum), !.daddr = NewIP]
  BY <1>4 DEF Frame
<1> HIDE DEF csum
<1>6. csum \in Word
  BY <1>2, <1>3 DEF Word, HalfWord
<1>7. HeaderSum(dnat_tc(frame).ip) = 1
  BY <1>1, <1>2, <1>5, <1>6, OffByOne
<1> QED BY <1>7, PacketAssumption DEF HeaderValid

--------------------------------------------------------------------------------
LEMMA Rearranged ==
    ASSUME NEW a \in HalfWord, NEW b \in HalfWord, NEW c \in HalfWord, NEW d \in HalfWord
    PROVE  OnesAdd(OnesAdd(a, b), OnesAdd(c, d)) = OnesAdd(OnesAdd(OnesAdd(a, d), b), c)
<1>1. OnesAdd(a, b) \in HalfWord /\ OnesAdd(a, d) \in HalfWord /\ OnesAdd(c, d) \in HalfWord
  BY OnesAddType
<1>2. OnesAdd(OnesAdd(a, b), OnesAdd(d, c)) = OnesAdd(OnesAdd(OnesAdd(a, b), d), c)
  BY <1>1, OnesAddAssociates
<1>3. OnesAdd(OnesAdd(a, b), d) = OnesAdd(OnesAdd(a, d), b)
  <2>1. OnesAdd(b, d) = OnesAdd(d, b)
    BY OnesAddCommutes
  <2> QED BY <2>1, OnesAddAssociates
<1>4. OnesAdd(c, d) = OnesAdd(d, c)
  BY OnesAddCommutes
<1> QED BY <1>2, <1>3, <1>4

LEMMA ReplaceType ==
    ASSUME NEW check \in HalfWord, NEW from \in IPAddress, NEW to \in IPAddress
    PROVE  l3_csum_replace(check, from, to) \in HalfWord
<1>1. from.hi \in HalfWord /\ from.lo \in HalfWord /\ to.hi \in HalfWord /\ to.lo \in HalfWord
  BY PacketAssumption DEF Word, HalfWord
<1>2. ASSUME NEW half \in HalfWord PROVE Not(half) \in HalfWord
  BY <1>2, PacketAssumption DEF Not, HalfWord
<1> QED BY <1>1, <1>2, OnesAddType DEF l3_csum_replace

\* A header keeps adding up when l3_csum_replace follows a change of its source.
LEMMA ReplacedSource ==
    ASSUME NEW ip \in Header, NEW new \in IPAddress, HeaderValid(ip)
    PROVE  HeaderValid([ip EXCEPT !.saddr = new, !.check = l3_csum_replace(@, ip.saddr, new)])
<1> DEFINE check == l3_csum_replace(ip.check, ip.saddr, new)
           after == [ip EXCEPT !.saddr = new, !.check = check]
           rest == ip.rest
           hi == ip.saddr.hi
           lo == ip.saddr.lo
           to == OnesAdd(new.hi, new.lo)
           daddr == OnesAdd(ip.daddr.hi, ip.daddr.lo)
           others == OnesAdd(rest, daddr)
<1>1. /\ rest \in HalfWord /\ ip.check \in HalfWord /\ hi \in HalfWord /\ lo \in HalfWord
      /\ daddr \in HalfWord /\ rest # 0
  BY HeaderHalves, OnesAddType
<1>2. new.hi \in HalfWord /\ new.lo \in HalfWord
  BY PacketAssumption DEF Word, HalfWord
<1>3. to \in HalfWord
  BY <1>2, OnesAddType
<1>4. others \in HalfWord /\ others # 0
  <2> HIDE DEF rest, daddr
  <2> QED BY <1>1, PacketAssumption DEF OnesAdd, HalfWord
<1>5. OnesAdd(OnesAdd(rest, ip.check), OnesAdd(OnesAdd(hi, lo), daddr)) = Half - 1
  BY DEF HeaderValid, HeaderSum
<1>6. check = Not(OnesAdd(OnesAdd(Not(ip.check), OnesAdd(Not(hi), Not(lo))), to))
  BY DEF l3_csum_replace
<1>7. HeaderSum(after) = OnesAdd(OnesAdd(rest, check), OnesAdd(to, daddr))
  <2>1. /\ after.rest = rest /\ after.check = check
        /\ after.saddr = new /\ after.daddr = ip.daddr
    BY DEF Header
  <2> HIDE DEF after
  <2> QED BY <2>1 DEF HeaderSum
<1> DEFINE before == ip.check
<1>8. before \in HalfWord
  BY <1>1
<1>9. /\ OnesAdd(OnesAdd(rest, before), OnesAdd(OnesAdd(hi, lo), daddr)) = Half - 1
      /\ check = Not(OnesAdd(OnesAdd(Not(before), OnesAdd(Not(hi), Not(lo))), to))
  BY <1>5, <1>6
<1> HIDE DEF check, after, rest, hi, lo, to, daddr, before
<1>10. check \in HalfWord
  <2>1. Not(before) \in HalfWord /\ Not(hi) \in HalfWord /\ Not(lo) \in HalfWord
    BY <1>1, <1>8, PacketAssumption DEF Not, HalfWord
  <2>2. OnesAdd(OnesAdd(Not(before), OnesAdd(Not(hi), Not(lo))), to) \in HalfWord
    BY <1>3, <2>1, OnesAddType
  <2> QED BY <1>9, <2>2, PacketAssumption DEF Not, HalfWord
<1>11. OnesAdd(hi, lo) \in HalfWord
  BY <1>1, OnesAddType
<1>12. OnesAdd(OnesAdd(others, before), OnesAdd(hi, lo)) = Half - 1
  BY <1>1, <1>8, <1>9, <1>11, Rearranged
<1>13. OnesAdd(OnesAdd(others, check), to) = Half - 1
  <2> HIDE DEF others
  <2> QED BY <1>1, <1>3, <1>4, <1>8, <1>9, <1>12, ReplaceSums
<1>14. HeaderSum(after) = Half - 1
  BY <1>1, <1>3, <1>7, <1>10, <1>13, Rearranged
<1> QED BY <1>14 DEF HeaderValid, after, check

LEMMA RedirectedType ==
    ASSUME NEW frame \in Frame, NEW daddr \in IPAddress, NEW check \in HalfWord
    PROVE  [frame EXCEPT !.ip.check = check, !.ip.daddr = daddr] \in Frame
<1> DEFINE ip == [frame.ip EXCEPT !.check = check, !.daddr = daddr]
<1>1. frame.ip \in Header
  BY DEF Frame
<1>2. ip \in Header
  BY <1>1 DEF Header, HalfWord
<1>3. [frame EXCEPT !.ip.check = check, !.ip.daddr = daddr] = [frame EXCEPT !.ip = ip]
  BY DEF Frame
<1> HIDE DEF ip
<1>4. [frame EXCEPT !.ip = ip] \in Frame
  BY <1>2 DEF Frame, HalfWord
<1> QED BY <1>3, <1>4

LEMMA TranslatedType ==
    ASSUME NEW frame \in Frame, NEW daddr \in IPAddress, NEW source \in HalfWord
    PROVE  [frame EXCEPT !.ip.daddr = daddr, !.source = source] \in Frame
<1> DEFINE ip == [frame.ip EXCEPT !.daddr = daddr]
<1>1. frame.ip \in Header
  BY DEF Frame
<1>2. ip \in Header
  BY <1>1 DEF Header, HalfWord
<1>3. [frame EXCEPT !.ip.daddr = daddr, !.source = source] = [frame EXCEPT !.ip = ip, !.source = source]
  BY DEF Frame
<1> HIDE DEF ip
<1>4. [frame EXCEPT !.ip = ip, !.source = source] \in Frame
  BY <1>2 DEF Frame, HalfWord
<1> QED BY <1>3, <1>4

LEMMA ResourcedType ==
    ASSUME NEW frame \in Frame, NEW saddr \in IPAddress, NEW check \in HalfWord
    PROVE  [frame EXCEPT !.ip.saddr = saddr, !.ip.check = check] \in Frame
<1> DEFINE ip == [frame.ip EXCEPT !.saddr = saddr, !.check = check]
<1>1. frame.ip \in Header
  BY DEF Frame
<1>2. ip \in Header
  BY <1>1 DEF Header, HalfWord
<1>3. [frame EXCEPT !.ip.saddr = saddr, !.ip.check = check] = [frame EXCEPT !.ip = ip]
  BY DEF Frame
<1> HIDE DEF ip
<1>4. [frame EXCEPT !.ip = ip] \in Frame
  BY <1>2 DEF Frame, HalfWord
<1> QED BY <1>3, <1>4

\* The packet, the connecting socket and the maps keep their types.
THEOREM PacketTypes == PacketSpec => []PacketTypeOK
<1>1. PacketInit => PacketTypeOK
  BY PacketAssumption, FramesAssumption DEF PacketInit, PacketTypeOK, NoEntries
<1>2. PacketTypeOK /\ [PacketNext]_packetVars => PacketTypeOK'
  <2> SUFFICES ASSUME PacketTypeOK, [PacketNext]_packetVars
               PROVE  PacketTypeOK'
    OBVIOUS
  <2> USE DEF PacketTypeOK
  <2>1. CASE DnatTc
    <3>1. ASSUME NEW half \in HalfWord PROVE Not(half) \in HalfWord
      BY <3>1, PacketAssumption DEF Not, HalfWord
    <3>2. ASSUME NEW check \in HalfWord
          PROVE  csum_fold(csum_add(csum_add(Complemented(check), NotWord(OldIP)), NewIP)) \in HalfWord
      <4> DEFINE csum == csum_add(csum_add(Complemented(check), NotWord(OldIP)), NewIP)
      <4>1. csum.hi \in HalfWord /\ csum.lo \in HalfWord
        BY <3>2, FoldSums
      <4> HIDE DEF csum
      <4>2. csum_fold(csum) \in HalfWord
        BY <3>1, <4>1, OnesAddType DEF csum_fold
      <4> QED BY <4>2 DEF csum
    <3>3. skb.ip \in Header /\ skb.ip.check \in HalfWord
      BY HeaderHalves DEF Frame
    <3> DEFINE check == csum_fold(csum_add(csum_add(Complemented(skb.ip.check), NotWord(OldIP)), NewIP))
    <3>4. check \in HalfWord
      BY <3>2, <3>3
    <3>5. skb' = skb \/ skb' = [skb EXCEPT !.ip.check = check, !.ip.daddr = NewIP]
      BY <2>1 DEF DnatTc, dnat_tc
    <3> HIDE DEF check
    <3>6. skb' \in Frame
      <4>1. [skb EXCEPT !.ip.check = check, !.ip.daddr = NewIP] \in Frame
        BY <3>4, RedirectedType, PacketAssumption, Zenon
      <4> QED BY <3>5, <4>1, Zenon
    <3> QED BY <2>1, <3>6 DEF DnatTc
  <2>2. CASE DnatProg
    <3>1. nat_map[skb.ip.daddr] # NoEntry => nat_map[skb.ip.daddr] \in IPAddress
      BY DEF Frame, Header
    <3> DEFINE source == l3_csum_replace(skb.source, skb.ip.daddr, nat_map[skb.ip.daddr])
    <3>2. nat_map[skb.ip.daddr] # NoEntry => source \in HalfWord
      BY <3>1, ReplaceType DEF Frame, Header, HalfWord
    <3>3. \/ skb' = skb
          \/ /\ nat_map[skb.ip.daddr] # NoEntry
             /\ skb' = [skb EXCEPT !.ip.daddr = nat_map[skb.ip.daddr], !.source = source]
      BY <2>2 DEF DnatProg, dnat_prog
    <3> HIDE DEF source
    <3>4. skb' \in Frame
      <4> DEFINE daddr == nat_map[skb.ip.daddr]
      <4>1. CASE daddr # NoEntry
        <5>1. [skb EXCEPT !.ip.daddr = daddr, !.source = source] \in Frame
          BY <3>1, <3>2, <4>1, TranslatedType, Zenon
        <5> QED BY <3>3, <5>1, Zenon
      <4> QED BY <3>3, <4>1, Zenon
    <3> QED BY <2>2, <3>4 DEF DnatProg
  <2>3. CASE SnatProg
    <3>1. snat_map[skb.ip.saddr] # NoEntry => snat_map[skb.ip.saddr] \in IPAddress
      BY DEF Frame, Header
    <3> DEFINE check == l3_csum_replace(skb.ip.check, skb.ip.saddr, snat_map[skb.ip.saddr])
    <3>2. snat_map[skb.ip.saddr] # NoEntry => check \in HalfWord
      BY <3>1, ReplaceType DEF Frame, Header, HalfWord
    <3>3. \/ skb' = skb
          \/ /\ snat_map[skb.ip.saddr] # NoEntry
             /\ skb' = [skb EXCEPT !.ip.saddr = snat_map[skb.ip.saddr], !.ip.check = check]
      BY <2>3 DEF SnatProg, snat_prog
    <3> HIDE DEF check
    <3>4. skb' \in Frame
      <4> DEFINE saddr == snat_map[skb.ip.saddr]
      <4>1. CASE saddr # NoEntry
        <5>1. [skb EXCEPT !.ip.saddr = saddr, !.ip.check = check] \in Frame
          BY <3>1, <3>2, <4>1, ResourcedType, Zenon
        <5> QED BY <3>3, <5>1, Zenon
      <4> QED BY <3>3, <4>1, Zenon
    <3> QED BY <2>3, <3>4 DEF SnatProg
  <2>4. CASE Connect
    BY <2>4 DEF Connect, rewrite_connect
  <2>5. CASE FillNat
    BY <2>5 DEF FillNat, Filled
  <2>6. CASE FillSnat
    BY <2>6 DEF FillSnat, Filled
  <2>7. CASE UNCHANGED packetVars
    BY <2>7 DEF packetVars
  <2> QED BY <2>1, <2>2, <2>3, <2>4, <2>5, <2>6, <2>7 DEF PacketNext
<1> QED BY <1>1, <1>2, PTL DEF PacketSpec

\* snat.c keeps the checksum of every packet it rewrites, at the width of the
\* machine and with whatever entries its map has (snat.c:35-45).
THEOREM SourceRewritesKeepChecksum == PacketSpec => SnatKeepsChecksum
<1>1. PacketTypeOK /\ [PacketNext]_packetVars
        => [SnatProg /\ HeaderValid(skb.ip) => HeaderValid(skb'.ip)]_packetVars
  <2> SUFFICES ASSUME PacketTypeOK, SnatProg, HeaderValid(skb.ip)
               PROVE  HeaderValid(skb'.ip)
    OBVIOUS
  <2> DEFINE new == snat_map[skb.ip.saddr]
             check == l3_csum_replace(skb.ip.check, skb.ip.saddr, new)
  <2>1. skb \in Frame /\ skb.ip \in Header
    BY DEF PacketTypeOK, Frame
  <2>2. \/ skb' = skb
        \/ /\ new # NoEntry
           /\ skb' = [skb EXCEPT !.ip.saddr = new, !.ip.check = check]
    BY DEF SnatProg, snat_prog
  <2>3. new # NoEntry => new \in IPAddress
    BY <2>1 DEF PacketTypeOK, Header
  <2>4. CASE skb' = skb
    BY <2>4
  <2>5. CASE new # NoEntry /\ skb' = [skb EXCEPT !.ip.saddr = new, !.ip.check = check]
    <3> HIDE DEF new, check
    <3>1. skb'.ip = [skb.ip EXCEPT !.saddr = new, !.check = check]
      BY <2>1, <2>5 DEF Frame, Header
    <3>2. HeaderValid([skb.ip EXCEPT !.saddr = new, !.check = l3_csum_replace(@, skb.ip.saddr, new)])
      BY <2>1, <2>3, <2>5, ReplacedSource
    <3>3. [skb.ip EXCEPT !.saddr = new, !.check = l3_csum_replace(@, skb.ip.saddr, new)]
            = [skb.ip EXCEPT !.saddr = new, !.check = check]
      BY <2>1 DEF check, Header
    <3> QED BY <3>1, <3>2, <3>3
  <2> QED BY <2>2, <2>4, <2>5
<1> QED BY <1>1, PacketTypes, PTL DEF PacketSpec, SnatKeepsChecksum

================================================================================

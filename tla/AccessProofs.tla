----------------------------- MODULE AccessProofs ------------------------------
(***************************************************************************)
(* Who may resolve which names when, for any schedules, lists and names,   *)
(* and what a rebuild makes of the index of the names on the lists, for any *)
(* lists and any number of rebuilds.                                       *)
(***************************************************************************)
EXTENDS DomainAccess, RuleIndex, TLAPS, SequenceTheorems, WellFoundedInduction

--------------------------------------------------------------------------------
(* The schedule *)

Minutes == 0..1439

Previous(weekday) == IF weekday = 0 THEN 6 ELSE weekday - 1

LEMMA PreviousDay ==
    ASSUME NEW weekday \in 0..6
    PROVE  (weekday + 6) % 7 = Previous(weekday)
BY SMT DEF Previous

\* A window that ends on the day it begins.
LEMMA DayCovers ==
    ASSUME NEW day \in 0..6, NEW from \in Minutes, NEW to \in Minutes,
           NEW weekday \in 0..6, NEW minute \in Minutes, from <= to
    PROVE  Covers(day, from, to, weekday, minute)
             <=> day = weekday /\ from <= minute /\ minute <= to
BY SMT DEF Covers, DayLength, Minutes

\* A window over midnight.
LEMMA NightCovers ==
    ASSUME NEW day \in 0..6, NEW from \in Minutes, NEW to \in Minutes,
           NEW weekday \in 0..6, NEW minute \in Minutes, to < from
    PROVE  Covers(day, from, to, weekday, minute)
             <=> \/ day = weekday /\ from <= minute
                 \/ day = Previous(weekday) /\ minute <= to
BY SMT DEF Covers, DayLength, Minutes, Previous

\* An entry is active exactly in the minutes of the week from one of its days' from to
\* the to that follows, on Saturday nights that end on Sunday too (security.go:296-325).
THEOREM ScheduleIsItsWindow ==
    ASSUME NEW entry \in ScheduleEntry, NEW weekday \in Weekday, NEW minute \in 0..DayLength - 1
    PROVE  IsScheduleActive(entry, weekday, minute) <=> InWindow(entry, weekday, minute)
<1> DEFINE days == entry.days
           from == entry.from
           to   == entry.to
<1>1. /\ days \subseteq 0..6
      /\ from \in Minutes /\ to \in Minutes
      /\ weekday \in 0..6 /\ minute \in Minutes
  <2>1. 0..DayLength - 1 = Minutes
    BY SMT DEF Minutes, DayLength
  <2>2. /\ days \in SUBSET Weekday
        /\ from \in 0..DayLength - 1 /\ to \in 0..DayLength - 1
    BY SMT DEF ScheduleEntry
  <2>3. QED BY <2>1, <2>2, Zenon DEF Weekday
<1>2. IsScheduleActive(entry, weekday, minute)
        <=> IF from <= to
            THEN weekday \in days /\ from <= minute /\ minute <= to
            ELSE \/ minute >= from /\ weekday \in days
                 \/ minute < from /\ minute <= to /\ Previous(weekday) \in days
  BY <1>1, PreviousDay, Zenon DEF IsScheduleActive
<1>3. InWindow(entry, weekday, minute)
        <=> \E day \in days : Covers(day, from, to, weekday, minute)
  BY Zenon DEF InWindow
<1> HIDE DEF days, from, to
<1>4. CASE from <= to
  <2>1. \A day \in days : Covers(day, from, to, weekday, minute)
                            <=> day = weekday /\ from <= minute /\ minute <= to
    BY <1>1, <1>4, DayCovers, Zenon
  <2>2. QED BY <1>2, <1>3, <1>4, <2>1, Zenon
<1>5. CASE ~ (from <= to)
  <2>1. to < from
    BY <1>1, <1>5, SMT DEF Minutes
  <2>2. \A day \in days : Covers(day, from, to, weekday, minute)
                            <=> \/ day = weekday /\ from <= minute
                                \/ day = Previous(weekday) /\ minute <= to
    BY <1>1, <2>1, NightCovers, Zenon
  <2>3. /\ minute >= from <=> from <= minute
        /\ minute <= to => minute < from
    BY <1>1, <2>1, SMT DEF Minutes
  <2>4. QED BY <1>2, <1>3, <1>5, <2>2, <2>3, Zenon
<1>6. QED BY <1>4, <1>5

--------------------------------------------------------------------------------
(* Names *)

\* The least of a set of numbers is in it.
LEMMA FirstIsLeast ==
    ASSUME NEW numbers \in SUBSET Nat, numbers # {}
    PROVE  First(numbers) \in numbers /\ \A n \in numbers : First(numbers) <= n
<1> DEFINE less == {pair \in Nat \X Nat : pair[1] < pair[2]}
<1>1. IsWellFoundedOn(less, Nat)
  BY NatLessThanWellFounded DEF OpToRel
<1>2. PICK m \in numbers : \A n \in numbers : <<n, m>> \notin less
  <2> HIDE DEF less
  <2>1. QED BY <1>1, WFMin
<1>3. ASSUME NEW n \in numbers PROVE m <= n
  <2>1. <<n, m>> \in Nat \X Nat /\ <<n, m>> \notin less
    BY <1>2
  <2>2. ~ (n < m)
    BY <2>1
  <2>3. QED BY <2>2
<1>4. QED BY <1>3 DEF First

\* Strings, and three of which the provers need not know that they are.
Symbol == STRING \cup {"a", "b", Dot}

Name == Seq(Symbol)

LEMMA StringsAreNames == Seq(STRING) \subseteq Name
<1>1. STRING \subseteq Symbol
  BY Zenon DEF Symbol
<1>2. QED BY <1>1, SeqMonotonic, Zenon DEF Name

LEMMA TrimRightIsName ==
    ASSUME NEW name \in Name PROVE TrimRight(name) \in Name
<1> DEFINE kept == {n \in 0..Len(name) : \A i \in n + 1..Len(name) : name[i] = Dot}
           k == CHOOSE n \in kept : \A m \in kept : n <= m
<1>1. Len(name) \in Nat /\ \A i \in 1..Len(name) : name[i] \in Symbol
  BY LenProperties, ElementOfSeq, Zenon DEF Name
<1>2. Len(name) \in kept /\ kept \in SUBSET Nat
  BY <1>1, SMT
<1>3. kept # {}
  BY <1>2
<1>4. k = First(kept)
  BY DEF First
<1>5. TrimRight(name) = SubSeq(name, 1, k)
  BY DEF TrimRight
<1>6. k \in 0..Len(name)
  <2> HIDE DEF kept, k
  <2>1. k \in kept
    BY <1>2, <1>3, <1>4, FirstIsLeast, Zenon
  <2>2. QED BY <2>1 DEF kept
<1> HIDE DEF kept, k
<1>7. k \in Int /\ 1 \in Int /\ \A i \in 1..k : name[i] \in Symbol
  BY <1>1, <1>6, SMT
<1>8. QED BY <1>5, <1>7, SubSeqProperties, Zenon DEF Name

LEMMA ToLowerIsName ==
    ASSUME NEW name \in Name PROVE ToLower(name) \in Name
<1>1. Len(name) \in Nat /\ DOMAIN name = 1..Len(name) /\ \A i \in 1..Len(name) : name[i] \in Symbol
  BY LenProperties, ElementOfSeq, Zenon DEF Name
<1> DEFINE lower(i) == CASE name[i] = "A" -> "a" [] name[i] = "B" -> "b" [] OTHER -> name[i]
<1>2. "a" \in Symbol /\ "b" \in Symbol
  BY Zenon DEF Symbol
<1>3. \A i \in 1..Len(name) : lower(i) \in Symbol
  BY <1>1, <1>2, SMT
<1>4. ToLower(name) = [i \in 1..Len(name) |-> lower(i)]
  BY <1>1, Zenon DEF ToLower
<1> HIDE DEF lower
<1>5. ToLower(name) \in [1..Len(name) -> Symbol]
  BY <1>3, <1>4, Zenon
<1>6. QED BY <1>1, <1>5, SMT DEF Name

\* What name[n:] is, and how much of it there is.
LEMMA FromProperties ==
    ASSUME NEW name \in Name, NEW n \in 0..Len(name)
    PROVE  /\ Len(name) \in Nat /\ From(name, n) \in Name /\ Len(From(name, n)) = Len(name) - n
           /\ \A i \in 1..Len(name) - n : From(name, n)[i] = name[n + i]
<1>1. Len(name) \in Nat /\ \A i \in 1..Len(name) : name[i] \in Symbol
  BY LenProperties, ElementOfSeq, Zenon DEF Name
<1>2. From(name, n) \in Seq(Symbol)
  BY SMT DEF From, Name
<1>3. Len(From(name, n)) = Len(name) - n
  BY SMT DEF From, Name
<1>4. \A i \in 1..Len(name) - n : From(name, n)[i] = name[n + i]
  BY SMT DEF From, Name
<1>5. QED BY <1>1, <1>2, <1>3, <1>4 DEF Name

LEMMA FromStart == ASSUME NEW name \in Name PROVE From(name, 0) = name
<1>1. 0 + 1 = 1
  OBVIOUS
<1>2. QED BY <1>1, SubSeqFull, Zenon DEF From, Name

\* A rest that begins with a dot.
LEMMA DotAndRest ==
    ASSUME NEW name \in Name, NEW n \in 1..Len(name), NEW domain \in Name
    PROVE  From(name, n - 1) = <<Dot>> \o domain <=> name[n] = Dot /\ From(name, n) = domain
<1>1. n - 1 \in 0..Len(name) /\ n \in 0..Len(name) /\ n - 1 + 1 = n /\ n \in n..Len(name) + 0 /\ Len(name) \in n..Len(name)
  BY LenProperties, SMT DEF Name
<1>2. From(name, n) \in Name
  BY <1>1, FromProperties, Zenon
<1>3. From(name, n - 1) = <<name[n]>> \o From(name, n)
  BY <1>1, SubSeqRecursiveFirst, Zenon DEF From, Name
<1>4. name[n] \in Symbol /\ Dot \in Symbol
  <2>1. name[n] \in Symbol
    BY ElementOfSeq, Zenon DEF Name
  <2>2. Dot \in Symbol
    BY Zenon DEF Symbol
  <2>3. QED BY <2>1, <2>2
<1>5. name[n] = Dot /\ From(name, n) = domain => From(name, n - 1) = <<Dot>> \o domain
  BY <1>3
<1>6. ASSUME From(name, n - 1) = <<Dot>> \o domain PROVE name[n] = Dot /\ From(name, n) = domain
  <2> DEFINE rest == From(name, n)
  <2>1. <<name[n]>> \o rest = <<Dot>> \o domain /\ rest \in Name
    BY <1>2, <1>3, <1>6
  <2> HIDE DEF rest
  <2>2. name[n] = Dot
    BY <1>4, <2>1, SMT DEF Name
  <2>3. Len(rest) = Len(domain) /\ \A i \in 1..Len(rest) : rest[i] = domain[i]
    <3> DEFINE a == name[n]
               both == <<a>> \o rest
    <3>1. both = <<a>> \o domain /\ a \in Symbol
      BY <1>4, <2>1, <2>2
    <3> HIDE DEF a
    <3>2. Len(both) = 1 + Len(rest) /\ \A i \in 1..Len(rest) : both[i + 1] = rest[i]
      BY <2>1, <3>1, SMT DEF Name
    <3> HIDE DEF both
    <3>3. Len(both) = 1 + Len(domain) /\ \A i \in 1..Len(domain) : both[i + 1] = domain[i]
      BY <2>1, <3>1, SMT DEF Name
    <3>4. Len(rest) \in Nat /\ Len(domain) \in Nat
      BY <2>1, LenProperties, Zenon DEF Name
    <3>5. Len(rest) = Len(domain)
      BY <3>2, <3>3, <3>4, SMT
    <3>6. QED BY <3>2, <3>3, <3>5, Zenon
  <2>4. rest = domain
    BY <2>1, <2>3, SeqEqual, Zenon DEF Name
  <2>5. QED BY <2>2, <2>4 DEF rest
<1>7. QED BY <1>5, <1>6

\* A blocked domain is found at the name and above it, and nowhere else: not where the
\* name just ends like the domain.
LEMMA BlockedIsBelow ==
    ASSUME NEW name \in Name, NEW domain \in Name
    PROVE  IsBlocked(name, domain) <=> Below(name, domain)
<1>1. Len(name) \in Nat /\ Len(domain) \in Nat
  BY LenProperties, Zenon DEF Name
<1>2. ASSUME IsBlocked(name, domain) PROVE Below(name, domain)
  <2>1. CASE name = domain
    <3>1. 0 \in 0..Len(name)
      BY <1>1, SMT
    <3>2. QED BY <2>1, <3>1, FromStart, Zenon DEF Below
  <2>2. CASE /\ Len(name) > Len(domain)
             /\ From(name, Len(name) - Len(domain) - 1) = <<Dot>> \o domain
    <3> DEFINE n == Len(name) - Len(domain)
    <3>1. n \in 1..Len(name) /\ n \in 0..Len(name)
      BY <1>1, <2>2, SMT
    <3>2. From(name, n - 1) = <<Dot>> \o domain
      BY <2>2
    <3> HIDE DEF n
    <3>3. name[n] = Dot /\ From(name, n) = domain
      BY <3>1, <3>2, DotAndRest, Zenon
    <3>4. QED BY <3>1, <3>3, Zenon DEF Below
  <2>3. QED BY <1>2, <2>1, <2>2, Zenon DEF IsBlocked
<1>3. ASSUME Below(name, domain) PROVE IsBlocked(name, domain)
  <2>1. PICK n \in 0..Len(name) : (n = 0 \/ name[n] = Dot) /\ From(name, n) = domain
    BY <1>3, Zenon DEF Below
  <2>2. CASE n = 0
    BY <2>1, <2>2, FromStart, Zenon DEF IsBlocked
  <2>3. CASE n # 0
    <3>1. n \in 1..Len(name)
      BY <1>1, <2>3, SMT
    <3>2. From(name, n - 1) = <<Dot>> \o domain
      BY <2>1, <2>3, <3>1, DotAndRest, Zenon
    <3>3. Len(domain) = Len(name) - n
      BY <2>1, FromProperties, Zenon
    <3>4. Len(name) > Len(domain) /\ Len(name) - Len(domain) - 1 = n - 1
      BY <1>1, <3>1, <3>3, SMT
    <3>5. QED BY <3>2, <3>4, Zenon DEF IsBlocked
  <2>4. QED BY <2>2, <2>3
<1>4. QED BY <1>2, <1>3

\* A name that is allowed ends like the domain.
LEMMA AllowedEndsLike ==
    ASSUME NEW name \in Name, NEW domain \in Name, IsAllowed(name, domain)
    PROVE  Len(domain) <= Len(name) /\ From(name, Len(name) - Len(domain)) = domain
<1>1. Len(name) \in Nat /\ Len(domain) \in Nat
  BY LenProperties, Zenon DEF Name
<1>2. CASE name = domain
  <2>1. Len(name) - Len(domain) = 0 /\ Len(domain) <= Len(name)
    BY <1>1, <1>2, SMT
  <2>2. QED BY <1>2, <2>1, FromStart, Zenon
<1>3. CASE Len(name) > Len(domain) /\ From(name, Len(domain)) = domain
  <2> DEFINE l == Len(domain)
  <2>1. l \in 0..Len(name)
    BY <1>1, <1>3, SMT
  <2>2. Len(From(name, l)) = Len(name) - l
    BY <2>1, FromProperties, Zenon
  <2>3. l = Len(name) - l
    BY <1>3, <2>2, Zenon
  <2>4. Len(domain) <= Len(name) /\ Len(name) - Len(domain) = Len(domain)
    BY <1>1, <1>3, <2>3, SMT
  <2>5. QED BY <1>3, <2>4, Zenon
<1>4. QED BY <1>2, <1>3, Zenon DEF IsAllowed

--------------------------------------------------------------------------------
(* Verdicts *)

ProfileNow == AccessProfile(question, schedule, clock.weekday, clock.minute)

\* A verdict is the one on the question asked, at the time it is asked.
AccessInv ==
    /\ clock \in [weekday : Weekday, minute : Minute]
    /\ schedule \in RoleSchedule
    /\ question \in Questions
    /\ verdict = "none" \/ verdict = VerifyDomainAccess(question, ProfileNow)

LEMMA ClockType ==
    ASSUME AccessInv PROVE clock.weekday \in Weekday /\ clock.minute \in 0..DayLength - 1
<1>1. clock.weekday \in Weekday /\ clock.minute \in Minute
  BY SMT DEF AccessInv
<1>2. QED BY <1>1, AccessAssumption, Zenon

LEMMA ScheduleType ==
    ASSUME AccessInv
    PROVE  /\ DOMAIN schedule \in SUBSET Nat
           /\ \A i \in DOMAIN schedule : schedule[i] \in ScheduleEntry /\ schedule[i].profile \in ProfileName
<1>1. schedule \in Seq(ScheduleEntry)
  BY AccessAssumption, Zenon DEF AccessInv
<1>2. Len(schedule) \in Nat /\ DOMAIN schedule = 1..Len(schedule)
  BY <1>1, LenProperties, Zenon
<1>3. \A i \in 1..Len(schedule) : schedule[i] \in ScheduleEntry
  BY <1>1, ElementOfSeq, Zenon
<1>4. \A entry \in ScheduleEntry : entry.profile \in ProfileName
  BY SMT DEF ScheduleEntry
<1>5. DOMAIN schedule \in SUBSET Nat
  BY <1>2, SMT
<1>6. QED BY <1>2, <1>3, <1>4, <1>5, Zenon

\* The name that is looked for in the lists.
LEMMA QuestionName ==
    ASSUME AccessInv
    PROVE  ToLower(TrimRight(question.hostname)) \in Name
<1>1. question.hostname \in Hostname
  BY SMT DEF AccessInv, Questions
<1>2. question.hostname \in Name
  BY <1>1, AccessAssumption, StringsAreNames, Zenon
<1>3. QED BY <1>2, TrimRightIsName, ToLowerIsName, Zenon

\* The entries the code takes for active are those whose window it is.
LEMMA ActiveIsInWindow ==
    ASSUME AccessInv
    PROVE  ActiveEntries(schedule, clock.weekday, clock.minute)
             = {i \in DOMAIN schedule : InWindow(schedule[i], clock.weekday, clock.minute)}
<1>1. \A i \in DOMAIN schedule : IsScheduleActive(schedule[i], clock.weekday, clock.minute)
                                   <=> InWindow(schedule[i], clock.weekday, clock.minute)
  <2> TAKE i \in DOMAIN schedule
  <2>1. schedule[i] \in ScheduleEntry
    BY ScheduleType, Zenon
  <2>2. QED BY <2>1, ClockType, ScheduleIsItsWindow, Zenon
<1>2. QED BY <1>1, Zenon DEF ActiveEntries

\* The profile is that of an active entry, if there is one.
LEMMA ProfileIsActive ==
    ASSUME AccessInv
    PROVE  LET active == ActiveEntries(schedule, clock.weekday, clock.minute)
           IN  IF active = {} THEN ProfileNow = NoName
               ELSE ProfileNow # NoName /\ \E i \in active : schedule[i].profile = ProfileNow
<1> DEFINE active == ActiveEntries(schedule, clock.weekday, clock.minute)
           profiles == {schedule[i].profile : i \in active}
           first == schedule[First(active)].profile
<1>1. active \in SUBSET DOMAIN schedule
  BY DEF ActiveEntries
<1>2. active \in SUBSET Nat
  BY <1>1, ScheduleType, Zenon
<1>3. \A i \in active : schedule[i].profile \in ProfileName
  BY <1>1, ScheduleType, Zenon
<1>4. GetActiveAccessProfiles(schedule, clock.weekday, clock.minute) = profiles
  BY DEF GetActiveAccessProfiles
<1>5. ProfileNow = CASE question.sessionProfile \in profiles -> question.sessionProfile
                     [] question.sessionProfile \notin profiles /\ question.userProfile \in profiles
                          -> question.userProfile
                     [] profiles = {} -> NoName
                     [] OTHER -> first
  BY <1>4, Zenon DEF ProfileNow, AccessProfile
<1> HIDE DEF active
<1>6. profiles = {} <=> active = {}
  BY Zenon
<1>7. \A p \in profiles : p # NoName /\ \E i \in active : schedule[i].profile = p
  BY <1>3, AccessAssumption, Zenon
<1>8. active # {} => first \in profiles
  BY <1>2, FirstIsLeast, Zenon
<1> HIDE DEF profiles, first
<1>9. CASE active = {}
  <2>1. ProfileNow = NoName
    BY <1>5, <1>6, <1>9, SMT
  <2>2. QED BY <1>9, <2>1 DEF active
<1>10. CASE active # {}
  <2>1. ProfileNow \in profiles
    BY <1>5, <1>6, <1>8, <1>10, SMT
  <2>2. ProfileNow # NoName /\ \E i \in active : schedule[i].profile = ProfileNow
    BY <1>7, <2>1, Zenon
  <2>3. QED BY <1>10, <2>2 DEF active
<1>11. QED BY <1>9, <1>10

\* The lists hold names.
LEMMA ListedNames ==
    ASSUME NEW profile \in ProfileName
    PROVE  Lists[profile].allowed \subseteq Name /\ Lists[profile].blocked \subseteq Name
BY AccessAssumption, StringsAreNames, Zenon

LEMMA ReasonsDiffer ==
    /\ Allow # BlockedRule /\ Allow # BlockedNotAuthenticated /\ BlockedRule # BlockedNotAuthenticated
    /\ Allow # "none" /\ BlockedRule # "none"
BY SMT DEF Allow, BlockedRule, BlockedNotAuthenticated

LEMMA VerifyKeeps == ASSUME AccessInv, Verify PROVE AccessInv'
<1>1. /\ verdict' = VerifyDomainAccess(question, ProfileNow)
      /\ UNCHANGED <<clock, schedule, question>>
  BY Zenon DEF Verify, ProfileNow
<1>2. ProfileNow' = ProfileNow
  BY <1>1 DEF ProfileNow
<1>3. QED BY <1>1, <1>2, Zenon DEF AccessInv

LEMMA TickKeeps == ASSUME AccessInv, Tick PROVE AccessInv'
<1> DEFINE later == {m \in Minute : m > clock.minute}
<1>1. /\ clock' = IF later # {}
                  THEN [clock EXCEPT !.minute = First(later)]
                  ELSE [weekday |-> (clock.weekday + 1) % 7, minute |-> First(Minute)]
      /\ verdict' = "none" /\ UNCHANGED <<schedule, question>>
  BY Zenon DEF Tick
<1>2. Minute \in SUBSET Nat /\ Minute # {}
  BY AccessAssumption, SMT DEF DayLength
<1>3. later \in SUBSET Minute /\ later \in SUBSET Nat
  BY <1>2
<1>4. First(Minute) \in Minute
  BY <1>2, FirstIsLeast, Zenon
<1> HIDE DEF later
<1>5. later # {} => First(later) \in Minute
  BY <1>3, FirstIsLeast, Zenon
<1>6. (clock.weekday + 1) % 7 \in Weekday
  BY ClockType, SMT DEF Weekday
<1>7. clock' \in [weekday : Weekday, minute : Minute]
  <2>1. CASE later # {}
    <3>1. clock' = [clock EXCEPT !.minute = First(later)] /\ First(later) \in Minute
      BY <1>1, <1>5, <2>1
    <3>2. QED BY <3>1, SMT DEF AccessInv
  <2>2. CASE later = {}
    BY <1>1, <1>4, <1>6, <2>2, Zenon
  <2>3. QED BY <2>1, <2>2
<1>8. QED BY <1>1, <1>7, Zenon DEF AccessInv

LEMMA AccessAlways == AccessSpec => []AccessInv
<1>1. AccessInit => AccessInv
  BY Zenon DEF AccessInit, AccessInv
<1>2. AccessInv /\ [AccessNext]_accessVars => AccessInv'
  <2> SUFFICES ASSUME AccessInv, [AccessNext]_accessVars PROVE AccessInv'
    OBVIOUS
  <2>1. CASE UNCHANGED accessVars
    <3>1. UNCHANGED <<clock, schedule, question, verdict>>
      BY <2>1 DEF accessVars
    <3>2. QED BY <3>1 DEF AccessInv, ProfileNow
  <2>2. CASE AccessNext
    BY <2>2, VerifyKeeps, TickKeeps DEF AccessNext
  <2>3. QED BY <2>1, <2>2
<1>3. QED BY <1>1, <1>2, PTL DEF AccessSpec

\* Whoever may pass through a profile does so while one of the entries' windows with that
\* profile is open, over midnight too, and asks for a name that its AllowedDomains end
\* like, or for one that is not at or below any of its BlockedDomains
\* (security.go:234-246, 296-325, 402-440).
THEOREM PassesOnTime == AccessSpec => []PassesInItsWindow
<1>1. ASSUME AccessInv PROVE PassesInItsWindow
  <2> DEFINE active == ActiveEntries(schedule, clock.weekday, clock.minute)
             inWindow == {i \in DOMAIN schedule : InWindow(schedule[i], clock.weekday, clock.minute)}
             name == ToLower(TrimRight(question.hostname))
  <2> SUFFICES ASSUME verdict = Allow, ~ question.isLocal
               PROVE  \/ inWindow = {}
                      \/ \E i \in inWindow :
                            LET lists == Lists[schedule[i].profile]
                            IN  \/ /\ lists.allowed = {}
                                   /\ \A domain \in lists.blocked : ~ Below(name, domain)
                                \/ \E domain \in lists.allowed :
                                      Len(domain) <= Len(name) /\ From(name, Len(name) - Len(domain)) = domain
    BY Zenon DEF PassesInItsWindow
  <2>1. active = inWindow
    BY <1>1, ActiveIsInWindow
  <2>2. CASE active = {}
    BY <2>1, <2>2
  <2>3. CASE active # {}
    <3>1. ProfileNow # NoName /\ \E i \in active : schedule[i].profile = ProfileNow
      BY <1>1, <2>3, ProfileIsActive, Zenon
    <3>2. PICK i \in active : schedule[i].profile = ProfileNow
      BY <3>1
    <3>3. ProfileNow \in ProfileName /\ i \in inWindow
      <4>1. i \in DOMAIN schedule
        BY <2>1
      <4>2. QED BY <1>1, <2>1, <3>2, <4>1, ScheduleType, Zenon
    <3>4. verdict = VerifyDomainAccess(question, ProfileNow)
      BY <1>1, ReasonsDiffer, Zenon DEF AccessInv
    <3> DEFINE allowed == Lists[ProfileNow].allowed
               blocked == Lists[ProfileNow].blocked
    <3>5. Allow = IF question.rejectReason # Allow THEN question.rejectReason
                  ELSE IF allowed # {}
                  THEN IF \E domain \in allowed : IsAllowed(name, domain) THEN Allow ELSE BlockedRule
                  ELSE IF \E domain \in blocked : IsBlocked(name, domain) THEN BlockedRule ELSE Allow
      BY <3>1, <3>4, Zenon DEF VerifyDomainAccess
    <3>6. name \in Name /\ allowed \subseteq Name /\ blocked \subseteq Name
      BY <1>1, <3>3, QuestionName, ListedNames, Zenon
    <3> HIDE DEF name, allowed, blocked
    <3>7. \/ \E domain \in allowed : IsAllowed(name, domain)
          \/ allowed = {} /\ \A domain \in blocked : ~ IsBlocked(name, domain)
      BY <3>5, ReasonsDiffer, Zenon
    <3>8. \/ \E domain \in allowed : Len(domain) <= Len(name) /\ From(name, Len(name) - Len(domain)) = domain
          \/ allowed = {} /\ \A domain \in blocked : ~ Below(name, domain)
      BY <3>6, <3>7, AllowedEndsLike, BlockedIsBelow, Zenon
    <3>9. QED BY <3>2, <3>3, <3>8, Zenon DEF allowed, blocked
  <2>4. QED BY <2>2, <2>3
<1>2. QED BY <1>1, AccessAlways, PTL

\* Nobody is refused by a profile whose window is not open, and none but a name at or
\* below one of its BlockedDomains, or one that its AllowedDomains do not name
\* (security.go:402-440).
THEOREM RefusesOnTime == AccessSpec => []RefusesOnlyListed
<1>1. ASSUME AccessInv PROVE RefusesOnlyListed
  <2> DEFINE active == ActiveEntries(schedule, clock.weekday, clock.minute)
             inWindow == {i \in DOMAIN schedule : InWindow(schedule[i], clock.weekday, clock.minute)}
             name == ToLower(TrimRight(question.hostname))
  <2> SUFFICES ASSUME verdict = BlockedRule
               PROVE  \E i \in DOMAIN schedule :
                         LET lists == Lists[schedule[i].profile]
                         IN  /\ InWindow(schedule[i], clock.weekday, clock.minute)
                             /\ \/ lists.allowed # {} /\ name \notin lists.allowed
                                \/ \E domain \in lists.blocked : Below(name, domain)
    BY Zenon DEF RefusesOnlyListed
  <2>1. active = inWindow
    BY <1>1, ActiveIsInWindow
  <2>2. verdict = VerifyDomainAccess(question, ProfileNow)
    BY <1>1, ReasonsDiffer, Zenon DEF AccessInv
  <2>3. question.rejectReason # BlockedRule
    <3>1. question.rejectReason \in {Allow, BlockedNotAuthenticated}
      BY <1>1, SMT DEF AccessInv, Questions
    <3>2. QED BY <3>1, ReasonsDiffer, Zenon
  <2> DEFINE allowed == Lists[ProfileNow].allowed
             blocked == Lists[ProfileNow].blocked
  <2>4. /\ ProfileNow # NoName
        /\ BlockedRule = IF allowed # {}
                         THEN IF \E domain \in allowed : IsAllowed(name, domain) THEN Allow ELSE BlockedRule
                         ELSE IF \E domain \in blocked : IsBlocked(name, domain) THEN BlockedRule ELSE Allow
    BY <2>2, <2>3, Zenon DEF VerifyDomainAccess
  <2>5. active # {} /\ \E i \in active : schedule[i].profile = ProfileNow
    BY <1>1, <2>4, ProfileIsActive, Zenon
  <2>6. PICK i \in active : schedule[i].profile = ProfileNow
    BY <2>5
  <2>7. i \in DOMAIN schedule /\ InWindow(schedule[i], clock.weekday, clock.minute)
    BY <2>1
  <2>8. name \in Name /\ allowed \subseteq Name /\ blocked \subseteq Name
    <3>1. ProfileNow \in ProfileName
      BY <1>1, <2>6, <2>7, ScheduleType, Zenon
    <3>2. QED BY <1>1, <3>1, QuestionName, ListedNames, Zenon
  <2> HIDE DEF name, allowed, blocked
  <2>9. \/ allowed # {} /\ \A domain \in allowed : ~ IsAllowed(name, domain)
        \/ \E domain \in blocked : IsBlocked(name, domain)
    BY <2>4, ReasonsDiffer, Zenon
  <2>10. \/ allowed # {} /\ name \notin allowed
         \/ \E domain \in blocked : Below(name, domain)
    <3>1. name \in allowed => IsAllowed(name, name)
      BY Zenon DEF IsAllowed
    <3>2. QED BY <2>8, <2>9, <3>1, BlockedIsBelow, Zenon
  <2>11. QED BY <2>6, <2>7, <2>10, Zenon DEF allowed, blocked
<1>2. QED BY <1>1, AccessAlways, PTL

--------------------------------------------------------------------------------
(* The index of the rules *)

Active(g) == rebuild[g] # NotRebuilding

RebuildOK(r) ==
    \/ r = NotRebuilding
    \/ r.at = "list" /\ r.set \in 1..Len(RuleSet) + 1 /\ r.rule = 1
    \/ /\ r.at \in {"read", "write"} /\ r.set \in 1..Len(RuleSet) /\ r.rule \in Nat \ {0}
       /\ r.list \in Source
       /\ r.at = "write" => r.new \in Rule /\ r.old \in HostRule

Scan == [name : Host, old : HostRule, categories : SUBSET Found]

IndexTypeOK ==
    /\ rules \in [1..Len(RuleSet) -> Source]
    /\ index \in [Host -> HostRule]
    /\ DOMAIN rebuild = Rebuilding /\ \A g \in Rebuilding : RebuildOK(rebuild[g])
    /\ scan # NoScan => scan \in Scan

\* A rebuild that nothing disturbed is alone.
OneRebuild ==
    \A g \in Rebuilding : Active(g) => scan = NoScan /\ \A k \in Rebuilding : Active(k) => k = g

\* The rules before the place of a rebuild are done.
Before(r, set, i) == set < r.set \/ (set = r.set /\ i < r.rule)

Has(record, rule, category) == category \in IF rule.wildcard THEN record.wild ELSE record.exact

Done(set, i) == \A g \in Rebuilding : Active(g) => Before(rebuild[g], set, i)

DoneIsIndexed ==
    \A set \in 1..Len(RuleSet) : \A i \in 1..Len(rules[set]) :
        Done(set, i) => Has(index[rules[set][i].host], rules[set][i], RuleSet[set])

\* What was read is what is there.
ReadIsCurrent ==
    /\ \A g \in Rebuilding : rebuild[g].at \in {"read", "write"} =>
                                rebuild[g].list = rules[rebuild[g].set]
    /\ \A g \in Rebuilding : LET r == rebuild[g]
                             IN  r.at = "write" => /\ r.rule \in 1..Len(rules[r.set])
                                                   /\ r.new = rules[r.set][r.rule]
                                                   /\ r.old = index[r.new.host]
    /\ scan # NoScan => scan.old = index[scan.name]

\* Some rule of the category's lists names the host.
IsListed(host, wildcard, category) ==
    \E set \in 1..Len(RuleSet) : \E i \in 1..Len(rules[set]) :
        /\ RuleSet[set] = category
        /\ rules[set][i].host = host
        /\ rules[set][i].wildcard <=> wildcard

IndexIsListed ==
    \A h \in Host : /\ \A category \in index[h].wild : IsListed(h, TRUE, category)
                    /\ \A category \in index[h].exact : IsListed(h, FALSE, category)

IndexInv ==
    /\ IndexTypeOK
    /\ last # "disturbed" => OneRebuild /\ DoneIsIndexed /\ ReadIsCurrent
    /\ last = "emptied" => IndexIsListed

--------------------------------------------------------------------------------
LEMMA NoRuleIsEmpty == NoRule \in HostRule /\ NoRule.wild = {} /\ NoRule.exact = {} /\ NoRule.domscan = {}
BY SMT DEF NoRule, HostRule

LEMMA HostRuleFields ==
    ASSUME NEW record \in HostRule
    PROVE  record.wild \in SUBSET Listed /\ record.exact \in SUBSET Listed /\ record.domscan \in SUBSET Found
BY SMT DEF HostRule

LEMMA RuleFields == ASSUME NEW rule \in Rule PROVE rule.host \in Host /\ rule.wildcard \in BOOLEAN
BY SMT DEF Rule

LEMMA RulesType ==
    ASSUME IndexTypeOK, NEW set \in 1..Len(RuleSet)
    PROVE  /\ RuleSet[set] \in Listed /\ Len(RuleSet) \in Nat
           /\ rules[set] \in Seq(Rule) /\ Len(rules[set]) \in Nat
           /\ \A i \in 1..Len(rules[set]) : rules[set][i] \in Rule
<1>1. rules[set] \in Source
  BY Zenon DEF IndexTypeOK
<1>2. rules[set] \in Seq(Rule)
  BY <1>1, RuleAssumption, Zenon
<1>3. RuleSet \in Seq(Listed)
  BY RuleAssumption
<1>4. QED BY <1>2, <1>3, LenProperties, ElementOfSeq, Zenon

\* What SetDnsHostRule writes.
LEMMA AddedRecord ==
    ASSUME NEW old \in HostRule, NEW rule \in Rule, NEW category \in Listed, NEW new,
           new = Added(old, rule, category)
    PROVE  /\ new \in HostRule
           /\ \A c : c \in new.wild <=> c \in old.wild \/ (rule.wildcard /\ c = category)
           /\ \A c : c \in new.exact <=> c \in old.exact \/ (~ rule.wildcard /\ c = category)
<1>1. CASE rule.wildcard
  <2>1. new = [old EXCEPT !.wild = @ \cup {category}]
    BY <1>1, Zenon DEF Added
  <2>2. new \in HostRule
    BY <2>1, SMT DEF HostRule
  <2>3. new.exact = old.exact /\ new.wild = old.wild \cup {category}
    BY <2>1, SMT DEF HostRule
  <2>4. QED BY <1>1, <2>2, <2>3, Zenon
<1>2. CASE ~ rule.wildcard
  <2>1. new = [old EXCEPT !.exact = @ \cup {category}]
    BY <1>2, Zenon DEF Added
  <2>2. new \in HostRule
    BY <2>1, SMT DEF HostRule
  <2>3. new.wild = old.wild /\ new.exact = old.exact \cup {category}
    BY <2>1, SMT DEF HostRule
  <2>4. QED BY <1>2, <2>2, <2>3, Zenon
<1>3. QED BY <1>1, <1>2

LEMMA Places ==
    /\ NotRebuilding.at = "none"
    /\ "none" \notin {"list", "read", "write"} /\ "list" \notin {"read", "write"}
    /\ "none" # "list" /\ "none" # "read" /\ "none" # "write" /\ "read" # "write"
    /\ \A set : /\ Listing(set).at = "list" /\ Listing(set).set = set /\ Listing(set).rule = 1
                /\ Listing(set) # NotRebuilding
<1>1. NotRebuilding.at = "none"
  BY SMT DEF NotRebuilding
<1>2. /\ "none" \notin {"list", "read", "write"} /\ "list" \notin {"read", "write"}
      /\ "none" # "list" /\ "none" # "read" /\ "none" # "write" /\ "read" # "write"
  BY SMT
<1>3. \A set : Listing(set).at = "list" /\ Listing(set).set = set /\ Listing(set).rule = 1
  BY Zenon DEF Listing
<1>4. \A set : Listing(set) # NotRebuilding
  BY <1>1, <1>2, <1>3, Zenon
<1>5. QED BY <1>1, <1>2, <1>3, <1>4, Zenon

LEMMA PlaceInList ==
    ASSUME NEW list, NEW set, NEW rule, NEW place, place = At(list, set, rule)
    PROVE  /\ place.at = "read" /\ place.list = list /\ place.set = set /\ place.rule = rule
           /\ place # NotRebuilding /\ place.at # "write"
<1>1. place.at = "read" /\ place.list = list /\ place.set = set /\ place.rule = rule
  BY Zenon DEF At
<1>2. place # NotRebuilding /\ place.at # "write"
  BY <1>1, Places, Zenon
<1>3. QED BY <1>1, <1>2

\* What a rebuild leaves as it is when another one moves on.
LEMMA RebuildMoves ==
    ASSUME IndexTypeOK, NEW g \in Rebuilding, NEW next, RebuildOK(next),
           rebuild' = [rebuild EXCEPT ![g] = next]
    PROVE  /\ DOMAIN rebuild' = Rebuilding /\ \A k \in Rebuilding : RebuildOK(rebuild'[k])
           /\ \A k \in Rebuilding : rebuild'[k] = IF k = g THEN next ELSE rebuild[k]
<1>1. \A k \in Rebuilding : rebuild'[k] = IF k = g THEN next ELSE rebuild[k]
  BY Zenon DEF IndexTypeOK
<1>2. DOMAIN rebuild' = Rebuilding
  BY Zenon DEF IndexTypeOK
<1>3. \A k \in Rebuilding : RebuildOK(rebuild'[k])
  BY <1>1, Zenon DEF IndexTypeOK
<1>4. QED BY <1>1, <1>2, <1>3

\* A rebuild that nothing disturbed moves to a place before which the same rules are
\* done, and reads what is there.
LEMMA PlaceKeeps ==
    ASSUME IndexInv, NEW g \in Rebuilding, Active(g), NEW next, RebuildOK(next),
           rebuild' = [rebuild EXCEPT ![g] = next],
           UNCHANGED <<rules, index, scan, changes, last>>,
           last # "disturbed" =>
              \A set \in 1..Len(RuleSet) : \A i \in 1..Len(rules[set]) :
                 (next # NotRebuilding => Before(next, set, i)) => Before(rebuild[g], set, i),
           last # "disturbed" /\ next.at \in {"read", "write"} => next.list = rules[next.set],
           last # "disturbed" /\ next.at = "write" =>
              /\ next.rule \in 1..Len(rules[next.set])
              /\ next.new = rules[next.set][next.rule]
              /\ next.old = index[next.new.host]
    PROVE  IndexInv'
<1>1. /\ DOMAIN rebuild' = Rebuilding /\ \A k \in Rebuilding : RebuildOK(rebuild'[k])
      /\ \A k \in Rebuilding : rebuild'[k] = IF k = g THEN next ELSE rebuild[k]
  BY RebuildMoves, Zenon DEF IndexInv
<1>2. IndexTypeOK'
  BY <1>1, Zenon DEF IndexInv, IndexTypeOK
<1>3. ASSUME last # "disturbed" PROVE OneRebuild' /\ DoneIsIndexed' /\ ReadIsCurrent'
  <2>1. OneRebuild /\ DoneIsIndexed /\ ReadIsCurrent
    BY <1>3 DEF IndexInv
  <2>2. scan = NoScan /\ \A k \in Rebuilding : rebuild[k] # NotRebuilding => k = g
    BY <2>1, Zenon DEF OneRebuild, Active
  <2>3. \A k \in Rebuilding : rebuild'[k] # NotRebuilding => k = g
    BY <1>1, <2>2, Zenon
  <2>4. OneRebuild'
    BY <2>2, <2>3, Zenon DEF OneRebuild, Active
  <2>5. ASSUME NEW set \in 1..Len(RuleSet), NEW i \in 1..Len(rules[set]),
               \A k \in Rebuilding : rebuild'[k] # NotRebuilding => Before(rebuild'[k], set, i)
        PROVE  Done(set, i)
    <3>1. next # NotRebuilding => Before(next, set, i)
      BY <1>1, <2>5, Zenon
    <3>2. Before(rebuild[g], set, i)
      BY <1>3, <3>1
    <3>3. QED BY <2>2, <3>2, Zenon DEF Done, Active
  <2>6. DoneIsIndexed'
    BY <2>1, <2>5, Zenon DEF DoneIsIndexed, Done, Active
  <2>7. ReadIsCurrent'
    <3>1. ASSUME NEW k \in Rebuilding, rebuild'[k].at = "write"
          PROVE  /\ rebuild'[k].rule \in 1..Len(rules[rebuild'[k].set])
                 /\ rebuild'[k].new = rules[rebuild'[k].set][rebuild'[k].rule]
                 /\ rebuild'[k].old = index[rebuild'[k].new.host]
      <4>1. rebuild'[k] # NotRebuilding
        BY <3>1, Places, Zenon
      <4>2. rebuild'[k] = next
        BY <1>1, <2>3, <4>1, Zenon
      <4>3. QED BY <1>3, <3>1, <4>2
    <3>2. ASSUME NEW k \in Rebuilding, rebuild'[k].at \in {"read", "write"}
          PROVE  rebuild'[k].list = rules[rebuild'[k].set]
      <4>1. rebuild'[k] # NotRebuilding
        BY <3>2, Places, Zenon
      <4>2. rebuild'[k] = next
        BY <1>1, <2>3, <4>1, Zenon
      <4>3. QED BY <1>3, <3>2, <4>2
    <3>3. QED BY <2>2, <3>1, <3>2, Zenon DEF ReadIsCurrent
  <2>8. QED BY <2>4, <2>6, <2>7
<1>4. ASSUME last = "emptied" PROVE IndexIsListed'
  BY <1>4 DEF IndexInv, IndexIsListed, IsListed
<1>5. last' = last
  OBVIOUS
<1>6. QED BY <1>2, <1>3, <1>4, <1>5 DEF IndexInv

LEMMA ListLength ==
    ASSUME NEW list \in Source
    PROVE  Len(list) \in Nat /\ \A i \in 1..Len(list) : list[i] \in Rule
<1>1. list \in Seq(Rule)
  BY RuleAssumption, Zenon
<1>2. QED BY <1>1, LenProperties, ElementOfSeq, Zenon

LEMMA ReadListKeeps ==
    ASSUME IndexInv, NEW g \in Rebuilding, ReadList(g) PROVE IndexInv'
<1> DEFINE r == rebuild[g]
           ended == NotRebuilding
           begun == At(rules[r.set], r.set, 1)
<1>1. r.at = "list" /\ UNCHANGED <<rules, index, scan, changes, last>>
  BY DEF ReadList
<1>2. IndexTypeOK
  BY DEF IndexInv
<1>3. Active(g) /\ r.set \in 1..Len(RuleSet) + 1 /\ r.rule = 1
  BY <1>1, <1>2, Places, Zenon DEF IndexTypeOK, RebuildOK, Active
<1>4. Len(RuleSet) \in Nat /\ \A set \in 1..Len(RuleSet) : Len(rules[set]) \in Nat
  <2>1. Len(RuleSet) \in Nat
    BY RuleAssumption, LenProperties, Zenon
  <2>2. QED BY <1>2, <2>1, RulesType, Zenon
<1>5. CASE r.set > Len(RuleSet)
  <2>1. rebuild' = [rebuild EXCEPT ![g] = ended]
    BY <1>5, Zenon DEF ReadList
  <2>2. \A set \in 1..Len(RuleSet) : \A i \in 1..Len(rules[set]) : Before(r, set, i)
    BY <1>3, <1>4, <1>5, SMT DEF Before
  <2>3. RebuildOK(ended) /\ ended.at \notin {"read", "write"}
    BY Places, Zenon DEF RebuildOK
  <2> HIDE DEF ended
  <2>4. QED BY <1>1, <1>3, <2>1, <2>2, <2>3, PlaceKeeps, Zenon
<1>6. CASE ~ (r.set > Len(RuleSet))
  <2>1. rebuild' = [rebuild EXCEPT ![g] = begun]
    BY <1>6, Zenon DEF ReadList
  <2>2. r.set \in 1..Len(RuleSet)
    BY <1>3, <1>4, <1>6, SMT
  <2>3. /\ begun.at = "read" /\ begun.set = r.set /\ begun.rule = 1
        /\ begun.list = rules[r.set] /\ begun # NotRebuilding /\ begun.at # "write"
    BY PlaceInList
  <2> HIDE DEF begun
  <2>4. RebuildOK(begun)
    <3>1. rules[r.set] \in Source /\ 1 \in Nat \ {0}
      BY <1>2, <2>2, SMT DEF IndexTypeOK
    <3>2. QED BY <2>2, <2>3, <3>1, Zenon DEF RebuildOK
  <2>5. \A set \in 1..Len(RuleSet) : \A i \in 1..Len(rules[set]) : Before(begun, set, i) => Before(r, set, i)
    BY <1>3, <2>3, Zenon DEF Before
  <2>6. QED BY <1>1, <1>3, <2>1, <2>3, <2>4, <2>5, PlaceKeeps, Zenon
<1>7. QED BY <1>5, <1>6

LEMMA ReadRuleKeeps ==
    ASSUME IndexInv, NEW g \in Rebuilding, ReadRule(g) PROVE IndexInv'
<1> DEFINE r == rebuild[g]
           skipped == Listing(r.set + 1)
           found == r.list[r.rule]
           next == [at |-> "write", set |-> r.set, rule |-> r.rule, list |-> r.list,
                    new |-> found, old |-> index[found.host]]
<1>1. r.at = "read" /\ UNCHANGED <<rules, index, scan, changes, last>>
  BY DEF ReadRule
<1>2. IndexTypeOK
  BY DEF IndexInv
<1>3. Active(g) /\ r.set \in 1..Len(RuleSet) /\ r.rule \in Nat \ {0} /\ r.list \in Source
  BY <1>1, <1>2, Places, Zenon DEF IndexTypeOK, RebuildOK, Active
<1>4. /\ Len(RuleSet) \in Nat /\ \A set \in 1..Len(RuleSet) : Len(rules[set]) \in Nat
      /\ Len(r.list) \in Nat
  <2>1. Len(RuleSet) \in Nat
    BY RuleAssumption, LenProperties, Zenon
  <2>2. QED BY <1>2, <1>3, <2>1, RulesType, ListLength, Zenon
<1>5. last # "disturbed" => r.list = rules[r.set]
  BY <1>1, Zenon DEF IndexInv, ReadIsCurrent
<1>6. CASE r.rule > Len(r.list)
  <2>1. rebuild' = [rebuild EXCEPT ![g] = skipped]
    BY <1>6, Zenon DEF ReadRule
  <2>2. skipped.at = "list" /\ skipped.set = r.set + 1 /\ skipped.rule = 1
        /\ skipped # NotRebuilding /\ skipped.at \notin {"read", "write"}
    BY Places, Zenon
  <2> HIDE DEF skipped
  <2>3. RebuildOK(skipped)
    <3>1. r.set + 1 \in 1..Len(RuleSet) + 1
      BY <1>3, <1>4, SMT
    <3>2. QED BY <2>2, <3>1, Zenon DEF RebuildOK
  <2>4. ASSUME last # "disturbed",
               NEW set \in 1..Len(RuleSet), NEW i \in 1..Len(rules[set]), Before(skipped, set, i)
        PROVE  Before(r, set, i)
    <3>1. set < r.set + 1 \/ (set = r.set + 1 /\ i < 1)
      BY <2>2, <2>4 DEF Before
    <3>2. set \in Nat /\ i \in Nat /\ 1 <= i /\ i <= Len(rules[set]) /\ Len(rules[set]) \in Nat
      BY <1>4, SMT
    <3>3. set < r.set \/ set = r.set
      BY <1>3, <1>4, <3>1, <3>2, SMT
    <3>4. ASSUME set = r.set PROVE i < r.rule
      <4>1. i <= Len(r.list)
        BY <1>5, <2>4, <3>2, <3>4
      <4>2. QED BY <1>3, <1>4, <1>6, <3>2, <4>1, SMT
    <3>5. QED BY <3>3, <3>4 DEF Before
  <2>5. QED BY <1>1, <1>3, <2>1, <2>2, <2>3, <2>4, PlaceKeeps, Zenon
<1>7. CASE ~ (r.rule > Len(r.list))
  <2>1. rebuild' = [rebuild EXCEPT ![g] = next]
    BY <1>7, Zenon DEF ReadRule
  <2>2. r.rule \in 1..Len(r.list)
    BY <1>3, <1>4, <1>7, SMT
  <2>3. found \in Rule
    BY <1>3, <2>2, ListLength, Zenon
  <2>4. index[found.host] \in HostRule
    <3>1. found.host \in Host
      BY <2>3, RuleFields, Zenon
    <3>2. QED BY <1>2, <3>1, Zenon DEF IndexTypeOK
  <2>5. /\ next.at = "write" /\ next.set = r.set /\ next.rule = r.rule /\ next.list = r.list
        /\ next.new = found /\ next.old = index[found.host]
    BY Zenon
  <2> HIDE DEF next, found
  <2>6. RebuildOK(next)
    BY <1>3, <2>3, <2>4, <2>5, Zenon DEF RebuildOK
  <2>7. \A set \in 1..Len(RuleSet) : \A i \in 1..Len(rules[set]) :
           (next # NotRebuilding => Before(next, set, i)) => Before(r, set, i)
    <3>1. next # NotRebuilding
      BY <2>5, Places, Zenon
    <3>2. QED BY <2>5, <3>1, Zenon DEF Before
  <2>8. last # "disturbed" /\ next.at \in {"read", "write"} => next.list = rules[next.set]
    BY <1>5, <2>5
  <2>9. last # "disturbed" /\ next.at = "write" =>
           /\ next.rule \in 1..Len(rules[next.set]) /\ next.new = rules[next.set][next.rule]
           /\ next.old = index[next.new.host]
    BY <1>5, <2>2, <2>5, Zenon DEF found
  <2>10. QED BY <1>1, <1>3, <2>1, <2>6, <2>7, <2>8, <2>9, PlaceKeeps, Zenon
<1>8. QED BY <1>6, <1>7

\* The record gains the category of the rule set at the rule, and none loses any.
LEMMA SetDnsHostRuleKeeps ==
    ASSUME IndexInv, NEW g \in Rebuilding, SetDnsHostRule(g) PROVE IndexInv'
<1> DEFINE r == rebuild[g]
           set == r.set
           new == Added(r.old, r.new, RuleSet[set])
           next == At(r.list, set, r.rule + 1)
           host == r.new.host
<1>1. /\ r.at = "write"
      /\ index' = IF new = r.old THEN index ELSE [index EXCEPT ![host] = new]
      /\ rebuild' = [rebuild EXCEPT ![g] = next]
      /\ UNCHANGED <<rules, scan, last>>
  BY Zenon DEF SetDnsHostRule
<1>2. IndexTypeOK
  BY DEF IndexInv
<1>3. /\ Active(g) /\ set \in 1..Len(RuleSet) /\ r.rule \in Nat \ {0}
      /\ r.list \in Source /\ r.new \in Rule /\ r.old \in HostRule
  BY <1>1, <1>2, Places, Zenon DEF IndexTypeOK, RebuildOK, Active
<1>4. host \in Host /\ RuleSet[set] \in Listed /\ Len(RuleSet) \in Nat
  BY <1>2, <1>3, RuleFields, RulesType, Zenon
<1>5. /\ new \in HostRule
      /\ \A c : c \in new.wild <=> c \in r.old.wild \/ (r.new.wildcard /\ c = RuleSet[set])
      /\ \A c : c \in new.exact <=> c \in r.old.exact \/ (~ r.new.wildcard /\ c = RuleSet[set])
  <2>1. new = Added(r.old, r.new, RuleSet[set])
    OBVIOUS
  <2>2. r.old \in HostRule /\ r.new \in Rule /\ RuleSet[set] \in Listed
    BY <1>3, <1>4
  <2> HIDE DEF new, r, set
  <2>3. QED BY <2>1, <2>2, AddedRecord, SMT
<1>6. /\ next.at = "read" /\ next.set = set /\ next.rule = r.rule + 1 /\ next.list = r.list
      /\ next # NotRebuilding /\ next.at # "write"
  BY PlaceInList
<1> HIDE DEF new, next
<1>7. RebuildOK(next)
  <2>1. r.rule + 1 \in Nat \ {0}
    BY <1>3, SMT
  <2>2. QED BY <1>3, <1>6, <2>1, Zenon DEF RebuildOK
<1>8. /\ DOMAIN rebuild' = Rebuilding /\ \A k \in Rebuilding : RebuildOK(rebuild'[k])
      /\ \A k \in Rebuilding : rebuild'[k] = IF k = g THEN next ELSE rebuild[k]
  BY <1>1, <1>2, <1>7, RebuildMoves, Zenon
<1>9. index' \in [Host -> HostRule]
  <2>1. index \in [Host -> HostRule]
    BY <1>2 DEF IndexTypeOK
  <2>2. CASE new = r.old
    BY <1>1, <2>1, <2>2
  <2>3. CASE new # r.old
    <3>1. index' = [index EXCEPT ![host] = new]
      BY <1>1, <2>3
    <3> HIDE DEF host
    <3>2. QED BY <1>5, <2>1, <3>1, Zenon
  <2>4. QED BY <2>2, <2>3
<1>10. IndexTypeOK'
  BY <1>1, <1>2, <1>8, <1>9, Zenon DEF IndexTypeOK
<1>11. ASSUME last # "disturbed"
       PROVE  /\ OneRebuild /\ DoneIsIndexed /\ scan = NoScan
              /\ \A k \in Rebuilding : rebuild[k] # NotRebuilding => k = g
              /\ r.rule \in 1..Len(rules[set]) /\ r.new = rules[set][r.rule] /\ r.old = index[host]
              /\ r.list = rules[set]
              /\ \A h \in Host : index'[h] = IF h = host THEN new ELSE index[h]
  <2>1. OneRebuild /\ DoneIsIndexed /\ ReadIsCurrent
    BY <1>11 DEF IndexInv
  <2>2. scan = NoScan /\ \A k \in Rebuilding : rebuild[k] # NotRebuilding => k = g
    BY <1>3, <2>1, Zenon DEF OneRebuild, Active
  <2>3. /\ r.rule \in 1..Len(rules[set]) /\ r.new = rules[set][r.rule] /\ r.old = index[host]
        /\ r.list = rules[set]
    BY <1>1, <2>1, Zenon DEF ReadIsCurrent
  <2>4. \A h \in Host : index'[h] = IF h = host THEN new ELSE index[h]
    <3>1. CASE new = r.old
      BY <1>1, <2>3, <3>1, Zenon
    <3>2. CASE new # r.old
      <4>1. index' = [index EXCEPT ![host] = new]
        BY <1>1, <3>2
      <4> HIDE DEF host
      <4>2. QED BY <1>2, <4>1, Zenon DEF IndexTypeOK
    <3>3. QED BY <3>1, <3>2
  <2>5. QED BY <2>1, <2>2, <2>3, <2>4
<1> HIDE DEF host
<1>12. ASSUME last # "disturbed" PROVE OneRebuild' /\ DoneIsIndexed' /\ ReadIsCurrent'
  <2>1. \A k \in Rebuilding : rebuild'[k] # NotRebuilding => k = g
    BY <1>8, <1>11, <1>12, Zenon
  <2>2. OneRebuild'
    BY <1>1, <1>11, <1>12, <2>1, Zenon DEF OneRebuild, Active
  <2>3. ReadIsCurrent'
    <3>1. ASSUME NEW k \in Rebuilding PROVE rebuild'[k].at # "write"
      <4>1. CASE k = g
        BY <1>6, <1>8, <4>1, Zenon
      <4>2. CASE k # g
        BY <2>1, <4>2, Places, Zenon
      <4>3. QED BY <4>1, <4>2
    <3>2. ASSUME NEW k \in Rebuilding, rebuild'[k].at \in {"read", "write"}
          PROVE  rebuild'[k].list = rules[rebuild'[k].set]
      <4>1. k = g
        BY <2>1, <3>2, Places, Zenon
      <4>2. QED BY <1>6, <1>8, <1>11, <1>12, <4>1, Zenon
    <3>3. QED BY <1>1, <1>11, <1>12, <3>1, <3>2, Zenon DEF ReadIsCurrent
  <2>4. ASSUME NEW s \in 1..Len(RuleSet), NEW i \in 1..Len(rules[s]),
               \A k \in Rebuilding : rebuild'[k] # NotRebuilding => Before(rebuild'[k], s, i)
        PROVE  Has(index'[rules[s][i].host], rules[s][i], RuleSet[s])
    <3> DEFINE rule == rules[s][i]
    <3>1. Before(next, s, i)
      BY <1>6, <1>8, <2>4, Zenon
    <3>2. s \in Nat /\ i \in Nat /\ Len(rules[s]) \in Nat
      BY <1>2, RulesType, SMT
    <3>3. Before(r, s, i) \/ (s = set /\ i = r.rule)
      <4>1. s < set \/ (s = set /\ i < r.rule + 1)
        BY <1>6, <3>1 DEF Before
      <4>2. i < r.rule + 1 => i < r.rule \/ i = r.rule
        BY <1>3, <3>2, SMT
      <4>3. QED BY <4>1, <4>2 DEF Before
    <3>4. rule \in Rule /\ rule.host \in Host
      BY <1>2, RulesType, RuleFields, Zenon
    <3>5. CASE Before(r, s, i)
      <4>1. Done(s, i)
        BY <1>11, <1>12, <3>5, Zenon DEF Done, Active
      <4>2. Has(index[rule.host], rule, RuleSet[s])
        BY <1>11, <1>12, <4>1, Zenon DEF DoneIsIndexed
      <4>3. CASE rule.host = host
        <5>1. index'[rule.host] = new /\ index[rule.host] = r.old
          BY <1>11, <1>12, <3>4, <4>3, Zenon
        <5>2. QED BY <1>5, <4>2, <5>1, Zenon DEF Has
      <4>4. CASE rule.host # host
        <5>1. index'[rule.host] = index[rule.host]
          BY <1>11, <1>12, <3>4, <4>4, Zenon
        <5>2. QED BY <4>2, <5>1
      <4>5. QED BY <4>3, <4>4
    <3>6. CASE s = set /\ i = r.rule
      <4>1. rule = r.new /\ rule.host = host
        BY <1>11, <1>12, <3>6 DEF host
      <4>2. index'[rule.host] = new
        BY <1>11, <1>12, <3>4, <4>1, Zenon
      <4>3. RuleSet[s] \in IF rule.wildcard THEN new.wild ELSE new.exact
        <5>1. RuleSet[s] = RuleSet[set]
          BY <3>6
        <5>2. QED BY <1>5, <4>1, <5>1, Zenon
      <4>4. QED BY <4>2, <4>3 DEF Has
    <3>7. QED BY <3>3, <3>5, <3>6
  <2>5. rules' = rules
    BY <1>1
  <2>6. DoneIsIndexed'
    BY <2>4, <2>5, Zenon DEF DoneIsIndexed, Done, Active
  <2>7. QED BY <2>2, <2>3, <2>6
<1>13. ASSUME last = "emptied" PROVE IndexIsListed'
  <2>1. last # "disturbed"
    BY <1>13, SMT
  <2>2. IndexIsListed
    BY <1>13 DEF IndexInv
  <2>3. IsListed(host, r.new.wildcard, RuleSet[set])
    <3>1. rules[set][r.rule].host = host /\ (rules[set][r.rule].wildcard <=> r.new.wildcard)
      BY <1>11, <2>1, Zenon DEF host
    <3>2. QED BY <1>3, <1>11, <2>1, <3>1, Zenon DEF IsListed
  <2>4. ASSUME NEW h \in Host, NEW category
        PROVE  /\ category \in index'[h].wild => IsListed(h, TRUE, category)
               /\ category \in index'[h].exact => IsListed(h, FALSE, category)
    <3>1. CASE h = host
      <4>1. index'[h] = new /\ index[h] = r.old
        BY <1>11, <2>1, <3>1, Zenon
      <4>2. /\ category \in r.old.wild => IsListed(h, TRUE, category)
            /\ category \in r.old.exact => IsListed(h, FALSE, category)
        BY <2>2, <4>1, Zenon DEF IndexIsListed
      <4>3. CASE r.new.wildcard
        <5>1. category \in new.wild => category \in r.old.wild \/ category = RuleSet[set]
          BY <1>5, <4>3, Zenon
        <5>2. IsListed(h, TRUE, RuleSet[set])
          BY <2>3, <3>1, <4>3, Zenon DEF IsListed
        <5>3. new.exact = r.old.exact
          BY <1>5, <4>3, Zenon
        <5>4. QED BY <4>1, <4>2, <5>1, <5>2, <5>3, Zenon
      <4>4. CASE ~ r.new.wildcard
        <5>1. category \in new.exact => category \in r.old.exact \/ category = RuleSet[set]
          BY <1>5, <4>4, Zenon
        <5>2. IsListed(h, FALSE, RuleSet[set])
          BY <2>3, <3>1, <4>4, Zenon DEF IsListed
        <5>3. new.wild = r.old.wild
          BY <1>5, <4>4, Zenon
        <5>4. QED BY <4>1, <4>2, <5>1, <5>2, <5>3, Zenon
      <4>5. QED BY <4>3, <4>4
    <3>2. CASE h # host
      <4>1. index'[h] = index[h]
        BY <1>11, <2>1, <3>2, Zenon
      <4>2. QED BY <2>2, <4>1, Zenon DEF IndexIsListed
    <3>3. QED BY <3>1, <3>2
  <2>5. rules' = rules
    BY <1>1
  <2>6. QED BY <2>4, <2>5 DEF IndexIsListed, IsListed
<1>14. QED BY <1>1, <1>10, <1>12, <1>13 DEF IndexInv

--------------------------------------------------------------------------------
(* The other steps *)

LEMMA ReIndexKeeps ==
    ASSUME IndexInv, NEW g \in Rebuilding, ReIndex(g) PROVE IndexInv'
<1> DEFINE next == Listing(1)
<1>1. PICK gone \in ClearDnsHostRules(Records) :
          index' = [h \in Host |-> IF h \in gone THEN NoRule ELSE index[h]]
  BY Zenon DEF ReIndex
<1>2. /\ rebuild' = [rebuild EXCEPT ![g] = next]
      /\ last' = IF ~ Alone THEN "disturbed"
                 ELSE IF index' = [h \in Host |-> NoRule] THEN "emptied" ELSE "partial"
      /\ UNCHANGED <<rules, scan>>
  BY Zenon DEF ReIndex
<1>3. IndexTypeOK
  BY DEF IndexInv
<1>4. /\ next.at = "list" /\ next.set = 1 /\ next.rule = 1
      /\ next # NotRebuilding /\ next.at \notin {"read", "write"}
  BY Places, Zenon
<1> HIDE DEF next
<1>5. RebuildOK(next)
  <2>1. 1 \in 1..Len(RuleSet) + 1
    BY RuleAssumption, LenProperties, SMT
  <2>2. QED BY <1>4, <2>1, Zenon DEF RebuildOK
<1>6. /\ DOMAIN rebuild' = Rebuilding /\ \A k \in Rebuilding : RebuildOK(rebuild'[k])
      /\ \A k \in Rebuilding : rebuild'[k] = IF k = g THEN next ELSE rebuild[k]
  BY <1>2, <1>3, <1>5, RebuildMoves, Zenon
<1>7. index' \in [Host -> HostRule]
  <2>1. \A h \in Host : (IF h \in gone THEN NoRule ELSE index[h]) \in HostRule
    BY <1>3, NoRuleIsEmpty, Zenon DEF IndexTypeOK
  <2>2. QED BY <1>1, <2>1, Zenon
<1>8. IndexTypeOK'
  BY <1>2, <1>3, <1>6, <1>7, Zenon DEF IndexTypeOK
<1>9. ASSUME last' # "disturbed" PROVE OneRebuild' /\ DoneIsIndexed' /\ ReadIsCurrent'
  <2>1. scan = NoScan /\ \A k \in Rebuilding : rebuild[k] = NotRebuilding
    BY <1>2, <1>9, Zenon DEF Alone
  <2>2. \A k \in Rebuilding : rebuild'[k] # NotRebuilding => k = g
    BY <1>6, <2>1, Zenon
  <2>3. OneRebuild'
    BY <1>2, <2>1, <2>2, Zenon DEF OneRebuild, Active
  <2>4. ASSUME NEW k \in Rebuilding PROVE rebuild'[k].at \notin {"read", "write"}
    <3>1. CASE k = g
      BY <1>4, <1>6, <3>1, Zenon
    <3>2. CASE k # g
      BY <2>2, <3>2, Places, Zenon
    <3>3. QED BY <3>1, <3>2
  <2>5. ReadIsCurrent'
    BY <1>2, <2>1, <2>4, Zenon DEF ReadIsCurrent
  <2>6. ASSUME NEW set \in 1..Len(RuleSet), NEW i \in 1..Len(rules[set])
        PROVE  ~ Before(next, set, i)
    <3>1. Len(rules[set]) \in Nat
      BY <1>3, RulesType, Zenon
    <3>2. ~ (set < 1) /\ ~ (i < 1)
      BY <3>1, SMT
    <3>3. QED BY <1>4, <3>2, Zenon DEF Before
  <2>7. rules' = rules /\ rebuild'[g] = next
    BY <1>2, <1>6
  <2>8. DoneIsIndexed'
    BY <1>4, <2>6, <2>7, Zenon DEF DoneIsIndexed, Done, Active
  <2>9. QED BY <2>3, <2>5, <2>8
<1>10. ASSUME last' = "emptied" PROVE IndexIsListed'
  <2>1. index' = [h \in Host |-> NoRule]
    <3>1. "emptied" # "disturbed" /\ "emptied" # "partial"
      BY SMT
    <3>2. QED BY <1>2, <1>10, <3>1, Zenon
  <2>2. \A h \in Host : index'[h].wild = {} /\ index'[h].exact = {}
    BY <2>1, NoRuleIsEmpty, Zenon
  <2>3. QED BY <2>2, Zenon DEF IndexIsListed
<1>11. QED BY <1>8, <1>9, <1>10 DEF IndexInv

LEMMA UpdateRuleSetKeeps ==
    ASSUME IndexInv, UpdateRuleSet PROVE IndexInv'
<1>1. PICK set \in EnabledSets, list \in Source : rules' = [rules EXCEPT ![set] = list]
  BY Zenon DEF UpdateRuleSet
<1>2. last' = "disturbed" /\ UNCHANGED <<index, rebuild, scan>>
  BY DEF UpdateRuleSet
<1>3. "disturbed" # "emptied"
  BY SMT
<1>4. rules' \in [1..Len(RuleSet) -> Source]
  BY <1>1, Zenon DEF IndexInv, IndexTypeOK
<1>5. IndexTypeOK'
  BY <1>2, <1>4, Zenon DEF IndexInv, IndexTypeOK
<1>6. QED BY <1>2, <1>3, <1>5 DEF IndexInv

LEMMA DomScanKeeps ==
    ASSUME IndexInv, DomScan PROVE IndexInv'
<1>1. PICK name \in Host, categories \in (SUBSET Found) \ {{}} :
          scan' = [name |-> name, old |-> index[name], categories |-> categories]
  BY Zenon DEF DomScan
<1>2. /\ last' = IF Alone THEN last ELSE "disturbed"
      /\ UNCHANGED <<rules, index, rebuild>>
  BY Zenon DEF DomScan
<1>3. scan' \in Scan /\ scan'.name = name /\ scan'.old = index[name]
  <2>1. index[name] \in HostRule /\ categories \in SUBSET Found
    BY Zenon DEF IndexInv, IndexTypeOK
  <2>2. scan' \in Scan
    BY <1>1, <2>1, Zenon DEF Scan
  <2>3. QED BY <1>1, <2>2, Zenon
<1>4. IndexTypeOK'
  BY <1>2, <1>3, Zenon DEF IndexInv, IndexTypeOK
<1>5. ASSUME last' # "disturbed" PROVE OneRebuild' /\ DoneIsIndexed' /\ ReadIsCurrent' /\ last' = last
  <2>1. last' = last /\ \A g \in Rebuilding : rebuild[g] = NotRebuilding
    BY <1>2, <1>5, Zenon DEF Alone
  <2>2. OneRebuild /\ DoneIsIndexed /\ ReadIsCurrent
    BY <1>5, <2>1 DEF IndexInv
  <2>3. OneRebuild'
    BY <1>2, <2>1, Zenon DEF OneRebuild, Active
  <2>4. DoneIsIndexed'
    BY <1>2, <2>2 DEF DoneIsIndexed, Done, Active
  <2>5. ReadIsCurrent'
    <3>1. \A g \in Rebuilding : rebuild'[g].at \notin {"read", "write"}
      BY <1>2, <2>1, Places, Zenon
    <3>2. scan'.old = index'[scan'.name]
      BY <1>2, <1>3
    <3>3. QED BY <3>1, <3>2, Zenon DEF ReadIsCurrent
  <2>6. QED BY <2>1, <2>3, <2>4, <2>5
<1>6. ASSUME last' = "emptied" PROVE IndexIsListed'
  <2>1. last = "emptied"
    <3>1. "disturbed" # "emptied"
      BY SMT
    <3>2. QED BY <1>5, <1>6, <3>1
  <2>2. IndexIsListed
    BY <2>1 DEF IndexInv
  <2>3. QED BY <1>2, <2>2 DEF IndexIsListed, IsListed
<1>7. QED BY <1>4, <1>5, <1>6 DEF IndexInv

\* What the service said is stored beside the categories of the lists.
LEMMA StoreScanKeeps ==
    ASSUME IndexInv, StoreScan PROVE IndexInv'
<1> DEFINE name == scan.name
           old == scan.old
           new == [old EXCEPT !.domscan = @ \cup scan.categories]
<1>1. scan # NoScan /\ index' = [index EXCEPT ![name] = new] /\ scan' = NoScan /\ UNCHANGED <<rules, rebuild, last>>
  BY Zenon DEF StoreScan
<1>2. name \in Host /\ old \in HostRule /\ scan.categories \in SUBSET Found
  <2>1. scan \in Scan
    BY <1>1 DEF IndexInv, IndexTypeOK
  <2>2. QED BY <2>1, SMT DEF Scan
<1>3. new \in HostRule /\ new.wild = old.wild /\ new.exact = old.exact
  <2> DEFINE found == scan.categories
  <2> HIDE DEF old, found
  <2>1. found \in SUBSET Found
    BY <1>2 DEF found
  <2>2. new = [old EXCEPT !.domscan = @ \cup found]
    BY DEF found
  <2> HIDE DEF new
  <2>3. new \in HostRule
    BY <1>2, <2>1, <2>2, SMT DEF HostRule
  <2>4. new.wild = old.wild /\ new.exact = old.exact
    BY <1>2, <2>2, SMT DEF HostRule
  <2>5. QED BY <2>3, <2>4
<1> HIDE DEF new
<1>4. IndexTypeOK /\ \A h \in Host : index'[h] = IF h = name THEN new ELSE index[h]
  <2> HIDE DEF name
  <2>1. QED BY <1>1, Zenon DEF IndexInv, IndexTypeOK
<1>5. index' \in [Host -> HostRule]
  <2> HIDE DEF name
  <2>1. QED BY <1>1, <1>3, <1>4, Zenon DEF IndexTypeOK
<1>6. IndexTypeOK'
  BY <1>1, <1>4, <1>5, Zenon DEF IndexTypeOK
<1>7. ASSUME last # "disturbed"
      PROVE  /\ OneRebuild /\ DoneIsIndexed /\ \A g \in Rebuilding : rebuild[g] = NotRebuilding
             /\ \A h \in Host : index'[h].wild = index[h].wild /\ index'[h].exact = index[h].exact
  <2>1. OneRebuild /\ DoneIsIndexed /\ ReadIsCurrent
    BY <1>7 DEF IndexInv
  <2>2. \A g \in Rebuilding : rebuild[g] = NotRebuilding
    BY <1>1, <2>1, Zenon DEF OneRebuild, Active
  <2>3. old = index[name]
    BY <1>1, <2>1 DEF ReadIsCurrent
  <2>4. \A h \in Host : index'[h].wild = index[h].wild /\ index'[h].exact = index[h].exact
    BY <1>3, <1>4, <2>3, Zenon
  <2>5. QED BY <2>1, <2>2, <2>4
<1>8. ASSUME last # "disturbed" PROVE OneRebuild' /\ DoneIsIndexed' /\ ReadIsCurrent'
  <2>1. OneRebuild'
    BY <1>1, <1>7, <1>8, Zenon DEF OneRebuild, Active
  <2>2. ASSUME NEW set \in 1..Len(RuleSet), NEW i \in 1..Len(rules[set])
        PROVE  Has(index'[rules[set][i].host], rules[set][i], RuleSet[set])
    <3>1. rules[set][i].host \in Host
      BY <1>4, RulesType, RuleFields, Zenon
    <3>2. Done(set, i)
      BY <1>7, <1>8, Zenon DEF Done, Active
    <3>3. Has(index[rules[set][i].host], rules[set][i], RuleSet[set])
      BY <1>7, <1>8, <3>2, Zenon DEF DoneIsIndexed
    <3>4. QED BY <1>7, <1>8, <3>1, <3>3, Zenon DEF Has
  <2>3. DoneIsIndexed'
    BY <1>1, <2>2, Zenon DEF DoneIsIndexed
  <2>4. ReadIsCurrent'
    <3>1. \A g \in Rebuilding : rebuild'[g].at \notin {"read", "write"}
      BY <1>1, <1>7, <1>8, Places, Zenon
    <3>2. QED BY <1>1, <3>1, Zenon DEF ReadIsCurrent
  <2>5. QED BY <2>1, <2>3, <2>4
<1>9. ASSUME last = "emptied" PROVE IndexIsListed'
  <2>1. last # "disturbed" /\ IndexIsListed
    <3>1. last # "disturbed"
      BY <1>9, SMT
    <3>2. QED BY <1>9, <3>1 DEF IndexInv
  <2>2. \A h \in Host : index'[h].wild = index[h].wild /\ index'[h].exact = index[h].exact
    BY <1>7, <2>1
  <2>3. \A h \in Host : /\ \A category \in index'[h].wild : IsListed(h, TRUE, category)
                        /\ \A category \in index'[h].exact : IsListed(h, FALSE, category)
    BY <2>1, <2>2, Zenon DEF IndexIsListed
  <2>4. rules' = rules
    BY <1>1
  <2>5. QED BY <2>3, <2>4 DEF IndexIsListed, IsListed
<1>10. QED BY <1>1, <1>6, <1>8, <1>9 DEF IndexInv

LEMMA RulesStart == ASSUME RuleInit PROVE IndexInv
<1>1. /\ rules \in [1..Len(RuleSet) -> Source] /\ index = [h \in Host |-> NoRule]
      /\ rebuild = [g \in Rebuilding |-> NotRebuilding] /\ scan = NoScan /\ last = "disturbed"
  BY DEF RuleInit
<1>2. index \in [Host -> HostRule]
  BY <1>1, NoRuleIsEmpty, Zenon
<1>3. DOMAIN rebuild = Rebuilding /\ \A g \in Rebuilding : RebuildOK(rebuild[g])
  BY <1>1, Zenon DEF RebuildOK
<1>4. "disturbed" # "emptied"
  BY SMT
<1>5. QED BY <1>1, <1>2, <1>3, <1>4, Zenon DEF IndexInv, IndexTypeOK

LEMMA IndexAlways == RuleSpec => []IndexInv
<1>1. RuleInit => IndexInv
  BY RulesStart
<1>2. IndexInv /\ [RuleNext]_ruleVars => IndexInv'
  <2> SUFFICES ASSUME IndexInv, [RuleNext]_ruleVars PROVE IndexInv'
    OBVIOUS
  <2>1. CASE UNCHANGED ruleVars
    <3>1. UNCHANGED <<rules, index, rebuild, scan, last>>
      BY <2>1 DEF ruleVars
    <3>2. IndexTypeOK'
      BY <3>1 DEF IndexInv, IndexTypeOK
    <3>3. last # "disturbed" => OneRebuild' /\ DoneIsIndexed' /\ ReadIsCurrent'
      BY <3>1 DEF IndexInv, OneRebuild, DoneIsIndexed, ReadIsCurrent, Done, Active
    <3>4. last = "emptied" => IndexIsListed'
      BY <3>1 DEF IndexInv, IndexIsListed, IsListed
    <3>5. QED BY <3>1, <3>2, <3>3, <3>4 DEF IndexInv
  <2>2. CASE RuleNext
    BY <2>2, UpdateRuleSetKeeps, ReIndexKeeps, ReadListKeeps, ReadRuleKeeps, SetDnsHostRuleKeeps, DomScanKeeps,
       StoreScanKeeps, Zenon DEF RuleNext
  <2>3. QED BY <2>1, <2>2
<1>3. QED BY <1>1, <1>2, PTL DEF RuleSpec

LEMMA MatchesOfHost ==
    ASSUME NEW name \in Host, NEW category
    PROVE  category \in Matches(name)
             <=> \/ \E end \in Ends(name) : category \in index[end].wild
                 \/ category \in index[name].exact
                 \/ category \in index[name].domscan
<1> DEFINE wild == UNION {index[end].wild : end \in Ends(name)}
           rest == index[name].exact \cup index[name].domscan
<1>1. Matches(name) = wild \cup rest
  BY Zenon DEF Matches
<1>2. category \in wild <=> \E end \in Ends(name) : category \in index[end].wild
  BY Zenon
<1>3. category \in rest <=> category \in index[name].exact \/ category \in index[name].domscan
  OBVIOUS
<1> HIDE DEF wild, rest
<1>4. QED BY <1>1, <1>2, <1>3, SMT

\* What a list says of a name, the index says after a rebuild that was alone: each rule
\* has been done, and nothing that came after it took its category away again, whatever
\* was left of the old index (DnsRulesEngine.go:1416-1459).
THEOREM RebuildMissesNothing == RuleSpec => []NothingMissed
<1>1. ASSUME IndexInv PROVE NothingMissed
  <2> SUFFICES ASSUME last # "disturbed", Alone, NEW name \in Host, NEW category \in ListedAs(name)
               PROVE  category \in Matches(name)
    BY Zenon DEF NothingMissed
  <2>1. PICK set \in 1..Len(RuleSet) : /\ RuleSet[set] = category
                                       /\ \E i \in DOMAIN rules[set] :
                                             LET rule == rules[set][i]
                                             IN  \/ ~ rule.wildcard /\ rule.host = name
                                                 \/ rule.wildcard /\ rule.host \in Ends(name)
    BY Zenon DEF ListedAs
  <2>2. PICK i \in DOMAIN rules[set] : LET rule == rules[set][i]
                                       IN  \/ ~ rule.wildcard /\ rule.host = name
                                           \/ rule.wildcard /\ rule.host \in Ends(name)
    BY <2>1, Zenon
  <2> DEFINE rule == rules[set][i]
  <2>3. i \in 1..Len(rules[set])
    <3>1. rules[set] \in Seq(Rule)
      BY <1>1, RulesType, Zenon DEF IndexInv
    <3>2. QED BY <3>1, LenProperties, Zenon
  <2>4. Done(set, i)
    BY Zenon DEF Done, Active, Alone
  <2>5. Has(index[rule.host], rule, category)
    BY <1>1, <2>1, <2>3, <2>4, Zenon DEF IndexInv, DoneIsIndexed
  <2> HIDE DEF rule
  <2>6. CASE rule.wildcard
    <3>1. rule.host \in Ends(name) /\ category \in index[rule.host].wild
      BY <2>2, <2>5, <2>6, Zenon DEF Has, rule
    <3>2. QED BY <3>1, MatchesOfHost, Zenon
  <2>7. CASE ~ rule.wildcard
    <3>1. rule.host = name /\ category \in index[rule.host].exact
      BY <2>2, <2>5, <2>7, Zenon DEF Has, rule
    <3>2. QED BY <3>1, MatchesOfHost, Zenon
  <2>8. QED BY <2>6, <2>7
<1>2. QED BY <1>1, IndexAlways, PTL

\* And when the rebuild began with an empty index, whatever categories of the lists the
\* index has for a name, a list of today has them (db.go:861-887).
THEOREM EmptiedIsNotStale == RuleSpec => []NothingStale
<1>1. ASSUME IndexInv PROVE NothingStale
  <2> SUFFICES ASSUME last = "emptied", NEW name \in Host, NEW category \in Matches(name), category \in Listed
               PROVE  category \in ListedAs(name)
    BY Zenon DEF NothingStale
  <2>1. IndexIsListed /\ IndexTypeOK
    BY <1>1 DEF IndexInv
  <2>2. \/ \E end \in Ends(name) : category \in index[end].wild
        \/ category \in index[name].exact
        \/ category \in index[name].domscan
    BY MatchesOfHost, Zenon
  <2>3. category \notin index[name].domscan
    <3>1. index[name] \in HostRule
      BY <2>1, Zenon DEF IndexTypeOK
    <3>2. index[name].domscan \in SUBSET Found
      BY <3>1, HostRuleFields, Zenon
    <3>3. QED BY <3>2, RuleAssumption, Zenon
  <2>4. \A set \in 1..Len(RuleSet) : DOMAIN rules[set] = 1..Len(rules[set])
    BY <2>1, RulesType, LenProperties, Zenon
  <2>5. ASSUME NEW host \in Host, NEW wildcard \in BOOLEAN, IsListed(host, wildcard, category),
               \/ wildcard /\ host \in Ends(name)
               \/ ~ wildcard /\ host = name
        PROVE  category \in ListedAs(name)
    <3>1. PICK set \in 1..Len(RuleSet) : \E i \in 1..Len(rules[set]) :
             /\ RuleSet[set] = category
             /\ rules[set][i].host = host
             /\ rules[set][i].wildcard <=> wildcard
      BY <2>5, Zenon DEF IsListed
    <3>2. PICK i \in 1..Len(rules[set]) :
             /\ RuleSet[set] = category
             /\ rules[set][i].host = host
             /\ rules[set][i].wildcard <=> wildcard
      BY <3>1
    <3>3. i \in DOMAIN rules[set]
      BY <2>4
    <3>4. \E k \in DOMAIN rules[set] : LET rule == rules[set][k]
                                       IN  \/ ~ rule.wildcard /\ rule.host = name
                                           \/ rule.wildcard /\ rule.host \in Ends(name)
      BY <2>5, <3>2, <3>3, Zenon
    <3>5. QED BY <3>2, <3>4, Zenon DEF ListedAs
  <2>6. CASE \E end \in Ends(name) : category \in index[end].wild
    <3>1. PICK end \in Ends(name) : category \in index[end].wild
      BY <2>6
    <3>2. end \in Host
      BY DEF Ends
    <3>3. IsListed(end, TRUE, category)
      BY <2>1, <3>1, <3>2, Zenon DEF IndexIsListed
    <3>4. QED BY <2>5, <3>2, <3>3, Zenon
  <2>7. CASE category \in index[name].exact
    <3>1. IsListed(name, FALSE, category)
      BY <2>1, <2>7, Zenon DEF IndexIsListed
    <3>2. QED BY <2>5, <3>1, Zenon
  <2>8. QED BY <2>2, <2>3, <2>6, <2>7
<1>2. QED BY <1>1, IndexAlways, PTL

================================================================================

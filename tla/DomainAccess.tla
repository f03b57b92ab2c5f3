----------------------------- MODULE DomainAccess ------------------------------
(***************************************************************************)
(* Which names a client may resolve, and when: the schedule of a role picks *)
(* the access profile, the profile's lists decide on the name.              *)
(***************************************************************************)
EXTENDS Integers, Sequences

CONSTANTS
    Hostname,      \* names in questions, as sequences of characters
    ProfileName,   \* the access profiles
    Lists,         \* their AllowedDomains and BlockedDomains
    RoleSchedule,  \* the schedules a role may have, as sequences of entries
    Minute         \* minutes of the day at which somebody asks

DayLength == 24 * 60
Weekday == 0..6
NoName == "no profile"  \* the empty name, and the nil pointer

ScheduleEntry == [days : SUBSET Weekday, from : 0..DayLength - 1, to : 0..DayLength - 1,
                  profile : ProfileName]

ASSUME AccessAssumption ==
    /\ NoName \notin ProfileName
    /\ Minute \subseteq 0..DayLength - 1 /\ Minute # {}
    /\ DOMAIN Lists = ProfileName
    /\ RoleSchedule \subseteq Seq(ScheduleEntry)
    /\ Hostname \subseteq Seq(STRING)
    /\ \A profile \in ProfileName :
          Lists[profile].allowed \subseteq Seq(STRING) /\ Lists[profile].blocked \subseteq Seq(STRING)

Allow == "AccessAllowed"
BlockedRule == "AccessBlockedRule"
BlockedNotAuthenticated == "AccessBlockedNotAuthenticated"

VARIABLES
    clock,     \* weekday and minute
    schedule,  \* Access.Schedule of the client's role
    question,  \* a client's session and the row of its question
    verdict    \* the reason code, or none before it is decided

accessVars == <<clock, schedule, question, verdict>>

--------------------------------------------------------------------------------
(* The schedule *)

\* Broken: after midnight the window belongs to the day that has begun.
ActiveOnTheDay(entry, weekday, minute) ==
    IF entry.from <= entry.to
    THEN weekday \in entry.days /\ entry.from <= minute /\ minute <= entry.to
    ELSE (minute >= entry.from \/ minute <= entry.to) /\ weekday \in entry.days

IsScheduleActive(entry, weekday, minute) ==
    IF entry.from <= entry.to
    THEN weekday \in entry.days /\ entry.from <= minute /\ minute <= entry.to
    ELSE \/ minute >= entry.from /\ weekday \in entry.days
         \/ minute < entry.from /\ minute <= entry.to /\ (weekday + 6) % 7 \in entry.days

ActiveEntries(role, weekday, minute) ==
    {i \in DOMAIN role : IsScheduleActive(role[i], weekday, minute)}

GetActiveAccessProfiles(role, weekday, minute) ==
    {role[i].profile : i \in ActiveEntries(role, weekday, minute)}

First(numbers) == CHOOSE m \in numbers : \A n \in numbers : m <= n

\* The session's profile, or else the user's, or else the first one active.
AccessProfile(q, role, weekday, minute) ==
    LET active == GetActiveAccessProfiles(role, weekday, minute)
    IN  CASE q.sessionProfile \in active -> q.sessionProfile
          [] q.sessionProfile \notin active /\ q.userProfile \in active -> q.userProfile
          [] active = {} -> NoName
          [] OTHER -> role[First(ActiveEntries(role, weekday, minute))].profile

--------------------------------------------------------------------------------
(* The names *)

Dot == "."

ToLower(name) ==
    [i \in DOMAIN name |-> CASE name[i] = "A" -> "a" [] name[i] = "B" -> "b" [] OTHER -> name[i]]

\* All the dots at the end are cut off.
TrimRight(name) ==
    LET kept == {n \in 0..Len(name) : \A i \in n + 1..Len(name) : name[i] = Dot}
    IN  SubSeq(name, 1, CHOOSE n \in kept : \A k \in kept : n <= k)

\* name[n:]
From(name, n) == SubSeq(name, n + 1, Len(name))

\* The rest of the name is taken from the length of the domain on, and not from
\* that many characters before its end.
IsAllowed(name, domain) ==
    name = domain \/ (Len(name) > Len(domain) /\ From(name, Len(domain)) = domain)

\* Broken: any name that ends like the domain.
IsBlockedByEnding(name, domain) ==
    \/ name = domain
    \/ Len(name) > Len(domain) /\ From(name, Len(name) - Len(domain)) = domain

IsBlocked(name, domain) ==
    \/ name = domain
    \/ /\ Len(name) > Len(domain)
       /\ From(name, Len(name) - Len(domain) - 1) = <<Dot>> \o domain

\* Without a profile the verdict written to the row is not the one returned.
VerifyDomainAccess(q, profile) ==
    LET name == ToLower(TrimRight(q.hostname))
    IN  IF q.isLocal \/ q.rejectReason # Allow \/ profile = NoName
        THEN q.rejectReason
        ELSE LET allowed == Lists[profile].allowed
                 blocked == Lists[profile].blocked
             IN  IF allowed # {}
                 THEN IF \E domain \in allowed : IsAllowed(name, domain) THEN Allow ELSE BlockedRule
                 ELSE IF \E domain \in blocked : IsBlocked(name, domain) THEN BlockedRule ELSE Allow

--------------------------------------------------------------------------------
(* A clock, and the questions a client may have at any time *)

Questions ==
    [isLocal : BOOLEAN, hostname : Hostname, rejectReason : {Allow, BlockedNotAuthenticated},
     sessionProfile : ProfileName \cup {NoName}, userProfile : ProfileName \cup {NoName}]

AccessInit ==
    /\ clock \in [weekday : Weekday, minute : Minute]
    /\ schedule \in RoleSchedule
    /\ question \in Questions
    /\ verdict = "none"

Verify ==
    /\ verdict = "none"
    /\ verdict' = VerifyDomainAccess(question,
                    AccessProfile(question, schedule, clock.weekday, clock.minute))
    /\ UNCHANGED <<clock, schedule, question>>

\* Time goes on, and the client asks again.
Tick ==
    /\ LET later == {m \in Minute : m > clock.minute}
       IN  clock' = IF later # {}
                    THEN [clock EXCEPT !.minute = First(later)]
                    ELSE [weekday |-> (clock.weekday + 1) % 7, minute |-> First(Minute)]
    /\ verdict' = "none"
    /\ UNCHANGED <<schedule, question>>

AccessNext == Verify \/ Tick

AccessSpec == AccessInit /\ [][AccessNext]_accessVars

--------------------------------------------------------------------------------
(* What a schedule and a list mean *)

\* The minutes of the week from the day's from on to the to that follows: the next
\* day's when it is earlier than from.  One minute if they are the same.
Covers(day, from, to, weekday, minute) ==
    LET begin == day * DayLength + from
        end   == day * DayLength + to + (IF from <= to THEN 0 ELSE DayLength)
        now   == weekday * DayLength + minute
    IN  \/ begin <= now /\ now <= end
        \/ begin <= now + 7 * DayLength /\ now + 7 * DayLength <= end

InWindow(entry, weekday, minute) ==
    \E day \in entry.days : Covers(day, entry.from, entry.to, weekday, minute)

\* The domain itself or a name below it.
Below(name, domain) ==
    \E n \in 0..Len(name) : (n = 0 \/ name[n] = Dot) /\ From(name, n) = domain

\* A verdict that lets a question pass through a profile: the profile is one whose
\* window the time is in, on the night that began the day before too, and no
\* blocked domain is at or above the name (security.go:234-246, 296-325, 402-440).
PassesInItsWindow ==
    verdict = Allow /\ ~ question.isLocal =>
        LET inWindow == {i \in DOMAIN schedule : InWindow(schedule[i], clock.weekday, clock.minute)}
            name     == ToLower(TrimRight(question.hostname))
        IN  \/ inWindow = {}
            \/ \E i \in inWindow :
                  LET lists == Lists[schedule[i].profile]
                  IN  \/ /\ lists.allowed = {}
                         /\ \A domain \in lists.blocked : ~ Below(name, domain)
                      \/ \E domain \in lists.allowed :
                            Len(domain) <= Len(name) /\ From(name, Len(name) - Len(domain)) = domain

\* A name is refused by a profile without AllowedDomains only when one of its
\* BlockedDomains is at or above it (security.go:423-434).
RefusesOnlyListed ==
    verdict = BlockedRule =>
        \E i \in DOMAIN schedule :
            LET lists == Lists[schedule[i].profile]
                name  == ToLower(TrimRight(question.hostname))
            IN  /\ InWindow(schedule[i], clock.weekday, clock.minute)
                /\ \/ lists.allowed # {} /\ name \notin lists.allowed
                   \/ \E domain \in lists.blocked : Below(name, domain)

=============================================================================

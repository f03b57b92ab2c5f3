------------------------------- MODULE RuleIndex -------------------------------
(***************************************************************************)
(* The DNS rules engine: the lists of the rule sets, the index of the names *)
(* on them, its rebuilding and the evaluation of a name against it.         *)
(***************************************************************************)
EXTENDS Integers, Sequences, FiniteSets

CONSTANTS
    RuleSet,         \* the rule sets, in the order of their keys
    Listed,          \* the categories of the rule sets
    Found,           \* categories that only the external service names
    Host,            \* names, as sequences of labels
    EnabledSets,     \* the rule sets that are enabled, by their place in the order
    Source,          \* the lists a source may answer with: sequences of rules
    Rebuilding,      \* goroutines that rebuild the index
    PrefetchSize,    \* keys the iterator of the database holds at a time, 100
    MaxChanges       \* bound: updates of lists and answers of the service

Rule == [host : Host, wildcard : BOOLEAN]

ASSUME RuleAssumption ==
    /\ \A h \in Host : h # <<>>
    /\ Listed \cap Found = {}
    /\ RuleSet \in Seq(Listed) /\ EnabledSets \subseteq 1..Len(RuleSet)
    /\ Source \subseteq Seq(Rule)
    /\ PrefetchSize \in Nat /\ MaxChanges \in Nat

\* A record dnsrule:<name>; one without categories stands for no record.
HostRule == [exact : SUBSET Listed, wild : SUBSET Listed, domscan : SUBSET Found]
NoRule == [exact |-> {}, wild |-> {}, domscan |-> {}]

VARIABLES
    rules,    \* the records dnsrules:<id>
    index,    \* the records dnsrule:<name>
    rebuild,  \* where each goroutine is: rule set, rule, the list it goes through
              \*   and the record it read
    scan,     \* the evaluation that has an answer of the service to store
    changes,  \* bound: changes so far
    last      \* history: whether the last rebuild began with an empty index and
              \*   nothing disturbed it since

ruleVars == <<rules, index, rebuild, scan, changes, last>>

NoScan == [name |-> <<>>, old |-> NoRule, categories |-> {}]

NotRebuilding == [at |-> "none"]

Listing(set) == [at |-> "list", set |-> set, rule |-> 1]

At(list, set, rule) == [at |-> "read", set |-> set, rule |-> rule, list |-> list]

Records == {h \in Host : index[h] # NoRule}

--------------------------------------------------------------------------------
RuleInit ==
    /\ rules \in [1..Len(RuleSet) -> Source]
    /\ index = [h \in Host |-> NoRule]
    /\ rebuild = [g \in Rebuilding |-> NotRebuilding]
    /\ scan = NoScan
    /\ changes = 0
    /\ last = "disturbed"

Alone == scan = NoScan /\ \A g \in Rebuilding : rebuild[g] = NotRebuilding

\* An administrator fetches a list again. A rule set that is not enabled is not.
UpdateRuleSet ==
    /\ changes < MaxChanges
    /\ \E set \in EnabledSets, list \in Source : rules' = [rules EXCEPT ![set] = list]
    /\ changes' = changes + 1
    /\ last' = "disturbed"
    /\ UNCHANGED <<index, rebuild, scan>>

\* The keys are deleted while they are iterated over, and a key is valid only
\* until the iterator uses its memory again: of more than PrefetchSize keys so
\* many go at most, and nobody looks at the errors.
ClearDnsHostRules(records) ==
    IF Cardinality(records) <= PrefetchSize
    THEN {records}
    ELSE {gone \in SUBSET records : Cardinality(gone) <= PrefetchSize}

ReIndex(g) ==
    /\ rebuild[g] = NotRebuilding
    /\ \E gone \in ClearDnsHostRules(Records) :
          index' = [h \in Host |-> IF h \in gone THEN NoRule ELSE index[h]]
    /\ rebuild' = [rebuild EXCEPT ![g] = Listing(1)]
    /\ last' = IF ~ Alone THEN "disturbed"
               ELSE IF index' = [h \in Host |-> NoRule] THEN "emptied" ELSE "partial"
    /\ UNCHANGED <<rules, scan, changes>>

\* The list of the next rule set, enabled or not, is taken once.
ReadList(g) ==
    LET at == rebuild[g]
    IN  /\ at.at = "list"
        /\ rebuild' = [rebuild EXCEPT ![g] =
                         IF at.set > Len(RuleSet) THEN NotRebuilding
                         ELSE At(rules[at.set], at.set, 1)]
        /\ UNCHANGED <<rules, index, scan, changes, last>>

\* The record of the next rule's name.
ReadRule(g) ==
    LET at == rebuild[g]
        rule == at.list[at.rule]
    IN  /\ at.at = "read"
        /\ rebuild' = [rebuild EXCEPT ![g] =
                         IF at.rule > Len(at.list) THEN Listing(at.set + 1)
                         ELSE [at |-> "write", set |-> at.set, rule |-> at.rule,
                               list |-> at.list, new |-> rule, old |-> index[rule.host]]]
        /\ UNCHANGED <<rules, index, scan, changes, last>>

\* Broken: the record of a name that is listed again begins anew.
Replaced(old, rule, category) ==
    IF rule.wildcard
    THEN [NoRule EXCEPT !.wild = {category}]
    ELSE [NoRule EXCEPT !.exact = {category}]

\* The record that was read, with the category of the rule set.
Added(old, rule, category) ==
    IF rule.wildcard
    THEN [old EXCEPT !.wild = @ \cup {category}]
    ELSE [old EXCEPT !.exact = @ \cup {category}]

SetDnsHostRule(g) ==
    LET at  == rebuild[g]
        new == Added(at.old, at.new, RuleSet[at.set])
    IN  /\ at.at = "write"
        /\ index' = IF new = at.old THEN index ELSE [index EXCEPT ![at.new.host] = new]
        /\ rebuild' = [rebuild EXCEPT ![g] = At(at.list, at.set, at.rule + 1)]
        /\ UNCHANGED <<rules, scan, changes, last>>

--------------------------------------------------------------------------------
(* Evaluation *)

\* The ends of a name that are whole labels.
Ends(name) == {SubSeq(name, i, Len(name)) : i \in 1..Len(name)} \cap Host

\* Broken: the exact categories of every end.
MatchesAnyEnd(name) ==
    (UNION {index[end].wild \cup index[end].exact : end \in Ends(name)})
      \cup (IF name \in Host THEN index[name].domscan ELSE {})

\* Wildcards of every end, the other categories of the whole name only.
Matches(name) ==
    (UNION {index[end].wild : end \in Ends(name)})
      \cup (IF name \in Host THEN index[name].exact \cup index[name].domscan ELSE {})

\* The service is asked when the record has no categories of its. Its answer is
\* added to the record as it was read after the answer came.
DomScan ==
    /\ changes < MaxChanges /\ scan = NoScan
    /\ \E name \in Host, categories \in (SUBSET Found) \ {{}} :
          /\ index[name].domscan = {}
          /\ scan' = [name |-> name, old |-> index[name], categories |-> categories]
    /\ changes' = changes + 1
    /\ last' = IF Alone THEN last ELSE "disturbed"
    /\ UNCHANGED <<rules, index, rebuild>>

StoreScan ==
    /\ scan # NoScan
    /\ index' = [index EXCEPT ![scan.name] =
                   [scan.old EXCEPT !.domscan = @ \cup scan.categories]]
    /\ scan' = NoScan
    /\ UNCHANGED <<rules, rebuild, changes, last>>

RuleNext ==
    \/ UpdateRuleSet
    \/ \E g \in Rebuilding : ReIndex(g) \/ ReadList(g) \/ ReadRule(g) \/ SetDnsHostRule(g)
    \/ DomScan
    \/ StoreScan

RuleSpec == RuleInit /\ [][RuleNext]_ruleVars

--------------------------------------------------------------------------------
\* What the lists say of a name.
ListedAs(name) ==
    {RuleSet[set] : set \in
        {s \in 1..Len(RuleSet) : \E i \in DOMAIN rules[s] :
            LET rule == rules[s][i]
            IN  \/ ~ rule.wildcard /\ rule.host = name
                \/ rule.wildcard /\ rule.host \in Ends(name)}}

\* A rebuild that nothing disturbed leaves no listed category out, however many
\* records were there when it began (DnsRulesEngine.go:1416-1459).
NothingMissed ==
    last # "disturbed" /\ Alone => \A name \in Host : ListedAs(name) \subseteq Matches(name)

\* And it leaves none of the old lists behind, when the iterator had all the old
\* records in its hands at once (db.go:861-887).
NothingStale ==
    last = "emptied" /\ Alone => \A name \in Host : Matches(name) \cap Listed \subseteq ListedAs(name)

=============================================================================

------------------------------ MODULE MCForwarding ------------------------------
(***************************************************************************)
(* Forwarding on small instances.  Nothing ends an environment that asks,  *)
(* logs out and waits for ever, so a run gives it Fuel events; the steps   *)
(* of the goroutines and the ticker cost none.                             *)
(***************************************************************************)
EXTENDS AccessInvariant

CONSTANTS c1, h1, h2, t1, t2, t3,   \* a client, hosts, their addresses
          Fuel                      \* bound: events of the environment

VARIABLE fuel

Allow == [profile |-> TRUE, verdict |-> [host \in Host |-> AccessAllowed]]
LoggedOut == [profile |-> TRUE,
              verdict |-> [host \in Host |-> AccessBlockedNotAuthenticated]]
NoProfile == [profile |-> FALSE, verdict |-> [host \in Host |-> AccessAllowed]]
Filtered == [profile |-> TRUE, verdict |->
               [host \in Host |-> IF host = h1 THEN AccessBlockedRule
                                  ELSE AccessAllowed]]

AllowOnly == {Allow}
AllowOrOut == {Allow, LoggedOut}
AllPolicies == {Allow, LoggedOut, NoProfile, Filtered}

\* One address per host; h1 at one of two; h1 without an address now and then.
Steady == [host \in Host |-> IF host = h1 THEN {{t1}} ELSE {{t2}}]
Moving == [host \in Host |-> IF host = h1 THEN {{t1}, {t3}} ELSE {{t2}}]
Rotating == [host \in Host |-> IF host = h1 THEN {{t1, t3}, {t3}, {}} ELSE {{t2}}]

\* The client's own address is none of the pool, or the second one of the pool.
Elsewhere == [client \in Client |-> NoIP]
InThePool == [client \in Client |-> IP4fromOffset(1)]

-----------------------------------------------------------------------------

Outside ==
    \/ \E w \in Worker : Requests(w)
    \/ \E fw \in Firewall : StartSwitch(fw)
    \/ Restart
    \/ Time

Inside ==
    \/ \E w \in Worker : Serve(w)
    \/ Review
    \/ Switch

MCInit == Init /\ fuel = Fuel

MCNext ==
    \/ Outside /\ fuel > 0 /\ fuel' = fuel - 1
    \/ Inside /\ UNCHANGED fuel

MCVars == <<vars, fuel>>

MCSpec == MCInit /\ [][MCNext]_MCVars

MCFairSpec ==
    /\ MCSpec
    /\ WF_MCVars(Review /\ UNCHANGED fuel)
    /\ WF_MCVars(Switch /\ UNCHANGED fuel)
    /\ \A w \in Worker : WF_MCVars(Serve(w) /\ UNCHANGED fuel)

=============================================================================

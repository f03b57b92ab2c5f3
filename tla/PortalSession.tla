----------------------------- MODULE PortalSession -----------------------------
(***************************************************************************)
(* The portal sessions: who may use the network from an address.           *)
(* GetSessionInfo, SetSession, ForceLogout and SetAccessProfile each read,  *)
(* delete and create the session in transactions of their own, and every    *)
(* DNS query and portal request runs in a goroutine of its own.             *)
(***************************************************************************)
EXTENDS Naturals, FiniteSets

CONSTANTS
    Client,   \* addresses of clients
    User,     \* names of users
    Enabled,  \* users that are enabled and have a role
    Serving,  \* goroutines that serve requests
    Nobody    \* the empty user name

Allowed == "AccessAllowed"
NotAuthenticated == "AccessBlockedNotAuthenticated"
Unauthorised == "AccessBlockedUnauthorised"

Modes == {"ModeAllow", "ModeCaptive", "ModeBlock"}

ASSUME PortalAssumption ==
    Enabled \subseteq User /\ Nobody \notin User

\* AccessProfile, IP and MacAddress decide nothing here.
Session == [user : User \cup {Nobody}, reason : {Allowed, NotAuthenticated, Unauthorised}]
Blocked == [user |-> Nobody, reason |-> NotAuthenticated]
NoSession == [user |-> Nobody, reason |-> "none"]

Operations == {"request", "open", "fallback", "login", "logout", "profile"}

\* What a goroutine does: the operation, the next transaction and the session it
\* is about to write.
Serve == [op : Operations, at : {"get", "test", "delete", "create"},
          client : Client, session : Session]
Idle == [op |-> "none"]

VARIABLES
    mode,           \* the setting Mode, the same in a behaviour
    orderly,        \* the clients that wait for an answer before the next request
    portalSession,  \* the records session:<IP>
    serve,          \* what each goroutine is doing
    earned,         \* history: who logged in at the client or has a device there
    wish            \* history: the login or logout a client asked for last

portalVars == <<mode, orderly, portalSession, serve, earned, wish>>

NoWish == [user |-> Nobody, reason |-> "no wish"]

PortalTypeOK ==
    /\ mode \in Modes
    /\ orderly \subseteq Client
    /\ portalSession \in [Client -> Session \cup {NoSession}]
    /\ serve \in [Serving -> Serve \cup {Idle}]
    /\ earned \in [Client -> SUBSET User]
    /\ wish \in [Client -> Session \cup {NoWish}]

PortalInit ==
    /\ mode \in Modes
    /\ orderly \in SUBSET Client
    /\ portalSession = [c \in Client |-> NoSession]
    /\ serve = [w \in Serving |-> Idle]
    /\ earned = [c \in Client |-> {}]
    /\ wish = [c \in Client |-> NoWish]

--------------------------------------------------------------------------------
Serves(w, c) == serve[w] # Idle /\ serve[w].client = c

\* What GetSessionInfo decides when there is no session.
RejectReason == CASE mode = "ModeAllow"   -> Allowed
                  [] mode = "ModeCaptive" -> NotAuthenticated
                  [] mode = "ModeBlock"   -> Unauthorised

\* Two transactions on one key at once: the second to commit fails.
MayConflict(w) == \E other \in Serving \ {w} : Serves(other, serve[w].client)

Becomes(w, job) == serve' = [serve EXCEPT ![w] = job]

Step(w, at) == Becomes(w, [serve[w] EXCEPT !.at = at])

\* The portal reevaluates the client's rows after a login, a logout and a change
\* of profile, and asks for the session again.
Finish(w) ==
    IF serve[w].op \in {"login", "logout", "profile"}
    THEN Becomes(w, [serve[w] EXCEPT !.op = "request", !.at = "get"])
    ELSE Becomes(w, Idle)

\* SetSession returns nil: GetSessionInfo goes on as if there were no session, and
\* stores what the mode says, unless the role of the user is missing.
Fail(w) ==
    IF serve[w].op = "open"
    THEN \/ Becomes(w, [serve[w] EXCEPT !.op = "fallback", !.at = "test",
                                        !.session.reason = RejectReason])
         \/ Becomes(w, Idle)
    ELSE Finish(w)

Doing(w, ops, at) == serve[w] # Idle /\ serve[w].op \in ops /\ serve[w].at = at

--------------------------------------------------------------------------------
(* Requests *)

Arrive(w, c, op, at, session) ==
    /\ serve[w] = Idle
    /\ c \in orderly => \A other \in Serving : ~ Serves(other, c)
    /\ Becomes(w, [op |-> op, at |-> at, client |-> c, session |-> session])
    /\ UNCHANGED portalSession

Request(w) ==
    /\ \E c \in Client, op \in {"request", "profile"} : Arrive(w, c, op, "get", Blocked)
    /\ UNCHANGED <<earned, wish>>

\* The password was right: SetSession, whether the user is enabled or not.
Login(w) ==
    \E c \in Client, u \in User :
        LET session == [user |-> u, reason |-> Allowed]
        IN  /\ Arrive(w, c, "login", "test", session)
            /\ earned' = [earned EXCEPT ![c] = @ \cup {u}]
            /\ wish' = [wish EXCEPT ![c] = session]

Logout(w) ==
    \E c \in Client :
        /\ Arrive(w, c, "logout", "get", Blocked)
        /\ wish' = [wish EXCEPT ![c] = Blocked]
        /\ UNCHANGED earned

--------------------------------------------------------------------------------
(* Transactions *)

\* Broken: a session is opened for nobody.
RefusedAll == User \cup {Nobody}

\* Those whom GetSessionInfo opens no session for.
Refused == (User \ Enabled) \cup {Nobody}

\* GetSessionInfo reads the session. Without one the device tells the user: the
\* tables of the network may name any device that was seen at the address.
GetSessionInfo(w) ==
    LET c == serve[w].client
    IN  /\ Doing(w, {"request"}, "get")
        /\ \/ /\ portalSession[c] # NoSession
              /\ Becomes(w, Idle)
              /\ UNCHANGED earned
           \/ /\ portalSession[c] = NoSession
              /\ \E u \in Enabled :
                    /\ Becomes(w, [serve[w] EXCEPT !.op = "open", !.at = "test",
                                    !.session = [user |-> u, reason |-> Allowed]])
                    /\ earned' = [earned EXCEPT ![c] = @ \cup {u}]
           \/ /\ portalSession[c] = NoSession
              /\ \E u \in Refused :
                    /\ Becomes(w, [serve[w] EXCEPT !.op = "fallback", !.at = "test",
                                    !.session = [user |-> u, reason |-> RejectReason]])
                    /\ earned' = [earned EXCEPT ![c] = @ \cup ({u} \ {Nobody})]
           \/ /\ portalSession[c] = NoSession  \* a role is missing
              /\ Becomes(w, Idle)
              /\ UNCHANGED earned
        /\ UNCHANGED <<portalSession, wish>>

\* Broken: the old session is not deleted first.
ForceLogoutOnTop(w) ==
    /\ Doing(w, {"logout"}, "get")
    /\ Step(w, "create")
    /\ UNCHANGED <<portalSession, earned, wish>>

ForceLogout(w) ==
    /\ Doing(w, {"logout"}, "get")
    /\ Step(w, IF portalSession[serve[w].client] # NoSession THEN "delete" ELSE "create")
    /\ UNCHANGED <<portalSession, earned, wish>>

\* Broken: a session that is not there is written back all the same.
SetAccessProfileUnchecked(w) ==
    /\ Doing(w, {"profile"}, "get")
    /\ Becomes(w, [serve[w] EXCEPT !.at = "delete", !.session = portalSession[serve[w].client]])
    /\ UNCHANGED <<portalSession, earned, wish>>

\* Broken: a profile without a session opens an empty one.
SetAccessProfileAnyway(w) ==
    LET c == serve[w].client
    IN  /\ Doing(w, {"profile"}, "get")
        /\ IF portalSession[c] # NoSession
           THEN Becomes(w, [serve[w] EXCEPT !.at = "delete", !.session = portalSession[c]])
           ELSE Becomes(w, [serve[w] EXCEPT !.at = "create", !.session = [user |-> Nobody, reason |-> Allowed]])
        /\ UNCHANGED <<portalSession, earned, wish>>

\* The session read here is written back with another profile, when the profile
\* is one of the role's.
SetAccessProfile(w) ==
    LET c == serve[w].client
    IN  /\ Doing(w, {"profile"}, "get")
        /\ \/ /\ portalSession[c] # NoSession
              /\ Becomes(w, [serve[w] EXCEPT !.at = "delete", !.session = portalSession[c]])
           \/ Becomes(w, Idle)
        /\ UNCHANGED <<portalSession, earned, wish>>

SetSession(w) ==
    /\ Doing(w, {"open", "fallback", "login"}, "test")
    /\ Step(w, IF portalSession[serve[w].client] = NoSession THEN "create" ELSE "delete")
    /\ UNCHANGED <<portalSession, earned, wish>>

DeleteSession(w) ==
    LET c == serve[w].client
    IN  /\ Doing(w, Operations, "delete")
        /\ \/ /\ portalSession[c] # NoSession
              /\ portalSession' = [portalSession EXCEPT ![c] = NoSession]
              /\ Step(w, "create")
           \/ /\ portalSession[c] = NoSession \/ MayConflict(w)
              /\ IF serve[w].op \in {"logout", "profile"}  \* the error is ignored
                 THEN Step(w, "create")
                 ELSE Fail(w)
              /\ UNCHANGED portalSession
        /\ UNCHANGED <<earned, wish>>

CreateSession(w) ==
    LET c == serve[w].client
    IN  /\ Doing(w, Operations, "create")
        /\ \/ /\ portalSession[c] = NoSession
              /\ portalSession' = [portalSession EXCEPT ![c] = serve[w].session]
              /\ Finish(w)
           \/ /\ portalSession[c] # NoSession \/ MayConflict(w)
              /\ Fail(w)
              /\ UNCHANGED portalSession
        /\ UNCHANGED <<earned, wish>>

\* Fifteen minutes after it was created the session is gone.
Expire ==
    /\ \E c \in Client :
          /\ portalSession[c] # NoSession
          /\ portalSession' = [portalSession EXCEPT ![c] = NoSession]
          /\ wish' = [wish EXCEPT ![c] = NoWish]
    /\ UNCHANGED <<serve, earned>>

PortalNext ==
    /\ \/ \E w \in Serving :
             Request(w) \/ Login(w) \/ Logout(w) \/ GetSessionInfo(w) \/ ForceLogout(w)
               \/ SetAccessProfile(w) \/ SetSession(w) \/ DeleteSession(w) \/ CreateSession(w)
       \/ Expire
    /\ UNCHANGED <<mode, orderly>>

PortalSpec == PortalInit /\ [][PortalNext]_portalVars

--------------------------------------------------------------------------------
Quiet(c) == \A w \in Serving : ~ Serves(w, c)

\* Whatever the goroutines do to each other's transactions, an open session names
\* somebody who logged in at the client or whose device was found there, unless
\* the mode lets everybody in (security.go:34-68, 178-290).
OpenIsEarned ==
    \A c \in Client :
        portalSession[c].reason = Allowed /\ mode # "ModeAllow" => portalSession[c].user \in earned[c]

\* After the answer to a client that makes one request at a time the session is
\* the one its last login or logout asked for, unless the session ended since
\* (portal.go:90, 317; security.go:34-50, 69-104).
LastWishHolds ==
    \A c \in orderly : Quiet(c) /\ wish[c] # NoWish => portalSession[c] = wish[c]

\* The session of such a client is never a blocked one in the name of an enabled
\* user: what SetSession's failure leaves behind takes two requests at once
\* (security.go:200-202, 284-290).
EnabledNotBlocked ==
    \A c \in orderly : portalSession[c].user \in Enabled => portalSession[c].reason = Allowed

=============================================================================

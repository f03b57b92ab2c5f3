-------------------------- MODULE PortalSessionProofs --------------------------
(***************************************************************************)
(* Whose portal sessions are open, for any number of clients, users and     *)
(* goroutines and whatever their transactions do to each other; and that a  *)
(* client that makes one request at a time gets what it asked for.          *)
(*                                                                          *)
(* A step is a move of one goroutine: it takes up a job for one client and  *)
(* may write that client's session, wish and history. MoveKeeps shows once  *)
(* what such a move has to respect; the actions then only say what their    *)
(* job is.                                                                  *)
(***************************************************************************)
EXTENDS PortalSession, TLAPS

\* A session that is open, or is about to be written as open, was earned.
EarnedBy(session, users) ==
    session.reason = Allowed /\ mode # "ModeAllow" => session.user \in users

SessionOK(session) == session.user \in Enabled => session.reason = Allowed

QuietOK(session, asked) == asked # NoWish => session = asked

Writers == {"login", "logout", "profile"}

\* What a job for an orderly client carries, as long as the client waits for an
\* answer to its last wish.
Wishes(job, session, asked) ==
    \/ job.op \in {"request", "profile"} /\ job.at = "get" /\ session = asked
    \/ job.op \in Writers /\ job.op # "profile" /\ job.at \in {"get", "test"} /\ job.session = asked
    \/ job.op \in Writers /\ job.at = "delete" /\ job.session = asked /\ session # NoSession
    \/ job.op \in Writers /\ job.at = "create" /\ job.session = asked

JobOK(job, session, asked) ==
    /\ SessionOK(job.session)
    /\ job.at = "create" => session = NoSession
    /\ job.op \in {"open", "fallback"} =>
         job.at \in {"test", "create"} /\ session = NoSession /\ asked = NoWish
    /\ asked # NoWish => Wishes(job, session, asked)

EarnedInv ==
    /\ \A c \in Client : EarnedBy(portalSession[c], earned[c])
    /\ \A w \in Serving : serve[w] # Idle => EarnedBy(serve[w].session, earned[serve[w].client])

OrderlyInv ==
    \A c \in orderly :
        /\ SessionOK(portalSession[c])
        /\ \A v, w \in Serving : Serves(v, c) /\ Serves(w, c) => v = w
        /\ \A w \in Serving : Serves(w, c) => JobOK(serve[w], portalSession[c], wish[c])
        /\ Quiet(c) => QuietOK(portalSession[c], wish[c])

PortalInv == PortalTypeOK /\ EarnedInv /\ OrderlyInv

--------------------------------------------------------------------------------
(* Moves *)

Move(w, c, job, session, users, asked) ==
    /\ serve' = [serve EXCEPT ![w] = job]
    /\ portalSession' = [portalSession EXCEPT ![c] = session]
    /\ earned' = [earned EXCEPT ![c] = users]
    /\ wish' = [wish EXCEPT ![c] = asked]
    /\ UNCHANGED <<mode, orderly>>

\* The goroutine serves the client already, or takes up its request now.
Mine(w, c) == Serves(w, c) \/ (serve[w] = Idle /\ (c \in orderly => Quiet(c)))

\* What a move may write.
Fits(c, job, session, users, asked) ==
    /\ job \in Serve \cup {Idle}
    /\ job # Idle => job.client = c /\ EarnedBy(job.session, users)
    /\ session \in Session \cup {NoSession}
    /\ users \in SUBSET User
    /\ earned[c] \subseteq users
    /\ asked \in Session \cup {NoWish}
    /\ EarnedBy(session, users)
    /\ c \in orderly =>
         /\ SessionOK(session)
         /\ job # Idle => JobOK(job, session, asked)
         /\ job = Idle => QuietOK(session, asked)

LEMMA IdleIsNoJob == Idle \notin Serve /\ Idle.op = "none"
BY SMT DEF Idle, Serve, Operations

LEMMA NoSessionIsNone ==
    /\ NoSession \notin Session /\ NoSession # NoWish /\ NoWish \notin Session
    /\ NoSession.user = Nobody /\ NoSession.reason = "none"
<1>1. NoSession.user = Nobody /\ NoSession.reason = "none" /\ NoWish.reason = "no wish"
  BY SMT DEF NoSession, NoWish
<1>2. "none" # "no wish"
  BY SMT
<1>3. \A session \in Session : session.reason \in {"AccessAllowed", "AccessBlockedNotAuthenticated", "AccessBlockedUnauthorised"}
  BY SMT DEF Session, Allowed, NotAuthenticated, Unauthorised
<1>4. /\ "none" \notin {"AccessAllowed", "AccessBlockedNotAuthenticated", "AccessBlockedUnauthorised"}
      /\ "no wish" \notin {"AccessAllowed", "AccessBlockedNotAuthenticated", "AccessBlockedUnauthorised"}
  BY SMT
<1>5. NoSession \notin Session /\ NoWish \notin Session
  BY <1>1, <1>3, <1>4, Zenon
<1>6. NoSession # NoWish
  BY <1>1, <1>2, Zenon
<1>7. QED BY <1>1, <1>5, <1>6

LEMMA MoveKeepsTypes ==
    ASSUME PortalTypeOK, NEW w \in Serving, NEW c \in Client, NEW job, NEW session, NEW users, NEW asked,
           Move(w, c, job, session, users, asked), Fits(c, job, session, users, asked)
    PROVE  PortalTypeOK'
<1>1. mode' \in Modes /\ orderly' \subseteq Client
  BY Zenon DEF PortalTypeOK, Move
<1>2. portalSession' \in [Client -> Session \cup {NoSession}]
  <2>1. portalSession \in [Client -> Session \cup {NoSession}] /\ session \in Session \cup {NoSession}
    BY Zenon DEF PortalTypeOK, Fits
  <2>2. portalSession' = [portalSession EXCEPT ![c] = session]
    BY Zenon DEF Move
  <2>3. QED BY <2>1, <2>2, SMT
<1>3. serve' \in [Serving -> Serve \cup {Idle}]
  <2>1. serve \in [Serving -> Serve \cup {Idle}] /\ job \in Serve \cup {Idle}
    BY Zenon DEF PortalTypeOK, Fits
  <2>2. serve' = [serve EXCEPT ![w] = job]
    BY Zenon DEF Move
  <2>3. QED BY <2>1, <2>2, SMT
<1>4. earned' \in [Client -> SUBSET User]
  <2>1. earned \in [Client -> SUBSET User] /\ users \in SUBSET User
    BY Zenon DEF PortalTypeOK, Fits
  <2>2. earned' = [earned EXCEPT ![c] = users]
    BY Zenon DEF Move
  <2>3. QED BY <2>1, <2>2, SMT
<1>5. wish' \in [Client -> Session \cup {NoWish}]
  <2>1. wish \in [Client -> Session \cup {NoWish}] /\ asked \in Session \cup {NoWish}
    BY Zenon DEF PortalTypeOK, Fits
  <2>2. wish' = [wish EXCEPT ![c] = asked]
    BY Zenon DEF Move
  <2>3. QED BY <2>1, <2>2, SMT
<1>6. QED BY <1>1, <1>2, <1>3, <1>4, <1>5 DEF PortalTypeOK

LEMMA MoveKeepsEarned ==
    ASSUME PortalInv, NEW w \in Serving, NEW c \in Client, NEW job, NEW session, NEW users, NEW asked,
           Move(w, c, job, session, users, asked), Fits(c, job, session, users, asked)
    PROVE  EarnedInv'
<1>1. \A d \in Client : earned[d] \subseteq earned'[d]
  BY Zenon DEF Move, Fits, PortalInv, PortalTypeOK
<1>2. mode' = mode
  BY DEF Move
<1>3. \A d \in Client : EarnedBy(portalSession[d], earned[d])' 
  <2> TAKE d \in Client
  <2>1. CASE d = c
    <3>1. portalSession'[d] = session /\ earned'[d] = users
      BY <2>1, Zenon DEF Move, PortalInv, PortalTypeOK
    <3>2. QED BY <1>2, <3>1, Zenon DEF Fits, EarnedBy
  <2>2. CASE d # c
    <3>1. portalSession'[d] = portalSession[d] /\ earned'[d] = earned[d]
      BY <2>2, Zenon DEF Move, PortalInv, PortalTypeOK
    <3>2. QED BY <1>2, <3>1, Zenon DEF PortalInv, EarnedInv, EarnedBy
  <2>3. QED BY <2>1, <2>2
<1>4. \A v \in Serving : serve'[v] # Idle => EarnedBy(serve[v].session, earned[serve[v].client])'
  <2> TAKE v \in Serving
  <2> HAVE serve'[v] # Idle
  <2>1. CASE v = w
    <3>1. serve'[v] = job /\ earned'[c] = users
      BY <2>1, Zenon DEF Move, PortalInv, PortalTypeOK
    <3>2. QED BY <1>2, <3>1, Zenon DEF Fits, EarnedBy
  <2>2. CASE v # w
    <3>1. serve'[v] = serve[v]
      BY <2>2, Zenon DEF Move, PortalInv, PortalTypeOK
    <3>2. serve[v].client \in Client
      BY <3>1, IdleIsNoJob, SMT DEF PortalInv, PortalTypeOK, Serve
    <3>3. QED BY <1>1, <1>2, <3>1, <3>2, Zenon DEF PortalInv, EarnedInv, EarnedBy
  <2>3. QED BY <2>1, <2>2
<1>5. QED BY <1>3, <1>4, Zenon DEF EarnedInv

LEMMA MoveKeepsOrder ==
    ASSUME PortalInv, NEW w \in Serving, NEW c \in Client, NEW job, NEW session, NEW users, NEW asked,
           Move(w, c, job, session, users, asked), Fits(c, job, session, users, asked), Mine(w, c)
    PROVE  OrderlyInv'
<1> SUFFICES ASSUME NEW d \in orderly
             PROVE  /\ SessionOK(portalSession'[d])
                    /\ \A u, v \in Serving : Serves(u, d)' /\ Serves(v, d)' => u = v
                    /\ \A v \in Serving : Serves(v, d)' => JobOK(serve'[v], portalSession'[d], wish'[d])
                    /\ Quiet(d)' => QuietOK(portalSession'[d], wish'[d])
  BY Zenon DEF OrderlyInv, Move, Quiet, Serves, SessionOK, JobOK, QuietOK, Wishes
<1>1. d \in Client
  BY DEF PortalInv, PortalTypeOK
<1>2. \A v \in Serving : serve'[v] = IF v = w THEN job ELSE serve[v]
  BY Zenon DEF Move, PortalInv, PortalTypeOK
<1>3. /\ SessionOK(portalSession[d])
      /\ \A u, v \in Serving : Serves(u, d) /\ Serves(v, d) => u = v
      /\ \A v \in Serving : Serves(v, d) => JobOK(serve[v], portalSession[d], wish[d])
      /\ Quiet(d) => QuietOK(portalSession[d], wish[d])
  BY DEF PortalInv, OrderlyInv
<1>4. CASE d = c
  <2>1. portalSession'[d] = session /\ wish'[d] = asked
    BY <1>1, <1>4, Zenon DEF Move, PortalInv, PortalTypeOK
  <2>2. \A v \in Serving : v # w => ~ Serves(v, d)
    BY <1>3, <1>4, Zenon DEF Mine, Quiet
  <2>3. \A v \in Serving : v # w => ~ Serves(v, d)'
    BY <1>2, <2>2, Zenon DEF Serves
  <2>4. Serves(w, d)' => job # Idle /\ serve'[w] = job
    BY <1>2, Zenon DEF Serves
  <2>5. Quiet(d)' => job = Idle
    BY <1>2, <1>4, Zenon DEF Quiet, Serves, Fits
  <2>6. QED BY <1>4, <2>1, <2>3, <2>4, <2>5, Zenon DEF Fits
<1>5. CASE d # c
  <2>1. portalSession'[d] = portalSession[d] /\ wish'[d] = wish[d]
    BY <1>1, <1>5, Zenon DEF Move, PortalInv, PortalTypeOK
  <2>2. ~ Serves(w, d) /\ ~ Serves(w, d)'
    BY <1>2, <1>5, Zenon DEF Mine, Serves, Fits
  <2>3. \A v \in Serving : Serves(v, d)' <=> Serves(v, d)
    BY <1>2, <2>2, Zenon DEF Serves
  <2>4. \A v \in Serving : Serves(v, d)' => serve'[v] = serve[v]
    BY <1>2, <2>2, Zenon
  <2>5. Quiet(d)' => Quiet(d)
    BY <2>3, Zenon DEF Quiet
  <2>6. QED BY <1>3, <2>1, <2>3, <2>4, <2>5, Zenon
<1>6. QED BY <1>4, <1>5

LEMMA MoveKeeps ==
    ASSUME PortalInv, NEW w \in Serving, NEW c \in Client, NEW job, NEW session, NEW users, NEW asked,
           Move(w, c, job, session, users, asked), Fits(c, job, session, users, asked), Mine(w, c)
    PROVE  PortalInv'
BY MoveKeepsTypes, MoveKeepsEarned, MoveKeepsOrder, Zenon DEF PortalInv

--------------------------------------------------------------------------------
(* Actions *)

LEMMA Untouched ==
    ASSUME PortalTypeOK, NEW c \in Client
    PROVE  /\ portalSession = [portalSession EXCEPT ![c] = portalSession[c]]
           /\ earned = [earned EXCEPT ![c] = earned[c]]
           /\ wish = [wish EXCEPT ![c] = wish[c]]
           /\ portalSession[c] \in Session \cup {NoSession}
           /\ earned[c] \in SUBSET User
           /\ wish[c] \in Session \cup {NoWish}
BY SMT DEF PortalTypeOK

LEMMA Rejected ==
    ASSUME PortalTypeOK
    PROVE  /\ RejectReason \in {Allowed, NotAuthenticated, Unauthorised}
           /\ mode # "ModeAllow" => RejectReason # Allowed
BY SMT DEF PortalTypeOK, RejectReason, Modes, Allowed, NotAuthenticated, Unauthorised

\* A goroutine at work: its job and what is known of it.
LEMMA AtWork ==
    ASSUME PortalInv, NEW w \in Serving, serve[w] # Idle
    PROVE  /\ serve[w] \in Serve
           /\ serve[w].client \in Client
           /\ serve[w].session \in Session
           /\ Serves(w, serve[w].client)
           /\ EarnedBy(serve[w].session, earned[serve[w].client])
           /\ EarnedBy(portalSession[serve[w].client], earned[serve[w].client])
           /\ serve[w].client \in orderly =>
                 /\ JobOK(serve[w], portalSession[serve[w].client], wish[serve[w].client])
                 /\ SessionOK(portalSession[serve[w].client])
                 /\ ~ MayConflict(w)
<1>1. serve[w] \in Serve
  BY Zenon DEF PortalInv, PortalTypeOK
<1>2. serve[w].client \in Client /\ serve[w].session \in Session
  BY <1>1, SMT DEF Serve
<1>3. Serves(w, serve[w].client)
  BY DEF Serves
<1>4. /\ EarnedBy(serve[w].session, earned[serve[w].client])
      /\ EarnedBy(portalSession[serve[w].client], earned[serve[w].client])
  BY <1>2, Zenon DEF PortalInv, EarnedInv
<1>5. ASSUME serve[w].client \in orderly
      PROVE  /\ JobOK(serve[w], portalSession[serve[w].client], wish[serve[w].client])
             /\ SessionOK(portalSession[serve[w].client])
             /\ ~ MayConflict(w)
  BY <1>3, <1>5, Zenon DEF PortalInv, OrderlyInv, MayConflict
<1>6. QED BY <1>1, <1>2, <1>3, <1>4, <1>5

\* A job that changes nothing but itself, for a goroutine at work.
LEMMA WorkKeeps ==
    ASSUME PortalInv, NEW w \in Serving, serve[w] # Idle, NEW job \in Serve \cup {Idle},
           NEW session \in Session \cup {NoSession}, NEW users \in SUBSET User,
           Becomes(w, job), UNCHANGED <<mode, orderly, wish>>,
           portalSession' = [portalSession EXCEPT ![serve[w].client] = session],
           earned' = [earned EXCEPT ![serve[w].client] = users],
           earned[serve[w].client] \subseteq users,
           job # Idle => job.client = serve[w].client /\ EarnedBy(job.session, users),
           EarnedBy(session, users),
           serve[w].client \in orderly =>
               /\ SessionOK(session)
               /\ job # Idle => JobOK(job, session, wish[serve[w].client])
               /\ job = Idle => QuietOK(session, wish[serve[w].client])
    PROVE  PortalInv'
<1> DEFINE c == serve[w].client
<1>1. c \in Client /\ Mine(w, c)
  BY AtWork, Zenon DEF Mine
<1>2. wish' = [wish EXCEPT ![c] = wish[c]] /\ wish[c] \in Session \cup {NoWish}
  BY <1>1, Untouched, Zenon DEF PortalInv
<1>3. Move(w, c, job, session, users, wish[c])
  BY <1>2, Zenon DEF Move, Becomes
<1>4. Fits(c, job, session, users, wish[c])
  BY <1>2, Zenon DEF Fits
<1> HIDE DEF c
<1>5. QED BY <1>1, <1>3, <1>4, MoveKeeps, Zenon

LEMMA SessionFacts ==
    /\ Blocked \in Session /\ Blocked.user = Nobody /\ Blocked.reason # Allowed
    /\ \A u \in User \cup {Nobody}, r \in {Allowed, NotAuthenticated, Unauthorised} :
          LET session == [user |-> u, reason |-> r]
          IN  session \in Session /\ session.user = u /\ session.reason = r
    /\ Nobody \notin Enabled /\ Enabled \subseteq User
<1>1. Blocked \in Session /\ Blocked.user = Nobody /\ Blocked.reason = NotAuthenticated
  BY SMT DEF Blocked, Session
<1>2. NotAuthenticated # Allowed
  BY SMT DEF NotAuthenticated, Allowed
<1>3. ASSUME NEW u \in User \cup {Nobody}, NEW r \in {Allowed, NotAuthenticated, Unauthorised}
      PROVE  /\ [user |-> u, reason |-> r] \in Session
             /\ [user |-> u, reason |-> r].user = u
             /\ [user |-> u, reason |-> r].reason = r
  BY <1>3, SMT DEF Session
<1>4. QED BY <1>1, <1>2, <1>3, PortalAssumption, Zenon

Transactions == {"get", "test", "delete", "create"}

\* The parts of a job, one by one.
LEMMA JobParts ==
    ASSUME NEW op \in Operations, NEW at \in Transactions,
           NEW c \in Client, NEW session \in Session
    PROVE  LET job == [op |-> op, at |-> at, client |-> c, session |-> session]
           IN  /\ job \in Serve /\ job # Idle
               /\ job.op = op /\ job.at = at /\ job.client = c /\ job.session = session
<1>1. /\ [op |-> op, at |-> at, client |-> c, session |-> session] \in Serve
      /\ [op |-> op, at |-> at, client |-> c, session |-> session].op = op
      /\ [op |-> op, at |-> at, client |-> c, session |-> session].at = at
      /\ [op |-> op, at |-> at, client |-> c, session |-> session].client = c
      /\ [op |-> op, at |-> at, client |-> c, session |-> session].session = session
  BY SMT DEF Serve, Transactions
<1>2. QED BY <1>1, IdleIsNoJob, Zenon

\* A goroutine takes up the request of a client.
LEMMA ArriveKeeps ==
    ASSUME PortalInv, NEW w \in Serving, NEW c \in Client, NEW op \in Operations,
           NEW at \in Transactions, NEW session \in Session,
           NEW users \in SUBSET User, NEW asked \in Session \cup {NoWish},
           Arrive(w, c, op, at, session), UNCHANGED <<mode, orderly>>,
           earned' = [earned EXCEPT ![c] = users], earned[c] \subseteq users,
           wish' = [wish EXCEPT ![c] = asked],
           EarnedBy(session, users),
           c \in orderly => JobOK([op |-> op, at |-> at, client |-> c, session |-> session], portalSession[c], asked)
    PROVE  PortalInv'
<1> DEFINE job == [op |-> op, at |-> at, client |-> c, session |-> session]
<1>1. job \in Serve /\ job # Idle /\ job.client = c /\ job.session = session
  <2>1. job \in Serve
    BY SMT DEF Serve, Transactions
  <2>2. job.client = c /\ job.session = session
    BY SMT
  <2>3. job # Idle
    BY <2>1, IdleIsNoJob, Zenon
  <2>4. QED BY <2>1, <2>2, <2>3
<1>2. /\ serve[w] = Idle
      /\ c \in orderly => \A other \in Serving : ~ Serves(other, c)
      /\ Becomes(w, job)
      /\ portalSession' = portalSession
  BY DEF Arrive
<1>3. Mine(w, c)
  BY <1>2, Zenon DEF Mine, Quiet
<1>4. Move(w, c, job, portalSession[c], users, asked)
  <2>1. portalSession' = [portalSession EXCEPT ![c] = portalSession[c]]
    BY <1>2, Untouched, Zenon DEF PortalInv
  <2>2. serve' = [serve EXCEPT ![w] = job]
    BY <1>2 DEF Becomes
  <2> HIDE DEF job
  <2>3. QED BY <2>1, <2>2, Zenon DEF Move
<1>5. Fits(c, job, portalSession[c], users, asked)
  <2>1. EarnedBy(portalSession[c], users)
    BY Zenon DEF PortalInv, EarnedInv, EarnedBy
  <2>2. portalSession[c] \in Session \cup {NoSession}
    BY Untouched, Zenon DEF PortalInv
  <2>3. c \in orderly => SessionOK(portalSession[c]) /\ JobOK(job, portalSession[c], asked)
    BY Zenon DEF PortalInv, OrderlyInv
  <2> HIDE DEF job
  <2>4. QED BY <1>1, <2>1, <2>2, <2>3, Zenon DEF Fits
<1> HIDE DEF job
<1>6. QED BY <1>3, <1>4, <1>5, MoveKeeps, Zenon

\* A job of a client that is quiet: what there is to know before it starts.
LEMMA AtRest ==
    ASSUME PortalInv, NEW w \in Serving, NEW c \in orderly, NEW op, NEW at, NEW session,
           Arrive(w, c, op, at, session)
    PROVE  SessionOK(portalSession[c]) /\ QuietOK(portalSession[c], wish[c])
BY Zenon DEF PortalInv, OrderlyInv, Arrive, Quiet

LEMMA RequestKeeps ==
    ASSUME PortalInv, NEW w \in Serving, Request(w), UNCHANGED <<mode, orderly>>
    PROVE  PortalInv'
<1>1. PICK c \in Client, op \in {"request", "profile"} : Arrive(w, c, op, "get", Blocked)
  BY Zenon DEF Request
<1>2. op \in Operations /\ "get" \in Transactions
  BY SMT DEF Operations, Transactions
<1>3. /\ earned' = [earned EXCEPT ![c] = earned[c]] /\ earned[c] \in SUBSET User
      /\ wish' = [wish EXCEPT ![c] = wish[c]] /\ wish[c] \in Session \cup {NoWish}
  BY Untouched, Zenon DEF Request, PortalInv
<1>4. EarnedBy(Blocked, earned[c])
  BY SessionFacts, Zenon DEF EarnedBy
<1>5. ASSUME c \in orderly
      PROVE  JobOK([op |-> op, at |-> "get", client |-> c, session |-> Blocked], portalSession[c], wish[c])
  <2> DEFINE job == [op |-> op, at |-> "get", client |-> c, session |-> Blocked]
  <2>1. job.op = op /\ job.at = "get" /\ job.session = Blocked
    BY <1>2, JobParts, SessionFacts, Zenon
  <2>2. QuietOK(portalSession[c], wish[c])
    BY <1>1, <1>5, AtRest, Zenon
  <2>3. SessionOK(Blocked)
    BY SessionFacts, Zenon DEF SessionOK
  <2>4. job.at # "create" /\ job.op \notin {"open", "fallback"} /\ job.op \in {"request", "profile"}
    BY <2>1, SMT
  <2> HIDE DEF job
  <2>5. wish[c] # NoWish => Wishes(job, portalSession[c], wish[c])
    BY <2>1, <2>2, <2>4, Zenon DEF Wishes, QuietOK
  <2>6. JobOK(job, portalSession[c], wish[c])
    BY <2>1, <2>3, <2>4, <2>5, Zenon DEF JobOK
  <2>7. QED BY <2>6 DEF job
<1>6. QED BY <1>1, <1>2, <1>3, <1>4, <1>5, SessionFacts, ArriveKeeps, Zenon DEF Request

LEMMA LoginKeeps ==
    ASSUME PortalInv, NEW w \in Serving, Login(w), UNCHANGED <<mode, orderly>>
    PROVE  PortalInv'
<1>1. PICK c \in Client, u \in User :
        /\ Arrive(w, c, "login", "test", [user |-> u, reason |-> Allowed])
        /\ earned' = [earned EXCEPT ![c] = earned[c] \cup {u}]
        /\ wish' = [wish EXCEPT ![c] = [user |-> u, reason |-> Allowed]]
  BY Zenon DEF Login
<1> DEFINE session == [user |-> u, reason |-> Allowed]
<1>2. session \in Session /\ session.user = u /\ session.reason = Allowed
  BY SessionFacts, Zenon
<1>3. /\ "login" \in Operations /\ "test" \in Transactions
      /\ "login" \in Writers /\ "login" # "profile" /\ "test" # "create" /\ "login" \notin {"open", "fallback"}
      /\ "test" \in {"get", "test"}
  BY SMT DEF Operations, Writers, Transactions
<1>4. earned[c] \cup {u} \in SUBSET User /\ earned[c] \subseteq earned[c] \cup {u} /\ u \in earned[c] \cup {u}
  BY Untouched, SMT DEF PortalInv
<1>5. EarnedBy(session, earned[c] \cup {u})
  BY <1>2, <1>4, Zenon DEF EarnedBy
<1>6. ASSUME c \in orderly
      PROVE  JobOK([op |-> "login", at |-> "test", client |-> c, session |-> session], portalSession[c], session)
  <2> DEFINE job == [op |-> "login", at |-> "test", client |-> c, session |-> session]
  <2>1. job.op = "login" /\ job.at = "test" /\ job.session = session
    BY <1>2, <1>3, JobParts, Zenon
  <2>2. SessionOK(session)
    BY <1>2, Zenon DEF SessionOK
  <2> HIDE DEF job, session
  <2>3. JobOK(job, portalSession[c], session)
    BY <1>3, <2>1, <2>2, Zenon DEF JobOK, Wishes
  <2>4. QED BY <2>3 DEF job
<1>7. Arrive(w, c, "login", "test", session) /\ wish' = [wish EXCEPT ![c] = session]
  BY <1>1
<1> HIDE DEF session
<1>8. QED BY <1>1, <1>2, <1>3, <1>4, <1>5, <1>6, <1>7, ArriveKeeps, Zenon

LEMMA LogoutKeeps ==
    ASSUME PortalInv, NEW w \in Serving, Logout(w), UNCHANGED <<mode, orderly>>
    PROVE  PortalInv'
<1>1. PICK c \in Client :
        Arrive(w, c, "logout", "get", Blocked) /\ wish' = [wish EXCEPT ![c] = Blocked] /\ UNCHANGED earned
  BY Zenon DEF Logout
<1>2. /\ "logout" \in Operations /\ "get" \in Transactions
      /\ "logout" \in Writers /\ "logout" # "profile" /\ "get" # "create" /\ "logout" \notin {"open", "fallback"}
      /\ "get" \in {"get", "test"}
  BY SMT DEF Operations, Writers, Transactions
<1>3. earned' = [earned EXCEPT ![c] = earned[c]] /\ earned[c] \in SUBSET User
  BY <1>1, Untouched, Zenon DEF PortalInv
<1>4. EarnedBy(Blocked, earned[c]) /\ SessionOK(Blocked)
  BY SessionFacts, Zenon DEF EarnedBy, SessionOK
<1>5. ASSUME c \in orderly
      PROVE  JobOK([op |-> "logout", at |-> "get", client |-> c, session |-> Blocked], portalSession[c], Blocked)
  <2> DEFINE job == [op |-> "logout", at |-> "get", client |-> c, session |-> Blocked]
  <2>1. job.op = "logout" /\ job.at = "get" /\ job.session = Blocked
    BY <1>2, JobParts, SessionFacts, Zenon
  <2> HIDE DEF job
  <2>2. JobOK(job, portalSession[c], Blocked)
    BY <1>2, <1>4, <2>1, Zenon DEF JobOK, Wishes
  <2>3. QED BY <2>2 DEF job
<1>6. QED BY <1>1, <1>2, <1>3, <1>4, <1>5, SessionFacts, ArriveKeeps, Zenon

--------------------------------------------------------------------------------
(* Transactions of a goroutine at work *)

\* The job changes and nothing else does.
LEMMA ReadKeeps ==
    ASSUME PortalInv, NEW w \in Serving, serve[w] # Idle, NEW job \in Serve \cup {Idle},
           Becomes(w, job), UNCHANGED <<mode, orderly, portalSession, earned, wish>>,
           job # Idle => job.client = serve[w].client /\ EarnedBy(job.session, earned[serve[w].client]),
           serve[w].client \in orderly =>
               /\ job # Idle => JobOK(job, portalSession[serve[w].client], wish[serve[w].client])
               /\ job = Idle => QuietOK(portalSession[serve[w].client], wish[serve[w].client])
    PROVE  PortalInv'
<1> DEFINE c == serve[w].client
<1>1. /\ c \in Client /\ EarnedBy(portalSession[c], earned[c])
      /\ c \in orderly => SessionOK(portalSession[c])
  BY AtWork, Zenon
<1>2. /\ portalSession' = [portalSession EXCEPT ![c] = portalSession[c]]
      /\ earned' = [earned EXCEPT ![c] = earned[c]]
      /\ portalSession[c] \in Session \cup {NoSession} /\ earned[c] \in SUBSET User
      /\ earned[c] \subseteq earned[c]
  BY <1>1, Untouched, Zenon DEF PortalInv
<1>3. QED BY <1>1, <1>2, WorkKeeps, Zenon

\* The same job with another transaction next.
LEMMA StepParts ==
    ASSUME NEW job \in Serve, NEW at \in Transactions
    PROVE  LET next == [job EXCEPT !.at = at]
           IN  /\ next \in Serve /\ next # Idle /\ next.op = job.op /\ next.at = at
               /\ next.client = job.client /\ next.session = job.session
<1>1. /\ [job EXCEPT !.at = at] \in Serve
      /\ [job EXCEPT !.at = at].op = job.op
      /\ [job EXCEPT !.at = at].at = at
      /\ [job EXCEPT !.at = at].client = job.client
      /\ [job EXCEPT !.at = at].session = job.session
  BY SMT DEF Serve, Transactions
<1>2. QED BY <1>1, IdleIsNoJob, Zenon

LEMMA Labels ==
    /\ {"request", "open", "fallback", "login", "logout", "profile"} = Operations
    /\ {"get", "test", "delete", "create"} = Transactions
    /\ {"login", "logout", "profile"} = Writers
    /\ "request" \notin Writers /\ "open" \notin Writers /\ "fallback" \notin Writers
    /\ "request" \notin {"open", "fallback"}
    /\ "login" \notin {"open", "fallback"} /\ "logout" \notin {"open", "fallback"} /\ "profile" \notin {"open", "fallback"}
    /\ "logout" # "profile" /\ "login" # "profile" /\ "request" # "profile"
    /\ "get" # "create" /\ "test" # "create" /\ "delete" # "create" /\ "get" # "delete" /\ "test" # "delete" /\ "get" # "test"
BY SMT DEF Operations, Transactions, Writers

LEMMA GetSessionInfoKeeps ==
    ASSUME PortalInv, NEW w \in Serving, GetSessionInfo(w), UNCHANGED <<mode, orderly>>
    PROVE  PortalInv'
<1> DEFINE c == serve[w].client
<1>1. serve[w] # Idle /\ serve[w].op = "request" /\ serve[w].at = "get" /\ UNCHANGED <<portalSession, wish>>
  BY Zenon DEF GetSessionInfo, Doing
<1>2. /\ serve[w] \in Serve /\ c \in Client
      /\ c \in orderly => JobOK(serve[w], portalSession[c], wish[c])
      /\ EarnedBy(portalSession[c], earned[c])
      /\ c \in orderly => SessionOK(portalSession[c])
  BY <1>1, AtWork, Zenon
<1>3. c \in orderly => QuietOK(portalSession[c], wish[c])
  BY <1>1, <1>2, Labels, Zenon DEF JobOK, Wishes, QuietOK
<1>4. CASE Becomes(w, Idle) /\ UNCHANGED earned
  <2>1. QED BY <1>1, <1>3, <1>4, ReadKeeps, Zenon
<1>5. ASSUME NEW op \in {"open", "fallback"}, NEW session \in Session, NEW users \in SUBSET User,
             NEW job, job = [serve[w] EXCEPT !.op = op, !.at = "test", !.session = session],
             portalSession[c] = NoSession, Becomes(w, job),
             earned' = [earned EXCEPT ![c] = users], earned[c] \subseteq users,
             EarnedBy(session, users), SessionOK(session)
      PROVE  PortalInv'
  <2>1. op \in Operations /\ "test" \in Transactions
    BY SMT DEF Operations, Transactions
  <2>2. job \in Serve /\ job # Idle /\ job.op = op /\ job.at = "test" /\ job.client = c /\ job.session = session
    <3>1. serve[w] \in Serve
      BY <1>2
    <3>2. job = [serve[w] EXCEPT !.op = op, !.at = "test", !.session = session]
      BY <1>5
    <3>3. job = [[[serve[w] EXCEPT !.op = op] EXCEPT !.at = "test"] EXCEPT !.session = session]
      BY <3>1, <3>2, SMT DEF Serve
    <3>4. [serve[w] EXCEPT !.op = op] \in Serve
      BY <2>1, <3>1, SMT DEF Serve
    <3>5. \A j \in Serve : [j EXCEPT !.at = "test"] \in Serve /\ [j EXCEPT !.session = session] \in Serve
      BY SMT DEF Serve
    <3>6. job \in Serve
      BY <3>3, <3>4, <3>5, Zenon
    <3>7. job.op = op
      BY <3>1, <3>2, SMT DEF Serve
    <3>8. job.at = "test" /\ job.client = c
      BY <3>1, <3>2, SMT DEF Serve
    <3>9. job.session = session
      BY <3>1, <3>2, SMT DEF Serve
    <3>10. job # Idle
      BY <3>6, IdleIsNoJob, Zenon
    <3>11. QED BY <3>6, <3>7, <3>8, <3>9, <3>10
  <2>3. EarnedBy(portalSession[c], users)
    BY <1>2, <1>5, Zenon DEF EarnedBy
  <2>4. portalSession' = [portalSession EXCEPT ![c] = portalSession[c]] /\ portalSession[c] \in Session \cup {NoSession}
    BY <1>1, <1>2, Untouched, Zenon DEF PortalInv
  <2>5. c \in orderly => wish[c] = NoWish
    <3>1. wish[c] \in Session \cup {NoWish}
      BY <1>2, Untouched, Zenon DEF PortalInv
    <3>2. c \in orderly /\ wish[c] # NoWish => wish[c] = NoSession
      BY <1>3, <1>5, Zenon DEF QuietOK
    <3>3. QED BY <3>1, <3>2, NoSessionIsNone, Zenon
  <2>6. c \in orderly => JobOK(job, portalSession[c], wish[c])
    BY <1>5, <2>2, <2>5, Labels, Zenon DEF JobOK
  <2>7. QED BY <1>1, <1>2, <1>5, <2>2, <2>3, <2>4, <2>6, WorkKeeps, Zenon
<1>6. ASSUME NEW u \in Enabled, portalSession[c] = NoSession,
             Becomes(w, [serve[w] EXCEPT !.op = "open", !.at = "test", !.session = [user |-> u, reason |-> Allowed]]),
             earned' = [earned EXCEPT ![c] = earned[c] \cup {u}]
      PROVE  PortalInv'
  <2> DEFINE session == [user |-> u, reason |-> Allowed]
             job == [serve[w] EXCEPT !.op = "open", !.at = "test", !.session = session]
  <2>1. /\ u \in User \cup {Nobody} /\ earned[c] \cup {u} \in SUBSET User
        /\ earned[c] \subseteq earned[c] \cup {u} /\ u \in earned[c] \cup {u}
    BY <1>2, Untouched, SessionFacts, SMT DEF PortalInv
  <2>2. session \in Session /\ session.user = u /\ session.reason = Allowed
    BY <2>1, SessionFacts, Zenon
  <2>3. EarnedBy(session, earned[c] \cup {u}) /\ SessionOK(session)
    BY <2>1, <2>2, Zenon DEF EarnedBy, SessionOK
  <2>4. job = [serve[w] EXCEPT !.op = "open", !.at = "test", !.session = session] /\ Becomes(w, job)
    BY <1>6
  <2> HIDE DEF session, job
  <2>5. QED BY <1>5, <1>6, <2>1, <2>2, <2>3, <2>4, Zenon
<1>7. ASSUME NEW u \in Refused, portalSession[c] = NoSession,
             Becomes(w, [serve[w] EXCEPT !.op = "fallback", !.at = "test",
                          !.session = [user |-> u, reason |-> RejectReason]]),
             earned' = [earned EXCEPT ![c] = earned[c] \cup ({u} \ {Nobody})]
      PROVE  PortalInv'
  <2> DEFINE session == [user |-> u, reason |-> RejectReason]
             job == [serve[w] EXCEPT !.op = "fallback", !.at = "test", !.session = session]
  <2>1. /\ u \in User \cup {Nobody} /\ u \notin Enabled
        /\ earned[c] \cup ({u} \ {Nobody}) \in SUBSET User
        /\ earned[c] \subseteq earned[c] \cup ({u} \ {Nobody})
    BY <1>2, Untouched, SessionFacts, SMT DEF PortalInv, Refused
  <2>2. RejectReason \in {Allowed, NotAuthenticated, Unauthorised} /\ (mode # "ModeAllow" => RejectReason # Allowed)
    BY Rejected, Zenon DEF PortalInv
  <2>3. session \in Session /\ session.user = u /\ session.reason = RejectReason
    BY <2>1, <2>2, SessionFacts, Zenon
  <2>4. EarnedBy(session, earned[c] \cup ({u} \ {Nobody})) /\ SessionOK(session)
    BY <2>1, <2>2, <2>3, Zenon DEF EarnedBy, SessionOK
  <2>5. job = [serve[w] EXCEPT !.op = "fallback", !.at = "test", !.session = session] /\ Becomes(w, job)
    BY <1>7
  <2> HIDE DEF session, job
  <2>6. QED BY <1>5, <1>7, <2>1, <2>3, <2>4, <2>5, Zenon
<1>8. QED BY <1>4, <1>6, <1>7, Zenon DEF GetSessionInfo

LEMMA ForceLogoutKeeps ==
    ASSUME PortalInv, NEW w \in Serving, ForceLogout(w), UNCHANGED <<mode, orderly>>
    PROVE  PortalInv'
<1> DEFINE c == serve[w].client
           at == IF portalSession[c] # NoSession THEN "delete" ELSE "create"
           job == [serve[w] EXCEPT !.at = at]
<1>1. serve[w] # Idle /\ serve[w].op = "logout" /\ serve[w].at = "get" /\ Becomes(w, job)
      /\ UNCHANGED <<portalSession, earned, wish>>
  BY Zenon DEF ForceLogout, Doing, Step
<1>2. /\ serve[w] \in Serve /\ c \in Client
      /\ c \in orderly => JobOK(serve[w], portalSession[c], wish[c])
      /\ EarnedBy(serve[w].session, earned[c])
  BY <1>1, AtWork, Zenon
<1>3. at \in Transactions /\ (at = "create" => portalSession[c] = NoSession) /\ at \in {"delete", "create"}
      /\ (at = "delete" => portalSession[c] # NoSession)
  BY SMT DEF Transactions
<1> HIDE DEF at
<1>4. /\ job \in Serve /\ job # Idle /\ job.op = "logout" /\ job.at = at
      /\ job.client = c /\ job.session = serve[w].session
  BY <1>1, <1>2, <1>3, StepParts, Zenon
<1> HIDE DEF job
<1>5. c \in orderly => JobOK(job, portalSession[c], wish[c])
  BY <1>1, <1>2, <1>3, <1>4, Labels, Zenon DEF JobOK, Wishes
<1>6. QED BY <1>1, <1>2, <1>4, <1>5, ReadKeeps, Zenon

LEMMA SetAccessProfileKeeps ==
    ASSUME PortalInv, NEW w \in Serving, SetAccessProfile(w), UNCHANGED <<mode, orderly>>
    PROVE  PortalInv'
<1> DEFINE c == serve[w].client
           job == [serve[w] EXCEPT !.at = "delete", !.session = portalSession[c]]
<1>1. serve[w] # Idle /\ serve[w].op = "profile" /\ serve[w].at = "get"
      /\ UNCHANGED <<portalSession, earned, wish>>
  BY Zenon DEF SetAccessProfile, Doing
<1>2. /\ serve[w] \in Serve /\ c \in Client
      /\ c \in orderly => JobOK(serve[w], portalSession[c], wish[c])
      /\ EarnedBy(portalSession[c], earned[c])
      /\ c \in orderly => SessionOK(portalSession[c])
  BY <1>1, AtWork, Zenon
<1>3. c \in orderly => QuietOK(portalSession[c], wish[c])
  BY <1>1, <1>2, Labels, Zenon DEF JobOK, Wishes, QuietOK
<1>4. CASE Becomes(w, Idle)
  <2>1. QED BY <1>1, <1>3, <1>4, ReadKeeps, Zenon
<1>5. CASE portalSession[c] # NoSession /\ Becomes(w, job)
  <2>1. portalSession[c] \in Session
    BY <1>2, <1>5, Untouched, Zenon DEF PortalInv
  <2>2. /\ job \in Serve /\ job.op = "profile" /\ job.at = "delete"
        /\ job.client = c /\ job.session = portalSession[c]
    <3>1. job = [[serve[w] EXCEPT !.at = "delete"] EXCEPT !.session = portalSession[c]]
      BY <1>2, SMT DEF Serve
    <3>2. \A j \in Serve : [j EXCEPT !.at = "delete"] \in Serve /\ [j EXCEPT !.session = portalSession[c]] \in Serve
      BY <2>1, SMT DEF Serve
    <3>3. job \in Serve
      BY <1>2, <3>1, <3>2, Zenon
    <3>4. job.op = "profile"
      BY <1>1, <1>2, SMT DEF Serve
    <3>5. job.at = "delete" /\ job.client = c
      BY <1>2, SMT DEF Serve
    <3>6. job.session = portalSession[c]
      BY <1>2, SMT DEF Serve
    <3>7. QED BY <3>3, <3>4, <3>5, <3>6
  <2> HIDE DEF job
  <2>3. job # Idle
    BY <2>2, IdleIsNoJob, Zenon
  <2>4. c \in orderly => JobOK(job, portalSession[c], wish[c])
    BY <1>2, <1>3, <1>5, <2>2, Labels, Zenon DEF JobOK, Wishes, QuietOK
  <2>5. QED BY <1>1, <1>2, <1>5, <2>2, <2>3, <2>4, ReadKeeps, Zenon
<1>6. QED BY <1>4, <1>5, Zenon DEF SetAccessProfile

LEMMA SetSessionKeeps ==
    ASSUME PortalInv, NEW w \in Serving, SetSession(w), UNCHANGED <<mode, orderly>>
    PROVE  PortalInv'
<1> DEFINE c == serve[w].client
           at == IF portalSession[c] = NoSession THEN "create" ELSE "delete"
           job == [serve[w] EXCEPT !.at = at]
<1>1. serve[w] # Idle /\ serve[w].op \in {"open", "fallback", "login"} /\ serve[w].at = "test" /\ Becomes(w, job)
      /\ UNCHANGED <<portalSession, earned, wish>>
  BY Zenon DEF SetSession, Doing, Step
<1>2. /\ serve[w] \in Serve /\ c \in Client
      /\ c \in orderly => JobOK(serve[w], portalSession[c], wish[c])
      /\ EarnedBy(serve[w].session, earned[c])
  BY <1>1, AtWork, Zenon
<1>3. at \in Transactions /\ (at = "create" => portalSession[c] = NoSession) /\ at \in {"delete", "create"}
      /\ (at = "delete" => portalSession[c] # NoSession) /\ (portalSession[c] = NoSession => at = "create")
  BY SMT DEF Transactions
<1> HIDE DEF at
<1>4. /\ job \in Serve /\ job # Idle /\ job.op = serve[w].op /\ job.at = at
      /\ job.client = c /\ job.session = serve[w].session
  BY <1>1, <1>2, <1>3, StepParts, Zenon
<1> HIDE DEF job
<1>5. c \in orderly => JobOK(job, portalSession[c], wish[c])
  BY <1>1, <1>2, <1>3, <1>4, Labels, Zenon DEF JobOK, Wishes
<1>6. QED BY <1>1, <1>2, <1>4, <1>5, ReadKeeps, Zenon

\* The portal asks for the session once more; other operations end.
LEMMA FinishKeeps ==
    ASSUME PortalInv, NEW w \in Serving, serve[w] # Idle, NEW session \in Session \cup {NoSession},
           Finish(w), UNCHANGED <<mode, orderly, earned, wish>>,
           portalSession' = [portalSession EXCEPT ![serve[w].client] = session],
           EarnedBy(session, earned[serve[w].client]),
           serve[w].client \in orderly => SessionOK(session) /\ QuietOK(session, wish[serve[w].client])
    PROVE  PortalInv'
<1> DEFINE c == serve[w].client
           job == [serve[w] EXCEPT !.op = "request", !.at = "get"]
<1>1. /\ serve[w] \in Serve /\ c \in Client /\ EarnedBy(serve[w].session, earned[c])
      /\ c \in orderly => JobOK(serve[w], portalSession[c], wish[c])
  BY AtWork, Zenon
<1>2. earned' = [earned EXCEPT ![c] = earned[c]] /\ earned[c] \in SUBSET User /\ earned[c] \subseteq earned[c]
  BY <1>1, Untouched, Zenon DEF PortalInv
<1>3. CASE Becomes(w, Idle)
  BY <1>2, <1>3, WorkKeeps, Zenon
<1>4. CASE Becomes(w, job)
  <2>1. job = [[serve[w] EXCEPT !.op = "request"] EXCEPT !.at = "get"]
    BY <1>1, SMT DEF Serve
  <2>2. [serve[w] EXCEPT !.op = "request"] \in Serve
    BY <1>1, SMT DEF Serve, Operations
  <2>3. \A j \in Serve : [j EXCEPT !.at = "get"] \in Serve
    BY SMT DEF Serve
  <2>4. job \in Serve
    BY <2>1, <2>2, <2>3, Zenon
  <2>5. job.op = "request"
    BY <1>1, SMT DEF Serve
  <2>6. job.at = "get"
    BY <1>1, SMT DEF Serve
  <2>7. job.client = c
    BY <1>1, SMT DEF Serve
  <2>8. job.session = serve[w].session
    BY <1>1, SMT DEF Serve
  <2> HIDE DEF job
  <2>9. job # Idle
    BY <2>4, IdleIsNoJob, Zenon
  <2>10. c \in orderly => JobOK(job, session, wish[c])
    BY <1>1, <2>5, <2>6, <2>8, Labels, Zenon DEF JobOK, Wishes, QuietOK
  <2>11. QED BY <1>1, <1>2, <1>4, <2>4, <2>7, <2>8, <2>9, <2>10, WorkKeeps, Zenon
<1>5. QED BY <1>3, <1>4, Zenon DEF Finish

\* The transaction failed.
LEMMA FailKeeps ==
    ASSUME PortalInv, NEW w \in Serving, serve[w] # Idle,
           Fail(w), UNCHANGED <<mode, orderly, portalSession, earned, wish>>,
           serve[w].client \in orderly =>
               serve[w].op # "open" /\ QuietOK(portalSession[serve[w].client], wish[serve[w].client])
    PROVE  PortalInv'
<1> DEFINE c == serve[w].client
           job == [serve[w] EXCEPT !.op = "fallback", !.at = "test", !.session.reason = RejectReason]
<1>1. /\ serve[w] \in Serve /\ c \in Client /\ serve[w].session \in Session
      /\ EarnedBy(portalSession[c], earned[c])
      /\ c \in orderly => SessionOK(portalSession[c])
  BY AtWork, Zenon
<1>2. CASE serve[w].op # "open"
  <2>1. portalSession' = [portalSession EXCEPT ![c] = portalSession[c]] /\ portalSession[c] \in Session \cup {NoSession}
    BY <1>1, Untouched, Zenon DEF PortalInv
  <2>2. QED BY <1>1, <1>2, <2>1, FinishKeeps, Zenon DEF Fail
<1>3. CASE serve[w].op = "open"
  <2>1. c \notin orderly
    BY <1>3
  <2>2. CASE Becomes(w, Idle)
    BY <2>1, <2>2, ReadKeeps, Zenon
  <2>3. CASE Becomes(w, job)
    <3>1. RejectReason \in {Allowed, NotAuthenticated, Unauthorised} /\ (mode # "ModeAllow" => RejectReason # Allowed)
      BY Rejected, Zenon DEF PortalInv
    <3>2. job.session = [user |-> serve[w].session.user, reason |-> RejectReason]
      BY <1>1, SMT DEF Serve, Session
    <3>3. job.session \in Session /\ job.session.reason = RejectReason
      <4>1. serve[w].session.user \in User \cup {Nobody}
        BY <1>1, SMT DEF Session
      <4> DEFINE made == job.session
      <4>2. made = [user |-> serve[w].session.user, reason |-> RejectReason]
        BY <3>2
      <4> HIDE DEF made
      <4>3. made \in Session /\ made.reason = RejectReason
        BY <3>1, <4>1, <4>2, SessionFacts, Zenon
      <4>4. QED BY <4>3 DEF made
    <3>4. job \in Serve
      <4>1. job = [[[serve[w] EXCEPT !.op = "fallback"] EXCEPT !.at = "test"] EXCEPT !.session.reason = RejectReason]
        BY <1>1, SMT DEF Serve
      <4>2. [serve[w] EXCEPT !.op = "fallback"] \in Serve
        BY <1>1, SMT DEF Serve, Operations
      <4>3. \A j \in Serve : [j EXCEPT !.at = "test"] \in Serve
        BY SMT DEF Serve
      <4>4. \A j \in Serve : [j EXCEPT !.session.reason = RejectReason] \in Serve
        BY <3>1, SMT DEF Serve, Session
      <4>5. QED BY <4>1, <4>2, <4>3, <4>4, Zenon
    <3>5. job.client = c
      BY <1>1, SMT DEF Serve
    <3>6. EarnedBy(job.session, earned[c])
      BY <3>1, <3>3, Zenon DEF EarnedBy
    <3> HIDE DEF job
    <3>7. job # Idle
      BY <3>4, IdleIsNoJob, Zenon
    <3>8. QED BY <2>1, <2>3, <3>4, <3>5, <3>6, <3>7, ReadKeeps, Zenon
  <2>4. QED BY <1>3, <2>2, <2>3, Zenon DEF Fail
<1>4. QED BY <1>2, <1>3

LEMMA NoSessionKeeps ==
    /\ \A users : EarnedBy(NoSession, users)
    /\ SessionOK(NoSession)
<1>1. NoSession.reason # Allowed
  BY NoSessionIsNone, SMT DEF Allowed
<1>2. QED BY <1>1, NoSessionIsNone, SessionFacts, Zenon DEF EarnedBy, SessionOK

LEMMA DeleteSessionKeeps ==
    ASSUME PortalInv, NEW w \in Serving, DeleteSession(w), UNCHANGED <<mode, orderly>>
    PROVE  PortalInv'
<1> DEFINE c == serve[w].client
           job == [serve[w] EXCEPT !.at = "create"]
<1>1. serve[w] # Idle /\ serve[w].at = "delete" /\ UNCHANGED <<earned, wish>>
  BY Zenon DEF DeleteSession, Doing
<1>2. /\ serve[w] \in Serve /\ c \in Client /\ EarnedBy(serve[w].session, earned[c])
      /\ c \in orderly => JobOK(serve[w], portalSession[c], wish[c])
      /\ c \in orderly => ~ MayConflict(w)
  BY <1>1, AtWork, Zenon
<1>3. /\ job \in Serve /\ job # Idle /\ job.op = serve[w].op /\ job.at = "create"
      /\ job.client = c /\ job.session = serve[w].session
  BY <1>2, Labels, StepParts, Zenon
<1> HIDE DEF job
<1>4. c \in orderly => serve[w].op \notin {"open", "fallback"}
  <2>1. "delete" \notin {"test", "create"}
    BY SMT
  <2>2. QED BY <1>1, <1>2, <2>1, Zenon DEF JobOK
<1>5. c \in orderly => JobOK(job, NoSession, wish[c])
  BY <1>1, <1>2, <1>3, <1>4, Labels, Zenon DEF JobOK, Wishes
<1>6. CASE /\ portalSession' = [portalSession EXCEPT ![c] = NoSession]
           /\ Becomes(w, job)
  <2>1. earned' = [earned EXCEPT ![c] = earned[c]] /\ earned[c] \in SUBSET User /\ earned[c] \subseteq earned[c]
    BY <1>1, <1>2, Untouched, Zenon DEF PortalInv
  <2>2. NoSession \in Session \cup {NoSession}
    OBVIOUS
  <2>3. QED BY <1>1, <1>2, <1>3, <1>5, <1>6, <2>1, <2>2, NoSessionKeeps, WorkKeeps, Zenon
<1>7. CASE (portalSession[c] = NoSession \/ MayConflict(w)) /\ Becomes(w, job) /\ UNCHANGED portalSession
  <2>1. c \in orderly => portalSession[c] = NoSession
    BY <1>2, <1>7
  <2>2. QED BY <1>1, <1>2, <1>3, <1>5, <1>7, <2>1, ReadKeeps, Zenon
<1>8. CASE (portalSession[c] = NoSession \/ MayConflict(w)) /\ Fail(w) /\ UNCHANGED portalSession
  <2>1. c \in orderly => portalSession[c] = NoSession
    BY <1>2, <1>8
  <2>2. c \in orderly => QuietOK(portalSession[c], wish[c])
    BY <1>1, <1>2, <2>1, Labels, Zenon DEF JobOK, Wishes, QuietOK
  <2>3. c \in orderly => serve[w].op # "open"
    BY <1>4, Zenon
  <2>4. QED BY <1>1, <1>8, <2>2, <2>3, FailKeeps, Zenon
<1>9. QED BY <1>6, <1>7, <1>8, Zenon DEF DeleteSession, Step, job

LEMMA CreateSessionKeeps ==
    ASSUME PortalInv, NEW w \in Serving, CreateSession(w), UNCHANGED <<mode, orderly>>
    PROVE  PortalInv'
<1> DEFINE c == serve[w].client
<1>1. serve[w] # Idle /\ serve[w].at = "create" /\ UNCHANGED <<earned, wish>>
  BY Zenon DEF CreateSession, Doing
<1>2. /\ c \in Client /\ serve[w].session \in Session /\ EarnedBy(serve[w].session, earned[c])
      /\ c \in orderly => JobOK(serve[w], portalSession[c], wish[c])
      /\ c \in orderly => ~ MayConflict(w)
  BY <1>1, AtWork, Zenon
<1>3. CASE portalSession' = [portalSession EXCEPT ![c] = serve[w].session] /\ Finish(w)
  <2>1. c \in orderly => SessionOK(serve[w].session) /\ QuietOK(serve[w].session, wish[c])
    BY <1>1, <1>2, Labels, Zenon DEF JobOK, Wishes, QuietOK
  <2>2. serve[w].session \in Session \cup {NoSession}
    BY <1>2
  <2>3. QED BY <1>1, <1>2, <1>3, <2>1, <2>2, FinishKeeps, Zenon
<1>4. CASE (portalSession[c] # NoSession \/ MayConflict(w)) /\ Fail(w) /\ UNCHANGED portalSession
  <2>1. c \notin orderly
    BY <1>1, <1>2, <1>4, Zenon DEF JobOK
  <2>2. QED BY <1>1, <1>4, <2>1, FailKeeps, Zenon
<1>5. QED BY <1>3, <1>4, Zenon DEF CreateSession

LEMMA ExpireKeeps ==
    ASSUME PortalInv, Expire, UNCHANGED <<mode, orderly>>
    PROVE  PortalInv'
<1>1. PICK c \in Client : /\ portalSession' = [portalSession EXCEPT ![c] = NoSession]
                          /\ wish' = [wish EXCEPT ![c] = NoWish]
  BY Zenon DEF Expire
<1>2. UNCHANGED <<mode, orderly, serve, earned>>
  BY DEF Expire
<1>3. \A d \in Client : /\ portalSession'[d] = IF d = c THEN NoSession ELSE portalSession[d]
                        /\ wish'[d] = IF d = c THEN NoWish ELSE wish[d]
  BY <1>1, SMT DEF PortalInv, PortalTypeOK
<1>4. PortalTypeOK'
  <2>1. portalSession' \in [Client -> Session \cup {NoSession}] /\ wish' \in [Client -> Session \cup {NoWish}]
    BY <1>1, SMT DEF PortalInv, PortalTypeOK
  <2>2. QED BY <1>2, <2>1, Zenon DEF PortalInv, PortalTypeOK
<1>5. EarnedInv'
  BY <1>2, <1>3, NoSessionKeeps, Zenon DEF PortalInv, EarnedInv, EarnedBy
<1>6. OrderlyInv'
  <2> SUFFICES ASSUME NEW d \in orderly
               PROVE  /\ SessionOK(portalSession'[d])
                      /\ \A v, w \in Serving : Serves(v, d)' /\ Serves(w, d)' => v = w
                      /\ \A w \in Serving : Serves(w, d)' => JobOK(serve'[w], portalSession'[d], wish'[d])
                      /\ Quiet(d)' => QuietOK(portalSession'[d], wish'[d])
    BY <1>2, Zenon DEF OrderlyInv, Quiet, Serves, SessionOK, JobOK, QuietOK, Wishes
  <2>0. (\A v \in Serving : Serves(v, d)' <=> Serves(v, d)) /\ (Quiet(d)' <=> Quiet(d)) /\ serve' = serve
    BY <1>2, Zenon DEF Quiet, Serves
  <2>1. d \in Client
    BY DEF PortalInv, PortalTypeOK
  <2>2. /\ SessionOK(portalSession[d])
        /\ \A v, w \in Serving : Serves(v, d) /\ Serves(w, d) => v = w
        /\ \A w \in Serving : Serves(w, d) => JobOK(serve[w], portalSession[d], wish[d])
        /\ Quiet(d) => QuietOK(portalSession[d], wish[d])
    BY DEF PortalInv, OrderlyInv
  <2>3. CASE d # c
    <3>1. portalSession'[d] = portalSession[d] /\ wish'[d] = wish[d]
      BY <1>3, <2>1, <2>3, Zenon
    <3>2. QED BY <2>0, <2>2, <3>1, Zenon
  <2>4. CASE d = c
    <3>1. portalSession'[d] = NoSession /\ wish'[d] = NoWish
      BY <1>3, <2>1, <2>4, Zenon
    <3>2. \A w \in Serving : Serves(w, d) => JobOK(serve[w], NoSession, NoWish)
      BY <2>2, Zenon DEF JobOK
    <3>3. QED BY <2>0, <2>2, <3>1, <3>2, NoSessionKeeps, Zenon DEF QuietOK
  <2>5. QED BY <2>3, <2>4
<1>7. QED BY <1>4, <1>5, <1>6 DEF PortalInv

--------------------------------------------------------------------------------
(* Theorems *)

LEMMA PortalStarts ==
    ASSUME PortalInit PROVE PortalInv
<1>1. PortalTypeOK
  BY SMT DEF PortalInit, PortalTypeOK
<1>2. (\A c \in Client : portalSession[c] = NoSession /\ wish[c] = NoWish) /\ (\A w \in Serving : serve[w] = Idle)
  BY SMT DEF PortalInit
<1>3. EarnedInv
  BY <1>2, NoSessionKeeps, Zenon DEF EarnedInv
<1>4. OrderlyInv
  <2>1. orderly \subseteq Client
    BY DEF PortalInit
  <2>2. \A w \in Serving, c \in Client : ~ Serves(w, c)
    BY <1>2, Zenon DEF Serves
  <2>3. QED BY <1>2, <2>1, <2>2, NoSessionKeeps, SMT DEF OrderlyInv, QuietOK
<1>5. QED BY <1>1, <1>3, <1>4 DEF PortalInv

LEMMA PortalStays ==
    ASSUME PortalInv, UNCHANGED portalVars PROVE PortalInv'
<1>1. UNCHANGED <<mode, orderly, portalSession, serve, earned, wish>>
  BY DEF portalVars
<1>2. PortalTypeOK'
  BY <1>1 DEF PortalInv, PortalTypeOK
<1>3. EarnedInv'
  BY <1>1 DEF PortalInv, EarnedInv, EarnedBy
<1>4. OrderlyInv'
  BY <1>1 DEF PortalInv, OrderlyInv, SessionOK, Serves, Quiet, QuietOK, JobOK, Wishes
<1>5. QED BY <1>2, <1>3, <1>4 DEF PortalInv

LEMMA PortalMoves ==
    ASSUME PortalInv, PortalNext PROVE PortalInv'
<1>1. UNCHANGED <<mode, orderly>>
  BY DEF PortalNext
<1>2. ASSUME NEW w \in Serving,
             Request(w) \/ Login(w) \/ Logout(w) \/ GetSessionInfo(w) \/ ForceLogout(w)
               \/ SetAccessProfile(w) \/ SetSession(w) \/ DeleteSession(w) \/ CreateSession(w)
      PROVE  PortalInv'
  BY <1>1, <1>2, RequestKeeps, LoginKeeps, LogoutKeeps, GetSessionInfoKeeps, ForceLogoutKeeps,
     SetAccessProfileKeeps, SetSessionKeeps, DeleteSessionKeeps, CreateSessionKeeps, Zenon
<1>3. CASE Expire
  BY <1>1, <1>3, ExpireKeeps
<1>4. QED BY <1>2, <1>3, Zenon DEF PortalNext

\* The invariant behind the theorems below: what is written was earned, and the
\* one goroutine of a client that waits for its answers works for its last wish.
LEMMA PortalAlways == PortalSpec => []PortalInv
<1>1. PortalInit => PortalInv
  BY PortalStarts
<1>2. PortalInv /\ [PortalNext]_portalVars => PortalInv'
  BY PortalStays, PortalMoves
<1>3. QED BY <1>1, <1>2, PTL DEF PortalSpec

\* Every job is one the portal knows, with a session to write: no transaction of
\* the portal writes back a session that was not there (security.go:69-104).
THEOREM PortalTypes == PortalSpec => []PortalTypeOK
<1>1. PortalInv => PortalTypeOK
  BY DEF PortalInv
<1>2. QED BY <1>1, PortalAlways, PTL

\* An open session names somebody who logged in at the client or whose device was
\* found there: for any number of goroutines and whatever transactions fail
\* (security.go:34-68, 178-290).
THEOREM OpenSessionsAreEarned == PortalSpec => []OpenIsEarned
<1>1. PortalInv => OpenIsEarned
  BY Zenon DEF PortalInv, EarnedInv, EarnedBy, OpenIsEarned
<1>2. QED BY <1>1, PortalAlways, PTL

\* A client that waits for each answer has the session its last login or logout
\* asked for until the session ends (portal.go:90, 317; security.go:34-104).
THEOREM LastWishesHold == PortalSpec => []LastWishHolds
<1>1. PortalInv => LastWishHolds
  BY Zenon DEF PortalInv, OrderlyInv, QuietOK, LastWishHolds
<1>2. QED BY <1>1, PortalAlways, PTL

\* Such a client never has a blocked session in the name of an enabled user
\* (security.go:200-202, 284-290).
THEOREM NoEnabledUserIsBlocked == PortalSpec => []EnabledNotBlocked
<1>1. PortalInv => EnabledNotBlocked
  BY Zenon DEF PortalInv, OrderlyInv, SessionOK, EnabledNotBlocked
<1>2. QED BY <1>1, PortalAlways, PTL

=============================================================================

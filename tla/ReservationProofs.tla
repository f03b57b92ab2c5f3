--------------------------- MODULE ReservationProofs ---------------------------
(***************************************************************************)
(* ReservationInv is inductive, for any number of clients, hosts,          *)
(* goroutines and addresses; from it, that a session's address is reserved *)
(* for its name and that a flush forgets the client.                       *)
(***************************************************************************)
EXTENDS ReservationInvariant, ForwardingProofs

-----------------------------------------------------------------------------
(***************************************************************************)
(* Steps seen from a client they are not made for.                         *)
(***************************************************************************)

\* A step that writes no new address to a row: it deletes it, or leaves it one.
Shrinks(key) ==
    \/ sessions'[key] = Nil
    \/ sessions[key] # Nil /\ sessions'[key].addr = sessions[key].addr

\* Rows at most go, and reservations stay.
Undisturbed(client) ==
    /\ \A host \in Host : Shrinks(<<client, host>>)
    /\ \A o \in Offset : rdns'[<<client, o>>] = rdns[<<client, o>>]

Safe(local) == DraftSafe(local) /\ SnapshotSafe(local) /\ FlushSafe(local)

\* The offset of an address of the pool, and the address of an offset.
LEMMA PoolOffsets ==
    /\ \A addr \in Address \cup {NoIP} : Kept(addr) => OffsetOf(addr) \in Offset
    /\ \A o \in Offset : OffsetOf(IP4fromOffset(o)) = o
    /\ \A addr \in Address \cup {NoIP} :
          OffsetFromIP4(addr) # MaxValue =>
             Kept(addr) /\ OffsetFromIP4(addr) = OffsetOf(addr)
    /\ \A a, b \in Address \cup {NoIP} :
          Kept(a) /\ OffsetFromIP4(b) = OffsetOf(a) => b = a
BY PoolAssumption DEF Address, NoIP, Kept, OffsetOf, Offset, IP4fromOffset, OffsetFromIP4

LEMMA DraftKept ==
    ASSUME TypeOK, NEW v \in Worker, DraftSafe(job[v]), job'[v] = job[v],
           Undisturbed(job[v].client)
    PROVE  DraftSafe(job[v])'
<1> DEFINE local == job[v]
           key == <<local.client, local.host>>
<1> SUFFICES ASSUME local.pc \in {"resolve"} \cup AllocPc
             PROVE  DraftSafe(job[v])'
  BY DEF DraftSafe
<1>1. /\ local \in Job /\ local.client \in Client /\ local.host \in Host
      /\ local.row # Nil => local.row \in Row
      /\ local.offset \in Offset
  BY JobType DEF Goroutine, QueryPc, Job
<1>2. Shrinks(key)
  BY <1>1 DEF Undisturbed
<1>3. ~ local.cached => sessions'[key] = Nil
  BY <1>2 DEF Shrinks, DraftSafe
<1>4. local.pc = "allocCreate" => rdns'[<<local.client, local.offset>>] = Nil
  BY <1>1 DEF Undisturbed, DraftSafe
<1>5. ASSUME local.row # Nil
      PROVE  ReservedFor(rdns', local.client, local.host, local.row.addr)
  <2>1. local.row.addr \in Address \cup {NoIP}
    BY <1>1, <1>5 DEF Row
  <2>2. ReservedFor(rdns, local.client, local.host, local.row.addr)
    BY <1>5 DEF DraftSafe
  <2> QED
    BY <2>1, <2>2, PoolOffsets DEF Undisturbed, ReservedFor, SlotOf
<1> QED
  BY <1>3, <1>4, <1>5 DEF DraftSafe, ReservedFor, SlotOf, Kept, OffsetOf

LEMMA SnapshotKept ==
    ASSUME TypeOK, NEW v \in Worker, SnapshotSafe(job[v]), job'[v] = job[v],
           Undisturbed(job[v].client)
    PROVE  SnapshotSafe(job[v])'
<1> SUFFICES ASSUME job[v].pc \in ReevalPc \ {"reevaluate"}, NEW task \in job[v].todo,
                    sessions'[task.key] # Nil
             PROVE  sessions'[task.key].addr = task.row.addr
  BY DEF SnapshotSafe
<1>1. task \in Task /\ job[v].client \in Client
  BY JobType DEF Goroutine, Job
<1>2. task.key[1] = job[v].client
  BY DEF SnapshotSafe
<1>3. task.key \in Key
  BY <1>1 DEF Task
<1>4. task.key[2] \in Host /\ task.key = <<job[v].client, task.key[2]>>
  BY <1>2, <1>3 DEF Key
<1>5. Shrinks(task.key)
  BY <1>4 DEF Undisturbed
<1> QED
  BY <1>5 DEF Shrinks, SnapshotSafe

LEMMA FlushKept ==
    ASSUME TypeOK, NEW v \in Worker, FlushSafe(job[v]), job'[v] = job[v],
           Undisturbed(job[v].client)
    PROVE  FlushSafe(job[v])'
<1>1. \A host \in Host : sessions'[<<job[v].client, host>>] # Nil
                            => sessions[<<job[v].client, host>>] # Nil
  BY DEF Undisturbed, Shrinks
<1>2. \A o \in Offset : rdns'[<<job[v].client, o>>] # Nil
                           => rdns[<<job[v].client, o>>] # Nil
  BY DEF Undisturbed
<1> QED
  BY <1>1, <1>2 DEF FlushSafe

\* What a goroutine holds stays as good as it was.
LEMMA BystanderKept ==
    ASSUME TypeOK, TypeOK', NEW v \in Worker, Safe(job[v]), job'[v] = job[v],
           job[v].client # Nil => Undisturbed(job[v].client)
    PROVE  Safe(job[v])'
<1>1. CASE job[v].client = Nil
  <2>1. job[v].pc \notin QueryPc \cup ReevalPc \cup FlushPc
    BY <1>1 DEF TypeOK, Goroutine, Equipped
  <2> QED
    BY <2>1 DEF Safe, DraftSafe, SnapshotSafe, FlushSafe, QueryPc, FlushPc
<1>2. CASE job[v].client # Nil
  BY <1>2, DraftKept, SnapshotKept, FlushKept DEF Safe
<1> QED
  BY <1>1, <1>2

\* Nobody works while main starts, and main sleeps when it is done.
LEMMA Serving ==
    ASSUME ReservationInv, NEW g \in Worker \cup {Ticker},
           job[g].client # Nil \/ job[g].pc # "idle"
    PROVE  Up
BY DEF ReservationInv, BootSafe, Up, Idle

LEMMA StaysUp ==
    ASSUME ReservationInv, Up, job'[Admin] = job[Admin]
    PROVE  Up' /\ BootSafe(job[Admin])'
BY DEF ReservationInv, BootSafe, Up

-----------------------------------------------------------------------------
(***************************************************************************)
(* A step made for one client.                                             *)
(***************************************************************************)

\* Only the client's own rows, reservations and goroutine need to be looked at.
LEMMA WorkerKeeps ==
    ASSUME ReservationInv, TypeOK', NEW w \in Worker, job[w].client \in Client,
           NEW local, Continue(w, local), local.client \in {job[w].client, Nil},
           \A key \in Key : key[1] # job[w].client => sessions'[key] = sessions[key],
           \A slot \in Slot : slot[1] # job[w].client => rdns'[slot] = rdns[slot],
           \A host \in Host :
              sessions'[<<job[w].client, host>>] # Nil =>
                 ReservedFor(rdns', job[w].client, host, sessions'[<<job[w].client, host>>].addr),
           Safe(job[w])'
    PROVE  ReservationInv'
<1> DEFINE client == job[w].client
<1>1. job \in [Goroutine -> Job] /\ TypeOK
  BY DEF ReservationInv, TypeOK
<1>2. /\ job'[w] = local
      /\ \A g \in Goroutine \ {w} : job'[g] = job[g]
  BY <1>1 DEF Continue, Goroutine
<1>3. ASSUME NEW other \in Client \ {client}
      PROVE  /\ Undisturbed(other)
             /\ \A host \in Host : sessions'[<<other, host>>] = sessions[<<other, host>>]
             /\ \A o \in Offset : rdns'[<<other, o>>] = rdns[<<other, o>>]
  <2>1. \A host \in Host : sessions'[<<other, host>>] = sessions[<<other, host>>]
    BY DEF Key
  <2>2. \A o \in Offset : rdns'[<<other, o>>] = rdns[<<other, o>>]
    BY DEF Slot
  <2>3. \A addr \in Address \cup {NoIP} : Kept(addr) => OffsetOf(addr) \in Offset
    BY PoolOffsets
  <2> QED
    BY <2>1, <2>2, <2>3 DEF Undisturbed, Shrinks, ReservedFor, SlotOf, Kept
<1>4. ASSUME NEW v \in Worker
      PROVE  Safe(job[v])'
  <2>1. CASE v = w
    BY <2>1
  <2>2. CASE v # w
    <3>1. job'[v] = job[v]
      BY <1>2, <2>2 DEF Goroutine
    <3>2. job[v].client # client
      BY <2>2, ForwardingAssumption DEF ReservationInv, WorkersApart
    <3>3. job[v].client \in Client \cup {Nil}
      BY <1>1 DEF Goroutine, Job
    <3>4. Safe(job[v])
      BY DEF ReservationInv, Safe
    <3> QED
      BY <1>1, <1>3, <3>1, <3>2, <3>3, <3>4, BystanderKept
  <2> QED
    BY <2>1, <2>2
<1>5. Up /\ Up' /\ BootSafe(job[Admin])'
  <2>1. job'[Admin] = job[Admin]
    BY <1>2, ForwardingAssumption DEF Goroutine
  <2> QED
    BY <2>1, ForwardingAssumption, Serving, StaysUp
<1>6. AddressIsReserved'
  <2> SUFFICES ASSUME NEW key \in Key, sessions'[key] # Nil, Kept(sessions'[key].addr)
               PROVE  rdns'[<<key[1], OffsetOf(sessions'[key].addr)>>] = key[2]
    BY DEF AddressIsReserved, Kept, OffsetOf
  <2>1. key[1] \in Client /\ key[2] \in Host /\ key = <<key[1], key[2]>>
    BY DEF Key
  <2>2. CASE key[1] = client
    BY <2>1, <2>2 DEF ReservedFor, SlotOf, Kept, OffsetOf
  <2>3. CASE key[1] # client
    <3>1. sessions'[key] = sessions[key]
      BY <2>3
    <3>2. rdns[<<key[1], OffsetOf(sessions[key].addr)>>] = key[2]
      BY <1>5, <3>1 DEF ReservationInv, AddressIsReserved, Dropping
    <3>3. sessions[key] \in Row
      BY <1>1, <3>1 DEF TypeOK
    <3>4. OffsetOf(sessions[key].addr) \in Offset
      BY <3>1, <3>3, PoolOffsets DEF Row
    <3> QED
      BY <1>3, <2>1, <2>3, <3>1, <3>2, <3>4
  <2> QED
    BY <2>2, <2>3
<1>7. WorkersApart'
  <2> SUFFICES ASSUME NEW u \in Worker, NEW v \in Worker,
                      job'[u].client # Nil, job'[u].client = job'[v].client
               PROVE  u = v
    BY DEF WorkersApart
  <2>1. \A x \in Worker : job'[x].client \in {job[x].client, Nil}
    BY <1>2 DEF Goroutine
  <2> QED
    BY <2>1 DEF ReservationInv, WorkersApart
<1>8. ~ At(Ticker, "reviewExtend")'
  BY <1>2, ForwardingAssumption DEF ReservationInv, At, Goroutine
<1> QED
  BY <1>4, <1>5, <1>6, <1>7, <1>8 DEF ReservationInv, Safe

\* A step that leaves the tables alone.
LEMMA QuietKeeps ==
    ASSUME ReservationInv, TypeOK', NEW w \in Worker, job[w].client \in Client,
           NEW local, Continue(w, local), local.client \in {job[w].client, Nil},
           UNCHANGED db, Safe(local)
    PROVE  ReservationInv'
<1>1. job'[w] = local
  BY DEF Continue, ReservationInv, TypeOK, Goroutine
<1>2. Safe(job[w])'
  BY <1>1 DEF db, Safe, DraftSafe, SnapshotSafe, FlushSafe, ReservedFor,
     SlotOf, Kept, OffsetOf
<1>3. ASSUME NEW host \in Host, sessions'[<<job[w].client, host>>] # Nil
      PROVE  ReservedFor(rdns', job[w].client, host, sessions'[<<job[w].client, host>>].addr)
  <2>1. Up
    BY ForwardingAssumption, Serving
  <2> QED
    BY <1>3, <2>1 DEF ReservationInv, AddressIsReserved, Dropping, Key, db, ReservedFor,
       SlotOf, Kept, OffsetOf
<1> QED
  BY <1>2, <1>3, WorkerKeeps DEF db

LEMMA IdleSafe == Safe(Idle)
BY DEF Safe, Idle, DraftSafe, SnapshotSafe, FlushSafe, AllocPc, ReevalPc

\* Rows and reservations that stand still stay right.
LEMMA TablesKept ==
    ASSUME ReservationInv, Up, UNCHANGED db
    PROVE  /\ AddressIsReserved'
           /\ \A v \in Worker : job'[v] = job[v] => Safe(job[v])'
<1>1. AddressIsReserved'
  BY DEF db, ReservationInv, AddressIsReserved, Dropping, Kept, OffsetOf
<1>2. \A v \in Worker : job'[v] = job[v] => Safe(job[v])'
  BY DEF db, ReservationInv, Safe, DraftSafe, SnapshotSafe, FlushSafe, ReservedFor, SlotOf,
     Kept, OffsetOf
<1> QED
  BY <1>1, <1>2

-----------------------------------------------------------------------------
(***************************************************************************)
(* Requests arrive, and DNS requests are served.                           *)
(***************************************************************************)

\* A new request finds nothing of its client under way, and holds nothing yet.
LEMMA ArrivalKeeps ==
    ASSUME ReservationInv, TypeOK', Orderly, NEW w \in Worker, NEW client \in Client,
           Accepts(w, client), NEW local, Continue(w, local), local.client = client,
           local.pc \in {"reevaluate", "lookup", "page", "handle", "flushList"}, UNCHANGED db
    PROVE  ReservationInv'
<1>1. /\ job'[w] = local
      /\ \A g \in Goroutine \ {w} : job'[g] = job[g]
  BY DEF Continue, ReservationInv, TypeOK, Goroutine
<1>2. \A v \in Worker : job[v].client # client
  BY DEF Accepts, Orderly
<1>3. Safe(job[w])'
  BY <1>1 DEF Safe, DraftSafe, SnapshotSafe, FlushSafe, AllocPc, ReevalPc
<1>4. \A v \in Worker \ {w} : Safe(job[v])'
  BY <1>1, TablesKept DEF Goroutine, Accepts
<1>5. WorkersApart'
  <2> SUFFICES ASSUME NEW u \in Worker, NEW v \in Worker,
                      job'[u].client # Nil, job'[u].client = job'[v].client
               PROVE  u = v
    BY DEF WorkersApart
  <2>1. \A x \in Worker : job'[x].client = IF x = w THEN client ELSE job[x].client
    BY <1>1 DEF Goroutine
  <2> QED
    BY <1>2, <2>1 DEF ReservationInv, WorkersApart
<1>6. ~ At(Ticker, "reviewExtend")'
  BY <1>1, ForwardingAssumption DEF ReservationInv, At, Goroutine
<1>7. BootSafe(job[Admin])'
  <2>1. job'[Admin] = job[Admin]
    BY <1>1, ForwardingAssumption DEF Goroutine
  <2> QED
    BY <2>1, StaysUp DEF Accepts
<1> QED
  BY <1>3, <1>4, <1>5, <1>6, <1>7, TablesKept DEF ReservationInv, Safe, Accepts

LEMMA RequestsKeep ==
    ASSUME ReservationInv, TypeOK', Orderly, NEW w \in Worker, Requests(w)
    PROVE  ReservationInv'
<1>1. PICK client \in Client :
        \/ \E host \in Host, ifc \in Interface : StartQuery(w, client, host, ifc)
        \/ \E host \in Host : StartPage(w, client, host)
        \/ StartFlush(w, client)
        \/ \E info \in Policy : StartDeleteSession(w, client, info)
  BY DEF Requests
<1>2. Accepts(w, client) /\ UNCHANGED db
  BY <1>1 DEF StartQuery, StartPage, StartFlush, StartDeleteSession, db
<1> DEFINE Begun == {"reevaluate", "lookup", "page", "handle", "flushList"}
<1>3. ASSUME NEW host \in Host, NEW ifc \in Interface, StartQuery(w, client, host, ifc)
      PROVE  ReservationInv'
  <2> DEFINE local == [Idle EXCEPT
                       !.pc = IF unseen[client] THEN "reevaluate" ELSE "lookup",
                       !.client = client, !.host = host, !.ifc = ifc,
                       !.ses = policy[client]]
  <2>1. Continue(w, local)
    BY <1>3 DEF StartQuery
  <2>2. local.client = client /\ local.pc \in Begun
    BY DEF Idle
  <2> HIDE DEF local
  <2> QED
    BY <1>2, <2>1, <2>2, ArrivalKeeps
<1>4. ASSUME NEW host \in Host, StartPage(w, client, host)
      PROVE  ReservationInv'
  <2> DEFINE row == sessions[<<client, host>>]
             local == [Idle EXCEPT !.pc = IF row = Nil THEN "handle" ELSE "page",
                                   !.client = client, !.row = row]
  <2>1. Continue(w, local)
    BY <1>4 DEF StartPage
  <2>2. local.client = client /\ local.pc \in Begun
    BY DEF Idle
  <2> HIDE DEF local
  <2> QED
    BY <1>2, <2>1, <2>2, ArrivalKeeps
<1>5. ASSUME Continue(w, [Idle EXCEPT !.pc = "flushList", !.client = client])
      PROVE  ReservationInv'
  <2> DEFINE local == [Idle EXCEPT !.pc = "flushList", !.client = client]
  <2>1. Continue(w, local)
    BY <1>5
  <2>2. local.client = client /\ local.pc \in Begun
    BY DEF Idle
  <2> HIDE DEF local
  <2> QED
    BY <1>2, <2>1, <2>2, ArrivalKeeps
<1> QED
  BY <1>1, <1>3, <1>4, <1>5 DEF StartFlush, StartDeleteSession

\* What is known of a DNS request on its way to the store.
LEMMA DraftFacts ==
    ASSUME ReservationInv, NEW w \in Worker, job[w].pc \in QueryPc
    PROVE  /\ job[w] \in Job /\ job[w].client \in Client /\ job[w].host \in Host
           /\ <<job[w].client, job[w].host>> \in Key
           /\ job[w].offset \in Offset
           /\ Safe(job[w]) /\ Up
           /\ job[w].pc \in AllocPc => job[w].row \in Row /\ job[w].row # Nil
<1>1. TypeOK /\ Safe(job[w]) /\ Up
  BY Serving DEF ReservationInv, Safe, QueryPc, AllocPc
<1> QED
  BY <1>1, JobType, ForwardingAssumption DEF Goroutine, Job, Key

\* An address read from a row is reserved for the row's name.
LEMMA StoredReserved ==
    ASSUME ReservationInv, Up, NEW client \in Client, NEW host \in Host,
           sessions[<<client, host>>] # Nil
    PROVE  ReservedFor(rdns, client, host, sessions[<<client, host>>].addr)
BY DEF ReservationInv, AddressIsReserved, Dropping, Key, ReservedFor, SlotOf

LEMMA LookupKeeps ==
    ASSUME ReservationInv, TypeOK', NEW w \in Worker,
           LookupHit(w) \/ LookupMiss(w) \/ ResolveFails(w)
    PROVE  ReservationInv'
<1> DEFINE client == job[w].client
           host == job[w].host
           old == sessions[<<client, host>>]
<1>1. /\ job[w] \in Job /\ client \in Client /\ host \in Host /\ Up
  BY DraftFacts DEF LookupHit, LookupMiss, ResolveFails, At, QueryPc
<1>2. old # Nil => ReservedFor(rdns, client, host, old.addr)
  BY <1>1, StoredReserved
<1>3. UNCHANGED db
  BY DEF LookupHit, LookupMiss, ResolveFails, db
<1>4. CASE LookupHit(w)
  <2> DEFINE row == [old EXCEPT !.reason = job[w].ses.verdict[host]]
             local == [job[w] EXCEPT !.pc = "store", !.cached = TRUE, !.row = row]
  <2>1. old \in Row /\ old # Nil
    BY <1>1, <1>4 DEF LookupHit, ReservationInv, TypeOK, Key
  <2>2. row.addr = old.addr
    BY <2>1 DEF Row
  <2> HIDE DEF row
  <2>3. /\ local.pc = "store" /\ local.client = client /\ local.host = host
        /\ local.cached = TRUE /\ local.row = row
    BY <1>1 DEF Job
  <2>4. Continue(w, local)
    BY <1>4 DEF LookupHit, row
  <2> HIDE DEF local
  <2>5. Safe(local)
    BY <1>2, <2>1, <2>2, <2>3
       DEF Safe, DraftSafe, SnapshotSafe, FlushSafe, ReevalPc
  <2> QED
    BY <1>1, <1>3, <2>3, <2>4, <2>5, QuietKeeps
<1>5. CASE LookupMiss(w)
  <2> DEFINE local == [job[w] EXCEPT !.pc = "resolve", !.row = old, !.cached = (old # Nil)]
  <2>1. /\ local.pc = "resolve" /\ local.client = client /\ local.host = host
        /\ local.cached = (old # Nil) /\ local.row = old
    BY <1>1 DEF Job
  <2>2. Continue(w, local)
    BY <1>5 DEF LookupMiss
  <2> HIDE DEF local
  <2>3. Safe(local)
    BY <1>2, <2>1
       DEF Safe, DraftSafe, SnapshotSafe, FlushSafe, ReevalPc
  <2> QED
    BY <1>1, <1>3, <2>1, <2>2, <2>3, QuietKeeps
<1>6. CASE ResolveFails(w)
  <2>1. Idle.client = Nil
    BY DEF Idle
  <2> QED
    BY <1>1, <1>3, <1>6, <2>1, IdleSafe, QuietKeeps DEF ResolveFails, Finish
<1> QED
  BY <1>4, <1>5, <1>6

\* A draft whose row and origin stay as they are stays safe from step to step.
LEMMA DraftGoesOn ==
    ASSUME ReservationInv, NEW w \in Worker, job[w].pc \in {"resolve"} \cup AllocPc,
           NEW pc \in AllocPc \ {"allocDelete"}, NEW row \in Row, NEW offset \in Offset,
           row.addr = NoIP \/ (job[w].row # Nil /\ row.addr = job[w].row.addr),
           pc = "allocGet" => Kept(row.addr) /\ OffsetFromIP4(row.addr) # MaxValue,
           pc = "allocCreate" => rdns[<<job[w].client, offset>>] = Nil
    PROVE  Safe([job[w] EXCEPT !.pc = pc, !.row = row, !.offset = offset])
<1> DEFINE local == [job[w] EXCEPT !.pc = pc, !.row = row, !.offset = offset]
<1>1. job[w] \in Job /\ Safe(job[w])
  BY DraftFacts DEF QueryPc
<1>2. /\ local.pc = pc /\ local.client = job[w].client /\ local.host = job[w].host
      /\ local.cached = job[w].cached /\ local.row = row /\ local.offset = offset
  BY <1>1 DEF Job
<1>3. pc \notin ReevalPc \cup FlushPc
  BY DEF AllocPc, ReevalPc, FlushPc
<1> HIDE DEF local
<1>4. DraftSafe(local)
  <2> DEFINE client == job[w].client
             host == job[w].host
  <2>1. /\ ~ job[w].cached => sessions[<<client, host>>] = Nil
        /\ job[w].row # Nil => ReservedFor(rdns, client, host, job[w].row.addr)
    BY <1>1 DEF Safe, DraftSafe
  <2>2. ~ Kept(NoIP)
    BY DEF Kept
  <2>3. ReservedFor(rdns, client, host, row.addr)
    BY <2>1, <2>2 DEF ReservedFor
  <2> QED
    BY <1>2, <2>1, <2>3 DEF DraftSafe
<1>5. SnapshotSafe(local) /\ FlushSafe(local)
  BY <1>2, <1>3 DEF SnapshotSafe, FlushSafe, FlushPc
<1> QED
  BY <1>4, <1>5 DEF Safe, local

LEMMA ResolveKeeps ==
    ASSUME ReservationInv, TypeOK', NEW w \in Worker, Resolve(w)
    PROVE  ReservationInv'
<1>1. /\ job[w] \in Job /\ job[w].client \in Client /\ job[w].host \in Host
      /\ job[w].offset \in Offset /\ job[w].ifc \in Interface /\ job[w].ses \in SessionInfo
      /\ job[w].pc = "resolve"
  BY JobType DEF Resolve, At, QueryPc, Goroutine, ReservationInv, Job
<1>2. PICK records \in Answer[job[w].host] :
        \E target \in Picked(job[w].row, records) :
           Continue(w, [job[w] EXCEPT !.pc = AllocateFrom(Merged(job[w], target)),
                                      !.row = Merged(job[w], target)])
  BY DEF Resolve
<1>3. PICK target \in Picked(job[w].row, records) :
        Continue(w, [job[w] EXCEPT !.pc = AllocateFrom(Merged(job[w], target)),
                                   !.row = Merged(job[w], target)])
  BY <1>2
<1> DEFINE row == Merged(job[w], target)
<1>4. row \in Row
  BY <1>1, MergedType
<1>5. row.addr = NoIP \/ (job[w].row # Nil /\ row.addr = job[w].row.addr)
  <2>1. row.addr = IF job[w].row # Nil /\ job[w].row.target = target
                   THEN job[w].row.addr ELSE NoIP
    BY DEF Merged
  <2> HIDE DEF row
  <2> QED
    BY <2>1
<1> HIDE DEF row
<1> DEFINE pc == AllocateFrom(row)
           local == [job[w] EXCEPT !.pc = pc, !.row = row, !.offset = job[w].offset]
<1>6. pc \in {"store", "allocGet", "allocList"}
  BY DEF AllocateFrom
<1>7. pc = "allocGet" => Kept(row.addr) /\ OffsetFromIP4(row.addr) # MaxValue
  <2> HAVE pc = "allocGet"
  <2>1. row.addr # NoIP /\ OffsetFromIP4(row.addr) < MaxValue /\ row.addr \in Address \cup {NoIP}
    BY <1>4 DEF AllocateFrom, Row
  <2>2. OffsetFromIP4(row.addr) # MaxValue
    BY <2>1, PoolAssumption
  <2> QED
    BY <2>1, <2>2, PoolOffsets
<1> HIDE DEF pc
<1>8. Continue(w, local)
  <2>1. local = [job[w] EXCEPT !.pc = pc, !.row = row]
    BY <1>1 DEF Job
  <2> QED
    BY <1>3, <2>1 DEF pc, row
<1>9. Safe(local)
  <2>1. pc \in AllocPc \ {"allocDelete"} /\ pc # "allocCreate"
    BY <1>6 DEF AllocPc
  <2> HIDE DEF local
  <2> QED
    BY <1>1, <1>4, <1>5, <1>7, <2>1, DraftGoesOn DEF local
<1>10. local.client = job[w].client
  BY <1>1 DEF Job
<1> HIDE DEF local
<1> QED
  BY <1>1, <1>8, <1>9, <1>10, QuietKeeps DEF Resolve, db

\* A name's row answers with an address that is its own, so Allocate never takes a
\* reservation from another name.
LEMMA AllocateKeeps ==
    ASSUME ReservationInv, TypeOK', NEW w \in Worker,
           AllocGet(w) \/ AllocList(w) \/ AllocAdd(w)
    PROVE  ReservationInv'
<1>1. /\ job[w] \in Job /\ job[w].client \in Client /\ job[w].host \in Host
      /\ job[w].offset \in Offset /\ Safe(job[w])
      /\ job[w].row \in Row /\ job[w].row # Nil /\ job[w].pc \in AllocPc
  BY DraftFacts DEF AllocGet, AllocList, AllocAdd, At, QueryPc, AllocPc
<1>2. UNCHANGED db
  BY DEF AllocGet, AllocList, AllocAdd, db
<1>3. ASSUME NEW pc \in {"allocList", "allocCreate", "store"}, NEW offset \in Offset,
             pc = "allocCreate" => rdns[<<job[w].client, offset>>] = Nil,
             Continue(w, [job[w] EXCEPT !.pc = pc, !.offset = offset])
      PROVE  ReservationInv'
  <2> DEFINE local == [job[w] EXCEPT !.pc = pc, !.row = job[w].row, !.offset = offset]
  <2>1. local = [job[w] EXCEPT !.pc = pc, !.offset = offset]
    BY <1>1 DEF Job
  <2>2. Safe(local) /\ local.client = job[w].client
    <3>1. pc \in AllocPc \ {"allocDelete"} /\ pc # "allocGet"
      BY DEF AllocPc
    <3>2. local.client = job[w].client
      BY <1>1 DEF Job
    <3> QED
      BY <1>1, <1>3, <3>1, <3>2, DraftGoesOn
  <2>3. Continue(w, local)
    BY <1>3, <2>1
  <2> HIDE DEF local
  <2> QED
    BY <1>1, <1>2, <2>2, <2>3, QuietKeeps
<1>4. ASSUME NEW pc \in {"allocList", "store"}, Continue(w, [job[w] EXCEPT !.pc = pc])
      PROVE  ReservationInv'
  <2>1. [job[w] EXCEPT !.pc = pc] = [job[w] EXCEPT !.pc = pc, !.offset = job[w].offset]
    BY <1>1 DEF Job
  <2> QED
    BY <1>1, <1>3, <1>4, <2>1
<1>5. CASE AllocGet(w)
  <2> DEFINE addr == job[w].row.addr
  <2>1. /\ addr \in Address \cup {NoIP} /\ Kept(addr) /\ OffsetFromIP4(addr) # MaxValue
        /\ ReservedFor(rdns, job[w].client, job[w].host, addr)
    BY <1>1, <1>5 DEF AllocGet, At, AllocPc, Safe, DraftSafe, Row
  <2>2. OwnSlot(w) = SlotOf(job[w].client, addr)
    BY <2>1, PoolOffsets DEF OwnSlot, SlotOf
  <2>3. rdns[OwnSlot(w)] = job[w].host /\ job[w].host # Nil
    BY <1>1, <2>1, <2>2, ForwardingAssumption DEF ReservedFor
  <2> QED
    BY <1>4, <1>5, <2>3 DEF AllocGet
<1>6. CASE AllocList(w)
  <2> DEFINE free == firstAvailable(Reserved(job[w].client))
  <2>1. free.found => free.offset \in Offset \ Reserved(job[w].client)
    BY FirstAvailableIsLeast
  <2>2. CASE free.found
    <3>1. rdns[<<job[w].client, free.offset>>] = Nil
      BY <2>1, <2>2 DEF Reserved
    <3>2. Continue(w, [job[w] EXCEPT !.pc = "allocCreate", !.offset = free.offset])
      BY <1>6, <2>2 DEF AllocList
    <3> HIDE DEF free
    <3> QED
      BY <1>3, <2>1, <2>2, <3>1, <3>2
  <2>3. CASE ~ free.found
    BY <1>4, <1>6, <2>3 DEF AllocList
  <2> QED
    BY <2>2, <2>3
<1>7. CASE AllocAdd(w)
  BY <1>4, <1>7 DEF AllocAdd
<1> QED
  BY <1>5, <1>6, <1>7

\* The offset is still free when it is reserved, and no other name has an address
\* there; the row takes the address only with the reservation.
LEMMA CreateKeeps ==
    ASSUME ReservationInv, TypeOK', Orderly, NEW w \in Worker, AllocCreate(w)
    PROVE  ReservationInv'
<1> DEFINE client == job[w].client
           host == job[w].host
           slot == <<client, job[w].offset>>
           addr == IP4fromOffset(job[w].offset)
           row == [job[w].row EXCEPT !.addr = addr]
           after(pc) == [job[w] EXCEPT !.pc = pc, !.offset = 0, !.row = row]
<1>1. /\ job[w] \in Job /\ client \in Client /\ host \in Host
      /\ job[w].offset \in Offset /\ Safe(job[w]) /\ Up
      /\ job[w].row \in Row /\ job[w].pc = "allocCreate"
  BY DraftFacts DEF AllocCreate, At, QueryPc, AllocPc
<1>2. slot \in Slot /\ rdns[slot] = Nil /\ rdns \in [Slot -> Host \cup {Nil}]
  BY <1>1 DEF Safe, DraftSafe, AllocPc, Slot, ReservationInv, TypeOK
<1>3. /\ rdns' = [rdns EXCEPT ![slot] = host]
      /\ UNCHANGED sessions
      /\ \E pc \in {"allocAdd", "store"} : Continue(w, after(pc))
  BY <1>1, <1>2 DEF AllocCreate, CreateReverseDNS, CreateReverseDNSFails, Conflict, Orderly
<1>4. PICK pc \in {"allocAdd", "store"} : Continue(w, after(pc))
  BY <1>3
<1> DEFINE local == after(pc)
<1>5. addr \in Address /\ OffsetOf(addr) = job[w].offset
  BY <1>1, PoolOffsets DEF Address
<1>6. row.addr = addr
  BY <1>1 DEF Row
<1> HIDE DEF row
<1>7. /\ local.pc = pc /\ local.client = client /\ local.host = host
      /\ local.row = row /\ local.cached = job[w].cached
  BY <1>1 DEF Job
<1>8. Continue(w, local)
  BY <1>4
<1> HIDE DEF local
<1>9. job'[w] = local
  BY <1>8 DEF Continue, ReservationInv, TypeOK, Goroutine
<1>10. rdns'[slot] = host
  BY <1>2, <1>3
<1>11. ReservedFor(rdns', client, host, addr)
  BY <1>5, <1>10 DEF ReservedFor, SlotOf
<1>12. Safe(job[w])'
  <2>1. SlotOf(client, addr) = slot
    BY <1>5 DEF SlotOf
  <2>2. ~ job[w].cached => sessions[<<client, host>>] = Nil
    BY <1>1 DEF Safe, DraftSafe, AllocPc
  <2>3. /\ local.pc # "allocDelete" /\ local.pc # "allocGet" /\ local.pc # "allocCreate"
        /\ local.pc \notin ReevalPc \cup FlushPc
    BY <1>7 DEF ReevalPc, FlushPc
  <2>4. DraftSafe(job[w])'
    <3>2. ReservedFor(rdns', job'[w].client, job'[w].host, job'[w].row.addr)
      BY <1>6, <1>7, <1>9, <1>11
    <3>3. ~ job'[w].cached => sessions'[<<job'[w].client, job'[w].host>>] = Nil
      BY <1>3, <1>7, <1>9, <2>2
    <3> QED
      BY <1>9, <2>3, <3>2, <3>3 DEF DraftSafe, ReservedFor, SlotOf, Kept, OffsetOf
  <2>5. SnapshotSafe(job[w])' /\ FlushSafe(job[w])'
    BY <1>9, <2>3 DEF SnapshotSafe, FlushSafe, FlushPc
  <2> QED
    BY <2>4, <2>5 DEF Safe
<1>13. ASSUME NEW other \in Host, sessions'[<<client, other>>] # Nil
       PROVE  ReservedFor(rdns', client, other, sessions'[<<client, other>>].addr)
  <2> DEFINE its == sessions[<<client, other>>].addr
  <2>1. sessions[<<client, other>>] # Nil /\ sessions'[<<client, other>>].addr = its
    BY <1>3, <1>13
  <2>2. its \in Address \cup {NoIP}
    BY <1>1, <2>1 DEF ReservationInv, TypeOK, Key, Row
  <2>3. ReservedFor(rdns, client, other, its)
    BY <1>1, <2>1, StoredReserved
  <2> HIDE DEF its
  <2>4. CASE Kept(its)
    <3>1. SlotOf(client, its) \in Slot
      BY <1>1, <2>2, <2>4, PoolOffsets DEF SlotOf, Slot
    <3>2. rdns[SlotOf(client, its)] = other
      BY <2>3, <2>4 DEF ReservedFor
    <3>3. SlotOf(client, its) # slot
      BY <1>2, <3>2, ForwardingAssumption
    <3>4. rdns'[SlotOf(client, its)] = other
      BY <1>2, <1>3, <3>1, <3>2, <3>3
    <3> QED
      BY <2>1, <3>4 DEF ReservedFor
  <2> QED
    BY <2>1, <2>4 DEF ReservedFor
<1>14. \A s \in Slot : s[1] # client => rdns'[s] = rdns[s]
  BY <1>2, <1>3
<1> QED
  BY <1>1, <1>3, <1>7, <1>8, <1>12, <1>13, <1>14, WorkerKeeps

\* What is stored answers with an address of its own.
LEMMA StoreKeeps ==
    ASSUME ReservationInv, TypeOK', Orderly, NEW w \in Worker, Store(w)
    PROVE  ReservationInv'
<1> DEFINE client == job[w].client
           host == job[w].host
           key == <<client, host>>
           row == job[w].row
<1>1. /\ job[w] \in Job /\ client \in Client /\ host \in Host /\ key \in Key
      /\ Safe(job[w]) /\ Up /\ row \in Row /\ row # Nil /\ job[w].pc = "store"
  BY DraftFacts DEF Store, At, QueryPc, AllocPc
<1>2. /\ ~ job[w].cached => sessions[key] = Nil
      /\ ReservedFor(rdns, client, host, row.addr)
  BY <1>1 DEF Safe, DraftSafe, AllocPc
<1>3. \/ sessions' = sessions
      \/ /\ sessions' = [sessions EXCEPT ![key] = row]
         /\ ReservedFor(rdns, client, host, row.addr)
  BY <1>2 DEF Store, UpdateDNSSession, CreateDNSSession
<1>4. rdns' = rdns /\ Continue(w, Idle) /\ sessions \in [Key -> Row \cup {Nil}]
  BY DEF Store, Finish, ReservationInv, TypeOK
<1>5. job'[w] = Idle
  BY <1>4 DEF Continue, ReservationInv, TypeOK, Goroutine
<1>6. Safe(job[w])'
  BY <1>5 DEF Safe, Idle, DraftSafe, SnapshotSafe, FlushSafe, AllocPc, ReevalPc
<1>7. ASSUME NEW other \in Host, sessions'[<<client, other>>] # Nil
      PROVE  ReservedFor(rdns', client, other, sessions'[<<client, other>>].addr)
  <2>1. CASE sessions'[<<client, other>>] = sessions[<<client, other>>]
    BY <1>1, <1>4, <1>7, <2>1, StoredReserved
  <2>2. CASE sessions'[<<client, other>>] # sessions[<<client, other>>]
    <3>1. <<client, other>> \in Key
      BY <1>1 DEF Key
    <3>2. /\ sessions' = [sessions EXCEPT ![key] = row]
          /\ ReservedFor(rdns, client, host, row.addr)
      BY <1>3, <2>2
    <3>3. <<client, other>> = key
      BY <1>4, <2>2, <3>1, <3>2
    <3>4. other = host /\ sessions'[<<client, other>>] = row
      BY <1>1, <1>4, <3>2, <3>3
    <3> QED
      BY <1>4, <3>2, <3>4
  <2> QED
    BY <2>1, <2>2
<1>8. \A k \in Key : k[1] # client => sessions'[k] = sessions[k]
  BY <1>1, <1>3, <1>4
<1>9. Idle.client = Nil
  BY DEF Idle
<1> QED
  BY <1>1, <1>4, <1>6, <1>7, <1>8, <1>9, WorkerKeeps

LEMMA QueryKeeps ==
    ASSUME ReservationInv, TypeOK', Orderly, NEW w \in Worker, Query(w)
    PROVE  ReservationInv'
<1>1. ~ AllocDelete(w)
  <2>1. DraftSafe(job[w])
    BY DEF ReservationInv
  <2> QED
    BY <2>1 DEF AllocDelete, At, DraftSafe, AllocPc
<1> QED
  BY <1>1, LookupKeeps, ResolveKeeps, AllocateKeeps, CreateKeeps, StoreKeeps DEF Query

-----------------------------------------------------------------------------
(***************************************************************************)
(* Reevaluation writes back rows of a snapshot.                            *)
(***************************************************************************)

LEMMA SnapshotFacts ==
    ASSUME ReservationInv, NEW w \in Worker, job[w].pc \in ReevalPc \cup FlushPc
    PROVE  /\ job[w] \in Job /\ job[w].client \in Client
           /\ job[w].todo \in SUBSET Task /\ job[w].offs \in SUBSET Offset
           /\ Safe(job[w]) /\ Up
<1>1. TypeOK /\ Safe(job[w]) /\ Up
  BY Serving DEF ReservationInv, Safe, ReevalPc, FlushPc
<1> QED
  BY <1>1, JobType DEF Goroutine, Job

\* Where ReevaluateAccess goes next, a part of its rows left to do.
LEMMA NextReevalSafe ==
    ASSUME NEW local \in Job, NEW todo,
           \A task \in todo :
              /\ task.key[1] = local.client
              /\ sessions[task.key] # Nil => sessions[task.key].addr = task.row.addr
    PROVE  /\ Safe(NextReeval(local, todo))
           /\ NextReeval(local, todo).client \in {local.client, Nil}
           /\ LET next == NextReeval(local, todo)
              IN  /\ next.pc \in {"reevalRow", "lookup", "handle", "idle"}
                  /\ next.pc = "reevalRow" => next.client = local.client /\ next.todo = todo
<1> DEFINE next == NextReeval(local, todo)
<1>1. \/ /\ next.pc = "reevalRow" /\ next.todo = todo /\ next.client = local.client
      \/ next.pc \in {"lookup", "handle"} /\ next.client = local.client
      \/ next.pc = "idle" /\ next.client = Nil
  <2>1. CASE todo # {}
    <3> DEFINE row == [local EXCEPT !.pc = "reevalRow", !.todo = todo, !.at = Nil]
    <3>1. row.pc = "reevalRow" /\ row.todo = todo /\ row.client = local.client
      BY DEF Job
    <3> QED
      BY <2>1, <3>1 DEF NextReeval
  <2>2. CASE todo = {} /\ local.host # Nil
    <3> DEFINE lookup == [local EXCEPT !.pc = "lookup", !.todo = {}, !.at = Nil]
    <3>1. lookup.pc = "lookup" /\ lookup.client = local.client
      BY DEF Job
    <3> QED
      BY <2>2, <3>1 DEF NextReeval
  <2>3. CASE todo = {} /\ local.host = Nil /\ local.row # Nil
    <3> DEFINE handle == [local EXCEPT !.pc = "handle", !.todo = {}, !.at = Nil]
    <3>1. handle.pc = "handle" /\ handle.client = local.client
      BY DEF Job
    <3> QED
      BY <2>3, <3>1 DEF NextReeval
  <2>4. CASE todo = {} /\ local.host = Nil /\ local.row = Nil
    BY <2>4 DEF NextReeval, Idle
  <2> QED
    BY <2>1, <2>2, <2>3, <2>4
<1> HIDE DEF next
<1>2. next.pc \notin {"resolve"} \cup AllocPc \cup FlushPc
  BY <1>1 DEF AllocPc, FlushPc
<1>3. Safe(next)
  BY <1>1, <1>2 DEF Safe, DraftSafe, SnapshotSafe, FlushSafe, FlushPc, ReevalPc
<1> QED
  BY <1>1, <1>3 DEF next

LEMMA ReevalReadKeeps ==
    ASSUME ReservationInv, TypeOK', NEW w \in Worker,
           Reevaluate(w) \/ ReevalRow(w) \/ ReevalAdd(w)
    PROVE  ReservationInv'
<1> DEFINE client == job[w].client
<1>1. /\ job[w] \in Job /\ client \in Client /\ job[w].todo \in SUBSET Task
      /\ Safe(job[w])
  BY SnapshotFacts DEF Reevaluate, ReevalRow, ReevalAdd, At, ReevalPc
<1>2. UNCHANGED db
  BY DEF Reevaluate, ReevalRow, ReevalAdd, db
<1>3. CASE Reevaluate(w)
  <2> DEFINE info == policy[client]
             Seen(row) == IF info.profile THEN row
                          ELSE [row EXCEPT !.reason = AccessBlockedRule]
             Verified(task) == [task EXCEPT !.row = Seen(task.row),
                                            !.reason = info.verdict[task.key[2]]]
             tasks == {Verified(task) : task \in Stored({client})}
             todo == {task \in tasks : task.reason # task.row.reason}
  <2>1. ASSUME NEW task \in Stored({client})
        PROVE  /\ Verified(task).key[1] = client
               /\ Verified(task).row.addr = sessions[Verified(task).key].addr
    <3>1. task \in Task
      BY StoredType DEF ReservationInv
    <3>2. PICK key \in Key :
            /\ key[1] \in {client} /\ sessions[key] # Nil
            /\ task = [key |-> key, row |-> sessions[key],
                       reason |-> sessions[key].reason]
      BY DEF Stored
    <3>3. task.key[1] = client /\ task.row = sessions[task.key]
      BY <3>2
    <3>4. Seen(task.row).addr = task.row.addr
      BY <3>1 DEF Task, Row
    <3> HIDE DEF Seen
    <3>5. Verified(task).key = task.key /\ Verified(task).row = Seen(task.row)
      BY <3>1 DEF Task
    <3> HIDE DEF Verified
    <3> QED
      BY <3>3, <3>4, <3>5
  <2>2. Continue(w, NextReeval(job[w], todo))
    BY <1>3 DEF Reevaluate
  <2> HIDE DEF Verified
  <2>3. \A task \in todo : /\ task.key[1] = client
                           /\ sessions[task.key].addr = task.row.addr
    BY <2>1
  <2> HIDE DEF todo
  <2> DEFINE next == NextReeval(job[w], todo)
  <2>4. Safe(next) /\ next.client \in {client, Nil}
    BY <1>1, <2>3, NextReevalSafe
  <2>5. Continue(w, next)
    BY <2>2
  <2> HIDE DEF next
  <2> QED
    BY <1>1, <1>2, <2>4, <2>5, QuietKeeps
<1>4. CASE ReevalRow(w)
  <2>1. PICK task \in job[w].todo, pc \in {"reevalSave", "reevalStore"} :
          Continue(w, [job[w] EXCEPT !.pc = pc, !.at = task])
    BY <1>4 DEF ReevalRow
  <2> DEFINE local == [job[w] EXCEPT !.pc = pc, !.at = task]
  <2>2. Continue(w, local)
    BY <2>1
  <2>3. local.pc = pc /\ local.at = task /\ local.todo = job[w].todo /\ local.client = client
    BY <1>1 DEF Job
  <2>4. job[w].pc = "reevalRow"
    BY <1>4 DEF ReevalRow, At
  <2> HIDE DEF local
  <2>5. SnapshotSafe(local)
    BY <1>1, <2>3, <2>4 DEF Safe, SnapshotSafe, ReevalPc
  <2>6. Safe(local)
    BY <2>3, <2>5 DEF Safe, DraftSafe, FlushSafe, AllocPc
  <2> QED
    BY <1>1, <1>2, <2>2, <2>3, <2>6, QuietKeeps
<1>5. CASE ReevalAdd(w)
  <2> DEFINE local == [job[w] EXCEPT !.pc = "reevalStore"]
  <2>1. Continue(w, local)
    BY <1>5 DEF ReevalAdd
  <2>2. /\ local.pc = "reevalStore" /\ local.at = job[w].at /\ local.todo = job[w].todo
        /\ local.client = client
    BY <1>1 DEF Job
  <2>3. job[w].pc = "reevalAdd"
    BY <1>5 DEF ReevalAdd, At
  <2> HIDE DEF local
  <2>4. SnapshotSafe(local)
    BY <1>1, <2>2, <2>3 DEF Safe, SnapshotSafe, ReevalPc
  <2>5. Safe(local)
    BY <2>2, <2>4 DEF Safe, DraftSafe, FlushSafe, AllocPc
  <2> QED
    BY <1>1, <1>2, <2>1, <2>2, <2>5, QuietKeeps
<1> QED
  BY <1>3, <1>4, <1>5

\* The row written back has the address of the row it overwrites.
LEMMA RewriteKeeps ==
    ASSUME ReservationInv, TypeOK', NEW w \in Worker,
           job[w].pc \in {"reevalSave", "reevalStore"}, UNCHANGED rdns,
           NEW row \in Row, row.addr = job[w].at.row.addr,
           UpdateDNSSession(job[w].at.key, row),
           NEW local, Continue(w, local), local.client \in {job[w].client, Nil},
           local.pc \in {"reevalAdd", "reevalRow", "lookup", "handle", "idle"},
           local.pc \in {"reevalAdd", "reevalRow"} =>
              /\ local.client = job[w].client
              /\ local.todo \subseteq job[w].todo
              /\ local.pc = "reevalAdd" => local.at \in local.todo
    PROVE  ReservationInv'
<1> DEFINE client == job[w].client
           key == job[w].at.key
<1>1. /\ job[w] \in Job /\ client \in Client /\ job[w].todo \in SUBSET Task
      /\ Safe(job[w]) /\ Up
  BY SnapshotFacts DEF ReevalPc
<1>2. /\ job[w].at \in job[w].todo
      /\ \A task \in job[w].todo :
            /\ task.key[1] = client
            /\ sessions[task.key] # Nil => sessions[task.key].addr = task.row.addr
  BY <1>1 DEF Safe, SnapshotSafe, ReevalPc
<1>3. key \in Key /\ key[1] = client /\ sessions \in [Key -> Row \cup {Nil}]
  BY <1>1, <1>2 DEF Task, ReservationInv, TypeOK
<1>4. row # Nil
  BY ForwardingAssumption
<1>5. \A k \in Key : /\ sessions'[k] # Nil <=> sessions[k] # Nil
                     /\ sessions[k] # Nil => sessions'[k].addr = sessions[k].addr
                     /\ k # key => sessions'[k] = sessions[k]
  <2>1. CASE UNCHANGED sessions
    BY <2>1
  <2>2. CASE sessions[key] # Nil /\ sessions' = [sessions EXCEPT ![key] = row]
    <3>1. sessions[key].addr = row.addr
      BY <1>2, <2>2
    <3> HIDE DEF key
    <3> QED
      BY <1>3, <1>4, <2>2, <3>1
  <2> QED
    BY <2>1, <2>2 DEF UpdateDNSSession
<1>6. job'[w] = local
  BY DEF Continue, ReservationInv, TypeOK, Goroutine
<1>7. SnapshotSafe(job[w])'
  <2> SUFFICES ASSUME local.pc \in {"reevalAdd", "reevalRow"}, NEW task \in local.todo
               PROVE  /\ task.key[1] = local.client
                      /\ sessions'[task.key] # Nil =>
                            sessions'[task.key].addr = task.row.addr
    BY <1>6 DEF SnapshotSafe, ReevalPc
  <2>1. task \in job[w].todo /\ task.key \in Key
    BY <1>1 DEF Task
  <2> QED
    BY <1>2, <1>5, <2>1
<1>8. Safe(job[w])'
  BY <1>6, <1>7 DEF Safe, DraftSafe, FlushSafe, AllocPc
<1>9. ASSUME NEW host \in Host, sessions'[<<client, host>>] # Nil
      PROVE  ReservedFor(rdns', client, host, sessions'[<<client, host>>].addr)
  BY <1>1, <1>5, <1>9, StoredReserved DEF Key
<1>10. \A k \in Key : k[1] # client => sessions'[k] = sessions[k]
  BY <1>3, <1>5
<1> QED
  BY <1>1, <1>8, <1>9, <1>10, WorkerKeeps

LEMMA ReevalKeeps ==
    ASSUME ReservationInv, TypeOK', NEW w \in Worker, Reeval(w)
    PROVE  ReservationInv'
<1>1. ASSUME job[w].pc \in {"reevalSave", "reevalStore"}
      PROVE  /\ job[w] \in Job /\ job[w].at \in Task /\ Safe(job[w])
             /\ job[w].at \in job[w].todo
             /\ job[w].todo \in SUBSET Task
             /\ Changed(job[w].at) \in Row
             /\ Changed(job[w].at).addr = job[w].at.row.addr
  <2>1. job[w] \in Job /\ Safe(job[w]) /\ job[w].todo \in SUBSET Task
    BY <1>1, SnapshotFacts DEF ReevalPc
  <2>2. job[w].at \in job[w].todo
    BY <1>1, <2>1 DEF Safe, SnapshotSafe, ReevalPc
  <2> QED
    BY <2>1, <2>2 DEF Changed, Task, Row
<1>2. CASE ReevalSave(w)
  <2> DEFINE local == [job[w] EXCEPT !.pc = "reevalAdd"]
  <2>1. job[w].pc = "reevalSave" /\ job[w] \in Job
    BY <1>1, <1>2 DEF ReevalSave, At
  <2>2. /\ local.pc = "reevalAdd" /\ local.client = job[w].client
        /\ local.todo = job[w].todo /\ local.at = job[w].at
    BY <2>1 DEF Job
  <2>3. Continue(w, local)
    BY <1>2 DEF ReevalSave
  <2> HIDE DEF local
  <2> QED
    BY <1>1, <1>2, <2>1, <2>2, <2>3, RewriteKeeps DEF ReevalSave
<1>3. CASE ReevalStore(w)
  <2> DEFINE todo == job[w].todo \ {job[w].at}
             local == NextReeval(job[w], todo)
             row == [Changed(job[w].at) EXCEPT !.expired = FALSE]
  <2>1. job[w].pc = "reevalStore" /\ job[w] \in Job /\ Safe(job[w])
    BY <1>1, <1>3 DEF ReevalStore, At
  <2>2. row \in Row /\ row.addr = job[w].at.row.addr
    BY <1>1, <2>1 DEF Row
  <2>3. \A task \in todo :
           /\ task.key[1] = job[w].client
           /\ sessions[task.key] # Nil => sessions[task.key].addr = task.row.addr
    BY <2>1 DEF Safe, SnapshotSafe, ReevalPc
  <2>4. todo \subseteq job[w].todo
    OBVIOUS
  <2>5. Continue(w, local) /\ UpdateDNSSession(job[w].at.key, row) /\ UNCHANGED rdns
    BY <1>3 DEF ReevalStore
  <2> HIDE DEF todo, row
  <2>6. /\ local.client \in {job[w].client, Nil}
        /\ local.pc \in {"reevalRow", "lookup", "handle", "idle"}
        /\ local.pc = "reevalRow" => local.client = job[w].client /\ local.todo = todo
    BY <2>1, <2>3, NextReevalSafe
  <2> HIDE DEF local
  <2> QED
    BY <2>1, <2>2, <2>4, <2>5, <2>6, RewriteKeeps
<1> QED
  BY <1>2, <1>3, ReevalReadKeeps DEF Reeval

-----------------------------------------------------------------------------
(***************************************************************************)
(* A flush deletes what it listed, and nothing else came in between.       *)
(***************************************************************************)

LEMMA NextFlushFacts ==
    ASSUME NEW local \in Job, NEW todo
    PROVE  LET next == NextFlush(local, todo)
           IN  /\ next.client = local.client /\ next.todo = todo
               /\ todo # {} => next.pc = "flushRow"
               /\ todo = {} => next.pc = "flushRevList"
BY DEF NextFlush, Job

LEMMA FlushReadKeeps ==
    ASSUME ReservationInv, TypeOK', NEW w \in Worker,
           FlushList(w) \/ FlushRow(w) \/ FlushRevList(w)
    PROVE  ReservationInv'
<1> DEFINE client == job[w].client
<1>1. /\ job[w] \in Job /\ client \in Client /\ Safe(job[w])
  BY SnapshotFacts DEF FlushList, FlushRow, FlushRevList, At, FlushPc
<1>2. UNCHANGED db
  BY DEF FlushList, FlushRow, FlushRevList, db
<1>3. CASE FlushList(w)
  <2> DEFINE todo == Stored({client})
             next == NextFlush(job[w], todo)
  <2>1. \A task \in todo : task.key[1] = client
    BY DEF Stored
  <2>2. ASSUME NEW host \in Host, sessions[<<client, host>>] # Nil
        PROVE  \E task \in todo : task.key = <<client, host>>
    <3> DEFINE key == <<client, host>>
               its == [key |-> key, row |-> sessions[key], reason |-> sessions[key].reason]
    <3>1. key \in Key /\ key[1] \in {client}
      BY <1>1 DEF Key
    <3> HIDE DEF key
    <3>2. its \in todo
      BY <2>2, <3>1 DEF Stored, key
    <3>3. its.key = key
      OBVIOUS
    <3> QED
      BY <3>2, <3>3 DEF key
  <2>3. Continue(w, next)
    BY <1>3 DEF FlushList
  <2> HIDE DEF todo
  <2>4. /\ next.client = client /\ next.todo = todo
        /\ todo # {} => next.pc = "flushRow"
        /\ todo = {} => next.pc = "flushRevList"
    BY <1>1, NextFlushFacts
  <2> HIDE DEF next
  <2>5. FlushSafe(next)
    BY <2>1, <2>2, <2>4 DEF FlushSafe
  <2>6. Safe(next)
    BY <2>4, <2>5 DEF Safe, DraftSafe, SnapshotSafe, AllocPc, ReevalPc
  <2> QED
    BY <1>1, <1>2, <2>3, <2>4, <2>6, QuietKeeps
<1>4. CASE FlushRow(w)
  <2>1. PICK task \in job[w].todo :
          Continue(w, [job[w] EXCEPT !.pc = "flushDelete", !.at = task])
    BY <1>4 DEF FlushRow
  <2> DEFINE local == [job[w] EXCEPT !.pc = "flushDelete", !.at = task]
  <2>2. /\ local.pc = "flushDelete" /\ local.at = task
        /\ local.todo = job[w].todo /\ local.client = client
    BY <1>1 DEF Job
  <2>3. Continue(w, local) /\ job[w].pc = "flushRow"
    BY <1>4, <2>1 DEF FlushRow, At
  <2> HIDE DEF local
  <2>4. FlushSafe(local)
    BY <1>1, <2>2, <2>3 DEF Safe, FlushSafe
  <2>5. Safe(local)
    BY <2>2, <2>4 DEF Safe, DraftSafe, SnapshotSafe, AllocPc, ReevalPc
  <2> QED
    BY <1>1, <1>2, <2>2, <2>3, <2>5, QuietKeeps
<1>5. CASE FlushRevList(w)
  <2> DEFINE offs == Reserved(client)
  <2>1. job[w].pc = "flushRevList"
    BY <1>5 DEF FlushRevList, At
  <2>2. CASE offs = {}
    <3>1. Continue(w, Idle) /\ Idle.client = Nil
      BY <1>5, <2>2 DEF FlushRevList, Idle
    <3> QED
      BY <1>1, <1>2, <3>1, IdleSafe, QuietKeeps
  <2>3. CASE offs # {}
    <3> DEFINE local == [job[w] EXCEPT !.pc = "flushRev", !.offs = offs]
    <3>1. Continue(w, local)
      BY <1>5, <2>3 DEF FlushRevList
    <3>2. \A o \in Offset : rdns[<<client, o>>] # Nil => o \in offs
      BY DEF Reserved
    <3> HIDE DEF offs
    <3>3. local.pc = "flushRev" /\ local.offs = offs /\ local.client = client
      BY <1>1 DEF Job
    <3> HIDE DEF local
    <3>4. FlushSafe(local)
      BY <1>1, <2>1, <3>2, <3>3 DEF Safe, FlushSafe
    <3>5. Safe(local)
      BY <3>3, <3>4 DEF Safe, DraftSafe, SnapshotSafe, AllocPc, ReevalPc
    <3> QED
      BY <1>1, <1>2, <3>1, <3>3, <3>5, QuietKeeps
  <2> QED
    BY <2>2, <2>3
<1> QED
  BY <1>3, <1>4, <1>5

LEMMA FlushDeleteKeeps ==
    ASSUME ReservationInv, TypeOK', Orderly, NEW w \in Worker, FlushDelete(w)
    PROVE  ReservationInv'
<1> DEFINE client == job[w].client
           key == job[w].at.key
           todo == job[w].todo \ {job[w].at}
           next == NextFlush(job[w], todo)
<1>1. /\ job[w] \in Job /\ client \in Client /\ job[w].todo \in SUBSET Task
      /\ Safe(job[w]) /\ Up /\ job[w].pc = "flushDelete"
  BY SnapshotFacts DEF FlushDelete, At, FlushPc
<1>2. /\ job[w].at \in job[w].todo
      /\ \A task \in job[w].todo : task.key[1] = client
      /\ \A host \in Host : sessions[<<client, host>>] # Nil =>
            \E task \in job[w].todo : task.key = <<client, host>>
  BY <1>1 DEF Safe, FlushSafe
<1>3. /\ sessions' = [sessions EXCEPT ![key] = Nil]
      /\ UNCHANGED rdns /\ Continue(w, next)
  BY DEF FlushDelete, DeleteDNSSession, Conflict, Orderly
<1>4. key \in Key /\ key[1] = client /\ sessions \in [Key -> Row \cup {Nil}]
  BY <1>1, <1>2 DEF Task, ReservationInv, TypeOK
<1>5. /\ next.client = client /\ next.todo = todo
      /\ todo # {} => next.pc = "flushRow"
      /\ todo = {} => next.pc = "flushRevList"
  <2> HIDE DEF todo
  <2> QED
    BY <1>1, NextFlushFacts
<1>6. job'[w] = next
  BY <1>3 DEF Continue, ReservationInv, TypeOK, Goroutine
<1> HIDE DEF next
<1>7. ASSUME NEW host \in Host, sessions'[<<client, host>>] # Nil
      PROVE  /\ sessions'[<<client, host>>] = sessions[<<client, host>>]
             /\ \E task \in todo : task.key = <<client, host>>
  <2>1. <<client, host>> \in Key
    BY <1>1 DEF Key
  <2>2. <<client, host>> # key
    BY <1>3, <1>4, <1>7
  <2>3. sessions'[<<client, host>>] = sessions[<<client, host>>]
    BY <1>3, <1>4, <2>1, <2>2
  <2>4. PICK task \in job[w].todo : task.key = <<client, host>>
    BY <1>2, <1>7, <2>3
  <2> QED
    BY <2>2, <2>3, <2>4
<1>8. FlushSafe(job[w])'
  <2>1. \A task \in todo : task.key[1] = client
    BY <1>2
  <2> HIDE DEF todo
  <2>2. CASE todo # {}
    BY <1>5, <1>6, <1>7, <2>1, <2>2 DEF FlushSafe
  <2>3. CASE todo = {}
    BY <1>5, <1>6, <1>7, <2>3 DEF FlushSafe
  <2> QED
    BY <2>2, <2>3
<1>9. Safe(job[w])'
  BY <1>5, <1>6, <1>8 DEF Safe, DraftSafe, SnapshotSafe, AllocPc, ReevalPc
<1>10. ASSUME NEW host \in Host, sessions'[<<client, host>>] # Nil
       PROVE  ReservedFor(rdns', client, host, sessions'[<<client, host>>].addr)
  BY <1>1, <1>3, <1>7, <1>10, StoredReserved
<1>11. \A k \in Key : k[1] # client => sessions'[k] = sessions[k]
  BY <1>3, <1>4
<1> QED
  BY <1>1, <1>3, <1>5, <1>9, <1>10, <1>11, WorkerKeeps

LEMMA FlushRevKeeps ==
    ASSUME ReservationInv, TypeOK', Orderly, NEW w \in Worker, FlushRev(w)
    PROVE  ReservationInv'
<1> DEFINE client == job[w].client
<1>1. /\ job[w] \in Job /\ client \in Client /\ job[w].offs \in SUBSET Offset
      /\ Safe(job[w]) /\ job[w].pc = "flushRev"
  BY SnapshotFacts DEF FlushRev, At, FlushPc
<1>2. /\ \A host \in Host : sessions[<<client, host>>] = Nil
      /\ \A o \in Offset : rdns[<<client, o>>] # Nil => o \in job[w].offs
  BY <1>1 DEF Safe, FlushSafe
<1>3. PICK o \in job[w].offs :
        /\ rdns' = [rdns EXCEPT ![<<client, o>>] = Nil]
        /\ Continue(w, IF job[w].offs = {o} THEN Idle
                       ELSE [job[w] EXCEPT !.offs = @ \ {o}])
  BY DEF FlushRev, DeleteReverseDNS, Conflict, Orderly
<1>4. UNCHANGED sessions /\ rdns \in [Slot -> Host \cup {Nil}] /\ job \in [Goroutine -> Job]
  BY DEF FlushRev, ReservationInv, TypeOK
<1>5. \A s \in Slot : s[1] # client => rdns'[s] = rdns[s]
  BY <1>3, <1>4
<1>6. \A host \in Host : sessions'[<<client, host>>] = Nil
  BY <1>2, <1>4
<1>7. CASE job[w].offs = {o}
  <2>1. Continue(w, Idle) /\ Idle.client = Nil
    BY <1>3, <1>7 DEF Idle
  <2>2. job'[w] = Idle
    BY <1>4, <2>1 DEF Continue, Goroutine
  <2>3. Safe(job[w])'
    BY <2>2 DEF Safe, Idle, DraftSafe, SnapshotSafe, FlushSafe, AllocPc, ReevalPc
  <2> QED
    BY <1>1, <1>4, <1>5, <1>6, <2>1, <2>3, WorkerKeeps
<1>8. CASE job[w].offs # {o}
  <2> DEFINE local == [job[w] EXCEPT !.offs = job[w].offs \ {o}]
  <2>1. Continue(w, local)
    BY <1>3, <1>8
  <2>2. /\ local.pc = "flushRev" /\ local.client = client
        /\ local.offs = job[w].offs \ {o}
    BY <1>1 DEF Job
  <2> HIDE DEF local
  <2>3. job'[w] = local
    BY <1>4, <2>1 DEF Continue, Goroutine
  <2>4. ASSUME NEW p \in Offset, rdns'[<<client, p>>] # Nil
        PROVE  p \in local.offs
    <3>1. <<client, p>> \in Slot
      BY <1>1 DEF Slot
    <3>2. p # o /\ rdns'[<<client, p>>] = rdns[<<client, p>>]
      BY <1>3, <1>4, <2>4, <3>1
    <3> QED
      BY <1>2, <2>2, <2>4, <3>2
  <2>5. FlushSafe(job[w])'
    BY <1>6, <2>2, <2>3, <2>4 DEF FlushSafe
  <2>6. Safe(job[w])'
    BY <2>2, <2>3, <2>5 DEF Safe, DraftSafe, SnapshotSafe, AllocPc, ReevalPc
  <2> QED
    BY <1>1, <1>4, <1>5, <1>6, <2>1, <2>2, <2>6, WorkerKeeps
<1> QED
  BY <1>7, <1>8

-----------------------------------------------------------------------------

\* A page touches neither table.
LEMMA PageKeeps ==
    ASSUME ReservationInv, TypeOK', NEW w \in Worker, Page(w)
    PROVE  ReservationInv'
<1> DEFINE client == job[w].client
<1>1. job[w] \in Job /\ client \in Client
  BY JobType DEF Page, ViewSession, ShowPage, ChangeAccess, At, PagePc, Goroutine,
     ReservationInv, Job
<1>2. UNCHANGED db
  BY DEF Page, ViewSession, ShowPage, ChangeAccess, db
<1>3. ASSUME NEW local, Continue(w, local), local.client = client,
             local.pc \in {"handle", "reevaluate"}
      PROVE  ReservationInv'
  <2>1. Safe(local)
    BY <1>3 DEF Safe, DraftSafe, SnapshotSafe, FlushSafe, AllocPc, ReevalPc
  <2> QED
    BY <1>1, <1>2, <1>3, <2>1, QuietKeeps
<1>4. CASE ViewSession(w)
  <2>1. PICK pc \in {"handle", "reevaluate"} : Continue(w, [job[w] EXCEPT !.pc = pc])
    BY <1>4 DEF ViewSession
  <2> DEFINE local == [job[w] EXCEPT !.pc = pc]
  <2>2. Continue(w, local) /\ local.client = client /\ local.pc = pc
    BY <1>1, <2>1 DEF Job
  <2> HIDE DEF local
  <2> QED
    BY <1>3, <2>2
<1>5. CASE ShowPage(w)
  <2>1. Idle.client = Nil
    BY DEF Idle
  <2> QED
    BY <1>1, <1>2, <1>5, <2>1, IdleSafe, QuietKeeps DEF ShowPage, Finish
<1>6. ASSUME NEW info \in Policy, ChangeAccess(w, info)
      PROVE  ReservationInv'
  <2> DEFINE local == [job[w] EXCEPT !.pc = "reevaluate", !.row = Nil]
  <2>1. Continue(w, local)
    BY <1>6 DEF ChangeAccess
  <2>2. local.client = client /\ local.pc = "reevaluate"
    BY <1>1 DEF Job
  <2> HIDE DEF local
  <2> QED
    BY <1>3, <2>1, <2>2
<1> QED
  BY <1>4, <1>5, <1>6 DEF Page

LEMMA ServeKeeps ==
    ASSUME ReservationInv, TypeOK', Orderly, NEW w \in Worker, Serve(w)
    PROVE  ReservationInv'
BY QueryKeeps, ReevalKeeps, PageKeeps, FlushReadKeeps, FlushDeleteKeeps, FlushRevKeeps DEF Serve, Flush

-----------------------------------------------------------------------------
(***************************************************************************)
(* Steps that no request makes: review, time, and the start of main.       *)
(***************************************************************************)

\* Rows that at most go, and of which main drops no fewer, stay reserved.
LEMMA RowsStayReserved ==
    ASSUME ReservationInv, \A client \in Client : Undisturbed(client),
           job'[Admin] = job[Admin]
    PROVE  AddressIsReserved'
<1> SUFFICES ASSUME NEW key \in Key, sessions'[key] # Nil, Kept(sessions'[key].addr),
                    ~ Dropping(key)
             PROVE  rdns'[<<key[1], OffsetOf(sessions'[key].addr)>>] = key[2]
  BY DEF AddressIsReserved, Dropping, Up, Expired, Kept, OffsetOf
<1> DEFINE client == key[1]
           host == key[2]
           addr == sessions[key].addr
<1>1. client \in Client /\ host \in Host /\ key = <<client, host>>
  BY DEF Key
<1>2. Shrinks(key)
  BY <1>1 DEF Undisturbed
<1>3. sessions[key] # Nil /\ sessions'[key].addr = addr
  BY <1>2 DEF Shrinks
<1>4. addr \in Address \cup {NoIP}
  BY <1>3 DEF ReservationInv, TypeOK, Row
<1>5. rdns[<<client, OffsetOf(addr)>>] = host
  BY <1>3 DEF ReservationInv, AddressIsReserved
<1>6. OffsetOf(addr) \in Offset
  BY <1>3, <1>4, PoolOffsets
<1> QED
  BY <1>1, <1>3, <1>5, <1>6 DEF Undisturbed

\* No goroutine of a request moves, and no client is disturbed.
LEMMA OutsideKeeps ==
    ASSUME ReservationInv, TypeOK', \A w \in Worker : job'[w] = job[w],
           job'[Admin] = job[Admin], BootSafe(job[Admin])',
           ~ At(Ticker, "reviewExtend")', \A client \in Client : Undisturbed(client)
    PROVE  ReservationInv'
<1>1. ASSUME NEW v \in Worker
      PROVE  Safe(job[v])'
  <2>1. job[v].client \in Client \cup {Nil} /\ TypeOK /\ Safe(job[v])
    BY DEF ReservationInv, TypeOK, Goroutine, Job, Safe
  <2> QED
    BY <2>1, BystanderKept
<1>2. WorkersApart'
  BY DEF ReservationInv, WorkersApart
<1> QED
  BY <1>1, <1>2, RowsStayReserved DEF ReservationInv, Safe

LEMMA ShrinkingUndisturbs ==
    ASSUME \A key \in Key : Shrinks(key), UNCHANGED rdns
    PROVE  \A client \in Client : Undisturbed(client)
BY DEF Undisturbed, Key

LEMMA ReviewKeeps ==
    ASSUME ReservationInv, TypeOK', Orderly, Review
    PROVE  ReservationInv'
<1>1. \A w \in Worker : job'[w] = job[w]
  <2>1. PICK local : Continue(Ticker, local)
    BY DEF Review, StartReview, ReviewExtend, ReviewRow, ReviewDelete
  <2> QED
    BY <2>1, ForwardingAssumption DEF Continue, ReservationInv, TypeOK, Goroutine
<1>2. ~ ReviewExtend
  BY DEF ReviewExtend, ReservationInv
<1>3. ASSUME NEW local, local.pc # "reviewExtend", Continue(Ticker, local)
      PROVE  ~ At(Ticker, "reviewExtend")'
  BY <1>3 DEF Continue, At, ReservationInv, TypeOK, Goroutine
<1>4. ASSUME NEW local \in Job, NEW todo
      PROVE  NextReview(local, todo).pc # "reviewExtend"
  <2>1. [local EXCEPT !.pc = "reviewRow", !.todo = todo, !.at = Nil].pc = "reviewRow"
    BY DEF Job
  <2> QED
    BY <2>1 DEF NextReview, Idle
<1>5. job[Ticker] \in Job
  BY DEF ReservationInv, TypeOK, Goroutine
<1>6. ~ At(Ticker, "reviewExtend")'
  <2>1. CASE StartReview
    <3>1. Continue(Ticker, NextReview(Idle, {task \in Stored(Client) : task.row.expired}))
      BY <2>1 DEF StartReview, Counted, Orderly
    <3> QED
      BY <1>3, <1>4, <3>1, IdleType
  <2>2. CASE ReviewRow
    <3>1. PICK task \in job[Ticker].todo :
            \/ Continue(Ticker, [job[Ticker] EXCEPT !.pc = "reviewDelete", !.at = task])
            \/ Continue(Ticker, NextReview(job[Ticker], job[Ticker].todo \ {task}))
      BY <2>2 DEF ReviewRow
    <3>2. [job[Ticker] EXCEPT !.pc = "reviewDelete", !.at = task].pc = "reviewDelete"
      BY <1>5 DEF Job
    <3> QED
      BY <1>3, <1>4, <1>5, <3>1, <3>2
  <2>3. CASE ReviewDelete
    BY <1>3, <1>4, <1>5, <2>3 DEF ReviewDelete
  <2> QED
    BY <1>2, <2>1, <2>2, <2>3 DEF Review
<1>7. \A key \in Key : Shrinks(key)
  <2>1. CASE UNCHANGED sessions
    BY <2>1 DEF Shrinks
  <2>2. CASE DeleteDNSSession(job[Ticker].at.key)
    BY <2>2 DEF DeleteDNSSession, Shrinks, ReservationInv, TypeOK
  <2> QED
    BY <1>2, <2>1, <2>2 DEF Review, StartReview, ReviewRow, ReviewDelete, db
<1>8. UNCHANGED rdns
  BY <1>2 DEF Review, StartReview, ReviewRow, ReviewDelete, db
<1>9. job'[Admin] = job[Admin]
  <2>1. PICK local : Continue(Ticker, local)
    BY DEF Review, StartReview, ReviewExtend, ReviewRow, ReviewDelete
  <2> QED
    BY <2>1, ForwardingAssumption DEF Continue, ReservationInv, TypeOK, Goroutine
<1>10. Up
  BY Serving DEF Review, StartReview, ReviewExtend, ReviewRow, ReviewDelete, At
<1> QED
  BY <1>1, <1>6, <1>7, <1>8, <1>9, <1>10, StaysUp, ShrinkingUndisturbs, OutsideKeeps

LEMMA TimeKeeps ==
    ASSUME ReservationInv, TypeOK', Time \/ UNCHANGED vars
    PROVE  ReservationInv'
<1>1. UNCHANGED <<job, rdns, portalFw>>
  BY DEF Time, SessionExpires, PortalSessionExpires, ScheduleChanges, vars, db
<1>2. ~ At(Ticker, "reviewExtend")'
  BY <1>1 DEF At, ReservationInv
<1>3. ASSUME NEW key \in Key
      PROVE  /\ Shrinks(key)
             /\ sessions[key] # Nil => /\ sessions'[key] # Nil
                                       /\ sessions'[key].addr = sessions[key].addr
                                       /\ sessions[key].expired => sessions'[key].expired
  <2>1. CASE UNCHANGED sessions
    BY <2>1 DEF Shrinks
  <2>2. ASSUME NEW k \in Key, SessionExpires(k)
        PROVE  <1>3!2
    <3>1. sessions[k] \in Row /\ sessions[k] # Nil
      BY <2>2 DEF SessionExpires, ReservationInv, TypeOK
    <3> DEFINE row == [sessions[k] EXCEPT !.expired = TRUE]
    <3>2. sessions' = [sessions EXCEPT ![k] = row]
      BY <2>2 DEF SessionExpires
    <3>3. row.addr = sessions[k].addr /\ row.expired /\ row \in Row
      BY <3>1 DEF Row
    <3>4. row # Nil
      BY <3>3, ForwardingAssumption
    <3> HIDE DEF row
    <3> QED
      BY <3>1, <3>2, <3>3, <3>4 DEF Shrinks, ReservationInv, TypeOK
  <2> QED
    BY <2>1, <2>2 DEF Time, PortalSessionExpires, ScheduleChanges, vars, db
<1>4. BootSafe(job[Admin])'
  <2> DEFINE local == job[Admin]
  <2>1. BootSafe(local) /\ local \in Job
    BY DEF ReservationInv, TypeOK, Goroutine
  <2>2. ASSUME local.boot, NEW task \in Expired(local.todo)
        PROVE  LET row == sessions'[task.key]
               IN  /\ row # Nil /\ row.expired /\ row.addr = task.row.addr
                   /\ Kept(row.addr) =>
                         rdns[SlotOf(task.key[1], row.addr)] \in {task.key[2], Nil}
    <3>1. task.key \in Key
      BY <2>1 DEF Expired, Job, Task
    <3> QED
      BY <1>3, <2>1, <2>2, <3>1 DEF BootSafe
  <2> HIDE DEF local
  <2> QED
    BY <1>1, <2>1, <2>2 DEF BootSafe, local, Expired, SlotOf, OffsetOf, Kept
<1> QED
  BY <1>1, <1>2, <1>3, <1>4, ShrinkingUndisturbs, OutsideKeeps

\* What main goes on with is part of what it had.
LEMMA NextSwitchSafe ==
    ASSUME NEW local \in Job, NEW todo
    PROVE  LET next == NextSwitch(local, todo)
           IN  \/ /\ Expired(todo) # {}
                  /\ next.pc = "switchRow" /\ next.todo = todo /\ next.boot = local.boot
               \/ /\ Expired(todo) = {}
                  /\ next.pc = "clearPrerouting" /\ next.boot = local.boot
                  /\ Expired(next.todo) = {}
               \/ Expired(todo) = {} /\ next = Idle
<1> DEFINE rows == [local EXCEPT !.pc = "switchRow", !.todo = todo, !.at = Nil]
           kept == {task \in todo : task.row.addr # NoIP}
           clear == [local EXCEPT !.pc = "clearPrerouting", !.at = Nil, !.todo = kept]
<1>1. rows.pc = "switchRow" /\ rows.todo = todo /\ rows.boot = local.boot
  BY DEF Job
<1>2. clear.pc = "clearPrerouting" /\ clear.todo = kept /\ clear.boot = local.boot
  BY DEF Job
<1>3. Expired(todo) = {} => Expired(kept) = {}
  BY DEF Expired
<1> HIDE DEF rows, kept, clear
<1> QED
  BY <1>1, <1>2, <1>3 DEF NextSwitch, rows, kept, clear

\* Nobody has anything in hand while main starts: only the sessions, the reservations
\* and main itself need to be looked at.
LEMMA StartGoesOn ==
    ASSUME TypeOK', AddressIsReserved', BootSafe(job[Admin])',
           \A g \in Worker \cup {Ticker} : job'[g] = Idle
    PROVE  ReservationInv'
<1>1. \A w \in Worker : Safe(job[w])'
  BY DEF Safe, Idle, DraftSafe, SnapshotSafe, FlushSafe, AllocPc, ReevalPc
<1>2. WorkersApart' /\ ~ At(Ticker, "reviewExtend")'
  BY DEF Idle, WorkersApart, At
<1> QED
  BY <1>1, <1>2 DEF ReservationInv, Safe

LEMMA SwitchMoves ==
    ASSUME ReservationInv, Switch
    PROVE  /\ job[Admin] \in Job /\ BootSafe(job[Admin]) /\ job[Admin].boot /\ ~ Up
           /\ UNCHANGED portalFw
           /\ \A g \in Worker \cup {Ticker} : job'[g] = Idle
           /\ SwitchRow \/ SwitchDelete \/ ClearPrerouting \/ ClearOutput \/ SwitchAdd
<1>1. BootSafe(job[Admin]) /\ job[Admin] \in Job
  BY DEF ReservationInv, TypeOK, Goroutine
<1>2. SwitchRow \/ SwitchDelete \/ ClearPrerouting \/ ClearOutput \/ SwitchAdd
  BY <1>1 DEF Switch, SwitchSet, At, BootSafe
<1>3. job[Admin].boot
  BY <1>1, <1>2 DEF SwitchRow, SwitchDelete, ClearPrerouting, ClearOutput, SwitchAdd, At,
     BootSafe
<1>4. \A g \in Worker \cup {Ticker} : job'[g] = job[g]
  <2>1. PICK local : Continue(Admin, local)
    BY <1>2 DEF SwitchRow, SwitchDelete, ClearPrerouting, ClearOutput, SwitchAdd
  <2> QED
    BY <2>1, ForwardingAssumption DEF Continue, ReservationInv, TypeOK, Goroutine
<1>5. UNCHANGED portalFw
  BY <1>2 DEF SwitchRow, SwitchDelete, ClearPrerouting, ClearOutput, SwitchAdd
<1> QED
  BY <1>1, <1>2, <1>3, <1>4, <1>5 DEF BootSafe, Up

\* An address whose reservation main drops is that of the expired session alone,
\* because it is reserved for its name.
LEMMA SwitchRowKeeps ==
    ASSUME ReservationInv, TypeOK', Orderly, SwitchRow
    PROVE  ReservationInv'
<1> DEFINE local == job[Admin]
<1>1. /\ local \in Job /\ BootSafe(local) /\ local.boot /\ ~ Up /\ UNCHANGED portalFw
      /\ \A g \in Worker \cup {Ticker} : job'[g] = Idle
  BY SwitchMoves DEF Switch
<1>2. PICK task \in Expired(local.todo) :
        /\ IF task.row.target # Nil
           THEN DeleteReverseDNS(<<task.key[1], OffsetFromIP4(task.row.addr)>>)
           ELSE UNCHANGED rdns
        /\ Continue(Admin, [local EXCEPT !.pc = "switchDelete", !.at = task])
  BY DEF SwitchRow
<1> DEFINE next == [local EXCEPT !.pc = "switchDelete", !.at = task]
           gone == <<task.key[1], OffsetFromIP4(task.row.addr)>>
<1>3. /\ next.pc = "switchDelete" /\ next.at = task /\ next.todo = local.todo
      /\ next.boot = local.boot
  BY <1>1 DEF Job
<1>4. job'[Admin] = next /\ UNCHANGED sessions
  BY <1>2 DEF SwitchRow, Continue, ReservationInv, TypeOK, Goroutine
<1> HIDE DEF next
<1>5. \A slot \in Slot : slot # gone => rdns'[slot] = rdns[slot]
  BY <1>2 DEF DeleteReverseDNS, ReservationInv, TypeOK
<1>6. \A slot \in Slot : rdns'[slot] \in {rdns[slot], Nil}
  BY <1>2 DEF DeleteReverseDNS, ReservationInv, TypeOK
<1>7. /\ task \in local.todo /\ task \in Task /\ task.key \in Key
      /\ task.row.addr \in Address \cup {NoIP}
  BY <1>1 DEF Expired, Job, Task, Row
<1>8. /\ sessions[task.key].addr = task.row.addr
      /\ Kept(task.row.addr) =>
            rdns[SlotOf(task.key[1], task.row.addr)] \in {task.key[2], Nil}
  BY <1>1 DEF BootSafe
<1>9. AddressIsReserved'
  <2> SUFFICES ASSUME NEW key \in Key, sessions[key] # Nil, Kept(sessions[key].addr),
                      ~ Dropping(key)
               PROVE  rdns'[<<key[1], OffsetOf(sessions[key].addr)>>] = key[2]
    BY <1>1, <1>3, <1>4 DEF AddressIsReserved, Dropping, Up, Expired, Kept, OffsetOf
  <2> DEFINE addr == sessions[key].addr
             slot == <<key[1], OffsetOf(addr)>>
  <2>1. rdns[slot] = key[2] /\ key[2] # Nil
    BY ForwardingAssumption DEF ReservationInv, AddressIsReserved, Key
  <2>2. addr \in Address \cup {NoIP} /\ slot \in Slot
    <3>1. addr \in Address \cup {NoIP}
      BY DEF ReservationInv, TypeOK, Row
    <3> QED
      BY <3>1, PoolOffsets DEF Slot, Key
  <2>3. ASSUME slot = gone
        PROVE  FALSE
    <3>1. key[1] = task.key[1] /\ OffsetFromIP4(task.row.addr) = OffsetOf(addr)
      BY <2>3
    <3>2. task.row.addr = addr
      BY <1>7, <2>2, <3>1, PoolOffsets
    <3>3. rdns[slot] \in {task.key[2], Nil}
      BY <1>8, <3>1, <3>2 DEF SlotOf
    <3>4. task.key = key
      BY <1>7, <2>1, <3>1, <3>3 DEF Key
    <3> QED
      BY <1>1, <3>4 DEF Dropping
  <2> QED
    BY <1>5, <2>1, <2>2, <2>3
<1>10. BootSafe(job[Admin])'
  <2>1. ASSUME NEW other \in Expired(local.todo), Kept(sessions[other.key].addr)
        PROVE  rdns'[SlotOf(other.key[1], sessions[other.key].addr)] \in {other.key[2], Nil}
    <3> DEFINE slot == SlotOf(other.key[1], sessions[other.key].addr)
    <3>1. rdns[slot] \in {other.key[2], Nil} /\ sessions[other.key] # Nil
      BY <1>1, <2>1 DEF BootSafe
    <3>2. other.key \in Key
      BY <1>1 DEF Expired, Job, Task
    <3>3. sessions[other.key].addr \in Address \cup {NoIP}
      BY <3>1, <3>2 DEF ReservationInv, TypeOK, Row
    <3>4. slot \in Slot
      BY <2>1, <3>2, <3>3, PoolOffsets DEF SlotOf, Slot, Key
    <3> QED
      BY <1>6, <3>1, <3>4
  <2> QED
    BY <1>1, <1>2, <1>3, <1>4, <2>1 DEF BootSafe, Expired, SlotOf, OffsetOf, Kept
<1> QED
  BY <1>1, <1>9, <1>10, StartGoesOn

LEMMA SwitchDeleteKeeps ==
    ASSUME ReservationInv, TypeOK', Orderly, SwitchDelete
    PROVE  ReservationInv'
<1> DEFINE local == job[Admin]
           key == local.at.key
           todo == local.todo \ {local.at}
           next == NextSwitch(local, todo)
<1>1. /\ local \in Job /\ BootSafe(local) /\ local.boot /\ ~ Up /\ UNCHANGED portalFw
      /\ \A g \in Worker \cup {Ticker} : job'[g] = Idle
  BY SwitchMoves DEF Switch
<1>2. local.at \in Expired(local.todo) /\ local.at \in local.todo
  BY <1>1 DEF SwitchDelete, At, BootSafe, Expired
<1>3. /\ sessions' = [sessions EXCEPT ![key] = Nil] /\ UNCHANGED rdns
      /\ job'[Admin] = next
  BY DEF SwitchDelete, DeleteDNSSession, Conflict, Orderly, Continue, ReservationInv,
     TypeOK, Goroutine
<1>4. key \in Key /\ sessions \in [Key -> Row \cup {Nil}]
  BY <1>1, <1>2 DEF Job, Task, ReservationInv, TypeOK
<1>5. \A task \in Expired(local.todo) :
        task.key # key => task \in Expired(todo)
  BY DEF Expired
<1>6. \A task \in Expired(todo) : task.key # key /\ task \in Expired(local.todo)
  BY <1>1, <1>2 DEF BootSafe, Expired
<1>7. \/ /\ next.pc = "switchRow" /\ next.todo = todo /\ next.boot = local.boot
      \/ /\ Expired(todo) = {}
         /\ next.pc = "clearPrerouting" /\ next.boot = local.boot
         /\ Expired(next.todo) = {}
      \/ Expired(todo) = {} /\ next = Idle
  <2> HIDE DEF todo
  <2> QED
    BY <1>1, NextSwitchSafe
<1> HIDE DEF next, todo
<1>8. AddressIsReserved'
  <2> SUFFICES ASSUME NEW k \in Key, sessions'[k] # Nil, Kept(sessions'[k].addr),
                      ~ Dropping(k)'
               PROVE  rdns'[<<k[1], OffsetOf(sessions'[k].addr)>>] = k[2]
    BY DEF AddressIsReserved, Kept, OffsetOf
  <2>1. k # key /\ sessions'[k] = sessions[k]
    BY <1>3, <1>4
  <2>2. ASSUME Dropping(k)
        PROVE  FALSE
    <3>1. PICK task \in Expired(local.todo) : task.key = k
      BY <2>2 DEF Dropping
    <3>2. task \in Expired(todo)
      BY <1>5, <2>1, <3>1
    <3>3. job'[Admin].boot /\ job'[Admin].todo = todo
      BY <1>1, <1>3, <1>7, <3>2
    <3> QED
      BY <3>1, <3>2, <3>3 DEF Dropping, Up, Expired
  <2> QED
    BY <1>3, <2>1, <2>2 DEF ReservationInv, AddressIsReserved
<1>9. ASSUME NEW task \in Expired(todo)
      PROVE  /\ \A other \in local.todo : task.key = other.key => task = other
             /\ LET row == sessions'[task.key]
                IN  /\ row # Nil /\ row.expired /\ row.addr = task.row.addr
                    /\ Kept(row.addr) =>
                          rdns'[SlotOf(task.key[1], row.addr)] \in {task.key[2], Nil}
  <2>1. task.key # key /\ task \in Expired(local.todo)
    BY <1>6
  <2>2. task.key \in Key
    BY <1>1, <2>1 DEF Expired, Job, Task
  <2>3. sessions'[task.key] = sessions[task.key]
    BY <1>3, <1>4, <2>1, <2>2
  <2> QED
    BY <1>1, <1>3, <2>1, <2>3 DEF BootSafe
<1>10. BootSafe(job[Admin])'
  <2>1. CASE /\ next.pc = "switchRow" /\ next.todo = todo /\ next.boot = local.boot
    <3>1. \A other \in todo : other \in local.todo
      BY DEF todo
    <3> QED
      BY <1>1, <1>3, <1>9, <2>1, <3>1 DEF BootSafe, Expired, SlotOf, OffsetOf, Kept
  <2>2. CASE /\ next.pc = "clearPrerouting" /\ next.boot = local.boot
             /\ Expired(next.todo) = {}
    BY <1>1, <1>3, <2>2 DEF BootSafe, Expired
  <2>3. CASE next = Idle
    BY <1>1, <1>3, <2>3 DEF BootSafe, Idle, Expired
  <2> QED
    BY <1>7, <2>1, <2>2, <2>3
<1> QED
  BY <1>1, <1>8, <1>10, StartGoesOn

\* The expired sessions are gone when the rules are installed.
LEMMA SwitchRulesKeep ==
    ASSUME ReservationInv, TypeOK', ClearPrerouting \/ ClearOutput \/ SwitchAdd
    PROVE  ReservationInv'
<1> DEFINE local == job[Admin]
<1>1. /\ local \in Job /\ BootSafe(local) /\ local.boot /\ ~ Up /\ UNCHANGED portalFw
      /\ \A g \in Worker \cup {Ticker} : job'[g] = Idle
  BY SwitchMoves DEF Switch
<1>2. Expired(local.todo) = {}
  BY <1>1 DEF ClearPrerouting, ClearOutput, SwitchAdd, At, BootSafe
<1>3. UNCHANGED db
  BY DEF ClearPrerouting, ClearOutput, SwitchAdd, db
<1>4. AddressIsReserved'
  BY <1>2, <1>3 DEF ReservationInv, AddressIsReserved, Dropping, db, Kept, OffsetOf
<1>5. ASSUME NEW next, Continue(Admin, next),
             \/ /\ next.boot /\ next.pc \in {"clearOutput", "switchAdd"}
                /\ next.todo \subseteq local.todo
             \/ next = Idle
      PROVE  ReservationInv'
  <2>1. job'[Admin] = next
    BY <1>5 DEF Continue, ReservationInv, TypeOK, Goroutine
  <2>2. next.boot => Expired(next.todo) = {}
    BY <1>2, <1>5 DEF Expired, Idle
  <2>3. BootSafe(job[Admin])'
    <3>1. CASE next = Idle
      BY <2>1, <3>1 DEF BootSafe, Idle, Expired
    <3>2. CASE next.boot /\ next.pc \in {"clearOutput", "switchAdd"}
      <4>1. portalFw' # "none"
        BY <1>1 DEF BootSafe
      <4>2. Expired(job'[Admin].todo) = {}
        BY <2>1, <2>2, <3>2
      <4> QED
        BY <1>1, <2>1, <3>2, <4>1, <4>2 DEF BootSafe, Expired
    <3> QED
      BY <1>5, <3>1, <3>2
  <2> QED
    BY <1>1, <1>4, <2>3, StartGoesOn
<1>6. ASSUME NEW todo \in SUBSET local.todo, Continue(Admin, NextAdd(local, todo))
      PROVE  ReservationInv'
  <2> DEFINE next == [local EXCEPT !.pc = "switchAdd", !.todo = todo]
  <2>1. next.boot = local.boot /\ next.pc = "switchAdd" /\ next.todo = todo
    BY <1>1 DEF Job
  <2>2. Continue(Admin, next) \/ Continue(Admin, Idle)
    BY <1>6 DEF NextAdd
  <2> HIDE DEF next
  <2> QED
    BY <1>1, <1>5, <2>1, <2>2
<1>7. CASE ClearPrerouting
  <2> DEFINE next == [local EXCEPT !.pc = "clearOutput"]
  <2>1. next.boot = local.boot /\ next.pc = "clearOutput" /\ next.todo = local.todo
    BY <1>1 DEF Job
  <2>2. Continue(Admin, next)
    BY <1>7 DEF ClearPrerouting
  <2> HIDE DEF next
  <2> QED
    BY <1>1, <1>5, <2>1, <2>2
<1>8. CASE ClearOutput
  BY <1>6, <1>8 DEF ClearOutput
<1>9. CASE SwitchAdd
  <2>1. PICK task \in local.todo : Continue(Admin, NextAdd(local, local.todo \ {task}))
    BY <1>9 DEF SwitchAdd
  <2>2. local.todo \ {task} \in SUBSET local.todo
    OBVIOUS
  <2> QED
    BY <1>6, <2>1, <2>2
<1> QED
  BY <1>7, <1>8, <1>9

\* Main finds every session with its reservation, or expired and on its list.
LEMMA RestartKeeps ==
    ASSUME ReservationInv, TypeOK', Restart
    PROVE  ReservationInv'
<1> DEFINE fw == IF At(Admin, "switchSet") THEN job[Admin].fw ELSE portalFw
           main == [Idle EXCEPT !.fw = fw, !.boot = TRUE]
           stored == Stored(Client)
           next == NextSwitch(main, stored)
<1>1. /\ portalFw' = fw /\ fw = portalFw /\ UNCHANGED db
      /\ \A g \in Worker \cup {Ticker} : job'[g] = Idle
      /\ job'[Admin] = IF fw # "none" THEN next ELSE Idle
  BY ForwardingAssumption DEF Restart, Goroutine, ReservationInv, BootSafe, At
<1>2. main \in Job /\ main.boot
  <2>1. fw \in Firewall
    BY <1>1 DEF ReservationInv, TypeOK
  <2> HIDE DEF fw
  <2> QED
    BY <2>1, IdleType DEF Job, Idle
<1>3. ASSUME NEW task \in stored
      PROVE  /\ task.key \in Key /\ task.row = sessions[task.key]
             /\ sessions[task.key] # Nil
             /\ \A other \in stored : task.key = other.key => task = other
  BY DEF Stored
<1>4. ASSUME NEW key \in Key, sessions[key] # Nil
      PROVE  \E task \in stored : task.key = key /\ task.row = sessions[key]
  <2> DEFINE its == [key |-> key, row |-> sessions[key], reason |-> sessions[key].reason]
  <2>1. its \in stored
    BY <1>4 DEF Stored, Key
  <2> QED
    BY <2>1
<1>5. \/ /\ next.pc = "switchRow" /\ next.todo = stored /\ next.boot
      \/ /\ Expired(stored) = {}
         /\ next.pc = "clearPrerouting" /\ next.boot /\ Expired(next.todo) = {}
      \/ Expired(stored) = {} /\ next = Idle
  <2> HIDE DEF main, stored
  <2> QED
    BY <1>2, NextSwitchSafe
<1> HIDE DEF next, main, fw
<1>6. ASSUME NEW key \in Key, Dropping(key)
      PROVE  /\ sessions[key] # Nil /\ sessions[key].expired /\ portalFw # "none"
             /\ Kept(sessions[key].addr) =>
                   rdns[SlotOf(key[1], sessions[key].addr)] \in {key[2], Nil}
  BY <1>6 DEF Dropping, Up, ReservationInv, BootSafe
<1>7. ASSUME NEW key \in Key, sessions[key] # Nil, Kept(sessions[key].addr)
      PROVE  \/ rdns[SlotOf(key[1], sessions[key].addr)] = key[2]
             \/ Dropping(key) /\ rdns[SlotOf(key[1], sessions[key].addr)] = Nil
  BY <1>6, <1>7 DEF ReservationInv, AddressIsReserved, SlotOf
<1>8. AddressIsReserved'
  <2> SUFFICES ASSUME NEW key \in Key, sessions[key] # Nil, Kept(sessions[key].addr),
                      Dropping(key)
               PROVE  Dropping(key)'
    BY <1>1 DEF ReservationInv, AddressIsReserved, db, Kept, OffsetOf
  <2>1. sessions[key].expired /\ portalFw # "none"
    BY <1>6
  <2>2. PICK task \in stored : task.key = key /\ task.row = sessions[key]
    BY <1>4
  <2>3. task \in Expired(stored)
    BY <2>1, <2>2 DEF Expired
  <2> HIDE DEF stored
  <2>4. job'[Admin].boot /\ job'[Admin].todo = stored
    BY <1>1, <1>5, <2>1, <2>3
  <2> QED
    BY <2>2, <2>3, <2>4 DEF Dropping, Up, Expired
<1>9. BootSafe(job[Admin])'
  <2>1. ASSUME NEW task \in Expired(stored)
        PROVE  /\ \A other \in stored : task.key = other.key => task = other
               /\ LET row == sessions[task.key]
                  IN  /\ row # Nil /\ row.expired /\ row.addr = task.row.addr
                      /\ Kept(row.addr) =>
                            rdns[SlotOf(task.key[1], row.addr)] \in {task.key[2], Nil}
    <3>1. task \in stored /\ task.row.expired
      BY DEF Expired
    <3> HIDE DEF stored
    <3> QED
      BY <1>3, <1>7, <3>1
  <2> HIDE DEF stored
  <2>2. CASE job'[Admin] = Idle
    BY <1>1, <2>2 DEF BootSafe, Idle, Expired
  <2>3. CASE job'[Admin] # Idle
    <3>1. fw # "none" /\ job'[Admin] = next
      BY <1>1, <2>3
    <3>2. CASE next.pc = "switchRow" /\ next.todo = stored /\ next.boot
      BY <1>1, <2>1, <3>1, <3>2 DEF BootSafe, Expired, SlotOf, OffsetOf, Kept, db
    <3>3. CASE next.pc = "clearPrerouting" /\ next.boot /\ Expired(next.todo) = {}
      BY <1>1, <3>1, <3>3 DEF BootSafe, Expired
    <3> QED
      BY <1>5, <2>3, <3>1, <3>2, <3>3
  <2> QED
    BY <2>2, <2>3
<1> QED
  BY <1>1, <1>8, <1>9, StartGoesOn

-----------------------------------------------------------------------------

\* ReservationInv holds in every reachable state when a client's requests follow one
\* another and no update is refused or written back by the review: what each worker,
\* reevaluation, flush, review and row relies on while it allocates, updates and frees.
THEOREM InvariantHolds ==
    ASSUME Orderly
    PROVE  Spec => []ReservationInv
<1>1. Init => ReservationInv
  <2> HAVE Init
  <2>1. TypeOK
    BY InitTypes
  <2>2. \A g \in Goroutine : job[g].pc = "idle" /\ job[g].client = Nil
    BY DEF Init, Idle
  <2>3. AddressIsReserved /\ BootSafe(job[Admin])
    BY DEF Init, AddressIsReserved, BootSafe, Goroutine, Idle, Expired
  <2>4. \A w \in Worker : Safe(job[w])
    BY <2>2 DEF Goroutine, Safe, DraftSafe, SnapshotSafe, FlushSafe, AllocPc, ReevalPc
  <2>5. WorkersApart /\ ~ At(Ticker, "reviewExtend")
    BY <2>2 DEF WorkersApart, At, Goroutine
  <2> QED
    BY <2>1, <2>3, <2>4, <2>5 DEF ReservationInv, Safe
<1>2. ReservationInv /\ [Next]_vars => ReservationInv'
  <2> HAVE ReservationInv /\ [Next]_vars
  <2>1. TypeOK'
    BY NextTypes DEF ReservationInv
  <2>2. ASSUME NEW w \in Worker, Requests(w) \/ Serve(w)
        PROVE  ReservationInv'
    BY <2>1, <2>2, RequestsKeep, ServeKeeps
  <2> QED
    BY <2>1, <2>2, ReviewKeeps, RestartKeeps, SwitchRowKeeps, SwitchDeleteKeeps,
       SwitchRulesKeep, SwitchMoves, TimeKeeps DEF Next, StartSwitch, Orderly
<1> QED
  BY <1>1, <1>2, PTL DEF Spec

\* As long as the requests of a client follow one another, the address a session
\* answers with is reserved for the session's own name, whatever the review does
\* between any two steps of a request, and wherever the process stops: an expired
\* session that lost its reservation when main was stopped between its two deletions
\* is gone before anybody is served (Allocate, FlushSource, ReevaluateAccess,
\* ReviewFwdRules; SetActiveFirewall as main calls it).
THEOREM AddressesStayReserved ==
    ASSUME Orderly
    PROVE  Spec => []AddressIsReserved
<1>1. ReservationInv => AddressIsReserved
  BY DEF ReservationInv
<1> QED
  BY <1>1, InvariantHolds, PTL

-----------------------------------------------------------------------------
(***************************************************************************)
(* A flush among whatever else goes on.                                    *)
(***************************************************************************)

\* A step leaves the row there or not as it was, or deletes it.
NoneCreated == \A key \in Key : sessions[key] = Nil => sessions'[key] = Nil
NoneReserved == \A slot \in Slot : rdns[slot] = Nil => rdns'[slot] = Nil

LEMMA RewritingCreatesNone ==
    ASSUME TypeOK
    PROVE  /\ \A key, row : UpdateDNSSession(key, row) => NoneCreated
           /\ \A key : DeleteDNSSession(key) => NoneCreated
           /\ \A key : SessionExpires(key) => NoneCreated
           /\ \A slot : DeleteReverseDNS(slot) => NoneReserved
           /\ UNCHANGED sessions => NoneCreated
           /\ UNCHANGED rdns => NoneReserved
BY DEF TypeOK, UpdateDNSSession, DeleteDNSSession, SessionExpires, DeleteReverseDNS,
   NoneCreated, NoneReserved

\* What is made while the client is flushed is remembered until the flush is over.
Remembers(client) ==
    /\ \A thing \in made : thing[1] = client => thing \in made'
    /\ \A key \in Key : key[1] = client /\ Created(key) => key \in made'
    /\ \A slot \in Slot : slot[1] = client /\ Reserves(slot) => slot \in made'

LEMMA StartsRemember ==
    ASSUME NEW w \in Worker, Requests(w), NEW client \in Client, Flushing(client)
    PROVE  Remembers(client)
<1>1. UNCHANGED db
  BY DEF Requests, StartQuery, StartPage, StartFlush, StartDeleteSession, db
<1>2. made' = made \/ \E other \in Client : made' = Remembered(other)
  BY DEF Requests, StartQuery, StartPage, StartFlush, StartDeleteSession, history
<1>3. \A thing \in made : thing[1] = client => thing \in made'
  BY <1>2 DEF Remembered
<1> QED
  BY <1>1, <1>3 DEF Remembers, Created, Reserves, db

LEMMA QueriesRemember ==
    ASSUME TypeOK, NEW w \in Worker, Query(w), NEW client \in Client, Flushing(client)
    PROVE  Remembers(client)
<1>1. ASSUME NoneCreated, NoneReserved, UNCHANGED made
      PROVE  Remembers(client)
  BY <1>1 DEF Remembers, NoneCreated, NoneReserved, Created, Reserves
<1>2. CASE Store(w)
  <2> DEFINE key == <<job[w].client, job[w].host>>
  <2>1. \A k \in Key : sessions'[k] # sessions[k] => k = key
    BY <1>2 DEF Store, UpdateDNSSession, CreateDNSSession, TypeOK
  <2>2. made' = made \cup {k \in {key} : Created(k) /\ Flushing(k[1])} /\ UNCHANGED rdns
    BY <1>2 DEF Store
  <2> HIDE DEF key
  <2> QED
    BY <2>1, <2>2 DEF Remembers, Created, Reserves
<1>3. CASE AllocCreate(w)
  <2> DEFINE slot == <<job[w].client, job[w].offset>>
  <2>1. \A s \in Slot : rdns'[s] # rdns[s] => s = slot
    BY <1>3 DEF AllocCreate, CreateReverseDNS, CreateReverseDNSFails, TypeOK
  <2>2. made' = made \cup {o \in {slot} : Reserves(o) /\ Flushing(o[1])} /\ UNCHANGED sessions
    BY <1>3 DEF AllocCreate
  <2> HIDE DEF slot
  <2> QED
    BY <2>1, <2>2 DEF Remembers, Created, Reserves
<1>4. CASE AllocDelete(w)
  BY <1>1, <1>4, RewritingCreatesNone DEF AllocDelete, history
<1>5. CASE LookupHit(w) \/ LookupMiss(w) \/ Resolve(w) \/ ResolveFails(w)
           \/ AllocGet(w) \/ AllocList(w) \/ AllocAdd(w)
  BY <1>1, <1>5, RewritingCreatesNone DEF LookupHit, LookupMiss, Resolve, ResolveFails,
     AllocGet, AllocList, AllocAdd, db, history
<1> QED
  BY <1>2, <1>3, <1>4, <1>5 DEF Query

LEMMA OthersRemember ==
    ASSUME TypeOK, NEW client \in Client,
           \/ \E w \in Worker : Reeval(w) \/ Page(w) \/ Flush(w)
           \/ Review
           \/ \E fw \in Firewall : StartSwitch(fw)
           \/ Switch
           \/ Restart
           \/ Time
           \/ UNCHANGED vars
    PROVE  Remembers(client)
<1>1. ASSUME NoneCreated, NoneReserved, UNCHANGED made
      PROVE  Remembers(client)
  BY <1>1 DEF Remembers, NoneCreated, NoneReserved, Created, Reserves
<1>2. ASSUME NEW w \in Worker, Reeval(w)
      PROVE  Remembers(client)
  BY <1>1, <1>2, RewritingCreatesNone DEF Reeval, Reevaluate, ReevalRow, ReevalSave,
     ReevalAdd, ReevalStore, db, history
<1>3. ASSUME NEW w \in Worker, Page(w)
      PROVE  Remembers(client)
  BY <1>1, <1>3, RewritingCreatesNone DEF Page, ViewSession, ShowPage, ChangeAccess, db,
     history
<1>4. ASSUME NEW w \in Worker, Flush(w)
      PROVE  Remembers(client)
  BY <1>1, <1>4, RewritingCreatesNone DEF Flush, FlushList, FlushRow, FlushDelete,
     FlushRevList, FlushRev, db, history
<1>5. CASE Review
  BY <1>1, <1>5, RewritingCreatesNone DEF Review, StartReview, ReviewExtend, ReviewRow,
     ReviewDelete, db, history
<1>6. CASE Switch
  BY <1>1, <1>6, RewritingCreatesNone DEF Switch, SwitchSet, SwitchRow, SwitchDelete,
     ClearPrerouting, ClearOutput, SwitchAdd, db, history
<1>7. CASE Restart \/ (\E fw \in Firewall : StartSwitch(fw)) \/ UNCHANGED vars
  BY <1>1, <1>7, RewritingCreatesNone DEF Restart, StartSwitch, vars, db, history
<1>8. CASE Time
  BY <1>1, <1>8, RewritingCreatesNone DEF Time, SessionExpires, PortalSessionExpires,
     ScheduleChanges, db, history
<1> QED
  BY <1>2, <1>3, <1>4, <1>5, <1>6, <1>7, <1>8

\* A goroutine goes where its step sends it.
LEMMA Sent ==
    ASSUME NEW local \in Job, NEW pc
    PROVE  /\ [local EXCEPT !.pc = pc].pc = pc
           /\ \A at : [local EXCEPT !.pc = pc, !.at = at].pc = pc
           /\ \A row : [local EXCEPT !.pc = pc, !.row = row].pc = pc
           /\ \A offset : [local EXCEPT !.pc = pc, !.offset = offset].pc = pc
           /\ \A c, row : [local EXCEPT !.pc = pc, !.cached = c, !.row = row].pc = pc
           /\ \A c, row : [local EXCEPT !.pc = pc, !.row = row, !.cached = c].pc = pc
           /\ \A offset, addr :
                 [local EXCEPT !.pc = pc, !.offset = offset, !.row.addr = addr].pc = pc
BY DEF Job

\* No other work turns into a flush.
LEMMA WorkMoves ==
    ASSUME TypeOK, NEW w \in Worker, Query(w) \/ Reeval(w) \/ Page(w)
    PROVE  job'[w].pc \notin FlushPc
<1>1. job \in [Goroutine -> Job] /\ job[w] \in Job
  BY DEF TypeOK, Goroutine
<1>2. ASSUME NEW local, Continue(w, local), local.pc \notin FlushPc
      PROVE  job'[w].pc \notin FlushPc
  BY <1>1, <1>2 DEF Continue, Goroutine
<1>3. Idle.pc \notin FlushPc
  BY DEF Idle, FlushPc
<1>4. \A todo : NextReeval(job[w], todo).pc \notin FlushPc
  BY <1>1, <1>3 DEF NextReeval, Job, FlushPc
<1>5. ASSUME LookupHit(w) \/ LookupMiss(w) \/ ResolveFails(w)
      PROVE  job'[w].pc \in {"store", "resolve", "idle"}
  <2>1. CASE LookupHit(w)
    <3> DEFINE row == [sessions[<<job[w].client, job[w].host>>] EXCEPT
                          !.reason = job[w].ses.verdict[job[w].host]]
    <3>1. job'[w] = [job[w] EXCEPT !.pc = "store", !.cached = TRUE, !.row = row]
      BY <1>1, <2>1 DEF LookupHit, Continue, Goroutine
    <3> HIDE DEF row
    <3> QED
      BY <1>1, <3>1, Sent
  <2>2. CASE LookupMiss(w)
    <3> DEFINE row == sessions[<<job[w].client, job[w].host>>]
    <3>1. job'[w] = [job[w] EXCEPT !.pc = "resolve", !.row = row, !.cached = (row # Nil)]
      BY <1>1, <2>2 DEF LookupMiss, Continue, Goroutine
    <3> HIDE DEF row
    <3> QED
      BY <1>1, <3>1, Sent
  <2>3. CASE ResolveFails(w)
    BY <1>1, <2>3 DEF ResolveFails, Finish, Continue, Goroutine, Idle
  <2> QED
    BY <1>5, <2>1, <2>2, <2>3
<1>6. CASE Resolve(w)
  <2>1. PICK row : Continue(w, [job[w] EXCEPT !.pc = AllocateFrom(row), !.row = row])
    BY <1>6 DEF Resolve
  <2> DEFINE local == [job[w] EXCEPT !.pc = AllocateFrom(row), !.row = row]
  <2>2. local.pc \in {"store", "allocGet", "allocList"}
    BY <1>1 DEF Job, AllocateFrom
  <2> HIDE DEF local
  <2> QED
    BY <1>2, <2>1, <2>2 DEF FlushPc, local
<1>7. ASSUME AllocGet(w) \/ AllocDelete(w) \/ AllocList(w)
      PROVE  job'[w].pc \in {"store", "allocList", "allocDelete", "allocCreate"}
  <2>1. PICK pc \in {"store", "allocList", "allocDelete", "allocCreate"} :
          \/ Continue(w, [job[w] EXCEPT !.pc = pc])
          \/ \E offset : Continue(w, [job[w] EXCEPT !.pc = pc, !.offset = offset])
    BY <1>7 DEF AllocGet, AllocDelete, AllocList
  <2>2. \/ job'[w] = [job[w] EXCEPT !.pc = pc]
        \/ \E offset : job'[w] = [job[w] EXCEPT !.pc = pc, !.offset = offset]
    BY <1>1, <2>1 DEF Continue, Goroutine
  <2>3. /\ [job[w] EXCEPT !.pc = pc].pc = pc
        /\ \A offset : [job[w] EXCEPT !.pc = pc, !.offset = offset].pc = pc
    BY <1>1, Sent
  <2> QED
    BY <2>2, <2>3
<1>8. ASSUME AllocCreate(w) \/ AllocAdd(w)
      PROVE  job'[w].pc \in {"allocAdd", "store"}
  <2>1. PICK pc \in {"allocAdd", "store"} :
          \/ Continue(w, [job[w] EXCEPT !.pc = pc])
          \/ Continue(w, [job[w] EXCEPT !.pc = pc, !.offset = 0,
                                        !.row.addr = IP4fromOffset(job[w].offset)])
    BY <1>8 DEF AllocCreate, AllocAdd
  <2>2. \/ job'[w] = [job[w] EXCEPT !.pc = pc]
        \/ job'[w] = [job[w] EXCEPT !.pc = pc, !.offset = 0,
                                    !.row.addr = IP4fromOffset(job[w].offset)]
    BY <1>1, <2>1 DEF Continue, Goroutine
  <2>3. /\ [job[w] EXCEPT !.pc = pc].pc = pc
        /\ \A offset, addr :
              [job[w] EXCEPT !.pc = pc, !.offset = offset, !.row.addr = addr].pc = pc
    BY <1>1, Sent
  <2> QED
    BY <2>2, <2>3
<1>9. CASE Store(w)
  BY <1>2, <1>3, <1>9 DEF Store, Finish
<1>10. CASE Reevaluate(w) \/ ReevalStore(w)
  BY <1>2, <1>4, <1>10 DEF Reevaluate, ReevalStore
<1>11. ASSUME ReevalRow(w) \/ ReevalSave(w) \/ ReevalAdd(w)
       PROVE  job'[w].pc \in {"reevalSave", "reevalAdd", "reevalStore"}
  <2>1. PICK pc \in {"reevalSave", "reevalAdd", "reevalStore"} :
          \/ Continue(w, [job[w] EXCEPT !.pc = pc])
          \/ \E task : Continue(w, [job[w] EXCEPT !.pc = pc, !.at = task])
    BY <1>11 DEF ReevalRow, ReevalSave, ReevalAdd
  <2>2. \/ job'[w] = [job[w] EXCEPT !.pc = pc]
        \/ \E task : job'[w] = [job[w] EXCEPT !.pc = pc, !.at = task]
    BY <1>1, <2>1 DEF Continue, Goroutine
  <2>3. /\ [job[w] EXCEPT !.pc = pc].pc = pc
        /\ \A task : [job[w] EXCEPT !.pc = pc, !.at = task].pc = pc
    BY <1>1, Sent
  <2> QED
    BY <2>2, <2>3
<1>12. ASSUME Page(w)
       PROVE  job'[w].pc \in {"handle", "reevaluate", "idle"}
  <2>1. \/ Continue(w, Idle)
        \/ Continue(w, [job[w] EXCEPT !.pc = "reevaluate", !.row = Nil])
        \/ \E pc \in {"handle", "reevaluate"} : Continue(w, [job[w] EXCEPT !.pc = pc])
    BY <1>12 DEF Page, ViewSession, ShowPage, ChangeAccess, Finish
  <2>2. \/ job'[w] = Idle
        \/ job'[w] = [job[w] EXCEPT !.pc = "reevaluate", !.row = Nil]
        \/ \E pc \in {"handle", "reevaluate"} : job'[w] = [job[w] EXCEPT !.pc = pc]
    BY <1>1, <2>1 DEF Continue, Goroutine
  <2>3. /\ [job[w] EXCEPT !.pc = "handle"].pc = "handle"
        /\ [job[w] EXCEPT !.pc = "reevaluate"].pc = "reevaluate"
        /\ [job[w] EXCEPT !.pc = "reevaluate", !.row = Nil].pc = "reevaluate"
        /\ Idle.pc = "idle"
    BY <1>1, Sent DEF Idle
  <2> QED
    BY <2>2, <2>3
<1> QED
  BY <1>5, <1>6, <1>7, <1>8, <1>9, <1>10, <1>11, <1>12 DEF Query, Reeval, FlushPc

\* A flush moves by its own steps, and begins with its list.
LEMMA FlushMoves ==
    ASSUME TypeOK, [Next]_vars, NEW w \in Worker
    PROVE  \/ job'[w] = job[w]
           \/ Flush(w)
           \/ job'[w].pc \notin FlushPc \ {"flushList"}
<1>1. job \in [Goroutine -> Job] /\ job[w] \in Job
  BY DEF TypeOK, Goroutine
<1>2. ASSUME NEW g \in Goroutine \ {w}, NEW local, Continue(g, local)
      PROVE  job'[w] = job[w]
  BY <1>1, <1>2 DEF Continue, Goroutine
<1>3. ASSUME NEW local, Continue(w, local), local.pc \notin FlushPc \ {"flushList"}
      PROVE  job'[w].pc \notin FlushPc \ {"flushList"}
  BY <1>1, <1>3 DEF Continue, Goroutine
<1>4. ASSUME NEW v \in Worker, Requests(v) \/ Serve(v), v # w
      PROVE  job'[w] = job[w]
  <2>1. PICK local : Continue(v, local)
    BY <1>4 DEF Requests, StartQuery, StartPage, StartFlush, StartDeleteSession,
       Serve, Query, LookupHit, LookupMiss, Resolve, ResolveFails, AllocGet, AllocDelete,
       AllocList, AllocCreate, AllocAdd, Store, Reeval, Reevaluate, ReevalRow, ReevalSave,
       ReevalAdd, ReevalStore, Page, ViewSession, ShowPage, ChangeAccess, Flush, FlushList,
       FlushRow, FlushDelete, FlushRevList, FlushRev, Finish
  <2> QED
    BY <1>2, <1>4, <2>1 DEF Goroutine
<1>5. CASE Review
  <2>1. PICK local : Continue(Ticker, local)
    BY <1>5 DEF Review, StartReview, ReviewExtend, ReviewRow, ReviewDelete
  <2> QED
    BY <1>2, <2>1, ForwardingAssumption DEF Goroutine
<1>6. CASE Switch \/ \E fw \in Firewall : StartSwitch(fw)
  <2>1. PICK local : Continue(Admin, local)
    BY <1>6 DEF Switch, StartSwitch, SwitchSet, SwitchRow, SwitchDelete, ClearPrerouting,
       ClearOutput, SwitchAdd
  <2> QED
    BY <1>2, <2>1, ForwardingAssumption DEF Goroutine
<1>7. CASE Restart
  BY <1>7, ForwardingAssumption DEF Restart, Goroutine, Idle, FlushPc
<1>8. CASE Time \/ UNCHANGED vars
  BY <1>8 DEF Time, SessionExpires, PortalSessionExpires, ScheduleChanges, vars
<1>9. CASE Requests(w)
  <2>1. PICK client \in Client :
          \/ \E host \in Host, ifc \in Interface : StartQuery(w, client, host, ifc)
          \/ \E host \in Host : StartPage(w, client, host)
          \/ StartFlush(w, client)
          \/ \E info \in Policy : StartDeleteSession(w, client, info)
    BY <1>9 DEF Requests
  <2>2. ASSUME NEW host \in Host, NEW ifc \in Interface, StartQuery(w, client, host, ifc)
        PROVE  job'[w].pc \in {"reevaluate", "lookup"}
    BY <1>1, <2>2 DEF StartQuery, Continue, Idle, Goroutine
  <2>3. ASSUME NEW host \in Host, StartPage(w, client, host)
        PROVE  job'[w].pc \in {"page", "handle"}
    BY <1>1, <2>3 DEF StartPage, Continue, Idle, Goroutine
  <2>4. ASSUME Continue(w, [Idle EXCEPT !.pc = "flushList", !.client = client])
        PROVE  job'[w].pc = "flushList"
    BY <1>1, <2>4 DEF Continue, Idle, Goroutine
  <2> QED
    BY <2>1, <2>2, <2>3, <2>4 DEF StartFlush, StartDeleteSession, FlushPc
<1>10. CASE Query(w) \/ Reeval(w) \/ Page(w)
  BY <1>10, WorkMoves
<1> QED
  BY <1>4, <1>5, <1>6, <1>7, <1>8, <1>9, <1>10 DEF Next, Serve

\* What a flush of the client finds, beside its own steps.
LEMMA FlushWaits ==
    ASSUME TypeOK, NEW w \in Worker, job'[w] = job[w], FlushedSoFar(job[w]),
           job[w].pc \in FlushPc => Remembers(job[w].client)
    PROVE  FlushedSoFar(job[w])'
<1> SUFFICES ASSUME job[w].pc \in FlushPc
             PROVE  FlushedSoFar(job[w])'
  BY DEF FlushedSoFar, FlushPc
<1> DEFINE client == job[w].client
<1>1. client \in Client
  BY JobType DEF Goroutine, Job
<1>2. ASSUME NEW host \in Host, sessions'[<<client, host>>] # Nil
      PROVE  /\ sessions[<<client, host>>] # Nil \/ <<client, host>> \in made'
             /\ <<client, host>> \in made => <<client, host>> \in made'
  BY <1>1, <1>2 DEF Remembers, Created, Key
<1>3. ASSUME NEW o \in Offset, rdns'[<<client, o>>] # Nil
      PROVE  /\ rdns[<<client, o>>] # Nil \/ <<client, o>> \in made'
             /\ <<client, o>> \in made => <<client, o>> \in made'
  BY <1>1, <1>3 DEF Remembers, Reserves, Slot
<1> QED
  BY <1>2, <1>3 DEF FlushedSoFar

LEMMA FlushGoesOn ==
    ASSUME TypeOK, "conflict" \notin Events, NEW w \in Worker, FlushedSoFar(job[w]), Flush(w)
    PROVE  FlushedSoFar(job[w])'
<1> DEFINE client == job[w].client
<1>1. /\ job[w] \in Job /\ client \in Client /\ job[w].todo \in SUBSET Task
      /\ job \in [Goroutine -> Job] /\ sessions \in [Key -> Row \cup {Nil}]
      /\ rdns \in [Slot -> Host \cup {Nil}]
  BY JobType DEF Flush, FlushList, FlushRow, FlushDelete, FlushRevList, FlushRev, At,
     FlushPc, Goroutine, Job, TypeOK
<1>2. UNCHANGED made
  BY DEF Flush, FlushList, FlushRow, FlushDelete, FlushRevList, FlushRev, history
<1>3. ASSUME NEW local, Continue(w, local)
      PROVE  job'[w] = local
  BY <1>1, <1>3 DEF Continue, Goroutine
<1>4. FlushedSoFar(Idle)'
  BY DEF FlushedSoFar, Idle
<1>5. CASE FlushList(w)
  <2> DEFINE todo == Stored({client})
             next == NextFlush(job[w], todo)
  <2>1. ASSUME NEW host \in Host, sessions[<<client, host>>] # Nil
        PROVE  \E task \in todo : task.key = <<client, host>>
    <3> DEFINE key == <<client, host>>
               its == [key |-> key, row |-> sessions[key], reason |-> sessions[key].reason]
    <3>1. key \in Key /\ key[1] \in {client}
      BY <1>1 DEF Key
    <3> HIDE DEF key
    <3>2. its \in todo
      BY <2>1, <3>1 DEF Stored, key
    <3>3. its.key = key
      OBVIOUS
    <3> QED
      BY <3>2, <3>3 DEF key
  <2>2. Continue(w, next) /\ UNCHANGED sessions
    BY <1>5 DEF FlushList, db
  <2> HIDE DEF todo
  <2>3. /\ next.client = client /\ next.todo = todo
        /\ todo # {} => next.pc = "flushRow"
        /\ todo = {} => next.pc = "flushRevList"
    BY <1>1, NextFlushFacts
  <2>4. job'[w] = next
    BY <1>3, <2>2
  <2> HIDE DEF next
  <2> QED
    BY <1>2, <2>1, <2>2, <2>3, <2>4 DEF FlushedSoFar
<1>6. CASE FlushRow(w)
  <2>1. PICK task \in job[w].todo :
          Continue(w, [job[w] EXCEPT !.pc = "flushDelete", !.at = task])
    BY <1>6 DEF FlushRow
  <2> DEFINE local == [job[w] EXCEPT !.pc = "flushDelete", !.at = task]
  <2>2. /\ local.pc = "flushDelete" /\ local.todo = job[w].todo /\ local.client = client
    BY <1>1 DEF Job
  <2>3. job'[w] = local
    BY <1>3, <2>1
  <2>4. job[w].pc = "flushRow" /\ UNCHANGED db
    BY <1>6 DEF FlushRow, At
  <2> HIDE DEF local
  <2> QED
    BY <1>2, <2>2, <2>3, <2>4 DEF FlushedSoFar, db
<1>7. CASE FlushDelete(w)
  <2> DEFINE key == job[w].at.key
             todo == job[w].todo \ {job[w].at}
             next == NextFlush(job[w], todo)
  <2>1. /\ sessions' = [sessions EXCEPT ![key] = Nil]
        /\ Continue(w, next) /\ job[w].pc = "flushDelete"
    BY <1>7 DEF FlushDelete, DeleteDNSSession, Conflict, At
  <2>2. ASSUME NEW host \in Host, sessions'[<<client, host>>] # Nil
        PROVE  \/ <<client, host>> \in made
               \/ \E task \in todo : task.key = <<client, host>>
    <3>1. <<client, host>> \in Key
      BY <1>1 DEF Key
    <3>2. <<client, host>> # key /\ sessions[<<client, host>>] # Nil
      BY <1>1, <2>1, <2>2, <3>1
    <3>3. \/ <<client, host>> \in made
          \/ \E task \in job[w].todo : task.key = <<client, host>>
      BY <2>1, <3>2 DEF FlushedSoFar
    <3> QED
      BY <3>2, <3>3
  <2>3. job'[w] = next
    BY <1>3, <2>1
  <2> HIDE DEF todo
  <2>4. /\ next.client = client /\ next.todo = todo
        /\ todo # {} => next.pc = "flushRow"
        /\ todo = {} => next.pc = "flushRevList"
    BY <1>1, NextFlushFacts
  <2> HIDE DEF next
  <2> QED
    BY <1>2, <2>2, <2>3, <2>4 DEF FlushedSoFar
<1>8. CASE FlushRevList(w)
  <2> DEFINE offs == Reserved(client)
             local == [job[w] EXCEPT !.pc = "flushRev", !.offs = offs]
  <2>1. job[w].pc = "flushRevList" /\ UNCHANGED <<sessions, rdns>>
    BY <1>8 DEF FlushRevList, At, db
  <2>2. job'[w] \in {Idle, local}
    BY <1>3, <1>8 DEF FlushRevList
  <2>3. local.pc = "flushRev" /\ local.client = client /\ local.offs = offs
    BY <1>1 DEF Job
  <2>4. \A o \in Offset : rdns'[<<client, o>>] # Nil => o \in offs
    BY <2>1 DEF Reserved
  <2> HIDE DEF local, offs
  <2>5. CASE job'[w] = local
    BY <1>2, <2>1, <2>3, <2>4, <2>5 DEF FlushedSoFar
  <2> QED
    BY <1>4, <2>2, <2>5
<1>9. CASE FlushRev(w)
  <2>1. PICK o \in job[w].offs :
          /\ rdns' = [rdns EXCEPT ![<<client, o>>] = Nil]
          /\ Continue(w, IF job[w].offs = {o} THEN Idle
                         ELSE [job[w] EXCEPT !.offs = @ \ {o}])
    BY <1>9 DEF FlushRev, DeleteReverseDNS, Conflict
  <2> DEFINE local == [job[w] EXCEPT !.offs = job[w].offs \ {o}]
  <2>2. job[w].pc = "flushRev" /\ UNCHANGED sessions
    BY <1>9 DEF FlushRev, At
  <2>3. job'[w] \in {Idle, local}
    BY <1>3, <2>1
  <2>4. local.pc = "flushRev" /\ local.client = client /\ local.offs = job[w].offs \ {o}
    BY <1>1, <2>2 DEF Job
  <2> HIDE DEF local
  <2>5. ASSUME NEW p \in Offset, rdns'[<<client, p>>] # Nil
        PROVE  p \in local.offs \/ <<client, p>> \in made
    <3>1. <<client, p>> \in Slot
      BY <1>1 DEF Slot
    <3>2. p # o /\ rdns[<<client, p>>] # Nil
      BY <1>1, <2>1, <2>5, <3>1
    <3> QED
      BY <2>2, <2>4, <3>2 DEF FlushedSoFar
  <2>6. CASE job'[w] = local
    BY <1>2, <2>2, <2>4, <2>5, <2>6 DEF FlushedSoFar
  <2> QED
    BY <1>4, <2>3, <2>6
<1> QED
  BY <1>5, <1>6, <1>7, <1>8, <1>9 DEF Flush

LEMMA FlushInvHolds ==
    ASSUME "conflict" \notin Events
    PROVE  Spec => []FlushInv
<1>1. Init => FlushInv
  BY InitTypes DEF Init, FlushInv, FlushedSoFar, Idle, Goroutine
<1>2. FlushInv /\ [Next]_vars => FlushInv'
  <2> SUFFICES ASSUME FlushInv, [Next]_vars, NEW w \in Worker
               PROVE  FlushedSoFar(job[w])'
    BY NextTypes DEF FlushInv
  <2>1. TypeOK /\ FlushedSoFar(job[w])
    BY DEF FlushInv
  <2>2. CASE Flush(w)
    BY <2>1, <2>2, FlushGoesOn
  <2>3. CASE job'[w] = job[w]
    <3>1. ASSUME job[w].pc \in FlushPc
          PROVE  Remembers(job[w].client)
      <4>1. job[w].client \in Client
        BY <2>1, <3>1, JobType DEF Goroutine, Job
      <4>2. Flushing(job[w].client)
        BY <3>1 DEF Flushing
      <4> QED
        BY <2>1, <4>1, <4>2, StartsRemember, QueriesRemember, OthersRemember
           DEF Next, Serve
    <3> QED
      BY <2>1, <2>3, <3>1, FlushWaits
  <2>4. CASE job'[w].pc \notin FlushPc \ {"flushList"}
    BY <2>4 DEF FlushedSoFar, FlushPc
  <2> QED
    BY <2>1, <2>2, <2>3, <2>4, FlushMoves
<1> QED
  BY <1>1, <1>2, PTL DEF Spec

\* A flush that runs to its end leaves of the client only what was made while it ran,
\* although it deletes from lists it made earlier and nothing keeps the client's
\* requests, the review, a switch of the firewall or another flush from storing and
\* reserving beside it (FlushSource).  Only a delete that Badger refuses may leave
\* more.
THEOREM FlushIsThorough ==
    ASSUME "conflict" \notin Events
    PROVE  Spec => FlushForgets
<1> DEFINE Ends(w) == (FlushRevList(w) \/ FlushRev(w)) /\ job'[w].pc = "idle"
           Forgotten(w) ==
             /\ \A host \in Host :
                  sessions'[<<job[w].client, host>>] # Nil => <<job[w].client, host>> \in made
             /\ \A o \in Offset :
                  rdns'[<<job[w].client, o>>] # Nil => <<job[w].client, o>> \in made
<1>1. ASSUME FlushInv, NEW w \in Worker, Ends(w)
      PROVE  Forgotten(w)
  <2> DEFINE client == job[w].client
  <2>1. /\ job[w] \in Job /\ client \in Client /\ FlushedSoFar(job[w])
        /\ job \in [Goroutine -> Job] /\ rdns \in [Slot -> Host \cup {Nil}]
    BY <1>1, JobType DEF FlushInv, FlushRevList, FlushRev, At, FlushPc, Goroutine, Job, TypeOK
  <2>2. ASSUME NEW local, Continue(w, local), local.pc = "flushRev"
        PROVE  FALSE
    BY <1>1, <2>1, <2>2 DEF Continue, Goroutine
  <2>3. CASE FlushRevList(w)
    <3> DEFINE local == [job[w] EXCEPT !.pc = "flushRev", !.offs = Reserved(client)]
    <3>1. local.pc = "flushRev"
      BY <2>1 DEF Job
    <3>2. Reserved(client) = {}
      BY <2>2, <2>3, <3>1 DEF FlushRevList
    <3>3. UNCHANGED <<sessions, rdns>> /\ job[w].pc = "flushRevList"
      BY <2>3 DEF FlushRevList, At, db
    <3> QED
      BY <2>1, <3>2, <3>3 DEF Reserved, FlushedSoFar
  <2>4. CASE FlushRev(w)
    <3>1. PICK o \in job[w].offs :
            /\ rdns' = [rdns EXCEPT ![<<client, o>>] = Nil]
            /\ Continue(w, IF job[w].offs = {o} THEN Idle
                           ELSE [job[w] EXCEPT !.offs = @ \ {o}])
      BY <2>4 DEF FlushRev, DeleteReverseDNS, Conflict
    <3>2. job[w].pc = "flushRev" /\ UNCHANGED sessions
      BY <2>4 DEF FlushRev, At
    <3> DEFINE local == [job[w] EXCEPT !.offs = job[w].offs \ {o}]
    <3>3. local.pc = "flushRev"
      BY <2>1, <3>2 DEF Job
    <3>4. job[w].offs = {o}
      BY <2>2, <3>1, <3>3
    <3>5. ASSUME NEW p \in Offset, rdns'[<<client, p>>] # Nil
          PROVE  <<client, p>> \in made
      <4>1. <<client, p>> \in Slot
        BY <2>1 DEF Slot
      <4>2. p # o /\ rdns[<<client, p>>] # Nil
        BY <2>1, <3>1, <3>5, <4>1
      <4> QED
        BY <2>1, <3>2, <3>4, <4>2 DEF FlushedSoFar
    <3> QED
      BY <2>1, <3>2, <3>5 DEF FlushedSoFar
  <2> QED
    BY <1>1, <2>3, <2>4
<1>2. FlushInv => [\A w \in Worker : Ends(w) => Forgotten(w)]_vars
  BY <1>1
<1>3. Spec => []FlushInv
  BY FlushInvHolds
<1> QED
  BY <1>2, <1>3, PTL DEF FlushForgets

=============================================================================

------------------------------- MODULE RuleProofs -------------------------------
(***************************************************************************)
(* The verdicts follow the policy, a rule leads where the name leads, and  *)
(* the rule a session describes is the one installed: for any number of    *)
(* clients, hosts, goroutines and addresses, when the requests of a client *)
(* follow one another.                                                     *)
(***************************************************************************)
EXTENDS AccessInvariant, ReservationProofs

-----------------------------------------------------------------------------
(***************************************************************************)
(* What a step of a request is, field by field of its goroutine.           *)
(***************************************************************************)

\* Only this goroutine moves.
Moves(g) == \A h \in Goroutine \ {g} : job'[h] = job[h]

\* The request goes on, and still knows what it was asked and by whom.
SameRequest(w) ==
    /\ job'[w].client = job[w].client
    /\ job'[w].host = job[w].host
    /\ job'[w].ses = job[w].ses
    /\ job'[w].ifc = job[w].ifc

Finished(w) == job'[w].pc = "idle" /\ job'[w].client = Nil /\ job'[w].todo = {}

OwnKey(w) == <<job[w].client, job[w].host>>

LEMMA ContinueMoves ==
    ASSUME TypeOK, NEW g \in Goroutine, NEW local, Continue(g, local)
    PROVE  job'[g] = local /\ Moves(g)
BY DEF TypeOK, Continue, Moves

LEMMA FinishMoves ==
    ASSUME TypeOK, NEW g \in Goroutine, Finish(g)
    PROVE  Finished(g) /\ Moves(g)
<1>1. job'[g] = Idle /\ Moves(g)
  BY ContinueMoves DEF Finish
<1>2. Idle.pc = "idle" /\ Idle.client = Nil /\ Idle.todo = {}
  BY DEF Idle
<1> QED
  BY <1>1, <1>2 DEF Finished

LEMMA LookupHitStep ==
    ASSUME ReservationInv, NEW w \in Worker, LookupHit(w)
    PROVE  /\ Moves(w) /\ SameRequest(w) /\ UNCHANGED <<sessions, rdns, nat>>
           /\ job'[w].pc = "store" /\ job'[w].cached
           /\ sessions[OwnKey(w)] \in Row /\ sessions[OwnKey(w)] # Nil
           /\ job'[w].row # Nil
           /\ SameAnswer(job'[w].row, sessions[OwnKey(w)])
           /\ job'[w].row.reason = job[w].ses.verdict[job[w].host]
<1> DEFINE old == sessions[OwnKey(w)]
           row == [old EXCEPT !.reason = job[w].ses.verdict[job[w].host]]
           local == [job[w] EXCEPT !.pc = "store", !.cached = TRUE, !.row = row]
<1>1. job[w] \in Job /\ OwnKey(w) \in Key /\ job[w].host \in Host /\ job[w].ses \in SessionInfo
  BY JobType, DraftFacts DEF LookupHit, At, QueryPc, OwnKey, ReservationInv, Goroutine
<1>2. old \in Row /\ old # Nil
  BY <1>1 DEF LookupHit, OwnKey, ReservationInv, TypeOK
<1>3. /\ row.target = old.target /\ row.addr = old.addr /\ row.ifc = old.ifc
      /\ row.reason = job[w].ses.verdict[job[w].host]
      /\ row \in Row
  BY <1>1, <1>2 DEF Row, SessionInfo
<1>4. row # Nil
  BY <1>3, ForwardingAssumption
<1> HIDE DEF row
<1>5. /\ local.pc = "store" /\ local.cached /\ local.row = row
      /\ local.client = job[w].client /\ local.host = job[w].host
      /\ local.ses = job[w].ses /\ local.ifc = job[w].ifc
  BY <1>1 DEF Job
<1>6. Continue(w, local) /\ UNCHANGED <<sessions, rdns, nat>>
  BY DEF LookupHit, OwnKey, row, db
<1> HIDE DEF local
<1>7. job'[w] = local /\ Moves(w)
  BY <1>6, ContinueMoves DEF ReservationInv, Goroutine
<1> QED
  BY <1>2, <1>3, <1>4, <1>5, <1>6, <1>7 DEF SameRequest, SameAnswer

LEMMA LookupMissStep ==
    ASSUME ReservationInv, NEW w \in Worker, LookupMiss(w)
    PROVE  /\ Moves(w) /\ SameRequest(w) /\ UNCHANGED <<sessions, rdns, nat>>
           /\ job'[w].pc = "resolve"
           /\ job'[w].row = sessions[OwnKey(w)]
           /\ job'[w].cached <=> sessions[OwnKey(w)] # Nil
<1> DEFINE old == sessions[OwnKey(w)]
           local == [job[w] EXCEPT !.pc = "resolve", !.row = old, !.cached = (old # Nil)]
<1>1. job[w] \in Job
  BY DraftFacts DEF LookupMiss, At, QueryPc
<1>2. /\ local.pc = "resolve" /\ (local.cached <=> old # Nil) /\ local.row = old
      /\ local.client = job[w].client /\ local.host = job[w].host
      /\ local.ses = job[w].ses /\ local.ifc = job[w].ifc
  BY <1>1 DEF Job
<1>3. Continue(w, local) /\ UNCHANGED <<sessions, rdns, nat>>
  BY DEF LookupMiss, OwnKey, db
<1> HIDE DEF local
<1>4. job'[w] = local /\ Moves(w)
  BY <1>3, ContinueMoves DEF ReservationInv, Goroutine
<1> QED
  BY <1>2, <1>3, <1>4 DEF SameRequest

LEMMA ResolveStep ==
    ASSUME ReservationInv, NEW w \in Worker, Resolve(w)
    PROVE  /\ Moves(w) /\ SameRequest(w) /\ UNCHANGED <<sessions, rdns, nat>>
           /\ job'[w].cached = job[w].cached
           /\ \E records \in Answer[job[w].host] :
                 \E target \in Picked(job[w].row, records) :
                    /\ job'[w].row = Merged(job[w], target)
                    /\ job'[w].pc = AllocateFrom(Merged(job[w], target))
<1>1. job[w] \in Job
  BY DraftFacts DEF Resolve, At, QueryPc
<1>2. PICK records \in Answer[job[w].host] : \E target \in Picked(job[w].row, records) :
        Continue(w, [job[w] EXCEPT !.pc = AllocateFrom(Merged(job[w], target)),
                                   !.row = Merged(job[w], target)])
  BY DEF Resolve
<1>3. PICK target \in Picked(job[w].row, records) :
        Continue(w, [job[w] EXCEPT !.pc = AllocateFrom(Merged(job[w], target)),
                                   !.row = Merged(job[w], target)])
  BY <1>2
<1> DEFINE row == Merged(job[w], target)
           pc == AllocateFrom(row)
<1> HIDE DEF row, pc
<1> DEFINE local == [job[w] EXCEPT !.pc = pc, !.row = row]
<1>4. /\ local.pc = pc /\ local.row = row /\ local.cached = job[w].cached
      /\ local.client = job[w].client /\ local.host = job[w].host
      /\ local.ses = job[w].ses /\ local.ifc = job[w].ifc
  BY <1>1 DEF Job
<1>5. Continue(w, local)
  BY <1>3 DEF row, pc
<1> HIDE DEF local
<1>6. job'[w] = local /\ Moves(w)
  BY <1>5, ContinueMoves DEF ReservationInv, Goroutine
<1>7. UNCHANGED <<sessions, rdns, nat>>
  BY DEF Resolve, db
<1> QED
  BY <1>2, <1>3, <1>4, <1>6, <1>7 DEF SameRequest, row, pc

\* Merged, field by field.
LEMMA MergedFields ==
    ASSUME NEW local, NEW target
    PROVE  /\ Merged(local, target).target = target
           /\ Merged(local, target).addr =
                 IF local.row # Nil /\ local.row.target = target
                 THEN local.row.addr ELSE NoIP
           /\ Merged(local, target).reason = local.ses.verdict[local.host]
           /\ Merged(local, target).ifc =
                 IF local.row # Nil THEN local.row.ifc ELSE local.ifc
BY DEF Merged

LEMMA AllocGetStep ==
    ASSUME ReservationInv, NEW w \in Worker, AllocGet(w)
    PROVE  /\ Moves(w) /\ SameRequest(w) /\ UNCHANGED <<sessions, rdns, nat>>
           /\ job'[w].row = job[w].row /\ job'[w].cached = job[w].cached
           /\ job'[w].pc = "store"
<1>1. job[w] \in Job /\ job[w].host \in Host /\ Safe(job[w]) /\ job[w].row \in Row /\ job[w].row # Nil
  BY DraftFacts DEF AllocGet, At, QueryPc, AllocPc
<1> DEFINE addr == job[w].row.addr
<1>2. /\ addr \in Address \cup {NoIP} /\ Kept(addr) /\ OffsetFromIP4(addr) # MaxValue
      /\ ReservedFor(rdns, job[w].client, job[w].host, addr)
  BY <1>1 DEF AllocGet, At, AllocPc, Safe, DraftSafe, Row
<1>3. OwnSlot(w) = SlotOf(job[w].client, addr)
  BY <1>2, PoolOffsets DEF OwnSlot, SlotOf
<1>4. rdns[OwnSlot(w)] = job[w].host /\ job[w].host # Nil
  BY <1>1, <1>2, <1>3, ForwardingAssumption DEF ReservedFor
<1>5. Continue(w, [job[w] EXCEPT !.pc = "store"])
  BY <1>4 DEF AllocGet
<1> DEFINE local == [job[w] EXCEPT !.pc = "store"]
<1>6. /\ local.pc = "store" /\ local.row = job[w].row /\ local.cached = job[w].cached
      /\ local.client = job[w].client /\ local.host = job[w].host
      /\ local.ses = job[w].ses /\ local.ifc = job[w].ifc
  BY <1>1 DEF Job
<1>7. Continue(w, local) /\ UNCHANGED <<sessions, rdns, nat>>
  BY <1>5 DEF AllocGet, db
<1> HIDE DEF local
<1>8. job'[w] = local /\ Moves(w)
  BY <1>7, ContinueMoves DEF ReservationInv, Goroutine
<1> QED
  BY <1>6, <1>7, <1>8 DEF SameRequest

LEMMA AllocListStep ==
    ASSUME ReservationInv, NEW w \in Worker, AllocList(w)
    PROVE  /\ Moves(w) /\ SameRequest(w) /\ UNCHANGED <<sessions, rdns, nat>>
           /\ job'[w].row = job[w].row /\ job'[w].cached = job[w].cached
           /\ job'[w].pc \in {"allocCreate", "store"}
<1>1. job[w] \in Job
  BY DraftFacts DEF AllocList, At, QueryPc, AllocPc
<1>2. PICK pc \in {"allocCreate", "store"} : \E offset :
        Continue(w, [job[w] EXCEPT !.pc = pc, !.offset = offset])
  <2> DEFINE free == firstAvailable(Reserved(job[w].client))
  <2>1. Continue(w, IF free.found THEN [job[w] EXCEPT !.pc = "allocCreate",
                                                      !.offset = free.offset]
                    ELSE [job[w] EXCEPT !.pc = "store"])
    BY DEF AllocList
  <2>2. [job[w] EXCEPT !.pc = "store"] = [job[w] EXCEPT !.pc = "store",
                                                        !.offset = job[w].offset]
    BY <1>1 DEF Job
  <2> HIDE DEF free
  <2>3. CASE free.found
    BY <2>1, <2>3
  <2>4. CASE ~ free.found
    BY <2>1, <2>2, <2>4
  <2> QED
    BY <2>3, <2>4
<1>3. PICK offset : Continue(w, [job[w] EXCEPT !.pc = pc, !.offset = offset])
  BY <1>2
<1> DEFINE local == [job[w] EXCEPT !.pc = pc, !.offset = offset]
<1>4. /\ local.pc = pc /\ local.row = job[w].row /\ local.cached = job[w].cached
      /\ local.client = job[w].client /\ local.host = job[w].host
      /\ local.ses = job[w].ses /\ local.ifc = job[w].ifc
  BY <1>1 DEF Job
<1>5. Continue(w, local) /\ UNCHANGED <<sessions, rdns, nat>>
  BY <1>3 DEF AllocList, db
<1> HIDE DEF local
<1>6. job'[w] = local /\ Moves(w)
  BY <1>5, ContinueMoves DEF ReservationInv, Goroutine
<1> QED
  BY <1>4, <1>5, <1>6 DEF SameRequest

\* The offset is free, so the reservation is made.
LEMMA AllocCreateStep ==
    ASSUME ReservationInv, Orderly, NEW w \in Worker, AllocCreate(w)
    PROVE  LET addr == IP4fromOffset(job[w].offset)
               slot == SlotOf(job[w].client, addr)
           IN  /\ Moves(w) /\ SameRequest(w) /\ UNCHANGED <<sessions, nat>>
               /\ addr \in Address /\ slot \in Slot
               /\ rdns[slot] = Nil /\ rdns' = [rdns EXCEPT ![slot] = job[w].host]
               /\ job[w].row \in Row /\ job'[w].row \in Row /\ job'[w].row # Nil
               /\ job'[w].row.addr = addr
               /\ job'[w].row.target = job[w].row.target
               /\ job'[w].row.reason = job[w].row.reason
               /\ job'[w].row.ifc = job[w].row.ifc
               /\ job'[w].cached = job[w].cached
               /\ job'[w].pc = IF dnsFw # "none" THEN "allocAdd" ELSE "store"
<1> DEFINE client == job[w].client
           host == job[w].host
           addr == IP4fromOffset(job[w].offset)
           slot == <<client, job[w].offset>>
           pc == IF dnsFw # "none" THEN "allocAdd" ELSE "store"
           row == [job[w].row EXCEPT !.addr = addr]
<1>1. /\ job[w] \in Job /\ client \in Client /\ host \in Host
      /\ job[w].offset \in Offset /\ Safe(job[w])
      /\ job[w].row \in Row /\ job[w].pc = "allocCreate"
  BY DraftFacts DEF AllocCreate, At, QueryPc, AllocPc
<1>2. addr \in Address /\ OffsetOf(addr) = job[w].offset
  BY <1>1, PoolOffsets DEF Address
<1>3. slot = SlotOf(client, addr) /\ slot \in Slot
  BY <1>1, <1>2 DEF SlotOf, Slot
<1>4. rdns[slot] = Nil
  BY <1>1 DEF Safe, DraftSafe, AllocPc
<1>5. /\ rdns' = [rdns EXCEPT ![slot] = host] /\ UNCHANGED <<sessions, nat>>
      /\ Continue(w, [job[w] EXCEPT !.pc = pc, !.offset = 0, !.row.addr = addr])
  BY <1>1, <1>4 DEF AllocCreate, CreateReverseDNS, CreateReverseDNSFails, Conflict, Orderly
<1>6. /\ row \in Row /\ row.addr = addr /\ row.target = job[w].row.target
      /\ row.reason = job[w].row.reason /\ row.ifc = job[w].row.ifc
  BY <1>1, <1>2 DEF Row
<1>7. row # Nil
  BY <1>6, ForwardingAssumption
<1>8. Continue(w, [job[w] EXCEPT !.pc = pc, !.offset = 0, !.row = row])
  BY <1>5
<1> HIDE DEF row, pc
<1> DEFINE local == [job[w] EXCEPT !.pc = pc, !.offset = 0, !.row = row]
<1>9. /\ local.pc = pc /\ local.row = row /\ local.cached = job[w].cached
      /\ local.client = job[w].client /\ local.host = job[w].host
      /\ local.ses = job[w].ses /\ local.ifc = job[w].ifc
  BY <1>1 DEF Job
<1> HIDE DEF local
<1>10. job'[w] = local /\ Moves(w)
  BY <1>8, ContinueMoves DEF ReservationInv, Goroutine, local
<1> QED
  BY <1>1, <1>2, <1>3, <1>4, <1>5, <1>6, <1>7, <1>9, <1>10 DEF SameRequest, pc

LEMMA AllocAddStep ==
    ASSUME ReservationInv, NEW w \in Worker, AllocAdd(w)
    PROVE  /\ Moves(w) /\ SameRequest(w) /\ UNCHANGED <<sessions, rdns>>
           /\ job'[w].row = job[w].row /\ job'[w].cached = job[w].cached
           /\ job'[w].pc = "store"
           /\ AddForwardRule(dnsFw, job[w].client, job[w].row.addr,
                             DestIP([job[w].row EXCEPT !.ifc = job[w].ifc]))
<1>1. job[w] \in Job
  BY DraftFacts DEF AllocAdd, At, QueryPc, AllocPc
<1> DEFINE local == [job[w] EXCEPT !.pc = "store"]
<1>2. /\ local.pc = "store" /\ local.row = job[w].row /\ local.cached = job[w].cached
      /\ local.client = job[w].client /\ local.host = job[w].host
      /\ local.ses = job[w].ses /\ local.ifc = job[w].ifc
  BY <1>1 DEF Job
<1>3. Continue(w, local) /\ UNCHANGED <<sessions, rdns>>
  BY DEF AllocAdd, db
<1> HIDE DEF local
<1>4. job'[w] = local /\ Moves(w)
  BY <1>3, ContinueMoves DEF ReservationInv, Goroutine
<1> QED
  BY <1>2, <1>3, <1>4 DEF SameRequest, AllocAdd

\* What is stored is the row in hand, over the row it was read from or over none.
LEMMA StoreStep ==
    ASSUME ReservationInv, Orderly, NEW w \in Worker, Store(w)
    PROVE  /\ Moves(w) /\ Finished(w) /\ UNCHANGED <<rdns, nat>>
           /\ OwnKey(w) \in Key
           /\ job[w].row \in Row /\ job[w].row # Nil
           /\ \/ /\ ~ job[w].cached \/ sessions[OwnKey(w)] # Nil
                 /\ sessions' = [sessions EXCEPT ![OwnKey(w)] = job[w].row]
              \/ /\ job[w].cached /\ sessions[OwnKey(w)] = Nil
                 /\ UNCHANGED sessions
<1>1. /\ job[w].row \in Row /\ job[w].row # Nil /\ Safe(job[w]) /\ OwnKey(w) \in Key
      /\ job[w].pc = "store"
  BY DraftFacts DEF Store, At, QueryPc, AllocPc, OwnKey
<1>2. ~ job[w].cached => sessions[OwnKey(w)] = Nil
  BY <1>1 DEF Safe, DraftSafe, AllocPc, OwnKey
<1>3. Moves(w) /\ Finished(w)
  BY FinishMoves DEF Store, ReservationInv, Goroutine
<1> QED
  BY <1>1, <1>2, <1>3
     DEF Store, OwnKey, UpdateDNSSession, CreateDNSSession, Conflict, Orderly

\* Allocate never deletes a reservation here.
LEMMA NoAllocDelete ==
    ASSUME ReservationInv, NEW w \in Worker
    PROVE  ~ AllocDelete(w)
BY DEF ReservationInv, DraftSafe, AllocDelete, At, AllocPc

\* A reevaluation goes on to its next row, to what the request asked for, or ends.
GoesOn(w, todo) ==
    \/ /\ todo # {} /\ SameRequest(w)
       /\ job'[w].pc = "reevalRow" /\ job'[w].todo = todo
    \/ /\ todo = {} /\ SameRequest(w)
       /\ \/ job'[w].pc = "lookup" /\ job[w].host # Nil
          \/ job'[w].pc = "handle" /\ job[w].host = Nil
    \/ todo = {} /\ Finished(w)

LEMMA GoesOnStep ==
    ASSUME TypeOK, NEW w \in Worker, NEW todo, Continue(w, NextReeval(job[w], todo))
    PROVE  Moves(w) /\ GoesOn(w, todo)
<1>1. job[w] \in Job /\ w \in Goroutine
  BY JobType DEF Goroutine
<1>2. CASE todo # {}
  <2> DEFINE local == [job[w] EXCEPT !.pc = "reevalRow", !.todo = todo, !.at = Nil]
  <2>1. /\ local.pc = "reevalRow" /\ local.todo = todo
        /\ local.client = job[w].client /\ local.host = job[w].host
        /\ local.ses = job[w].ses /\ local.ifc = job[w].ifc
    BY <1>1 DEF Job
  <2>2. Continue(w, local)
    BY <1>2 DEF NextReeval
  <2> HIDE DEF local
  <2>3. job'[w] = local /\ Moves(w)
    BY <1>1, <2>2, ContinueMoves
  <2> QED
    BY <1>2, <2>1, <2>3 DEF GoesOn, SameRequest
<1>3. CASE todo = {} /\ job[w].host # Nil
  <2> DEFINE local == [job[w] EXCEPT !.pc = "lookup", !.todo = {}, !.at = Nil]
  <2>1. /\ local.pc = "lookup"
        /\ local.client = job[w].client /\ local.host = job[w].host
        /\ local.ses = job[w].ses /\ local.ifc = job[w].ifc
    BY <1>1 DEF Job
  <2>2. Continue(w, local)
    BY <1>3 DEF NextReeval
  <2> HIDE DEF local
  <2>3. job'[w] = local /\ Moves(w)
    BY <1>1, <2>2, ContinueMoves
  <2> QED
    BY <1>3, <2>1, <2>3 DEF GoesOn, SameRequest
<1>4. CASE todo = {} /\ job[w].host = Nil /\ job[w].row # Nil
  <2> DEFINE local == [job[w] EXCEPT !.pc = "handle", !.todo = {}, !.at = Nil]
  <2>1. /\ local.pc = "handle"
        /\ local.client = job[w].client /\ local.host = job[w].host
        /\ local.ses = job[w].ses /\ local.ifc = job[w].ifc
    BY <1>1 DEF Job
  <2>2. Continue(w, local)
    BY <1>4 DEF NextReeval
  <2> HIDE DEF local
  <2>3. job'[w] = local /\ Moves(w)
    BY <1>1, <2>2, ContinueMoves
  <2> QED
    BY <1>4, <2>1, <2>3 DEF GoesOn, SameRequest
<1>5. CASE todo = {} /\ job[w].host = Nil /\ job[w].row = Nil
  BY <1>1, <1>5, FinishMoves DEF NextReeval, Finish, GoesOn
<1> QED
  BY <1>2, <1>3, <1>4, <1>5

\* The list of a reevaluation: of every row of the client that does not have its
\* verdict, one task, with the row as it is stored but for the mark of a client
\* without a profile.
Verifies(w, todo) ==
    LET client == job[w].client
        info == policy[client]
    IN  /\ \A task \in todo :
             /\ task \in Task
             /\ task.key[1] = client
             /\ sessions[task.key] # Nil
             /\ task.reason = info.verdict[task.key[2]]
             /\ SameAnswer(task.row, sessions[task.key])
             /\ \/ task.row.reason = sessions[task.key].reason
                \/ task.row.reason = AccessBlockedRule /\ ~ info.profile
        /\ \A task, other \in todo : task.key = other.key => task = other
        /\ \A host \in Host :
             LET key == <<client, host>>
             IN  sessions[key] # Nil =>
                    \/ sessions[key].reason = info.verdict[host]
                    \/ \E task \in todo : task.key = key

LEMMA ReevaluateStep ==
    ASSUME ReservationInv, NEW w \in Worker, Reevaluate(w)
    PROVE  /\ Moves(w) /\ UNCHANGED <<sessions, rdns, nat>>
           /\ \E todo : GoesOn(w, todo) /\ Verifies(w, todo)
<1> DEFINE client == job[w].client
           info == policy[client]
           Seen(row) == IF info.profile THEN row
                        ELSE [row EXCEPT !.reason = AccessBlockedRule]
           Verified(task) == [task EXCEPT !.row = Seen(task.row),
                                          !.reason = info.verdict[task.key[2]]]
           tasks == {Verified(task) : task \in Stored({client})}
           todo == {task \in tasks : task.reason # task.row.reason}
<1>1. client \in Client /\ TypeOK /\ info \in SessionInfo
  BY JobType, ForwardingAssumption
     DEF Reevaluate, At, ReevalPc, ReservationInv, Goroutine, TypeOK
<1>2. Continue(w, NextReeval(job[w], todo)) /\ UNCHANGED <<sessions, rdns, nat>>
  BY DEF Reevaluate, db
<1>3. ASSUME NEW task \in Stored({client})
      PROVE  LET new == Verified(task)
             IN  /\ new \in Task
                 /\ new.key = task.key
                 /\ new.key \in Key /\ new.key[1] = client
                 /\ sessions[new.key] # Nil
                 /\ new.reason = info.verdict[new.key[2]]
                 /\ SameAnswer(new.row, sessions[new.key])
                 /\ IF info.profile THEN new.row.reason = sessions[new.key].reason
                    ELSE new.row.reason = AccessBlockedRule
                 /\ task = [key |-> new.key, row |-> sessions[new.key],
                            reason |-> sessions[new.key].reason]
  <2>1. task \in Task
    BY <1>1, StoredType
  <2>2. PICK key \in Key :
          /\ key[1] \in {client} /\ sessions[key] # Nil
          /\ task = [key |-> key, row |-> sessions[key],
                     reason |-> sessions[key].reason]
    BY DEF Stored
  <2>3. task.key = key /\ task.row = sessions[key] /\ key[1] = client
    BY <2>2
  <2>4. task.row \in Row /\ key[2] \in Host
    BY <2>1 , <2>3 DEF Task, Key
  <2>5. /\ Seen(task.row) \in Row
        /\ Seen(task.row).target = task.row.target /\ Seen(task.row).addr = task.row.addr
        /\ Seen(task.row).ifc = task.row.ifc
        /\ IF info.profile THEN Seen(task.row).reason = task.row.reason
           ELSE Seen(task.row).reason = AccessBlockedRule
    BY <2>4 DEF Row, Reason, AccessAllowed, AccessBlockedRule
  <2> HIDE DEF Seen
  <2>6. info.verdict[key[2]] \in Reason
    BY <1>1, <2>4 DEF SessionInfo
  <2>7. /\ Verified(task) \in Task /\ Verified(task).key = task.key
        /\ Verified(task).row = Seen(task.row)
        /\ Verified(task).reason = info.verdict[task.key[2]]
    BY <2>1, <2>3, <2>5, <2>6 DEF Task
  <2> HIDE DEF Verified
  <2> QED
    BY <2>2, <2>3, <2>5, <2>7 DEF SameAnswer
<1>4. Moves(w) /\ GoesOn(w, todo)
  BY <1>1, <1>2, GoesOnStep
<1>5. ASSUME NEW host \in Host, sessions[<<client, host>>] # Nil,
             sessions[<<client, host>>].reason # info.verdict[host]
      PROVE  \E task \in todo : task.key = <<client, host>>
  <2> DEFINE key == <<client, host>>
             task == [key |-> key, row |-> sessions[key], reason |-> sessions[key].reason]
  <2>1. key \in Key /\ key[1] \in {client} /\ key[2] = host
    BY <1>1 DEF Key
  <2>2. task \in Stored({client})
    BY <1>5, <2>1 DEF Stored
  <2>3. task.key = key
    OBVIOUS
  <2> HIDE DEF Verified, task
  <2>4. /\ Verified(task).key = key /\ Verified(task).reason = info.verdict[host]
        /\ IF info.profile THEN Verified(task).row.reason = sessions[key].reason
           ELSE Verified(task).row.reason = AccessBlockedRule
    BY <1>3, <2>1, <2>2, <2>3
  <2>5. ~ info.profile => info.verdict[host] = AccessAllowed
    BY <1>1, ForwardingAssumption DEF TypeOK
  <2>6. Verified(task).reason # Verified(task).row.reason
    BY <1>5, <2>4, <2>5 DEF AccessAllowed, AccessBlockedRule
  <2> QED
    BY <2>2, <2>4, <2>6
<1>6. Verifies(w, todo)
  <2> HIDE DEF Verified
  <2>1. ASSUME NEW task \in todo, NEW other \in todo, task.key = other.key
        PROVE  task = other
    <3>1. PICK a \in Stored({client}) : task = Verified(a)
      OBVIOUS
    <3>2. PICK b \in Stored({client}) : other = Verified(b)
      OBVIOUS
    <3>3. a = b
      BY <1>3, <2>1, <3>1, <3>2
    <3> QED
      BY <3>1, <3>2, <3>3
  <2>2. ASSUME NEW task \in todo
        PROVE  /\ task \in Task
               /\ task.key[1] = client
               /\ sessions[task.key] # Nil
               /\ task.reason = info.verdict[task.key[2]]
               /\ SameAnswer(task.row, sessions[task.key])
               /\ \/ task.row.reason = sessions[task.key].reason
                  \/ task.row.reason = AccessBlockedRule /\ ~ info.profile
    BY <1>3
  <2> HIDE DEF todo
  <2> QED
    BY <1>5, <2>1, <2>2 DEF Verifies
<1> QED
  BY <1>2, <1>4, <1>6

\* The reevaluation is at one row of its list.
AtTask(w, task, pc) ==
    /\ SameRequest(w)
    /\ job'[w].pc = pc /\ job'[w].at = task /\ job'[w].todo = job[w].todo

LEMMA ReevalRowStep ==
    ASSUME ReservationInv, NEW w \in Worker, ReevalRow(w)
    PROVE  /\ Moves(w) /\ UNCHANGED <<sessions, rdns>>
           /\ \E task \in job[w].todo :
                \/ /\ AtTask(w, task, "reevalSave")
                   /\ RemoveForwardRule(dnsFw, job[w].client, task.row.addr, DestIP(task.row))
                \/ /\ AtTask(w, task, "reevalStore")
                   /\ task.row.target # Nil /\ dnsFw # "none"
                   /\ RemoveForwardRuleFails(dnsFw, job[w].client, task.row.addr,
                                             DestIP(task.row))
                \/ /\ AtTask(w, task, "reevalStore")
                   /\ dnsFw = "none" \/ task.row.target = Nil
                   /\ UNCHANGED nat
<1>1. job[w] \in Job
  BY SnapshotFacts DEF ReevalRow, At, ReevalPc
<1>2. ASSUME NEW task, NEW pc, Continue(w, [job[w] EXCEPT !.pc = pc, !.at = task])
      PROVE  Moves(w) /\ AtTask(w, task, pc)
  <2> DEFINE local == [job[w] EXCEPT !.pc = pc, !.at = task]
  <2>1. /\ local.pc = pc /\ local.at = task /\ local.todo = job[w].todo
        /\ local.client = job[w].client /\ local.host = job[w].host
        /\ local.ses = job[w].ses /\ local.ifc = job[w].ifc
    BY <1>1 DEF Job
  <2>2. Continue(w, local)
    BY <1>2
  <2> HIDE DEF local
  <2>3. job'[w] = local /\ Moves(w)
    BY <2>2, ContinueMoves DEF ReservationInv, Goroutine
  <2> QED
    BY <2>1, <2>3 DEF AtTask, SameRequest
<1>3. PICK task \in job[w].todo :
        \/ /\ RemoveForwardRule(dnsFw, job[w].client, task.row.addr, DestIP(task.row))
           /\ Continue(w, [job[w] EXCEPT !.pc = "reevalSave", !.at = task])
        \/ /\ dnsFw # "none" /\ task.row.target # Nil
           /\ RemoveForwardRuleFails(dnsFw, job[w].client, task.row.addr, DestIP(task.row))
           /\ Continue(w, [job[w] EXCEPT !.pc = "reevalStore", !.at = task])
        \/ /\ dnsFw = "none" \/ task.row.target = Nil
           /\ Continue(w, [job[w] EXCEPT !.pc = "reevalStore", !.at = task])
           /\ UNCHANGED nat
  BY DEF ReevalRow
<1>4. UNCHANGED <<sessions, rdns>>
  BY DEF ReevalRow, db
<1> QED
  BY <1>2, <1>3, <1>4

\* An update writes the row if there is one, and nothing else.
Updates(key, row) ==
    \/ sessions[key] # Nil /\ sessions' = [sessions EXCEPT ![key] = row]
    \/ sessions[key] = Nil /\ UNCHANGED sessions

LEMMA ReevalTask ==
    ASSUME ReservationInv, NEW w \in Worker, job[w].pc \in {"reevalSave", "reevalAdd", "reevalStore"}
    PROVE  /\ job[w].at \in job[w].todo /\ job[w].at \in Task
           /\ job[w].at.key \in Key /\ job[w].at.key[1] = job[w].client
           /\ Changed(job[w].at) \in Row
           /\ SameAnswer(Changed(job[w].at), job[w].at.row)
           /\ Changed(job[w].at).reason = job[w].at.reason
<1>1. job[w].at \in job[w].todo /\ job[w].at \in Task /\ job[w].at.key[1] = job[w].client
  BY SnapshotFacts DEF ReevalPc, Safe, SnapshotSafe
<1> QED
  BY <1>1 DEF Changed, Task, Row, SameAnswer

LEMMA ReevalSaveStep ==
    ASSUME ReservationInv, Orderly, NEW w \in Worker, ReevalSave(w)
    PROVE  /\ Moves(w) /\ UNCHANGED <<rdns, nat>>
           /\ AtTask(w, job[w].at, "reevalAdd")
           /\ Updates(job[w].at.key, Changed(job[w].at))
<1>1. job[w] \in Job
  BY SnapshotFacts DEF ReevalSave, At, ReevalPc
<1> DEFINE local == [job[w] EXCEPT !.pc = "reevalAdd"]
<1>2. /\ local.pc = "reevalAdd" /\ local.at = job[w].at /\ local.todo = job[w].todo
      /\ local.client = job[w].client /\ local.host = job[w].host
      /\ local.ses = job[w].ses /\ local.ifc = job[w].ifc
  BY <1>1 DEF Job
<1>3. Continue(w, local)
  BY DEF ReevalSave
<1> HIDE DEF local
<1>4. job'[w] = local /\ Moves(w)
  BY <1>3, ContinueMoves DEF ReservationInv, Goroutine
<1> QED
  BY <1>2, <1>4 DEF AtTask, SameRequest, ReevalSave, Updates, UpdateDNSSession, Conflict,
     Orderly

LEMMA ReevalAddStep ==
    ASSUME ReservationInv, NEW w \in Worker, ReevalAdd(w)
    PROVE  /\ Moves(w) /\ UNCHANGED <<sessions, rdns>>
           /\ AtTask(w, job[w].at, "reevalStore")
           /\ AddForwardRule(dnsFw, job[w].client, job[w].at.row.addr,
                             DestIP(Changed(job[w].at)))
<1>1. job[w] \in Job
  BY SnapshotFacts DEF ReevalAdd, At, ReevalPc
<1> DEFINE local == [job[w] EXCEPT !.pc = "reevalStore"]
<1>2. /\ local.pc = "reevalStore" /\ local.at = job[w].at /\ local.todo = job[w].todo
      /\ local.client = job[w].client /\ local.host = job[w].host
      /\ local.ses = job[w].ses /\ local.ifc = job[w].ifc
  BY <1>1 DEF Job
<1>3. Continue(w, local)
  BY DEF ReevalAdd
<1> HIDE DEF local
<1>4. job'[w] = local /\ Moves(w)
  BY <1>3, ContinueMoves DEF ReservationInv, Goroutine
<1>5. Changed(job[w].at).addr = job[w].at.row.addr
  BY ReevalTask DEF ReevalAdd, At, SameAnswer
<1> QED
  BY <1>2, <1>4, <1>5 DEF AtTask, SameRequest, ReevalAdd, db

LEMMA ReevalStoreStep ==
    ASSUME ReservationInv, Orderly, NEW w \in Worker, ReevalStore(w)
    PROVE  /\ Moves(w) /\ UNCHANGED <<rdns, nat>>
           /\ GoesOn(w, job[w].todo \ {job[w].at})
           /\ \E row \in Row : /\ Updates(job[w].at.key, row)
                               /\ SameAnswer(row, job[w].at.row)
                               /\ row.reason = job[w].at.reason
<1>1. TypeOK /\ job[w].pc = "reevalStore"
  BY DEF ReevalStore, At, ReservationInv
<1>2. Moves(w) /\ GoesOn(w, job[w].todo \ {job[w].at})
  <2> DEFINE todo == job[w].todo \ {job[w].at}
  <2>1. Continue(w, NextReeval(job[w], todo))
    BY DEF ReevalStore
  <2> HIDE DEF todo
  <2>2. Moves(w) /\ GoesOn(w, todo)
    BY <1>1, <2>1, GoesOnStep
  <2> QED
    BY <2>2 DEF todo
<1> DEFINE old == Changed(job[w].at)
           row == [old EXCEPT !.expired = FALSE]
<1>3. old \in Row /\ SameAnswer(old, job[w].at.row) /\ old.reason = job[w].at.reason
  BY <1>1, ReevalTask
<1> HIDE DEF old
<1>4. row \in Row /\ SameAnswer(row, job[w].at.row) /\ row.reason = job[w].at.reason
  BY <1>3 DEF Row, SameAnswer
<1>5. Updates(job[w].at.key, row)
  BY DEF ReevalStore, Updates, UpdateDNSSession, Conflict, Orderly, old
<1>6. UNCHANGED <<rdns, nat>>
  BY DEF ReevalStore
<1> HIDE DEF row
<1> QED
  BY <1>2, <1>4, <1>5, <1>6

LEMMA FlushStep ==
    ASSUME ReservationInv, NEW w \in Worker, Flush(w)
    PROVE  /\ Moves(w) /\ UNCHANGED <<policy, unseen, owed>>
           /\ job[w].pc \in FlushPc /\ job[w].client \in Client
           /\ job'[w].client \in {job[w].client, Nil}
           /\ job'[w].pc \in FlushPc \cup {"idle"}
           /\ \A key \in Key : sessions'[key] \in {sessions[key], Nil}
<1>1. job[w].pc \in FlushPc
  BY DEF Flush, FlushList, FlushRow, FlushDelete, FlushRevList, FlushRev, At, FlushPc
<1>2. job[w] \in Job /\ job[w].client \in Client
  BY <1>1, SnapshotFacts
<1>3. \A key \in Key : sessions'[key] \in {sessions[key], Nil}
  <2>1. CASE UNCHANGED sessions
    BY <2>1
  <2>2. CASE DeleteDNSSession(job[w].at.key)
    BY <2>2 DEF DeleteDNSSession, ReservationInv, TypeOK
  <2> QED
    BY <2>1, <2>2 DEF Flush, FlushList, FlushRow, FlushDelete, FlushRevList, FlushRev, db
<1>4. ASSUME NEW local, Continue(w, local), local.pc \in FlushPc \cup {"idle"},
             local.client \in {job[w].client, Nil}
      PROVE  /\ Moves(w) /\ job'[w].client \in {job[w].client, Nil}
             /\ job'[w].pc \in FlushPc \cup {"idle"}
  BY <1>4, ContinueMoves DEF ReservationInv, Goroutine
<1>5. ASSUME NEW todo, Continue(w, NextFlush(job[w], todo))
      PROVE  /\ Moves(w) /\ job'[w].client \in {job[w].client, Nil}
             /\ job'[w].pc \in FlushPc \cup {"idle"}
  <2> DEFINE pc == IF todo = {} THEN "flushRevList" ELSE "flushRow"
             local == [job[w] EXCEPT !.pc = pc, !.todo = todo, !.at = Nil]
  <2>1. pc \in FlushPc
    BY DEF FlushPc
  <2>2. Continue(w, local)
    BY <1>5 DEF NextFlush
  <2> HIDE DEF pc
  <2>3. local.pc = pc /\ local.client = job[w].client
    BY <1>2 DEF Job
  <2> HIDE DEF local
  <2> QED
    BY <1>4, <2>1, <2>2, <2>3
<1>6. ASSUME Continue(w, Idle)
      PROVE  /\ Moves(w) /\ job'[w].client \in {job[w].client, Nil}
             /\ job'[w].pc \in FlushPc \cup {"idle"}
  <2>1. Idle.pc = "idle" /\ Idle.client = Nil
    BY DEF Idle
  <2> QED
    BY <1>4, <1>6, <2>1
<1>7. /\ Moves(w) /\ job'[w].client \in {job[w].client, Nil}
      /\ job'[w].pc \in FlushPc \cup {"idle"}
  <2>1. CASE FlushList(w)
    BY <1>5, <2>1 DEF FlushList
  <2>2. CASE FlushRow(w)
    <3>1. PICK task : Continue(w, [job[w] EXCEPT !.pc = "flushDelete", !.at = task])
      BY <2>2 DEF FlushRow
    <3> DEFINE local == [job[w] EXCEPT !.pc = "flushDelete", !.at = task]
    <3>2. local.pc = "flushDelete" /\ local.client = job[w].client
      BY <1>2 DEF Job
    <3>3. Continue(w, local) /\ local.pc \in FlushPc
      BY <3>1, <3>2 DEF FlushPc
    <3> HIDE DEF local
    <3> QED
      BY <1>4, <3>2, <3>3
  <2>3. CASE FlushDelete(w)
    BY <1>5, <2>3 DEF FlushDelete
  <2>4. CASE FlushRevList(w)
    <3> DEFINE offs == Reserved(job[w].client)
               local == [job[w] EXCEPT !.pc = "flushRev", !.offs = offs]
    <3> HIDE DEF offs
    <3>1. local.pc = "flushRev" /\ local.client = job[w].client
      BY <1>2 DEF Job
    <3>2. Continue(w, Idle) \/ Continue(w, local)
      BY <2>4 DEF FlushRevList, offs
    <3>3. local.pc \in FlushPc
      BY <3>1 DEF FlushPc
    <3> HIDE DEF local
    <3> QED
      BY <1>4, <1>6, <3>1, <3>2, <3>3
  <2>5. CASE FlushRev(w)
    <3>1. PICK o : \/ Continue(w, Idle)
                   \/ Continue(w, [job[w] EXCEPT !.offs = job[w].offs \ {o}])
      BY <2>5 DEF FlushRev
    <3> DEFINE local == [job[w] EXCEPT !.offs = job[w].offs \ {o}]
    <3>2. local.pc = job[w].pc /\ local.client = job[w].client
      BY <1>2 DEF Job
    <3>3. Continue(w, Idle) \/ Continue(w, local)
      BY <3>1
    <3> HIDE DEF local
    <3> QED
      BY <1>1, <1>4, <1>6, <3>2, <3>3
  <2> QED
    BY <2>1, <2>2, <2>3, <2>4, <2>5 DEF Flush
<1> QED
  BY <1>1, <1>2, <1>3, <1>7
     DEF Flush, FlushList, FlushRow, FlushDelete, FlushRevList, FlushRev, history

LEMMA PageStep ==
    ASSUME ReservationInv, NEW w \in Worker, Page(w)
    PROVE  /\ Moves(w) /\ UNCHANGED <<sessions, rdns, nat, portalFw, dnsFw, untold>>
           /\ job[w].pc \in PagePc /\ job[w].client \in Client
           /\ \/ job'[w].pc \in {"handle", "reevaluate"} /\ job'[w].client = job[w].client
              \/ job'[w].pc = "idle" /\ job'[w].client = Nil
<1>1. job[w] \in Job /\ job[w].client \in Client /\ job[w].pc \in PagePc
  BY JobType DEF Page, ViewSession, ShowPage, ChangeAccess, At, PagePc, Goroutine,
     ReservationInv
<1>2. UNCHANGED <<sessions, rdns, nat, portalFw, dnsFw, untold>>
  BY DEF Page, ViewSession, ShowPage, ChangeAccess, db, history
<1>3. TypeOK /\ w \in Goroutine
  BY DEF ReservationInv, Goroutine
<1>4. CASE ViewSession(w)
  <2>1. PICK pc \in {"handle", "reevaluate"} : Continue(w, [job[w] EXCEPT !.pc = pc])
    BY <1>4 DEF ViewSession
  <2> DEFINE local == [job[w] EXCEPT !.pc = pc]
  <2>2. local.pc = pc /\ local.client = job[w].client
    BY <1>1 DEF Job
  <2>3. Continue(w, local)
    BY <2>1
  <2> HIDE DEF local
  <2> QED
    BY <1>1, <1>2, <1>3, <2>2, <2>3, ContinueMoves
<1>5. CASE ShowPage(w)
  BY <1>1, <1>2, <1>3, <1>5, FinishMoves DEF ShowPage, Finished
<1>6. ASSUME NEW info \in Policy, ChangeAccess(w, info)
      PROVE  /\ Moves(w) /\ job'[w].pc = "reevaluate" /\ job'[w].client = job[w].client
  <2> DEFINE local == [job[w] EXCEPT !.pc = "reevaluate", !.row = Nil]
  <2>1. local.pc = "reevaluate" /\ local.client = job[w].client
    BY <1>1 DEF Job
  <2>2. Continue(w, local)
    BY <1>6 DEF ChangeAccess
  <2> HIDE DEF local
  <2> QED
    BY <1>3, <2>1, <2>2, ContinueMoves
<1> QED
  BY <1>1, <1>2, <1>4, <1>5, <1>6 DEF Page

-----------------------------------------------------------------------------
(***************************************************************************)
(* Verdicts: PolicyInv is inductive.                                       *)
(***************************************************************************)

\* The client's rows keep their verdicts or go.
Lessened(client) ==
    \A host \in Host :
       LET key == <<client, host>>
       IN  sessions'[key] # Nil =>
              sessions[key] # Nil /\ sessions'[key].reason = sessions[key].reason

SamePolicy(client) ==
    /\ policy'[client] = policy[client] /\ unseen'[client] = unseen[client]
    /\ client \in owed' <=> client \in owed

Obeys(client, info) ==
    \A host \in Host :
       LET row == sessions[<<client, host>>]
       IN  row # Nil => row.reason = info.verdict[host]

LEMMA BystanderInformed ==
    ASSUME TypeOK, NEW v \in Worker, Informed(job[v]), job'[v] = job[v],
           job[v].client \in Client =>
              Lessened(job[v].client) /\ SamePolicy(job[v].client)
    PROVE  Informed(job[v])'
<1> SUFFICES ASSUME AtWork(job[v])
             PROVE  Informed(job[v])'
  BY DEF Informed, AtWork
<1>1. job[v].client \in Client
  BY JobType DEF AtWork, Goroutine
<1>2. Lessened(job[v].client) /\ SamePolicy(job[v].client)
  BY <1>1
<1>3. CASE job[v].pc = "reevaluate"
  BY <1>2, <1>3 DEF Informed, SamePolicy
<1>4. CASE job[v].pc # "reevaluate"
  <2>1. PICK info \in Policy : InformedBy(job[v], info)
    BY <1>4 DEF Informed
  <2>2. ASSUME job[v].client \notin owed', NEW host \in Host,
               sessions'[<<job[v].client, host>>] # Nil
        PROVE  \/ sessions'[<<job[v].client, host>>].reason = info.verdict[host]
               \/ Listed(job[v], <<job[v].client, host>>)
    BY <1>2, <2>1, <2>2 DEF Lessened, InformedBy, SamePolicy
  <2>3. InformedBy(job[v], info)'
    BY <1>2, <2>1, <2>2 DEF InformedBy, SamePolicy, Listed
  <2> QED
    BY <1>4, <2>3 DEF Informed
<1> QED
  BY <1>3, <1>4

\* Only the client a step is made for needs to be looked at.
LEMMA PolicyElsewhere ==
    ASSUME ReservationInv, PolicyInv, NEW w \in Worker, NEW client \in Client, Moves(w),
           ~ AtWork(job[w]) \/ job[w].client = client,
           \A other \in Client \ {client} : Lessened(other) /\ SamePolicy(other),
           \A v \in Worker \ {w} : job[v].client # client,
           UpToDate(client)', Informed(job[w])'
    PROVE  PolicyInv'
<1>1. \A v \in Worker \ {w} : job'[v] = job[v]
  BY DEF Moves, Goroutine
<1>2. ASSUME NEW v \in Worker
      PROVE  Informed(job[v])'
  <2>1. CASE v # w
    <3>1. job[v].client # client /\ job'[v] = job[v] /\ TypeOK /\ Informed(job[v])
      BY <1>1, <2>1 DEF PolicyInv, ReservationInv
    <3> QED
      BY <3>1, BystanderInformed
  <2> QED
    BY <2>1
<1>3. ASSUME NEW other \in Client \ {client}
      PROVE  UpToDate(other)'
  <2> SUFFICES ASSUME \A v \in Worker : AtWork(job'[v]) => job'[v].client # other,
                      ~ unseen'[other], other \notin owed', NEW host \in Host,
                      sessions'[<<other, host>>] # Nil
               PROVE  sessions'[<<other, host>>].reason = policy'[other].verdict[host]
    BY DEF UpToDate, AtWork
  <2>1. \A v \in Worker : AtWork(job[v]) => job[v].client # other
    BY <1>1, ForwardingAssumption
  <2>2. UpToDate(other) /\ Lessened(other) /\ SamePolicy(other)
    BY DEF PolicyInv
  <2> QED
    BY <2>1, <2>2 DEF UpToDate, Lessened, SamePolicy
<1> QED
  BY <1>2, <1>3 DEF PolicyInv

\* One request of a client at a time: nobody else works for the worker's client.
LEMMA Alone ==
    ASSUME ReservationInv, NEW w \in Worker, job[w].client \in Client
    PROVE  \A v \in Worker \ {w} : job[v].client # job[w].client
BY ForwardingAssumption DEF ReservationInv, WorkersApart

\* When a request ends, the client's rows follow its policy.
LEMMA PolicyEnds ==
    ASSUME NEW w \in Worker, NEW client, client = job[w].client, NEW info,
           InformedBy(job[w], info), SamePolicy(client),
           client \notin owed => Obeys(client, info)'
    PROVE  UpToDate(client)'
<1> SUFFICES ASSUME ~ unseen'[client], client \notin owed', NEW host \in Host,
                    sessions'[<<client, host>>] # Nil
             PROVE  sessions'[<<client, host>>].reason = policy'[client].verdict[host]
  BY DEF UpToDate
<1> QED
  BY DEF InformedBy, SamePolicy, Obeys

LEMMA QueryPolicy ==
    ASSUME ReservationInv, TypeOK', Orderly, PolicyInv, NEW w \in Worker, Query(w)
    PROVE  PolicyInv'
<1> DEFINE host == job[w].host
<1>1. PICK client \in Client :
        /\ client = job[w].client
        /\ job[w].pc \in QueryPc /\ job[w].pc \notin ReevalPc
        /\ host \in Host /\ host # Nil
        /\ <<client, host>> \in Key
  <2>1. job[w].pc \in QueryPc
    BY DEF Query, LookupHit, LookupMiss, Resolve, ResolveFails, AllocGet, AllocDelete,
       AllocList, AllocCreate, AllocAdd, Store, At, QueryPc, AllocPc
  <2>2. job[w].pc \notin ReevalPc
    BY <2>1 DEF QueryPc, AllocPc, ReevalPc
  <2> QED
    BY <2>1, <2>2, DraftFacts, ForwardingAssumption
<1>2. PICK info \in Policy : InformedBy(job[w], info)
  <2>1. AtWork(job[w]) /\ job[w].pc # "reevaluate"
    BY <1>1 DEF AtWork, ReevalPc
  <2> QED
    BY <2>1 DEF PolicyInv, Informed
<1>3. client \notin owed => Obeys(client, info)
  BY <1>1, <1>2 DEF InformedBy, Listed, Obeys
<1>4. UNCHANGED <<policy, unseen, owed>>
  BY DEF Query, LookupHit, LookupMiss, Resolve, ResolveFails, AllocGet, AllocDelete,
     AllocList, AllocCreate, AllocAdd, Store, history
<1>5. job[w].ses = info
  BY <1>1, <1>2 DEF InformedBy
<1>6. \A v \in Worker \ {w} : job[v].client # client
  BY <1>1, Alone
<1>7. ASSUME Moves(w), SameRequest(w), UNCHANGED sessions,
             job'[w].pc \in QueryPc,
             job'[w].pc \in AllocPc => job'[w].row.reason = info.verdict[host]
      PROVE  PolicyInv'
  <2>1. job'[w].pc \notin ReevalPc \cup PagePc /\ job'[w].pc # "reevaluate"
    BY <1>7 DEF QueryPc, AllocPc, ReevalPc, PagePc
  <2>2. InformedBy(job[w], info)'
    BY <1>1, <1>2, <1>3, <1>4, <1>7, <2>1 DEF InformedBy, SameRequest, Obeys
  <2>3. Informed(job[w])'
    BY <2>1, <2>2 DEF Informed
  <2>4. UpToDate(client)'
    BY <1>1, <1>7 DEF UpToDate, AtWork, SameRequest
  <2>5. \A other \in Client \ {client} : Lessened(other) /\ SamePolicy(other)
    BY <1>4, <1>7 DEF Lessened, SamePolicy
  <2> QED
    BY <1>1, <1>6, <1>7, <2>3, <2>4, <2>5, PolicyElsewhere DEF SameRequest
<1>8. ASSUME Moves(w), Finished(w), client \notin owed => Obeys(client, info)',
             \A key \in Key : key[1] # client => sessions'[key] = sessions[key]
      PROVE  PolicyInv'
  <2>1. Informed(job[w])'
    BY <1>8 DEF Informed, AtWork, Finished, QueryPc, AllocPc, ReevalPc, PagePc
  <2>2. UpToDate(client)'
    BY <1>1, <1>2, <1>4, <1>8, PolicyEnds DEF SamePolicy
  <2>3. \A other \in Client \ {client} : Lessened(other) /\ SamePolicy(other)
    BY <1>4, <1>8 DEF Lessened, SamePolicy, Key
  <2> QED
    BY <1>1, <1>6, <1>8, <2>1, <2>2, <2>3, PolicyElsewhere DEF Finished
<1>9. job[w].pc \in AllocPc => job[w].row.reason = info.verdict[host]
  BY <1>2 DEF InformedBy
<1>10. CASE LookupHit(w)
  BY <1>5, <1>7, <1>10, LookupHitStep DEF QueryPc, AllocPc
<1>11. CASE LookupMiss(w)
  BY <1>7, <1>11, LookupMissStep DEF QueryPc, AllocPc
<1>12. CASE Resolve(w)
  <2>1. PICK target : /\ job'[w].row = Merged(job[w], target)
                      /\ job'[w].pc = AllocateFrom(Merged(job[w], target))
    BY <1>12, ResolveStep
  <2>2. job'[w].pc \in QueryPc
    BY <2>1 DEF AllocateFrom, QueryPc, AllocPc
  <2>3. job'[w].row.reason = info.verdict[host]
    BY <1>5, <2>1, MergedFields
  <2> QED
    BY <1>7, <1>12, <2>2, <2>3, ResolveStep
<1>13. CASE ResolveFails(w)
  <2>1. Finished(w) /\ Moves(w) /\ UNCHANGED sessions
    BY <1>13, FinishMoves DEF ResolveFails, ReservationInv, Goroutine, db
  <2> QED
    BY <1>1, <1>3, <1>8, <2>1 DEF Obeys
<1>14. CASE AllocGet(w)
  <2>1. job[w].pc \in AllocPc
    BY <1>14 DEF AllocGet, At, AllocPc
  <2> QED
    BY <1>7, <1>9, <1>14, <2>1, AllocGetStep DEF QueryPc, AllocPc
<1>15. CASE AllocList(w)
  <2>1. job[w].pc \in AllocPc
    BY <1>15 DEF AllocList, At, AllocPc
  <2> QED
    BY <1>7, <1>9, <1>15, <2>1, AllocListStep DEF QueryPc, AllocPc
<1>16. CASE AllocCreate(w)
  <2>1. job[w].pc \in AllocPc
    BY <1>16 DEF AllocCreate, At, AllocPc
  <2> QED
    BY <1>7, <1>9, <1>16, <2>1, AllocCreateStep DEF QueryPc, AllocPc
<1>17. CASE AllocAdd(w)
  <2>1. job[w].pc \in AllocPc
    BY <1>17 DEF AllocAdd, At, AllocPc
  <2> QED
    BY <1>7, <1>9, <1>17, <2>1, AllocAddStep DEF QueryPc, AllocPc
<1>18. CASE Store(w)
  <2>1. job[w].pc \in AllocPc
    BY <1>18 DEF Store, At, AllocPc
  <2>2. /\ Moves(w) /\ Finished(w)
        /\ sessions' = [sessions EXCEPT ![<<client, host>>] = job[w].row]
           \/ UNCHANGED sessions
    BY <1>1, <1>18, StoreStep DEF OwnKey
  <2>3. client \notin owed => Obeys(client, info)'
    <3> SUFFICES ASSUME client \notin owed, NEW name \in Host, sessions'[<<client, name>>] # Nil
                 PROVE  sessions'[<<client, name>>].reason = info.verdict[name]
      BY DEF Obeys
    <3>1. sessions \in [Key -> Row \cup {Nil}] /\ <<client, name>> \in Key
      BY DEF ReservationInv, TypeOK, Key
    <3>2. CASE name = host
      BY <1>1, <1>3, <1>9, <2>1, <2>2, <3>1, <3>2 DEF Obeys
    <3>3. CASE name # host
      BY <1>3, <2>2, <3>1, <3>3 DEF Obeys
    <3> QED
      BY <3>2, <3>3
  <2>4. \A key \in Key : key[1] # client => sessions'[key] = sessions[key]
    BY <2>2 DEF ReservationInv, TypeOK
  <2> QED
    BY <1>8, <2>2, <2>3, <2>4
<1> QED
  BY <1>10, <1>11, <1>12, <1>13, <1>14, <1>15, <1>16, <1>17, <1>18, NoAllocDelete DEF Query

LEMMA ReevalPolicy ==
    ASSUME ReservationInv, TypeOK', Orderly, PolicyInv, NEW w \in Worker, Reeval(w)
    PROVE  PolicyInv'
<1>1. PICK client \in Client :
        client = job[w].client /\ job[w].pc \in ReevalPc /\ AtWork(job[w])
  <2>1. job[w].pc \in ReevalPc
    BY DEF Reeval, Reevaluate, ReevalRow, ReevalSave, ReevalAdd, ReevalStore, At, ReevalPc
  <2> QED
    BY <2>1, SnapshotFacts DEF AtWork
<1>2. \A v \in Worker \ {w} : job[v].client # client
  BY <1>1, Alone
<1>3. ASSUME Moves(w), SameRequest(w), AtWork(job'[w]), job'[w].pc # "reevaluate",
             NEW info \in Policy, InformedBy(job[w], info)',
             \A key \in Key : key[1] # client => sessions'[key] = sessions[key],
             \A other \in Client \ {client} : SamePolicy(other)
      PROVE  PolicyInv'
  <2>1. job'[w].pc \notin PagePc
    BY <1>3 DEF AtWork, QueryPc, AllocPc, ReevalPc, PagePc
  <2>2. Informed(job[w])'
    BY <1>3, <2>1 DEF Informed
  <2>3. UpToDate(client)'
    BY <1>1, <1>3 DEF UpToDate, AtWork, SameRequest
  <2>4. \A other \in Client \ {client} : Lessened(other)
    BY <1>3 DEF Lessened, Key
  <2> QED
    BY <1>1, <1>2, <1>3, <2>2, <2>3, <2>4, PolicyElsewhere DEF SameRequest
<1>4. ASSUME NEW todo, Moves(w), GoesOn(w, todo), NEW info \in Policy,
             unseen'[client] \/ policy'[client] = info,
             job[w].host # Nil => job[w].ses = info,
             client \notin owed' =>
                \A host \in Host :
                   LET key == <<client, host>>
                   IN  sessions'[key] # Nil => \/ sessions'[key].reason = info.verdict[host]
                                               \/ \E task \in todo : task.key = key,
             \A task \in todo : task.reason = info.verdict[task.key[2]],
             \A key \in Key : key[1] # client => sessions'[key] = sessions[key],
             \A other \in Client \ {client} : SamePolicy(other)
      PROVE  PolicyInv'
  <2>1. CASE todo # {} /\ SameRequest(w) /\ job'[w].pc = "reevalRow" /\ job'[w].todo = todo
    <3>1. AtWork(job'[w]) /\ job'[w].pc \notin AllocPc /\ job'[w].pc \in ReevalPc
      BY <2>1 DEF AtWork, ReevalPc, AllocPc
    <3>2. InformedBy(job[w], info)'
      BY <1>1, <1>4, <2>1, <3>1 DEF InformedBy, Listed, SameRequest
    <3> QED
      BY <1>3, <1>4, <2>1, <3>1, <3>2
  <2>2. CASE todo = {} /\ SameRequest(w) /\ job'[w].pc = "lookup"
    <3>1. AtWork(job'[w]) /\ job'[w].pc \notin AllocPc /\ job'[w].pc \notin ReevalPc
      BY <2>2 DEF AtWork, ReevalPc, AllocPc, QueryPc
    <3>2. InformedBy(job[w], info)'
      BY <1>1, <1>4, <2>2, <3>1 DEF InformedBy, Listed, SameRequest
    <3> QED
      BY <1>3, <1>4, <2>2, <3>1, <3>2
  <2>3. ASSUME todo = {}, Informed(job[w])', job'[w].client \in {client, Nil}
        PROVE  PolicyInv'
    <3>1. UpToDate(client)'
      BY <1>4, <2>3 DEF UpToDate
    <3>2. \A other \in Client \ {client} : Lessened(other)
      BY <1>4 DEF Lessened, Key
    <3> QED
      BY <1>1, <1>2, <1>4, <2>3, <3>1, <3>2, PolicyElsewhere
  <2>4. CASE todo = {} /\ SameRequest(w) /\ job'[w].pc = "handle" /\ job[w].host = Nil
    <3>1. Informed(job[w])'
      BY <2>4 DEF Informed, AtWork, SameRequest, QueryPc, AllocPc, ReevalPc
    <3> QED
      BY <1>1, <2>3, <2>4, <3>1 DEF SameRequest
  <2>5. CASE todo = {} /\ Finished(w)
    <3>1. Informed(job[w])'
      BY <2>5 DEF Informed, AtWork, Finished, QueryPc, AllocPc, ReevalPc, PagePc
    <3> QED
      BY <2>3, <2>5, <3>1 DEF Finished
  <2> QED
    BY <1>4, <2>1, <2>2, <2>4, <2>5 DEF GoesOn
<1>5. CASE Reevaluate(w)
  <2> DEFINE info == policy[client]
  <2>1. /\ job[w].pc = "reevaluate" /\ info \in Policy
        /\ UNCHANGED policy
        /\ \A other \in Client \ {client} : SamePolicy(other)
    BY <1>1, <1>5 DEF Reevaluate, At, ReservationInv, TypeOK, SamePolicy
  <2>2. job[w].host # Nil => job[w].ses = info
    BY <1>1, <2>1 DEF PolicyInv, Informed
  <2>3. PICK todo : GoesOn(w, todo) /\ Verifies(w, todo)
    BY <1>5, ReevaluateStep
  <2>4. Moves(w) /\ UNCHANGED sessions
    BY <1>5, ReevaluateStep
  <2> QED
    BY <1>1, <1>4, <2>1, <2>2, <2>3, <2>4 DEF Verifies
<1>6. CASE ~ Reevaluate(w)
  <2>1. job[w].pc # "reevaluate" /\ UNCHANGED <<policy, unseen, owed>>
    BY <1>6 DEF Reeval, ReevalRow, ReevalSave, ReevalAdd, ReevalStore, At, history
  <2>2. PICK info \in Policy : InformedBy(job[w], info)
    BY <1>1, <2>1 DEF PolicyInv, Informed
  <2>3. \A other \in Client : SamePolicy(other)
    BY <2>1 DEF SamePolicy
  <2>4. ASSUME NEW task, NEW pc \in {"reevalSave", "reevalAdd", "reevalStore"},
               Moves(w), AtTask(w, task, pc), UNCHANGED sessions
        PROVE  PolicyInv'
    <3>1. /\ AtWork(job'[w]) /\ job'[w].pc # "reevaluate" /\ job'[w].pc \in ReevalPc
          /\ job'[w].pc \notin AllocPc
      BY <2>4 DEF AtWork, AtTask, ReevalPc, AllocPc
    <3>2. InformedBy(job[w], info)'
      BY <1>1, <2>1, <2>2, <2>4, <3>1 DEF InformedBy, Listed, AtTask, SameRequest
    <3> QED
      BY <1>3, <2>3, <2>4, <3>1, <3>2 DEF AtTask
  <2>5. CASE ReevalRow(w)
    BY <2>4, <2>5, ReevalRowStep
  <2>6. CASE ReevalAdd(w)
    BY <2>4, <2>6, ReevalAddStep
  <2>7. ASSUME job[w].pc \in {"reevalSave", "reevalStore"}, NEW row,
               Updates(job[w].at.key, row), row.reason = job[w].at.reason
        PROVE  /\ \A key \in Key : key[1] # client => sessions'[key] = sessions[key]
               /\ client \notin owed =>
                     \A host \in Host :
                        LET key == <<client, host>>
                        IN  sessions'[key] # Nil =>
                               \/ sessions'[key].reason = info.verdict[host]
                               \/ \E task \in job[w].todo \ {job[w].at} : task.key = key
    <3> DEFINE at == job[w].at
    <3>1. at \in job[w].todo /\ at.key \in Key /\ at.key[1] = client
      BY <1>1, <2>7, ReevalTask
    <3>2. at.reason = info.verdict[at.key[2]]
      BY <1>1, <2>2, <3>1 DEF InformedBy
    <3>3. sessions \in [Key -> Row \cup {Nil}]
      BY DEF ReservationInv, TypeOK
    <3>4. \A key \in Key : key # at.key => sessions'[key] = sessions[key]
      BY <2>7, <3>3 DEF Updates
    <3>5. sessions'[at.key] # Nil => sessions'[at.key].reason = at.reason
      BY <2>7, <3>1, <3>3 DEF Updates
    <3>6. ASSUME client \notin owed, NEW host \in Host, sessions'[<<client, host>>] # Nil
          PROVE  \/ sessions'[<<client, host>>].reason = info.verdict[host]
                 \/ \E task \in job[w].todo \ {at} : task.key = <<client, host>>
      <4>1. <<client, host>> \in Key
        BY <1>1 DEF Key
      <4>2. CASE at.key = <<client, host>>
        BY <3>2, <3>5, <3>6, <4>2
      <4>3. CASE at.key # <<client, host>>
        BY <1>1, <2>2, <3>4, <3>6, <4>1, <4>3 DEF InformedBy, Listed
      <4> QED
        BY <4>2, <4>3
    <3> QED
      BY <3>1, <3>4, <3>6
  <2>8. CASE ReevalSave(w)
    <3>1. /\ Moves(w) /\ AtTask(w, job[w].at, "reevalAdd") /\ job[w].pc = "reevalSave"
          /\ Updates(job[w].at.key, Changed(job[w].at))
      BY <2>8, ReevalSaveStep DEF ReevalSave, At
    <3>2. Changed(job[w].at).reason = job[w].at.reason
      BY <3>1, ReevalTask
    <3>3. /\ AtWork(job'[w]) /\ job'[w].pc # "reevaluate" /\ job'[w].pc \in ReevalPc
          /\ job'[w].pc \notin AllocPc
      BY <3>1 DEF AtWork, AtTask, ReevalPc, AllocPc
    <3>4. client \notin owed =>
             \A host \in Host :
                LET key == <<client, host>>
                IN  sessions'[key] # Nil =>
                       \/ sessions'[key].reason = info.verdict[host]
                       \/ \E task \in job[w].todo : task.key = key
      BY <2>7, <3>1, <3>2
    <3>5. InformedBy(job[w], info)'
      BY <1>1, <2>1, <2>2, <3>1, <3>3, <3>4 DEF InformedBy, Listed, AtTask, SameRequest
    <3> QED
      BY <1>3, <2>3, <2>7, <3>1, <3>2, <3>3, <3>5 DEF AtTask
  <2>9. CASE ReevalStore(w)
    <3> DEFINE todo == job[w].todo \ {job[w].at}
    <3>1. /\ Moves(w) /\ GoesOn(w, todo) /\ job[w].pc = "reevalStore"
      BY <2>9, ReevalStoreStep DEF ReevalStore, At
    <3>2. PICK row : Updates(job[w].at.key, row) /\ row.reason = job[w].at.reason
      BY <2>9, ReevalStoreStep
    <3>3. unseen'[client] \/ policy'[client] = info
      BY <1>1, <2>1, <2>2 DEF InformedBy
    <3>4. /\ job[w].host # Nil => job[w].ses = info
          /\ \A task \in todo : task.reason = info.verdict[task.key[2]]
      BY <1>1, <2>2 DEF InformedBy
    <3>5. /\ \A key \in Key : key[1] # client => sessions'[key] = sessions[key]
          /\ client \notin owed' =>
                \A host \in Host :
                   LET key == <<client, host>>
                   IN  sessions'[key] # Nil =>
                          \/ sessions'[key].reason = info.verdict[host]
                          \/ \E task \in todo : task.key = key
      BY <2>1, <2>7, <3>1, <3>2
    <3> HIDE DEF todo
    <3> QED
      BY <1>1, <1>4, <2>3, <3>1, <3>3, <3>4, <3>5
  <2> QED
    BY <1>6, <2>5, <2>6, <2>8, <2>9 DEF Reeval
<1> QED
  BY <1>5, <1>6

LEMMA FlushPolicy ==
    ASSUME ReservationInv, TypeOK', PolicyInv, NEW w \in Worker, Flush(w)
    PROVE  PolicyInv'
<1>1. PICK client \in Client : client = job[w].client
  BY FlushStep
<1>2. /\ Moves(w) /\ UNCHANGED <<policy, unseen, owed>>
      /\ job'[w].client \in {client, Nil} /\ job'[w].pc \in FlushPc \cup {"idle"}
      /\ \A key \in Key : sessions'[key] \in {sessions[key], Nil}
  BY <1>1, FlushStep
<1>3. \A other \in Client : Lessened(other) /\ SamePolicy(other)
  BY <1>2 DEF Lessened, SamePolicy, Key
<1>4. \A v \in Worker \ {w} : job[v].client # client
  BY <1>1, Alone
<1>5. ~ AtWork(job[w]) /\ ~ AtWork(job'[w]) /\ job'[w].pc \notin PagePc
  BY <1>2, FlushStep DEF AtWork, FlushPc, QueryPc, AllocPc, ReevalPc, PagePc
<1>6. UpToDate(client)
  BY DEF PolicyInv
<1>7. UpToDate(client)'
  <2>1. \A v \in Worker : AtWork(job[v]) => job[v].client # client
    BY <1>4, <1>5
  <2> SUFFICES ASSUME ~ unseen'[client], client \notin owed', NEW host \in Host,
                      sessions'[<<client, host>>] # Nil
               PROVE  sessions'[<<client, host>>].reason = policy'[client].verdict[host]
    BY DEF UpToDate
  <2> QED
    BY <1>3, <1>6, <2>1 DEF UpToDate, Lessened, SamePolicy
<1>8. Informed(job[w])'
  BY <1>5 DEF Informed, AtWork
<1> QED
  BY <1>1, <1>2, <1>3, <1>4, <1>7, <1>8, PolicyElsewhere

\* A page may make the portal session, and then owes the client a reevaluation; a
\* change of the access is followed by one.
LEMMA PagePolicy ==
    ASSUME ReservationInv, TypeOK', Orderly, PolicyInv, NEW w \in Worker, Page(w)
    PROVE  PolicyInv'
<1>1. job[w] \in Job /\ job[w].client \in Client /\ job[w].pc \in PagePc
  BY JobType DEF Page, ViewSession, ShowPage, ChangeAccess, At, PagePc, Goroutine,
     ReservationInv
<1>2. PICK client \in Client : client = job[w].client
  BY <1>1
<1>3. /\ job[w].host = Nil /\ UpToDate(client) /\ ~ AtWork(job[w])
      /\ \A v \in Worker \ {w} : job[v].client # client
  BY <1>1, <1>2, Alone DEF PolicyInv, Informed, AtWork, PagePc, QueryPc, AllocPc, ReevalPc
<1>4. /\ TypeOK /\ w \in Goroutine /\ UNCHANGED sessions
      /\ policy \in [Client -> Policy] /\ unseen \in [Client -> BOOLEAN]
  BY DEF Page, ViewSession, ShowPage, ChangeAccess, db, ReservationInv, TypeOK, Goroutine
<1>5. ASSUME Moves(w), job'[w].client \in {client, Nil}, job'[w].host = Nil,
             job'[w].pc \in {"handle", "idle", "reevaluate"},
             job'[w].pc = "reevaluate" => job'[w].client = client /\ ~ unseen'[client],
             \A other \in Client \ {client} : SamePolicy(other),
             \/ SamePolicy(client)
             \/ job'[w].pc = "reevaluate"
             \/ client \in owed'
      PROVE  PolicyInv'
  <2>1. AtWork(job'[w]) => job'[w].pc = "reevaluate"
    BY <1>5 DEF AtWork, QueryPc, AllocPc, ReevalPc
  <2>2. Informed(job[w])'
    BY <1>5, <2>1 DEF Informed, AtWork
  <2>3. UpToDate(client)'
    <3>1. CASE SamePolicy(client)
      BY <1>3, <1>4, <3>1 DEF UpToDate, SamePolicy
    <3>2. CASE job'[w].pc = "reevaluate"
      BY <1>5, <3>2 DEF UpToDate, AtWork, ReevalPc
    <3>3. CASE client \in owed'
      BY <3>3 DEF UpToDate
    <3> QED
      BY <1>5, <3>1, <3>2, <3>3
  <2>4. \A other \in Client \ {client} : Lessened(other)
    BY <1>4 DEF Lessened
  <2> QED
    BY <1>3, <1>5, <2>2, <2>3, <2>4, PolicyElsewhere
<1>6. CASE ViewSession(w)
  <2>1. PICK pc \in {"handle", "reevaluate"} : Continue(w, [job[w] EXCEPT !.pc = pc])
    BY <1>6 DEF ViewSession
  <2> DEFINE local == [job[w] EXCEPT !.pc = pc]
  <2>2. local.pc = pc /\ local.client = client /\ local.host = Nil
    BY <1>1, <1>2, <1>3 DEF Job
  <2>3. Continue(w, local)
    BY <2>1
  <2> HIDE DEF local
  <2>4. job'[w] = local /\ Moves(w)
    BY <1>4, <2>3, ContinueMoves
  <2>5. /\ UNCHANGED policy
        /\ unseen' = [unseen EXCEPT ![client] = FALSE]
        /\ owed' = owed \cup {c \in {client} : unseen[c]}
    BY <1>2, <1>6 DEF ViewSession
  <2>6. \A other \in Client \ {client} : SamePolicy(other)
    BY <1>4, <2>5 DEF SamePolicy
  <2>7. SamePolicy(client) \/ client \in owed'
    BY <1>4, <2>5 DEF SamePolicy
  <2>8. ~ unseen'[client]
    BY <1>4, <2>5
  <2> QED
    BY <1>5, <2>2, <2>4, <2>6, <2>7, <2>8
<1>7. CASE ShowPage(w)
  <2>1. job'[w] = Idle /\ Moves(w) /\ UNCHANGED <<policy, unseen, owed>>
    BY <1>4, <1>7, ContinueMoves DEF ShowPage, Finish, history
  <2>2. Idle.pc = "idle" /\ Idle.client = Nil /\ Idle.host = Nil
    BY DEF Idle
  <2>3. \A other \in Client : SamePolicy(other)
    BY <2>1 DEF SamePolicy
  <2> QED
    BY <1>5, <2>1, <2>2, <2>3
<1>8. ASSUME NEW info \in Policy, ChangeAccess(w, info)
      PROVE  PolicyInv'
  <2> DEFINE local == [job[w] EXCEPT !.pc = "reevaluate", !.row = Nil]
  <2>1. local.pc = "reevaluate" /\ local.client = client /\ local.host = Nil
    BY <1>1, <1>2, <1>3 DEF Job
  <2>2. Continue(w, local)
    BY <1>8 DEF ChangeAccess
  <2> HIDE DEF local
  <2>3. job'[w] = local /\ Moves(w)
    BY <1>4, <2>2, ContinueMoves
  <2>4. /\ policy' = [policy EXCEPT ![client] = info]
        /\ unseen' = [unseen EXCEPT ![client] = FALSE]
        /\ UNCHANGED owed
    BY <1>2, <1>8 DEF ChangeAccess, history
  <2>5. (\A other \in Client \ {client} : SamePolicy(other)) /\ ~ unseen'[client]
    BY <1>4, <2>4 DEF SamePolicy
  <2> QED
    BY <1>5, <2>1, <2>3, <2>5
<1> QED
  BY <1>6, <1>7, <1>8 DEF Page

\* A request that finds a portal session finds rows that follow the policy.
LEMMA RequestsPolicy ==
    ASSUME ReservationInv, TypeOK', Orderly, PolicyInv, NEW w \in Worker, Requests(w)
    PROVE  PolicyInv'
<1>1. PICK client \in Client :
        \/ \E host \in Host, ifc \in Interface : StartQuery(w, client, host, ifc)
        \/ \E host \in Host : StartPage(w, client, host)
        \/ StartFlush(w, client)
        \/ \E info \in Policy : StartDeleteSession(w, client, info)
  BY DEF Requests
<1>2. Accepts(w, client) /\ UNCHANGED <<sessions, owed>>
  BY <1>1 DEF StartQuery, StartPage, StartFlush, StartDeleteSession, db, history
<1>3. \A v \in Worker : job[v].client # client
  BY <1>2 DEF Accepts, Orderly
<1>4. ~ AtWork(job[w])
  BY <1>2 DEF Accepts, At, AtWork, QueryPc, AllocPc, ReevalPc
<1>5. /\ policy \in [Client -> Policy] /\ unseen \in [Client -> BOOLEAN]
      /\ TypeOK /\ w \in Goroutine
  BY DEF ReservationInv, TypeOK, Goroutine
<1>6. UpToDate(client)
  BY DEF PolicyInv
<1>7. ASSUME Moves(w), \A other \in Client \ {client} : SamePolicy(other),
             UpToDate(client)', Informed(job[w])'
      PROVE  PolicyInv'
  <2>1. \A other \in Client \ {client} : Lessened(other)
    BY <1>2 DEF Lessened
  <2> QED
    BY <1>3, <1>4, <1>7, <2>1, PolicyElsewhere
<1>8. ASSUME NEW host \in Host, NEW ifc \in Interface, StartQuery(w, client, host, ifc)
      PROVE  PolicyInv'
  <2> DEFINE pc == IF unseen[client] THEN "reevaluate" ELSE "lookup"
             local == [Idle EXCEPT !.pc = pc, !.client = client, !.host = host,
                                   !.ifc = ifc, !.ses = policy[client]]
  <2> HIDE DEF pc
  <2>1. /\ local.pc = pc /\ local.client = client /\ local.host = host
        /\ local.ses = policy[client]
    BY DEF Idle
  <2>2. Continue(w, local)
    BY <1>8 DEF StartQuery, pc
  <2> HIDE DEF local
  <2>3. job'[w] = local /\ Moves(w)
    BY <1>5, <2>2, ContinueMoves
  <2>4. UNCHANGED policy /\ unseen' = [unseen EXCEPT ![client] = FALSE]
    BY <1>8 DEF StartQuery
  <2>5. \A other \in Client \ {client} : SamePolicy(other)
    BY <1>2, <1>5, <2>4 DEF SamePolicy
  <2>6. CASE unseen[client]
    <3>1. /\ job'[w].pc = "reevaluate" /\ AtWork(job'[w])
          /\ job'[w].pc \notin PagePc
      BY <2>1, <2>3, <2>6 DEF pc, AtWork, ReevalPc, PagePc
    <3>2. Informed(job[w])'
      BY <1>5, <2>1, <2>3, <2>4, <3>1 DEF Informed
    <3>3. UpToDate(client)'
      BY <2>1, <2>3, <3>1 DEF UpToDate, AtWork
    <3> QED
      BY <1>7, <2>3, <2>5, <3>2, <3>3
  <2>7. CASE ~ unseen[client]
    <3>1. job'[w].pc = "lookup" /\ AtWork(job'[w])
      BY <2>1, <2>3, <2>7 DEF pc, AtWork, QueryPc
    <3>2. job'[w].pc \notin ReevalPc \cup AllocPc \cup PagePc
      BY <3>1 DEF AllocPc, ReevalPc, PagePc
    <3>3. client \notin owed => Obeys(client, policy[client])
      BY <1>3, <1>6, <2>7 DEF UpToDate, Obeys
    <3>4. PICK info \in Policy : info = policy[client]
      BY <1>5
    <3>5. InformedBy(job[w], info)'
      BY <1>2, <2>1, <2>3, <2>4, <3>2, <3>3, <3>4 DEF InformedBy, Obeys
    <3>6. Informed(job[w])'
      BY <3>1, <3>2, <3>5 DEF Informed
    <3>7. UpToDate(client)'
      BY <2>1, <2>3, <3>1 DEF UpToDate, AtWork
    <3> QED
      BY <1>7, <2>3, <2>5, <3>6, <3>7
  <2> QED
    BY <2>6, <2>7
<1>9. ASSUME NEW local, Continue(w, local), local.host = Nil,
             local.pc \in {"page", "handle", "flushList"}
      PROVE  Moves(w) /\ Informed(job[w])'
  <2>1. job'[w] = local /\ Moves(w)
    BY <1>5, <1>9, ContinueMoves
  <2> QED
    BY <1>9, <2>1 DEF Informed, AtWork, QueryPc, AllocPc, ReevalPc
<1>10. ASSUME Continue(w, [Idle EXCEPT !.pc = "flushList", !.client = client])
       PROVE  Moves(w) /\ Informed(job[w])'
  <2> DEFINE local == [Idle EXCEPT !.pc = "flushList", !.client = client]
  <2>1. local.pc = "flushList" /\ local.host = Nil
    BY DEF Idle
  <2>2. Continue(w, local)
    BY <1>10
  <2> HIDE DEF local
  <2> QED
    BY <1>9, <2>1, <2>2
<1>11. ASSUME UNCHANGED <<policy, unseen>>, Moves(w), Informed(job[w])'
       PROVE  PolicyInv'
  <2>1. \A other \in Client : SamePolicy(other)
    BY <1>2, <1>11 DEF SamePolicy
  <2>2. UpToDate(client)'
    <3> SUFFICES ASSUME ~ unseen'[client], client \notin owed', NEW host \in Host,
                        sessions'[<<client, host>>] # Nil
                 PROVE  sessions'[<<client, host>>].reason = policy'[client].verdict[host]
      BY DEF UpToDate
    <3> QED
      BY <1>2, <1>3, <1>6, <1>11 DEF UpToDate
  <2> QED
    BY <1>7, <1>11, <2>1, <2>2
<1>12. ASSUME NEW info \in Policy, StartDeleteSession(w, client, info)
       PROVE  PolicyInv'
  <2>1. /\ policy' = [policy EXCEPT ![client] = info]
        /\ unseen' = [unseen EXCEPT ![client] = TRUE]
        /\ Moves(w) /\ Informed(job[w])'
    BY <1>10, <1>12 DEF StartDeleteSession
  <2>2. \A other \in Client \ {client} : SamePolicy(other)
    BY <1>2, <1>5, <2>1 DEF SamePolicy
  <2>3. UpToDate(client)'
    BY <1>5, <2>1 DEF UpToDate
  <2> QED
    BY <1>7, <2>1, <2>2, <2>3
<1>13. ASSUME NEW host \in Host, StartPage(w, client, host)
       PROVE  PolicyInv'
  <2> DEFINE row == sessions[<<client, host>>]
             pc == IF row = Nil THEN "handle" ELSE "page"
             local == [Idle EXCEPT !.pc = pc, !.client = client, !.row = row]
  <2>1. pc \in {"handle", "page"}
    OBVIOUS
  <2>2. Continue(w, local)
    BY <1>13 DEF StartPage
  <2> HIDE DEF pc
  <2>3. local.pc = pc /\ local.host = Nil
    BY DEF Idle
  <2> HIDE DEF local
  <2>4. Moves(w) /\ Informed(job[w])'
    BY <1>9, <2>1, <2>2, <2>3
  <2> QED
    BY <1>11, <1>13, <2>4 DEF StartPage
<1>14. CASE StartFlush(w, client)
  BY <1>10, <1>11, <1>14 DEF StartFlush
<1> QED
  BY <1>1, <1>8, <1>12, <1>13, <1>14

\* Steps that no request makes: rows go or expire, and the only change of policy is
\* that of a portal session that ends.
LEMMA OutsidePolicy ==
    ASSUME ReservationInv, TypeOK', Followed, PolicyInv,
           Review \/ Switch \/ Time \/ UNCHANGED vars
    PROVE  PolicyInv'
<1>1. TypeOK /\ sessions \in [Key -> Row \cup {Nil}]
  BY DEF ReservationInv, TypeOK
<1>2. \A w \in Worker : job'[w] = job[w]
  <2>1. CASE Review
    <3>1. PICK local : Continue(Ticker, local)
      BY <2>1 DEF Review, StartReview, ReviewExtend, ReviewRow, ReviewDelete
    <3> QED
      BY <3>1, ForwardingAssumption DEF Continue, ReservationInv, TypeOK, Goroutine
  <2>2. CASE Switch
    BY <2>2, SwitchMoves DEF BootSafe
  <2> QED
    BY <2>1, <2>2 DEF Time, SessionExpires, PortalSessionExpires, ScheduleChanges, vars
<1>3. \A key \in Key : sessions'[key] # Nil =>
         sessions[key] # Nil /\ sessions'[key].reason = sessions[key].reason
  <2>1. CASE UNCHANGED sessions
    BY <2>1
  <2>2. CASE Review
    <3>1. UNCHANGED sessions \/ DeleteDNSSession(job[Ticker].at.key)
      BY <2>2 DEF Review, StartReview, ReviewRow, ReviewDelete, ReviewExtend,
         ReservationInv, db
    <3> QED
      BY <1>1, <3>1 DEF DeleteDNSSession
  <2>3. CASE Switch
    <3>1. UNCHANGED sessions \/ DeleteDNSSession(job[Admin].at.key)
      BY <2>3 DEF Switch, SwitchSet, SwitchRow, SwitchDelete, ClearPrerouting, ClearOutput,
         SwitchAdd, db
    <3> QED
      BY <1>1, <3>1 DEF DeleteDNSSession
  <2>4. CASE \E key \in Key : SessionExpires(key)
    <3>1. PICK key \in Key : SessionExpires(key)
      BY <2>4
    <3> DEFINE row == [sessions[key] EXCEPT !.expired = TRUE]
    <3>2. sessions[key] \in Row /\ sessions[key] # Nil
      BY <1>1, <3>1 DEF SessionExpires
    <3>3. row.reason = sessions[key].reason
      BY <3>2 DEF Row
    <3>4. sessions' = [sessions EXCEPT ![key] = row]
      BY <3>1 DEF SessionExpires
    <3> HIDE DEF row
    <3> QED
      BY <1>1, <3>2, <3>3, <3>4
  <2> QED
    BY <2>1, <2>2, <2>3, <2>4 DEF Time, PortalSessionExpires, ScheduleChanges, vars, db
<1>4. \A client \in Client : Lessened(client)
  BY <1>3 DEF Lessened, Key
<1>5. ASSUME \A client \in Client : SamePolicy(client)
      PROVE  PolicyInv'
  <2>1. ASSUME NEW v \in Worker
        PROVE  Informed(job[v])'
    BY <1>1, <1>2, <1>4, <1>5, BystanderInformed DEF PolicyInv
  <2>2. ASSUME NEW client \in Client
        PROVE  UpToDate(client)'
    <3>1. UpToDate(client)
      BY DEF PolicyInv
    <3> QED
      BY <1>2, <1>4, <1>5, <3>1 DEF UpToDate, Lessened, SamePolicy, AtWork
  <2> QED
    BY <2>1, <2>2 DEF PolicyInv
<1>6. ASSUME NEW client \in Client, NEW info \in Policy, PortalSessionExpires(client, info)
      PROVE  PolicyInv'
  <2>1. /\ unseen' = [unseen EXCEPT ![client] = TRUE]
        /\ policy' = [policy EXCEPT ![client] = info]
        /\ UNCHANGED <<sessions, owed>>
        /\ \A w \in Worker : job[w].client = client => job[w].pc # "reevaluate"
    BY <1>6 DEF PortalSessionExpires, db, history
  <2>2. unseen'[client] /\ \A other \in Client \ {client} : SamePolicy(other)
    BY <2>1 DEF SamePolicy, ReservationInv, TypeOK
  <2>3. ASSUME NEW v \in Worker
        PROVE  Informed(job[v])'
    <3>1. Informed(job[v])
      BY DEF PolicyInv
    <3>2. CASE job[v].client # client
      BY <1>1, <1>2, <1>4, <2>2, <3>1, <3>2, BystanderInformed
    <3>3. CASE job[v].client = client /\ AtWork(job[v])
      <4>1. PICK i \in Policy : InformedBy(job[v], i)
        BY <2>1, <3>1, <3>3 DEF Informed
      <4>2. /\ job'[v] = job[v] /\ unseen'[job[v].client]
            /\ sessions' = sessions /\ owed' = owed
        BY <1>2, <2>1, <2>2, <3>3
      <4>3. InformedBy(job[v], i)'
        BY <4>1, <4>2 DEF InformedBy, Listed
      <4> QED
        BY <1>2, <2>1, <3>1, <3>3, <4>3 DEF Informed
    <3>4. CASE ~ AtWork(job[v])
      BY <1>2, <3>1, <3>4 DEF Informed, AtWork
    <3> QED
      BY <3>2, <3>3, <3>4
  <2>4. ASSUME NEW other \in Client
        PROVE  UpToDate(other)'
    <3>1. UpToDate(other)
      BY DEF PolicyInv
    <3>2. CASE other = client
      BY <2>2, <3>2 DEF UpToDate
    <3>3. CASE other # client
      BY <1>2, <1>4, <2>2, <3>1, <3>3 DEF UpToDate, Lessened, SamePolicy, AtWork
    <3> QED
      BY <3>2, <3>3
  <2> QED
    BY <2>3, <2>4 DEF PolicyInv
<1>7. CASE \E client \in Client, info \in Policy : PortalSessionExpires(client, info)
  BY <1>6, <1>7
<1>8. CASE ~ \E client \in Client, info \in Policy : PortalSessionExpires(client, info)
  <2>1. UNCHANGED <<policy, unseen, owed>>
    BY <1>8 DEF Review, StartReview, ReviewRow, ReviewDelete, ReviewExtend, Switch,
       SwitchSet, SwitchRow, SwitchDelete, ClearPrerouting, ClearOutput, SwitchAdd,
       Time, SessionExpires, ScheduleChanges, Followed, vars, history
  <2> QED
    BY <1>5, <2>1 DEF SamePolicy
<1> QED
  BY <1>7, <1>8

\* PolicyInv holds in every reachable state when every change of what a client may do
\* is followed by a reevaluation that is not cut short: a request, a reevaluation and
\* the rows of its client follow one policy, the present one while the portal session
\* lasts, and the rows follow it but for those of a client whose portal session a page
\* made (GetSessionInfo, ReevaluateAccess, processResponse, determineRequest).
THEOREM PolicyInvHolds ==
    ASSUME Followed
    PROVE  Spec => []PolicyInv
<1>1. Orderly /\ ~ Restart
  BY DEF Followed, Restart
<1>2. Init => PolicyInv
  <2> HAVE Init
  <2>1. \A g \in Goroutine : job[g].pc = "idle"
    BY DEF Init, Idle
  <2>2. \A w \in Worker : ~ AtWork(job[w])
    BY <2>1 DEF AtWork, QueryPc, AllocPc, ReevalPc, Goroutine
  <2> QED
    BY <2>1, <2>2 DEF Init, PolicyInv, UpToDate, Informed, PagePc, Goroutine
<1>3. ReservationInv /\ PolicyInv /\ [Next]_vars => PolicyInv'
  <2> HAVE ReservationInv /\ PolicyInv /\ [Next]_vars
  <2>1. TypeOK'
    BY NextTypes DEF ReservationInv
  <2>2. ASSUME NEW w \in Worker, Requests(w) \/ Serve(w)
        PROVE  PolicyInv'
    BY <1>1, <2>1, <2>2, RequestsPolicy, QueryPolicy, ReevalPolicy, PagePolicy, FlushPolicy
       DEF Serve
  <2>3. ~ \E fw \in Firewall : StartSwitch(fw)
    BY <1>1 DEF Orderly, StartSwitch
  <2> QED
    BY <1>1, <2>1, <2>2, <2>3, OutsidePolicy DEF Next
<1>4. Spec => []ReservationInv
  BY <1>1, InvariantHolds
<1> QED
  BY <1>2, <1>3, <1>4, PTL DEF Spec

\* Between the requests of a client each of its sessions carries the verdict the
\* client's policy has now, or the portal session has ended and the next DNS request
\* reevaluates, or a page took that reevaluation: whatever pages, reviews, flushes,
\* failing calls of iptables and expiries come between any two steps.
THEOREM PolicyIsApplied ==
    ASSUME Followed
    PROVE  Spec => []PolicyApplied
<1>1. ReservationInv /\ PolicyInv => PolicyApplied
  <2> SUFFICES ASSUME ReservationInv, PolicyInv, NEW key \in Key, sessions[key] # Nil,
                      Quiet(key[1]), ~ unseen[key[1]], key[1] \notin owed
               PROVE  sessions[key].reason = policy[key[1]].verdict[key[2]]
    BY DEF PolicyApplied
  <2>1. key[1] \in Client /\ key[2] \in Host /\ key = <<key[1], key[2]>>
    BY DEF Key
  <2>2. UpToDate(key[1])
    BY <2>1 DEF PolicyInv
  <2> QED
    BY <2>1, <2>2 DEF UpToDate, Quiet
<1>2. Spec => []ReservationInv
  BY InvariantHolds DEF Followed
<1> QED
  BY <1>1, <1>2, PolicyInvHolds, PTL

\* A verdict changes behind the firewall's back only while a page owes the client the
\* reevaluation it took: in all other cases a lookup from the cache finds the verdict
\* the row already has (processDnsQuery, determineRequest).
THEOREM OnlyOwedAreUntold ==
    ASSUME Followed
    PROVE  Spec => UntoldOnlyWhenOwed
<1>1. ReservationInv /\ PolicyInv /\ [Next]_vars
         => [\A key \in untold' \ untold : key[1] \in owed]_vars
  <2> SUFFICES ASSUME ReservationInv, PolicyInv, Next, NEW key \in untold' \ untold
               PROVE  key[1] \in owed
    BY DEF vars, history
  <2>1. PICK w \in Worker : Store(w)
    <3>1. ASSUME NEW w \in Worker, Requests(w) \/ Serve(w)
          PROVE  Store(w) \/ UNCHANGED untold
      <4>1. CASE Requests(w)
        BY <4>1 DEF Requests, StartQuery, StartPage, StartFlush, StartDeleteSession, history
      <4>2. CASE Query(w)
        BY <4>2 DEF Query, LookupHit, LookupMiss, Resolve, ResolveFails, AllocGet,
           AllocDelete, AllocList, AllocCreate, AllocAdd, history
      <4>3. CASE Reeval(w) \/ Page(w)
        BY <4>3 DEF Reeval, Reevaluate, ReevalRow, ReevalSave, ReevalAdd, ReevalStore,
           Page, ViewSession, ShowPage, ChangeAccess, history
      <4>4. CASE Flush(w)
        BY <4>4 DEF Flush, FlushList, FlushRow, FlushDelete, FlushRevList, FlushRev, history
      <4> QED
        BY <3>1, <4>1, <4>2, <4>3, <4>4 DEF Serve
    <3>2. CASE Review
      BY <3>2 DEF Review, StartReview, ReviewExtend, ReviewRow, ReviewDelete, history
    <3>3. CASE Switch \/ \E fw \in Firewall : StartSwitch(fw)
      BY <3>3 DEF StartSwitch, Switch, SwitchSet, SwitchRow, SwitchDelete, ClearPrerouting,
         ClearOutput, SwitchAdd, history
    <3>4. CASE Restart \/ Time
      BY <3>4 DEF Restart, Time, SessionExpires, PortalSessionExpires, ScheduleChanges,
         history
    <3> QED
      BY <3>1, <3>2, <3>3, <3>4 DEF Next
  <2>2. key = OwnKey(w) /\ Overwritten(key)
    BY <2>1 DEF Store, OwnKey
  <2>3. /\ job[w].pc = "store" /\ job[w].pc \in AllocPc /\ job[w].pc \notin ReevalPc
        /\ job[w].host \in Host
    BY <2>1, DraftFacts DEF Store, At, QueryPc, AllocPc, ReevalPc
  <2>4. PICK info \in Policy : InformedBy(job[w], info)
    BY <2>3 DEF PolicyInv, Informed, AtWork, QueryPc
  <2>5. job[w].row.reason = info.verdict[job[w].host]
    BY <2>3, <2>4 DEF InformedBy
  <2>6. sessions'[key] = job[w].row
    BY <2>1, <2>2, StoreStep DEF Overwritten, Followed, ReservationInv, TypeOK
  <2>7. sessions[key].reason # info.verdict[job[w].host]
    BY <2>2, <2>5, <2>6 DEF Overwritten
  <2> QED
    BY <2>2, <2>3, <2>4, <2>7 DEF InformedBy, Listed, Overwritten, OwnKey
<1>2. Spec => []ReservationInv
  BY InvariantHolds DEF Followed
<1> QED
  BY <1>1, <1>2, PolicyInvHolds, PTL DEF Spec, UntoldOnlyWhenOwed

-----------------------------------------------------------------------------
(***************************************************************************)
(* What a step of the review is, and what a call of the firewall does.     *)
(***************************************************************************)

\* The review goes on to its next row, or ends.
ReviewsOn(todo) ==
    \/ todo # {} /\ job'[Ticker].pc = "reviewRow" /\ job'[Ticker].todo = todo
    \/ todo = {} /\ job'[Ticker].pc = "idle" /\ job'[Ticker].todo = {}

LEMMA ReviewsOnStep ==
    ASSUME TypeOK, NEW local \in Job, NEW todo, Continue(Ticker, NextReview(local, todo))
    PROVE  Moves(Ticker) /\ ReviewsOn(todo)
<1>1. Ticker \in Goroutine
  BY DEF Goroutine
<1>2. CASE todo = {}
  <2>1. job'[Ticker] = Idle /\ Moves(Ticker)
    BY <1>1, <1>2, ContinueMoves DEF NextReview
  <2>2. Idle.pc = "idle" /\ Idle.todo = {}
    BY DEF Idle
  <2> QED
    BY <1>2, <2>1, <2>2 DEF ReviewsOn
<1>3. CASE todo # {}
  <2> DEFINE next == [local EXCEPT !.pc = "reviewRow", !.todo = todo, !.at = Nil]
  <2>1. next.pc = "reviewRow" /\ next.todo = todo
    BY DEF Job
  <2>2. Continue(Ticker, next)
    BY <1>3 DEF NextReview
  <2> HIDE DEF next
  <2>3. job'[Ticker] = next /\ Moves(Ticker)
    BY <1>1, <2>2, ContinueMoves
  <2> QED
    BY <1>3, <2>1, <2>3 DEF ReviewsOn
<1> QED
  BY <1>2, <1>3

LEMMA StartReviewStep ==
    ASSUME ReservationInv, Orderly, StartReview
    PROVE  /\ Moves(Ticker) /\ UNCHANGED <<sessions, rdns, nat>>
           /\ \E todo :
                /\ ReviewsOn(todo)
                /\ \A task \in todo : /\ task \in Task
                                      /\ sessions[task.key] # Nil
                                      /\ task.row = sessions[task.key]
                /\ \A task, other \in todo : task.key = other.key => task = other
<1> DEFINE todo == {task \in Stored(Client) : task.row.expired}
<1>1. Continue(Ticker, NextReview(Idle, todo)) /\ UNCHANGED <<sessions, rdns, nat>>
  BY DEF StartReview, Counted, Orderly, db
<1>2. TypeOK
  BY DEF ReservationInv
<1>3. Moves(Ticker) /\ ReviewsOn(todo)
  <2> HIDE DEF todo
  <2> QED
    BY <1>1, <1>2, IdleType, ReviewsOnStep
<1>4. ASSUME NEW task \in Stored(Client)
      PROVE  /\ task \in Task
             /\ sessions[task.key] # Nil
             /\ task.row = sessions[task.key]
             /\ task = [key |-> task.key, row |-> sessions[task.key],
                        reason |-> sessions[task.key].reason]
  <2>1. task \in Task
    BY <1>2, StoredType
  <2>2. PICK key \in Key :
          /\ sessions[key] # Nil
          /\ task = [key |-> key, row |-> sessions[key], reason |-> sessions[key].reason]
    BY DEF Stored
  <2>3. task.key = key /\ task.row = sessions[key]
    BY <2>2
  <2> QED
    BY <2>1, <2>2, <2>3
<1>5. \A task, other \in todo : task.key = other.key => task = other
  BY <1>4
<1> QED
  BY <1>1, <1>3, <1>4, <1>5

LEMMA TickerTask ==
    ASSUME ReservationInv
    PROVE  /\ job[Ticker] \in Job /\ job[Ticker].todo \in SUBSET Task
           /\ job[Ticker].pc = "reviewDelete" => job[Ticker].at \in Task
<1>1. TypeOK /\ Ticker \in Goroutine
  BY DEF ReservationInv, Goroutine
<1> QED
  BY <1>1, JobType DEF Job, RowPc

AtReview(task) ==
    /\ job'[Ticker].pc = "reviewDelete"
    /\ job'[Ticker].at = task /\ job'[Ticker].todo = job[Ticker].todo

LEMMA ReviewRowStep ==
    ASSUME ReservationInv, ReviewRow
    PROVE  /\ Moves(Ticker) /\ UNCHANGED <<sessions, rdns>>
           /\ \E task \in job[Ticker].todo :
                \/ /\ AtReview(task)
                   /\ RemoveForwardRule(portalFw, task.key[1], task.row.addr,
                                        DestIP(task.row))
                \/ ReviewsOn(job[Ticker].todo \ {task}) /\ UNCHANGED nat
                \/ /\ AtReview(task)
                   /\ portalFw = "none" \/ task.row.target = Nil
                   /\ UNCHANGED nat
<1>1. TypeOK /\ job[Ticker] \in Job /\ Ticker \in Goroutine
  BY TickerTask DEF ReservationInv, Goroutine
<1>2. ASSUME NEW task, Continue(Ticker, [job[Ticker] EXCEPT !.pc = "reviewDelete", !.at = task])
      PROVE  Moves(Ticker) /\ AtReview(task)
  <2> DEFINE local == [job[Ticker] EXCEPT !.pc = "reviewDelete", !.at = task]
  <2>1. local.pc = "reviewDelete" /\ local.at = task /\ local.todo = job[Ticker].todo
    BY <1>1 DEF Job
  <2>2. Continue(Ticker, local)
    BY <1>2
  <2> HIDE DEF local
  <2>3. job'[Ticker] = local /\ Moves(Ticker)
    BY <1>1, <2>2, ContinueMoves
  <2> QED
    BY <2>1, <2>3 DEF AtReview
<1>3. PICK task \in job[Ticker].todo :
        \/ /\ RemoveForwardRule(portalFw, task.key[1], task.row.addr, DestIP(task.row))
           /\ Continue(Ticker, [job[Ticker] EXCEPT !.pc = "reviewDelete", !.at = task])
        \/ /\ RemoveForwardRuleFails(portalFw, task.key[1], task.row.addr, DestIP(task.row))
           /\ Continue(Ticker, NextReview(job[Ticker], job[Ticker].todo \ {task}))
        \/ /\ portalFw = "none" \/ task.row.target = Nil
           /\ Continue(Ticker, [job[Ticker] EXCEPT !.pc = "reviewDelete", !.at = task])
           /\ UNCHANGED nat
  BY DEF ReviewRow
<1>4. UNCHANGED <<sessions, rdns>>
  BY DEF ReviewRow, db
<1>5. ASSUME Continue(Ticker, NextReview(job[Ticker], job[Ticker].todo \ {task}))
      PROVE  Moves(Ticker) /\ ReviewsOn(job[Ticker].todo \ {task})
  <2> DEFINE todo == job[Ticker].todo \ {task}
  <2> HIDE DEF todo
  <2>1. Continue(Ticker, NextReview(job[Ticker], todo))
    BY <1>5 DEF todo
  <2>2. Moves(Ticker) /\ ReviewsOn(todo)
    BY <1>1, <2>1, ReviewsOnStep
  <2> QED
    BY <2>2 DEF todo
<1> QED
  BY <1>2, <1>3, <1>4, <1>5 DEF RemoveForwardRuleFails

LEMMA ReviewDeleteStep ==
    ASSUME ReservationInv, Orderly, ReviewDelete
    PROVE  /\ Moves(Ticker) /\ UNCHANGED <<rdns, nat>>
           /\ job[Ticker].pc = "reviewDelete"
           /\ sessions' = [sessions EXCEPT ![job[Ticker].at.key] = Nil]
           /\ ReviewsOn(job[Ticker].todo \ {job[Ticker].at})
<1>1. TypeOK /\ job[Ticker] \in Job
  BY TickerTask DEF ReservationInv
<1> DEFINE todo == job[Ticker].todo \ {job[Ticker].at}
<1>2. Continue(Ticker, NextReview(job[Ticker], todo))
  BY DEF ReviewDelete
<1> HIDE DEF todo
<1>3. Moves(Ticker) /\ ReviewsOn(todo)
  BY <1>1, <1>2, ReviewsOnStep
<1> QED
  BY <1>3 DEF ReviewDelete, At, DeleteDNSSession, Conflict, Orderly, todo

LEMMA NoReviewExtend ==
    ASSUME ReservationInv
    PROVE  ~ ReviewExtend
BY DEF ReviewExtend, ReservationInv

\* The rules after a call: those before it, but for one more or one less.
Adds(client, addr, dest) ==
    /\ addr # NoIP
    /\ \A slot \in Client \X Address : \A d \in Dest :
          nat'[slot][d] = IF slot = <<client, addr>> /\ d = dest
                          THEN nat[slot][d] + 1 ELSE nat[slot][d]

Removes(client, addr, dest) ==
    /\ Installed(client, addr, dest)
    /\ \A slot \in Client \X Address : \A d \in Dest :
          nat'[slot][d] = IF slot = <<client, addr>> /\ d = dest
                          THEN nat[slot][d] - 1 ELSE nat[slot][d]

LEMMA AddsRule ==
    ASSUME TypeOK, NEW fw, NEW client, NEW addr, NEW dest,
           AddForwardRule(fw, client, addr, dest)
    PROVE  \/ fw = "iptables" /\ addr # Own[client] /\ Adds(client, addr, dest)
           \/ /\ fw # "iptables" \/ addr \in {NoIP, Own[client]} \/ "iptables" \in Events
              /\ UNCHANGED nat
<1>1. CASE /\ fw # "iptables" \/ addr \in {NoIP, Own[client]} \/ "iptables" \in Events
           /\ UNCHANGED nat
  BY <1>1
<1>2. CASE fw = "iptables" /\ addr \notin {NoIP, Own[client]}
           /\ nat' = [nat EXCEPT ![<<client, addr>>][dest] = @ + 1]
  <2>1. nat \in [Client \X Address -> [Dest -> Nat]]
    BY DEF TypeOK
  <2> DEFINE place == <<client, addr>>
             new == [nat[place] EXCEPT ![dest] = nat[place][dest] + 1]
  <2>2. nat' = [nat EXCEPT ![place] = new]
    BY <1>2
  <2>3. ASSUME NEW slot \in Client \X Address, NEW d \in Dest
        PROVE  nat'[slot][d] = IF slot = place /\ d = dest
                               THEN nat[slot][d] + 1 ELSE nat[slot][d]
    <3>1. CASE slot # place
      <4> HIDE DEF place, new
      <4> QED
        BY <2>1, <2>2, <3>1
    <3>2. CASE slot = place
      <4>1. nat[slot] \in [Dest -> Nat] /\ nat'[slot] = new
        <5> HIDE DEF place, new
        <5> QED
          BY <2>1, <2>2, <3>2
      <4>2. new[d] = IF d = dest THEN nat[slot][d] + 1 ELSE nat[slot][d]
        <5> HIDE DEF place
        <5> QED
          BY <3>2, <4>1
      <4> QED
        BY <3>2, <4>1, <4>2
    <3> QED
      BY <3>1, <3>2
  <2> QED
    BY <1>2, <2>3 DEF Adds
<1> QED
  BY <1>1, <1>2 DEF AddForwardRule

LEMMA RemovesRule ==
    ASSUME TypeOK, NEW fw, NEW client, NEW addr, NEW dest,
           RemoveForwardRule(fw, client, addr, dest)
    PROVE  fw = "iptables" /\ Removes(client, addr, dest)
<1>1. nat \in [Client \X Address -> [Dest -> Nat]]
  BY DEF TypeOK
<1> DEFINE place == <<client, addr>>
           new == [nat[place] EXCEPT ![dest] = nat[place][dest] - 1]
<1>2. nat' = [nat EXCEPT ![place] = new] /\ fw = "iptables" /\ Installed(client, addr, dest)
  BY DEF RemoveForwardRule
<1>3. ASSUME NEW slot \in Client \X Address, NEW d \in Dest
      PROVE  nat'[slot][d] = IF slot = place /\ d = dest
                             THEN nat[slot][d] - 1 ELSE nat[slot][d]
  <2>1. CASE slot # place
    <3> HIDE DEF place, new
    <3> QED
      BY <1>1, <1>2, <2>1
  <2>2. CASE slot = place
    <3>1. nat[slot] \in [Dest -> Nat] /\ nat'[slot] = new
      <4> HIDE DEF place, new
      <4> QED
        BY <1>1, <1>2, <2>2
    <3>2. new[d] = IF d = dest THEN nat[slot][d] - 1 ELSE nat[slot][d]
      <4> HIDE DEF place
      <4> QED
        BY <2>2, <3>1
    <3> QED
      BY <2>2, <3>1, <3>2
  <2> QED
    BY <2>1, <2>2
<1> QED
  BY <1>2, <1>3 DEF Removes

-----------------------------------------------------------------------------
(***************************************************************************)
(* Rules lead where the name leads: ForeignInv is inductive.               *)
(***************************************************************************)

\* No reservation ends.
Grows == \A slot \in Slot : rdns[slot] # Nil => rdns'[slot] = rdns[slot]

LEMMA OwnedKept ==
    ASSUME Grows, NEW client \in Client, NEW host \in Host,
           NEW row, row.addr \in Address \cup {NoIP}, Owned(client, host, row)
    PROVE  Owned(client, host, row)'
<1>1. CASE Kept(row.addr)
  <2> DEFINE slot == SlotOf(client, row.addr)
  <2>1. slot \in Slot
    BY <1>1, PoolOffsets DEF SlotOf, Slot
  <2>2. rdns[slot] = host /\ host # Nil
    BY <1>1, ForwardingAssumption DEF Owned
  <2>3. rdns'[slot] = host
    BY <2>1, <2>2 DEF Grows
  <2> QED
    BY <2>3 DEF Owned, SlotOf, OffsetOf
<1>2. CASE ~ Kept(row.addr)
  BY <1>2 DEF Owned, Kept, OffsetOf
<1> QED
  BY <1>1, <1>2

LEMMA OwnedSame ==
    ASSUME NEW client, NEW host, NEW row, NEW other, Owned(client, host, row),
           other.target = row.target, other.addr = row.addr
    PROVE  Owned(client, host, other)
BY DEF Owned

\* What a goroutine holds stays its own.
LEMMA BystanderOwns ==
    ASSUME TypeOK, Grows, NEW g \in Goroutine, job'[g] = job[g]
    PROVE  /\ TasksOwned(job[g]) => TasksOwned(job[g])'
           /\ DraftOwned(job[g]) => DraftOwned(job[g])'
<1>1. ASSUME TasksOwned(job[g])
      PROVE  TasksOwned(job[g])'
  <2>1. ASSUME NEW task \in job[g].todo, Owned(task.key[1], task.key[2], task.row)
        PROVE  Owned(task.key[1], task.key[2], task.row)'
    <3>1. task \in Task
      BY JobType DEF Job
    <3>2. /\ task.key[1] \in Client /\ task.key[2] \in Host
          /\ task.row.addr \in Address \cup {NoIP}
      BY <3>1 DEF Task, Key, Row
    <3> QED
      BY <2>1, <3>2, OwnedKept
  <2> QED
    BY <1>1, <2>1 DEF TasksOwned
<1>2. ASSUME DraftOwned(job[g])
      PROVE  DraftOwned(job[g])'
  <2> SUFFICES ASSUME job[g].pc \in {"resolve"} \cup AllocPc, job[g].row # Nil
               PROVE  /\ Owned(job[g].client, job[g].host, job[g].row)'
                      /\ job[g].pc \in AllocPc \ {"store"} => job[g].row.target # Nil
    BY DEF DraftOwned
  <2>1. /\ job[g].client \in Client /\ job[g].host \in Host
        /\ job[g].row.addr \in Address \cup {NoIP}
    BY JobType DEF QueryPc, Job, Row
  <2>2. Owned(job[g].client, job[g].host, job[g].row)
    BY <1>2 DEF DraftOwned
  <2>3. PICK c \in Client, h \in Host : c = job[g].client /\ h = job[g].host
    BY <2>1
  <2>4. PICK r : r = job[g].row
    OBVIOUS
  <2>5. Owned(c, h, r)'
    BY <2>1, <2>2, <2>3, <2>4, OwnedKept
  <2> QED
    BY <1>2, <2>3, <2>4, <2>5 DEF DraftOwned
<1> QED
  BY <1>1, <1>2

\* Every rule that a step adds leads where the address's reservation says.
NewRulesOwned ==
    \A slot \in Client \X Address : \A dest \in Dest :
       nat'[slot][dest] > 0 /\ ~ nat[slot][dest] > 0 /\ Kept(slot[2]) =>
          /\ rdns'[SlotOf(slot[1], slot[2])] \in Host
          /\ dest \in Target => dest \in Targets(rdns'[SlotOf(slot[1], slot[2])])

\* Rows keep their records and addresses, or are someone's own.
RowsOwned ==
    \A key \in Key :
       sessions'[key] # Nil =>
          \/ /\ sessions[key] # Nil
             /\ sessions'[key].target = sessions[key].target
             /\ sessions'[key].addr = sessions[key].addr
          \/ Owned(key[1], key[2], sessions'[key])

\* Nobody is served with a row that main is about to drop.
LEMMA StoredOwned ==
    ASSUME ForeignInv, Up, NEW key \in Key, sessions[key] # Nil
    PROVE  Owned(key[1], key[2], sessions[key])
BY DEF ForeignInv, Dropping

LEMMA RulesStayOwned ==
    ASSUME TypeOK, RulesAreOwned, RulesAreReserved, Grows, NewRulesOwned
    PROVE  RulesAreOwned' /\ RulesAreReserved'
<1>1. ASSUME NEW slot \in Client \X Address, NEW dest \in Dest,
             nat'[slot][dest] > 0, Kept(slot[2])
      PROVE  LET host == rdns'[SlotOf(slot[1], slot[2])]
             IN  host \in Host /\ (dest \in Target => dest \in Targets(host))
  <2>1. CASE nat[slot][dest] > 0
    <3> DEFINE place == SlotOf(slot[1], slot[2])
    <3>1. place \in Slot
      BY <1>1, PoolOffsets DEF SlotOf, Slot
    <3>2. rdns[place] # Nil /\ (dest \in Target => dest \in Targets(rdns[place]))
      BY <1>1, <2>1 DEF RulesAreReserved, RulesAreOwned, SlotOf
    <3>3. rdns[place] \in Host
      BY <3>1, <3>2 DEF TypeOK
    <3> QED
      BY <3>1, <3>2, <3>3 DEF Grows
  <2>2. CASE ~ nat[slot][dest] > 0
    BY <1>1, <2>2 DEF NewRulesOwned
  <2> QED
    BY <2>1, <2>2
<1>2. Target \subseteq Dest
  BY DEF Dest
<1> QED
  BY <1>1, <1>2, ForwardingAssumption
     DEF RulesAreOwned, RulesAreReserved, SlotOf, Kept, OffsetOf

LEMMA NoRulesOwned ==
    ASSUME \A slot \in Client \X Address : nat[slot] = NoRules[slot]
    PROVE  RulesAreOwned /\ RulesAreReserved
<1>1. \A slot \in Client \X Address : \A dest \in Dest : ~ nat[slot][dest] > 0
  BY DEF NoRules
<1> QED
  BY <1>1 DEF RulesAreOwned, RulesAreReserved, Dest

LEMMA ForeignStep ==
    ASSUME ReservationInv, ForeignInv, TypeOK', Up, Grows, NewRulesOwned, RowsOwned,
           UNCHANGED <<portalFw, dnsFw>>, dnsFw # "iptables" => UNCHANGED nat,
           NEW g \in Worker \cup {Ticker}, Moves(g),
           TasksOwned(job[g])', job'[g].pc \notin FlushPc,
           g \in Worker => DraftOwned(job[g])'
    PROVE  ForeignInv'
<1>1. TypeOK
  BY DEF ReservationInv
<1>2. job'[Admin] = job[Admin] /\ Up' /\ BootOwned(job[Admin])'
  <2>1. job'[Admin] = job[Admin]
    BY ForwardingAssumption DEF Moves, Goroutine
  <2> QED
    BY <2>1 DEF Up, BootOwned
<1>3. RulesAreOwned' /\ RulesAreReserved'
  BY <1>1, RulesStayOwned DEF ForeignInv
<1>4. ASSUME NEW key \in Key, sessions'[key] # Nil
      PROVE  Owned(key[1], key[2], sessions[key])'
  <2>1. key[1] \in Client /\ key[2] \in Host
    BY DEF Key
  <2>2. sessions'[key] \in Row
    BY <1>4 DEF TypeOK
  <2>3. Owned(key[1], key[2], sessions'[key])
    BY <1>4, StoredOwned, OwnedSame DEF RowsOwned
  <2>4. PICK client \in Client, host \in Host : client = key[1] /\ host = key[2]
    BY <2>1
  <2>5. PICK row : row = sessions'[key]
    OBVIOUS
  <2>6. row.addr \in Address \cup {NoIP} /\ Owned(client, host, row)
    BY <2>2, <2>3, <2>4, <2>5 DEF Row
  <2>7. Owned(client, host, row)'
    BY <2>6, OwnedKept
  <2> QED
    BY <2>4, <2>5, <2>7
<1>5. ASSUME NEW h \in Worker \cup {Ticker}
      PROVE  TasksOwned(job[h])' /\ job'[h].pc \notin FlushPc
  <2>1. CASE h # g
    <3>1. job'[h] = job[h] /\ h \in Goroutine
      BY <2>1 DEF Moves, Goroutine
    <3> QED
      BY <1>1, <3>1, BystanderOwns DEF ForeignInv
  <2> QED
    BY <2>1
<1>6. ASSUME NEW w \in Worker
      PROVE  DraftOwned(job[w])'
  <2>1. CASE w # g
    <3>1. job'[w] = job[w] /\ w \in Goroutine
      BY <2>1 DEF Moves, Goroutine
    <3> QED
      BY <1>1, <3>1, BystanderOwns DEF ForeignInv
  <2> QED
    BY <2>1
<1>7. (dnsFw = portalFw)' /\ (dnsFw # "iptables" => nat = NoRules)'
  BY DEF ForeignInv, NoRules
<1> QED
  BY <1>2, <1>3, <1>4, <1>5, <1>6, <1>7 DEF ForeignInv

\* A step that leaves a table as it is, or only removes a rule.
LEMMA StillOwned ==
    /\ UNCHANGED rdns => Grows
    /\ UNCHANGED sessions => RowsOwned
    /\ UNCHANGED nat => NewRulesOwned
    /\ TypeOK => \A client, addr, dest : Removes(client, addr, dest) => NewRulesOwned
<1>1. UNCHANGED rdns => Grows
  BY DEF Grows
<1>2. UNCHANGED sessions => RowsOwned
  BY DEF RowsOwned
<1>3. UNCHANGED nat => NewRulesOwned
  BY DEF NewRulesOwned
<1>4. ASSUME TypeOK, NEW client, NEW addr, NEW dest, Removes(client, addr, dest)
      PROVE  NewRulesOwned
  <2>1. ASSUME NEW slot \in Client \X Address, NEW d \in Dest, nat'[slot][d] > 0
        PROVE  nat[slot][d] > 0
    <3>1. nat[slot][d] \in Nat
      BY <1>4 DEF TypeOK
    <3> QED
      BY <1>4, <2>1, <3>1 DEF Removes
  <2> QED
    BY <2>1 DEF NewRulesOwned
<1> QED
  BY <1>1, <1>2, <1>3, <1>4

LEMMA RowWritten ==
    ASSUME ReservationInv, NEW key \in Key, NEW row, sessions' = [sessions EXCEPT ![key] = row],
           Owned(key[1], key[2], row)
    PROVE  RowsOwned
<1> SUFFICES ASSUME NEW k \in Key, sessions'[k] # Nil
             PROVE  \/ /\ sessions[k] # Nil
                       /\ sessions'[k].target = sessions[k].target
                       /\ sessions'[k].addr = sessions[k].addr
                    \/ Owned(k[1], k[2], sessions'[k])
  BY DEF RowsOwned
<1>1. sessions \in [Key -> Row \cup {Nil}]
  BY DEF ReservationInv, TypeOK
<1>2. CASE k = key
  <2>1. sessions'[k] = row
    BY <1>1, <1>2
  <2> QED
    BY <1>2, <2>1
<1>3. CASE k # key
  <2>1. sessions'[k] = sessions[k]
    BY <1>1, <1>3
  <2> QED
    BY <2>1
<1> QED
  BY <1>2, <1>3

\* Only an access that is not refused leads to a host's real address.
LEMMA DestTarget ==
    ASSUME NEW row, row.ifc \in Interface, DestIP(row) \in Target
    PROVE  DestIP(row) = row.target
BY ForwardingAssumption DEF DestIP

\* A rule made for a row of the host leads where the host's name leads.
LEMMA NewRuleOwned ==
    ASSUME TypeOK, UNCHANGED rdns, NEW client \in Client, NEW host \in Host, NEW row, NEW dest,
           Owned(client, host, row), dest \in Target => dest = row.target,
           AddForwardRule(dnsFw, client, row.addr, dest)
    PROVE  NewRulesOwned /\ (dnsFw # "iptables" => UNCHANGED nat)
<1>1. (dnsFw = "iptables" /\ Adds(client, row.addr, dest)) \/ UNCHANGED nat
  BY AddsRule
<1>2. CASE UNCHANGED nat
  BY <1>2, StillOwned
<1>3. CASE dnsFw = "iptables" /\ Adds(client, row.addr, dest)
  <2> SUFFICES ASSUME NEW slot \in Client \X Address, NEW d \in Dest,
                      nat'[slot][d] > 0, ~ nat[slot][d] > 0, Kept(slot[2])
               PROVE  LET name == rdns'[SlotOf(slot[1], slot[2])]
                      IN  name \in Host /\ (d \in Target => d \in Targets(name))
    BY <1>3 DEF NewRulesOwned
  <2>1. slot = <<client, row.addr>> /\ d = dest
    BY <1>3 DEF Adds
  <2>2. rdns'[SlotOf(slot[1], slot[2])] = host
    BY <2>1 DEF Owned
  <2> QED
    BY <2>1, <2>2, ForwardingAssumption DEF Owned
<1> QED
  BY <1>1, <1>2, <1>3

\* The row a request goes on with is its host's own.
LEMMA DraftGoesOwned ==
    ASSUME ReservationInv, TypeOK', Grows, NEW w \in Worker, job[w].pc \in QueryPc,
           SameRequest(w), NEW row, row = job'[w].row,
           row # Nil => Owned(job[w].client, job[w].host, row),
           job'[w].pc \in AllocPc \ {"store"} => row.target # Nil
    PROVE  DraftOwned(job[w])'
<1>1. PICK client \in Client, host \in Host : client = job[w].client /\ host = job[w].host
  BY DraftFacts
<1> SUFFICES ASSUME job'[w].pc \in {"resolve"} \cup AllocPc, row # Nil
             PROVE  Owned(client, host, row)'
  BY <1>1 DEF DraftOwned, SameRequest
<1>2. row \in Row
  <2>1. job'[w] \in Job
    BY DEF TypeOK, Goroutine
  <2> QED
    BY <2>1 DEF Job
<1>3. row.addr \in Address \cup {NoIP} /\ Owned(client, host, row)
  BY <1>1, <1>2 DEF Row
<1> QED
  BY <1>3, OwnedKept

LEMMA QueryForeign ==
    ASSUME ReservationInv, TypeOK', Orderly, ForeignInv, NEW w \in Worker, Query(w)
    PROVE  ForeignInv'
<1>1. PICK client \in Client, host \in Host :
        /\ client = job[w].client /\ host = job[w].host
        /\ job[w].pc \in QueryPc /\ job[w] \in Job /\ <<client, host>> \in Key
        /\ OwnKey(w) = <<client, host>> /\ Up
  <2>1. job[w].pc \in QueryPc
    BY DEF Query, LookupHit, LookupMiss, Resolve, ResolveFails, AllocGet, AllocDelete,
       AllocList, AllocCreate, AllocAdd, Store, At, QueryPc, AllocPc
  <2> QED
    BY <2>1, DraftFacts DEF OwnKey
<1>2. UNCHANGED <<portalFw, dnsFw>>
  BY DEF Query, LookupHit, LookupMiss, Resolve, ResolveFails, AllocGet, AllocDelete,
     AllocList, AllocCreate, AllocAdd, Store
<1>3. TypeOK /\ DraftOwned(job[w]) /\ w \in Goroutine
  BY DEF ReservationInv, ForeignInv, Goroutine
<1>4. ASSUME Moves(w), Grows, NewRulesOwned, RowsOwned, dnsFw # "iptables" => UNCHANGED nat,
             job'[w].pc \in QueryPc, DraftOwned(job[w])'
      PROVE  ForeignInv'
  <2>1. job'[w].pc \notin ReevalPc \cup ReviewPc \cup FlushPc
    BY <1>4 DEF QueryPc, AllocPc, ReevalPc, ReviewPc, FlushPc
  <2>2. TasksOwned(job[w])'
    BY <2>1 DEF TasksOwned
  <2> QED
    BY <1>1, <1>2, <1>3, <1>4, <2>1, <2>2, ForeignStep
<1>5. ASSUME Moves(w), Finished(w), RowsOwned, UNCHANGED <<rdns, nat>>
      PROVE  ForeignInv'
  <2>1. job'[w].pc \notin QueryPc \cup ReevalPc \cup ReviewPc \cup FlushPc
    BY <1>5 DEF Finished, QueryPc, AllocPc, ReevalPc, ReviewPc, FlushPc
  <2>2. TasksOwned(job[w])' /\ DraftOwned(job[w])'
    BY <2>1 DEF TasksOwned, DraftOwned, QueryPc
  <2> QED
    BY <1>1, <1>2, <1>3, <1>5, <2>1, <2>2, ForeignStep, StillOwned
<1>6. ASSUME Moves(w), SameRequest(w), UNCHANGED <<sessions, rdns, nat>>,
             job'[w].pc \in QueryPc, NEW row, row = job'[w].row,
             row # Nil => Owned(client, host, row),
             job'[w].pc \in AllocPc \ {"store"} => row.target # Nil
      PROVE  ForeignInv'
  <2>1. Grows /\ NewRulesOwned /\ RowsOwned
    BY <1>6, StillOwned
  <2>2. DraftOwned(job[w])'
    BY <1>1, <1>6, <2>1, DraftGoesOwned
  <2> QED
    BY <1>4, <1>6, <2>1, <2>2
<1>7. CASE LookupHit(w)
  <2> DEFINE row == job'[w].row
  <2>1. /\ Moves(w) /\ SameRequest(w) /\ UNCHANGED <<sessions, rdns, nat>>
        /\ job'[w].pc = "store" /\ sessions[<<client, host>>] # Nil
        /\ SameAnswer(row, sessions[<<client, host>>])
    BY <1>1, <1>7, LookupHitStep
  <2>2. Owned(client, host, sessions[<<client, host>>])
    BY <1>1, <2>1, StoredOwned
  <2>3. Owned(client, host, row)
    BY <2>1, <2>2 DEF Owned, SameAnswer
  <2> QED
    BY <1>6, <2>1, <2>3 DEF QueryPc, AllocPc
<1>8. CASE LookupMiss(w)
  <2>1. /\ Moves(w) /\ SameRequest(w) /\ UNCHANGED <<sessions, rdns, nat>>
        /\ job'[w].pc = "resolve" /\ job'[w].row = sessions[<<client, host>>]
    BY <1>1, <1>8, LookupMissStep
  <2>2. sessions[<<client, host>>] # Nil => Owned(client, host, sessions[<<client, host>>])
    BY <1>1, StoredOwned
  <2> QED
    BY <1>6, <2>1, <2>2 DEF QueryPc, AllocPc
<1>9. CASE Resolve(w)
  <2>1. PICK records \in Answer[host] : \E target \in Picked(job[w].row, records) :
          /\ job'[w].row = Merged(job[w], target)
          /\ job'[w].pc = AllocateFrom(Merged(job[w], target))
    BY <1>1, <1>9, ResolveStep
  <2>2. PICK target \in Picked(job[w].row, records) :
          /\ job'[w].row = Merged(job[w], target)
          /\ job'[w].pc = AllocateFrom(Merged(job[w], target))
    BY <2>1
  <2> DEFINE old == job[w].row
             row == Merged(job[w], target)
  <2>3. job[w].pc = "resolve" /\ (old # Nil => Owned(client, host, old))
    BY <1>1, <1>3, <1>9 DEF Resolve, At, DraftOwned
  <2>4. records \subseteq Targets(host)
    BY <2>1 DEF Targets
  <2>5. target \in Targets(host) \cup {Nil}
    BY <2>2, <2>3, <2>4 DEF Picked, Owned
  <2>6. row.target = target
        /\ row.addr = IF old # Nil /\ old.target = target THEN old.addr ELSE NoIP
    BY MergedFields
  <2>7. Owned(client, host, row)
    BY <2>3, <2>5, <2>6 DEF Owned, Kept
  <2>8. job'[w].pc \in QueryPc /\ (job'[w].pc \in AllocPc \ {"store"} => row.target # Nil)
    BY <2>2 DEF AllocateFrom, QueryPc, AllocPc
  <2>9. Moves(w) /\ SameRequest(w) /\ UNCHANGED <<sessions, rdns, nat>>
    BY <1>9, ResolveStep
  <2> HIDE DEF row
  <2> QED
    BY <1>6, <2>2, <2>7, <2>8, <2>9 DEF row
<1>10. CASE ResolveFails(w)
  <2>1. Finished(w) /\ Moves(w) /\ UNCHANGED <<sessions, rdns, nat>>
    BY <1>10, FinishMoves DEF ResolveFails, ReservationInv, Goroutine, db
  <2> QED
    BY <1>5, <2>1, StillOwned
<1>11. ASSUME job[w].pc \in AllocPc
       PROVE  /\ job[w].row \in Row /\ job[w].row # Nil /\ Owned(client, host, job[w].row)
              /\ job[w].pc # "store" => job[w].row.target # Nil
  BY <1>1, <1>3, <1>11, DraftFacts DEF DraftOwned
<1>12. CASE AllocGet(w) \/ AllocList(w)
  <2>1. job[w].pc \in AllocPc \ {"store"}
    BY <1>12 DEF AllocGet, AllocList, At, AllocPc
  <2>2. /\ Moves(w) /\ SameRequest(w) /\ UNCHANGED <<sessions, rdns, nat>>
        /\ job'[w].row = job[w].row /\ job'[w].pc \in AllocPc
    BY <1>12, AllocGetStep, AllocListStep DEF AllocPc
  <2> QED
    BY <1>6, <1>11, <2>1, <2>2 DEF QueryPc
<1>13. CASE AllocCreate(w)
  <2>1. job[w].pc \in AllocPc /\ job[w].pc # "store"
    BY <1>13 DEF AllocCreate, At, AllocPc
  <2>2. PICK addr \in Address : addr = IP4fromOffset(job[w].offset)
    BY <1>13, AllocCreateStep
  <2>3. PICK row : row = job'[w].row
    OBVIOUS
  <2> DEFINE slot == SlotOf(client, addr)
  <2>4. /\ Moves(w) /\ SameRequest(w) /\ UNCHANGED <<sessions, nat>>
        /\ slot \in Slot /\ rdns[slot] = Nil /\ rdns' = [rdns EXCEPT ![slot] = host]
        /\ row \in Row /\ row.addr = addr /\ row.target = job[w].row.target
        /\ job'[w].pc \in {"allocAdd", "store"}
    BY <1>1, <1>13, <2>2, <2>3, AllocCreateStep
  <2>5. Grows
    BY <1>3, <2>4 DEF Grows, TypeOK
  <2>6. rdns'[slot] = host
    BY <1>3, <2>4 DEF TypeOK
  <2>7. Owned(client, host, row)'
    <3>1. row.target \in Targets(host) /\ row.target # Nil
      BY <1>11, <2>1, <2>4 DEF Owned
    <3> QED
      BY <2>4, <2>6, <3>1 DEF Owned, SlotOf, OffsetOf
  <2>8. row.target # Nil
    BY <1>11, <2>1, <2>4
  <2>9. DraftOwned(job[w])'
    BY <1>1, <2>3, <2>4, <2>7, <2>8 DEF DraftOwned, SameRequest
  <2> QED
    BY <1>4, <2>4, <2>5, <2>9, StillOwned DEF QueryPc, AllocPc
<1>14. CASE AllocAdd(w)
  <2> DEFINE row == job[w].row
             sent == [row EXCEPT !.ifc = job[w].ifc]
             dest == DestIP(sent)
  <2>1. job[w].pc \in AllocPc /\ job[w].pc # "store"
    BY <1>14 DEF AllocAdd, At, AllocPc
  <2>2. /\ Moves(w) /\ SameRequest(w) /\ UNCHANGED <<sessions, rdns>>
        /\ job'[w].row = row /\ job'[w].pc = "store"
        /\ AddForwardRule(dnsFw, client, row.addr, dest)
    BY <1>1, <1>14, AllocAddStep
  <2>3. row \in Row /\ row # Nil /\ Owned(client, host, row) /\ row.target # Nil
    BY <1>11, <2>1
  <2>4. job[w].ifc \in Interface
    BY <1>1, <1>3, JobType, ForwardingAssumption
  <2>5. sent.ifc \in Interface /\ sent.target = row.target
    BY <2>3, <2>4 DEF Row
  <2>6. dest \in Target => dest = row.target
    <3> HIDE DEF sent
    <3> QED
      BY <2>5, DestTarget
  <2> HIDE DEF dest
  <2>7. NewRulesOwned /\ (dnsFw # "iptables" => UNCHANGED nat)
    BY <1>3, <2>2, <2>3, <2>6, NewRuleOwned
  <2>8. Grows /\ RowsOwned
    BY <2>2, StillOwned
  <2>9. DraftOwned(job[w])'
    BY <1>1, <2>2, <2>3, <2>8, DraftGoesOwned
  <2> QED
    BY <1>4, <2>2, <2>7, <2>8, <2>9 DEF QueryPc, AllocPc
<1>15. CASE Store(w)
  <2>1. job[w].pc \in AllocPc
    BY <1>15 DEF Store, At, AllocPc
  <2>2. /\ Moves(w) /\ Finished(w) /\ UNCHANGED <<rdns, nat>>
        /\ sessions' = [sessions EXCEPT ![<<client, host>>] = job[w].row]
           \/ UNCHANGED sessions
    BY <1>1, <1>15, StoreStep
  <2>3. Owned(client, host, job[w].row)
    BY <1>11, <2>1
  <2>4. RowsOwned
    BY <1>1, <2>2, <2>3, RowWritten, StillOwned
  <2> QED
    BY <1>5, <2>2, <2>4
<1> QED
  BY <1>7, <1>8, <1>9, <1>10, <1>12, <1>13, <1>14, <1>15, NoAllocDelete DEF Query

LEMMA TasksStayOwned ==
    ASSUME Grows, NEW todo \in SUBSET Task,
           \A task \in todo : Owned(task.key[1], task.key[2], task.row)
    PROVE  \A task \in todo : Owned(task.key[1], task.key[2], task.row)'
<1> SUFFICES ASSUME NEW task \in todo
             PROVE  Owned(task.key[1], task.key[2], task.row)'
  OBVIOUS
<1>1. /\ task.key[1] \in Client /\ task.key[2] \in Host
      /\ task.row.addr \in Address \cup {NoIP}
  BY DEF Task, Key, Row
<1> QED
  BY <1>1, OwnedKept

\* What is left of a snapshot goes on being each host's own.
LEMMA GoesOnOwned ==
    ASSUME TypeOK', Grows, NEW w \in Worker, NEW todo, GoesOn(w, todo),
           \A task \in todo : Owned(task.key[1], task.key[2], task.row)
    PROVE  TasksOwned(job[w])' /\ DraftOwned(job[w])' /\ job'[w].pc \notin FlushPc
<1>1. CASE job'[w].pc = "reevalRow" /\ job'[w].todo = todo
  <2>1. todo \in SUBSET Task
    <3>1. job'[w] \in Job
      BY DEF TypeOK, Goroutine
    <3> QED
      BY <1>1, <3>1 DEF Job
  <2>2. \A task \in todo : Owned(task.key[1], task.key[2], task.row)'
    BY <2>1, TasksStayOwned
  <2>3. /\ job'[w].pc \notin RowPc \cup FlushPc
        /\ job'[w].pc \notin {"resolve"} \cup AllocPc
    BY <1>1 DEF RowPc, FlushPc, AllocPc
  <2> QED
    BY <1>1, <2>2, <2>3 DEF TasksOwned, DraftOwned
<1>2. CASE job'[w].pc \in {"lookup", "handle", "idle"}
  <2>1. job'[w].pc \notin {"resolve"} \cup AllocPc \cup ReevalPc \cup ReviewPc \cup FlushPc
    BY <1>2 DEF AllocPc, ReevalPc, ReviewPc, FlushPc
  <2> QED
    BY <2>1 DEF TasksOwned, DraftOwned
<1> QED
  BY <1>1, <1>2 DEF GoesOn, Finished

LEMMA ReevalForeign ==
    ASSUME ReservationInv, TypeOK', Orderly, ForeignInv, NEW w \in Worker, Reeval(w)
    PROVE  ForeignInv'
<1>1. job[w].pc \in ReevalPc /\ UNCHANGED <<rdns, portalFw, dnsFw>>
  BY DEF Reeval, Reevaluate, ReevalRow, ReevalSave, ReevalAdd, ReevalStore, At, ReevalPc, db
<1>2. TypeOK /\ w \in Goroutine /\ Grows
  BY <1>1, StillOwned DEF ReservationInv, Goroutine
<1>3. PICK client \in Client : client = job[w].client /\ job[w].todo \in SUBSET Task /\ Up
  BY <1>1, SnapshotFacts
<1>4. ASSUME job[w].pc # "reevaluate"
      PROVE  \A task \in job[w].todo : Owned(task.key[1], task.key[2], task.row)
  BY <1>1, <1>2, <1>4 DEF ForeignInv, TasksOwned
<1>5. ASSUME Moves(w), NEW todo, GoesOn(w, todo), NewRulesOwned, RowsOwned, UNCHANGED nat,
             \A task \in todo : Owned(task.key[1], task.key[2], task.row)
      PROVE  ForeignInv'
  BY <1>1, <1>2, <1>3, <1>5, GoesOnOwned, ForeignStep
<1>6. ASSUME Moves(w), NEW task \in job[w].todo, job[w].pc # "reevaluate", NewRulesOwned,
             NEW pc \in {"reevalSave", "reevalAdd", "reevalStore"}, AtTask(w, task, pc),
             RowsOwned, dnsFw # "iptables" => UNCHANGED nat
      PROVE  ForeignInv'
  <2>1. job'[w].pc \in ReevalPc /\ job'[w].pc \notin {"resolve"} \cup AllocPc \cup FlushPc
    BY <1>6 DEF AtTask, ReevalPc, AllocPc, FlushPc
  <2>2. PICK todo \in SUBSET Task : todo = job[w].todo
    BY <1>3
  <2>3. \A other \in todo : Owned(other.key[1], other.key[2], other.row)'
    BY <1>2, <1>4, <1>6, <2>2, TasksStayOwned
  <2>4. TasksOwned(job[w])'
    BY <1>6, <2>2, <2>3 DEF TasksOwned, AtTask
  <2>5. DraftOwned(job[w])'
    BY <2>1 DEF DraftOwned
  <2> QED
    BY <1>1, <1>2, <1>3, <1>6, <2>1, <2>4, <2>5, ForeignStep
<1>7. CASE Reevaluate(w)
  <2>1. PICK todo : GoesOn(w, todo) /\ Verifies(w, todo)
    BY <1>7, ReevaluateStep
  <2>2. Moves(w) /\ UNCHANGED <<sessions, nat>>
    BY <1>7, ReevaluateStep
  <2>3. ASSUME NEW task \in todo
        PROVE  Owned(task.key[1], task.key[2], task.row)
    <3>1. /\ task \in Task /\ sessions[task.key] # Nil
          /\ SameAnswer(task.row, sessions[task.key])
      BY <2>1 DEF Verifies
    <3>2. task.key \in Key
      BY <3>1 DEF Task
    <3> QED
      BY <1>3, <3>1, <3>2, StoredOwned, OwnedSame DEF SameAnswer
  <2> QED
    BY <1>5, <2>1, <2>2, <2>3, StillOwned
<1>8. CASE ReevalRow(w)
  <2>1. PICK task \in job[w].todo :
          \/ /\ AtTask(w, task, "reevalSave")
             /\ RemoveForwardRule(dnsFw, job[w].client, task.row.addr, DestIP(task.row))
          \/ /\ AtTask(w, task, "reevalStore")
             /\ RemoveForwardRuleFails(dnsFw, job[w].client, task.row.addr, DestIP(task.row))
          \/ /\ AtTask(w, task, "reevalStore")
             /\ UNCHANGED nat
    BY <1>8, ReevalRowStep
  <2>2. Moves(w) /\ UNCHANGED sessions /\ job[w].pc # "reevaluate"
    BY <1>8, ReevalRowStep DEF ReevalRow, At
  <2>3. /\ AtTask(w, task, "reevalSave") \/ AtTask(w, task, "reevalStore")
        /\ NewRulesOwned /\ (dnsFw # "iptables" => UNCHANGED nat)
    BY <1>2, <2>1, RemovesRule, StillOwned DEF RemoveForwardRuleFails
  <2> QED
    BY <1>6, <2>2, <2>3, StillOwned
<1>9. ASSUME job[w].pc \in {"reevalSave", "reevalAdd", "reevalStore"}
      PROVE  /\ job[w].at \in job[w].todo /\ job[w].at.key \in Key
             /\ job[w].at.key[1] = client /\ job[w].at.key[2] \in Host
             /\ Changed(job[w].at) \in Row
             /\ SameAnswer(Changed(job[w].at), job[w].at.row)
             /\ Owned(job[w].at.key[1], job[w].at.key[2], job[w].at.row)
  <2>1. job[w].at \in job[w].todo /\ job[w].at.key \in Key /\ job[w].at.key[1] = client
        /\ Changed(job[w].at) \in Row /\ SameAnswer(Changed(job[w].at), job[w].at.row)
    BY <1>3, <1>9, ReevalTask
  <2> QED
    BY <1>4, <1>9, <2>1 DEF Key
<1>10. ASSUME NEW row, job[w].pc \in {"reevalSave", "reevalStore"}, Updates(job[w].at.key, row),
              SameAnswer(row, job[w].at.row)
       PROVE  RowsOwned
  <2>1. Owned(job[w].at.key[1], job[w].at.key[2], row)
    BY <1>9, <1>10, OwnedSame DEF SameAnswer
  <2> QED
    BY <1>9, <1>10, <2>1, RowWritten, StillOwned DEF Updates
<1>11. CASE ReevalSave(w)
  <2>1. job[w].pc = "reevalSave"
    BY <1>11 DEF ReevalSave, At
  <2>2. /\ Moves(w) /\ UNCHANGED nat /\ AtTask(w, job[w].at, "reevalAdd")
        /\ Updates(job[w].at.key, Changed(job[w].at))
    BY <1>11, ReevalSaveStep
  <2> QED
    BY <1>6, <1>9, <1>10, <2>1, <2>2, StillOwned
<1>12. CASE ReevalAdd(w)
  <2> DEFINE row == Changed(job[w].at)
             dest == DestIP(row)
  <2>1. job[w].pc = "reevalAdd"
    BY <1>12 DEF ReevalAdd, At
  <2>2. /\ Moves(w) /\ UNCHANGED sessions /\ AtTask(w, job[w].at, "reevalStore")
        /\ AddForwardRule(dnsFw, client, job[w].at.row.addr, dest)
    BY <1>3, <1>12, ReevalAddStep
  <2>3. row.ifc \in Interface /\ SameAnswer(row, job[w].at.row)
        /\ Owned(client, job[w].at.key[2], job[w].at.row) /\ job[w].at.key[2] \in Host
    BY <1>9, <2>1 DEF Row
  <2>4. dest \in Target => dest = job[w].at.row.target
    <3> HIDE DEF row
    <3> QED
      BY <2>3, DestTarget DEF SameAnswer
  <2> HIDE DEF dest
  <2>5. NewRulesOwned /\ (dnsFw # "iptables" => UNCHANGED nat)
    BY <1>1, <1>2, <2>2, <2>3, <2>4, NewRuleOwned
  <2> QED
    BY <1>6, <1>9, <2>1, <2>2, <2>5, StillOwned
<1>13. CASE ReevalStore(w)
  <2>1. job[w].pc = "reevalStore"
    BY <1>13 DEF ReevalStore, At
  <2>2. Moves(w) /\ UNCHANGED nat /\ GoesOn(w, job[w].todo \ {job[w].at})
    BY <1>13, ReevalStoreStep
  <2>3. PICK row : Updates(job[w].at.key, row) /\ SameAnswer(row, job[w].at.row)
    BY <1>13, ReevalStoreStep
  <2>4. PICK todo : todo = job[w].todo \ {job[w].at}
    OBVIOUS
  <2>5. \A task \in todo : Owned(task.key[1], task.key[2], task.row)
    BY <1>4, <2>1, <2>4
  <2>6. RowsOwned
    BY <1>10, <2>1, <2>3
  <2> QED
    BY <1>5, <2>2, <2>4, <2>5, <2>6, StillOwned
<1> QED
  BY <1>7, <1>8, <1>11, <1>12, <1>13 DEF Reeval

\* A DNS request or a page's arrives, for a client nobody works for.
LEMMA ArrivalStep ==
    ASSUME ReservationInv, Orderly, "flush" \notin Events, NEW w \in Worker, Requests(w)
    PROVE  /\ Moves(w) /\ UNCHANGED <<sessions, rdns, nat, portalFw, dnsFw, untold>>
           /\ Up /\ job[w].pc = "idle"
           /\ job'[w].pc \in {"reevaluate", "lookup", "page", "handle"}
           /\ job'[w].client \in Client
           /\ \A v \in Worker : job[v].client # job'[w].client
<1> DEFINE Begun == {"reevaluate", "lookup", "page", "handle"}
<1>1. PICK client \in Client :
        \/ \E host \in Host, ifc \in Interface : StartQuery(w, client, host, ifc)
        \/ \E host \in Host : StartPage(w, client, host)
  BY DEF Requests, StartFlush, StartDeleteSession
<1>2. /\ UNCHANGED <<sessions, rdns, nat, portalFw, dnsFw, untold>>
      /\ Up /\ job[w].pc = "idle"
      /\ \A v \in Worker : job[v].client # client
  BY <1>1 DEF StartQuery, StartPage, Accepts, At, Orderly, db, history
<1>3. ASSUME NEW local, Continue(w, local), local.client = client, local.pc \in Begun
      PROVE  Moves(w) /\ job'[w].pc \in Begun /\ job'[w].client = client
  BY <1>3, ContinueMoves DEF ReservationInv, Goroutine
<1>4. ASSUME NEW host \in Host, NEW ifc \in Interface, StartQuery(w, client, host, ifc)
      PROVE  Moves(w) /\ job'[w].pc \in Begun /\ job'[w].client = client
  <2> DEFINE pc == IF unseen[client] THEN "reevaluate" ELSE "lookup"
             local == [Idle EXCEPT !.pc = pc, !.client = client, !.host = host,
                                   !.ifc = ifc, !.ses = policy[client]]
  <2>1. local.client = client /\ local.pc \in Begun
    BY DEF Idle
  <2>2. Continue(w, local)
    BY <1>4 DEF StartQuery
  <2> HIDE DEF local
  <2> QED
    BY <1>3, <2>1, <2>2
<1>5. ASSUME NEW host \in Host, StartPage(w, client, host)
      PROVE  Moves(w) /\ job'[w].pc \in Begun /\ job'[w].client = client
  <2> DEFINE row == sessions[<<client, host>>]
             local == [Idle EXCEPT !.pc = IF row = Nil THEN "handle" ELSE "page",
                                   !.client = client, !.row = row]
  <2>1. local.client = client /\ local.pc \in Begun
    BY DEF Idle
  <2>2. Continue(w, local)
    BY <1>5 DEF StartPage
  <2> HIDE DEF local
  <2> QED
    BY <1>3, <2>1, <2>2
<1> QED
  BY <1>1, <1>2, <1>4, <1>5

LEMMA RequestsForeign ==
    ASSUME ReservationInv, TypeOK', Reserving, ForeignInv, NEW w \in Worker,
           Requests(w) \/ Page(w)
    PROVE  ForeignInv'
<1>1. /\ Moves(w) /\ UNCHANGED <<sessions, rdns, nat, portalFw, dnsFw>>
      /\ job'[w].pc \in {"reevaluate", "lookup", "page", "handle", "idle"} /\ Up
  <2>1. CASE Requests(w)
    BY <2>1, ArrivalStep DEF Reserving
  <2>2. CASE Page(w)
    BY <2>2, PageStep, Serving, ForwardingAssumption
  <2> QED
    BY <2>1, <2>2
<1>2. /\ job'[w].pc \notin FlushPc \cup ReviewPc \cup RowPc \cup (ReevalPc \ {"reevaluate"})
      /\ job'[w].pc \notin {"resolve"} \cup AllocPc
  BY <1>1 DEF FlushPc, ReviewPc, RowPc, ReevalPc, AllocPc
<1>3. TasksOwned(job[w])' /\ DraftOwned(job[w])'
  BY <1>2 DEF TasksOwned, DraftOwned
<1> QED
  BY <1>1, <1>2, <1>3, StillOwned, ForeignStep DEF Goroutine

LEMMA ReviewForeign ==
    ASSUME ReservationInv, TypeOK', Orderly, ForeignInv, Review
    PROVE  ForeignInv'
<1>1. UNCHANGED <<rdns, portalFw, dnsFw>>
  BY DEF Review, StartReview, ReviewExtend, ReviewRow, ReviewDelete, db
<1>2. /\ TypeOK /\ Grows /\ Ticker \in Goroutine /\ Ticker \notin Worker /\ Up
      /\ job[Ticker].todo \in SUBSET Task
  <2>1. Up
    BY Serving DEF Review, StartReview, ReviewExtend, ReviewRow, ReviewDelete, At
  <2> QED
    BY <1>1, <2>1, StillOwned, TickerTask, ForwardingAssumption DEF ReservationInv, Goroutine
<1>3. ASSUME job[Ticker].pc \in ReviewPc
      PROVE  \A task \in job[Ticker].todo : Owned(task.key[1], task.key[2], task.row)
  BY <1>2, <1>3 DEF ForeignInv, TasksOwned
<1>4. ASSUME Moves(Ticker), NEW todo, ReviewsOn(todo), NewRulesOwned, RowsOwned,
             \A task \in todo : Owned(task.key[1], task.key[2], task.row),
             dnsFw # "iptables" => UNCHANGED nat
      PROVE  ForeignInv'
  <2>1. CASE todo # {} /\ job'[Ticker].pc = "reviewRow" /\ job'[Ticker].todo = todo
    <3>1. todo \in SUBSET Task
      <4>1. job'[Ticker] \in Job
        BY <1>2 DEF TypeOK
      <4> QED
        BY <2>1, <4>1 DEF Job
    <3>2. \A task \in todo : Owned(task.key[1], task.key[2], task.row)'
      BY <1>2, <1>4, <3>1, TasksStayOwned
    <3>3. job'[Ticker].pc \notin RowPc \cup FlushPc
      BY <2>1 DEF RowPc, FlushPc
    <3>4. TasksOwned(job[Ticker])'
      BY <2>1, <3>2, <3>3 DEF TasksOwned
    <3> QED
      BY <1>1, <1>2, <1>4, <3>3, <3>4, ForeignStep
  <2>2. CASE job'[Ticker].pc = "idle"
    <3>1. job'[Ticker].pc \notin ReevalPc \cup ReviewPc \cup FlushPc
      BY <2>2 DEF ReevalPc, ReviewPc, FlushPc
    <3>2. TasksOwned(job[Ticker])'
      BY <3>1 DEF TasksOwned
    <3> QED
      BY <1>1, <1>2, <1>4, <3>1, <3>2, ForeignStep
  <2> QED
    BY <1>4, <2>1, <2>2 DEF ReviewsOn
<1>5. CASE StartReview
  <2>1. Moves(Ticker) /\ UNCHANGED <<sessions, nat>>
    BY <1>5, StartReviewStep
  <2>2. PICK todo : /\ ReviewsOn(todo)
                    /\ \A task \in todo : /\ task \in Task
                                          /\ sessions[task.key] # Nil
                                          /\ task.row = sessions[task.key]
    BY <1>5, StartReviewStep
  <2>3. \A task \in todo : Owned(task.key[1], task.key[2], task.row)
    BY <1>2, <2>2, StoredOwned DEF Task
  <2> QED
    BY <1>4, <2>1, <2>2, <2>3, StillOwned
<1>6. CASE ReviewRow
  <2>1. job[Ticker].pc \in ReviewPc
    BY <1>6 DEF ReviewRow, At, ReviewPc
  <2>2. PICK task \in job[Ticker].todo :
          \/ /\ AtReview(task)
             /\ RemoveForwardRule(portalFw, task.key[1], task.row.addr, DestIP(task.row))
          \/ ReviewsOn(job[Ticker].todo \ {task}) /\ UNCHANGED nat
          \/ AtReview(task) /\ UNCHANGED nat
    BY <1>6, ReviewRowStep
  <2>3. /\ Moves(Ticker) /\ UNCHANGED sessions
        /\ NewRulesOwned /\ (dnsFw # "iptables" => UNCHANGED nat)
    BY <1>2, <1>6, <2>2, ReviewRowStep, RemovesRule, StillOwned DEF ForeignInv
  <2>4. CASE AtReview(task)
    <3>1. job'[Ticker].pc \in ReviewPc /\ job'[Ticker].pc \notin FlushPc
      BY <2>4 DEF AtReview, ReviewPc, FlushPc
    <3>2. PICK todo \in SUBSET Task : todo = job[Ticker].todo
      BY <1>2
    <3>3. \A other \in todo : Owned(other.key[1], other.key[2], other.row)'
      BY <1>2, <1>3, <2>1, <3>2, TasksStayOwned
    <3>4. TasksOwned(job[Ticker])'
      BY <2>4, <3>2, <3>3 DEF TasksOwned, AtReview
    <3> QED
      BY <1>1, <1>2, <2>3, <3>1, <3>4, StillOwned, ForeignStep
  <2>5. CASE ReviewsOn(job[Ticker].todo \ {task})
    <3>1. PICK todo : todo = job[Ticker].todo \ {task}
      OBVIOUS
    <3>2. \A other \in todo : Owned(other.key[1], other.key[2], other.row)
      BY <1>3, <2>1, <3>1
    <3> QED
      BY <1>4, <2>3, <2>5, <3>1, <3>2, StillOwned
  <2> QED
    BY <2>2, <2>4, <2>5
<1>7. CASE ReviewDelete
  <2>1. /\ Moves(Ticker) /\ UNCHANGED nat /\ job[Ticker].pc \in ReviewPc
        /\ sessions' = [sessions EXCEPT ![job[Ticker].at.key] = Nil]
        /\ ReviewsOn(job[Ticker].todo \ {job[Ticker].at})
    BY <1>7, ReviewDeleteStep DEF ReviewPc
  <2>2. RowsOwned
    BY <1>2, <2>1 DEF RowsOwned, TypeOK
  <2>3. PICK todo : todo = job[Ticker].todo \ {job[Ticker].at}
    OBVIOUS
  <2>4. \A task \in todo : Owned(task.key[1], task.key[2], task.row)
    BY <1>3, <2>1, <2>3
  <2> QED
    BY <1>4, <2>1, <2>2, <2>3, <2>4, StillOwned
<1> QED
  BY <1>5, <1>6, <1>7, NoReviewExtend DEF Review

\* While main starts nobody has anything in hand.
LEMMA StartOwns ==
    ASSUME ForeignInv, UNCHANGED <<portalFw, dnsFw>>,
           \A g \in Worker \cup {Ticker} : job'[g] = Idle,
           dnsFw # "iptables" => nat' = nat,
           (Up \/ At(Admin, "switchAdd") => RulesAreOwned /\ RulesAreReserved)',
           \A key \in Key : sessions'[key] # Nil =>
              Dropping(key)' \/ Owned(key[1], key[2], sessions[key])',
           BootOwned(job[Admin])'
    PROVE  ForeignInv'
<1>1. \A g \in Worker \cup {Ticker} : TasksOwned(job[g])' /\ job'[g].pc \notin FlushPc
  <2> SUFFICES ASSUME NEW g \in Worker \cup {Ticker}
               PROVE  TasksOwned(job[g])' /\ job'[g].pc \notin FlushPc
    OBVIOUS
  <2>1. job'[g].pc = "idle"
    BY DEF Idle
  <2> QED
    BY <2>1 DEF TasksOwned, ReevalPc, ReviewPc, FlushPc
<1>2. \A w \in Worker : DraftOwned(job[w])'
  <2> SUFFICES ASSUME NEW w \in Worker
               PROVE  DraftOwned(job[w])'
    OBVIOUS
  <2>1. job'[w].pc = "idle"
    BY DEF Idle
  <2> QED
    BY <2>1 DEF DraftOwned, AllocPc
<1>3. (dnsFw = portalFw)' /\ (dnsFw # "iptables" => nat = NoRules)'
  BY DEF ForeignInv, NoRules
<1> QED
  BY <1>1, <1>2, <1>3 DEF ForeignInv

\* What main goes on with.
LEMMA NextSwitchOwned ==
    ASSUME "restart" \in Events, NEW local \in Job, NEW todo \in SUBSET Task,
           local.boot, local.fw = portalFw', job'[Admin] = NextSwitch(local, todo),
           \A task \in todo :
              task.row.expired \/ Owned(task.key[1], task.key[2], task.row)'
    PROVE  /\ BootOwned(job[Admin])' /\ ~ At(Admin, "switchAdd")'
           /\ Up' => Expired(todo) = {} /\ portalFw' # "iptables"
           /\ \A task \in Expired(todo) : Dropping(task.key)'
<1> DEFINE rows == [local EXCEPT !.pc = "switchRow", !.todo = todo, !.at = Nil]
           kept == {task \in todo : task.row.addr # NoIP}
           clear == [local EXCEPT !.pc = "clearPrerouting", !.at = Nil, !.todo = kept]
<1>1. /\ rows.pc = "switchRow" /\ rows.todo = todo /\ rows.boot = local.boot
      /\ rows.fw = local.fw
  BY DEF Job
<1>2. /\ clear.pc = "clearPrerouting" /\ clear.todo = kept /\ clear.boot = local.boot
      /\ clear.fw = local.fw
  BY DEF Job
<1>3. kept \subseteq todo
  OBVIOUS
<1> HIDE DEF rows, kept, clear
<1>4. CASE Expired(todo) # {}
  <2>1. job'[Admin] = rows
    BY <1>4 DEF NextSwitch, rows
  <2>2. BootOwned(job[Admin])' /\ ~ At(Admin, "switchAdd")' /\ ~ Up'
    BY <1>1, <2>1 DEF BootOwned, At, Up
  <2> QED
    BY <1>1, <1>4, <2>1, <2>2 DEF Dropping, Expired
<1>5. CASE Expired(todo) = {} /\ local.fw = "iptables"
  <2>1. job'[Admin] = clear
    BY <1>5 DEF NextSwitch, clear, kept
  <2>2. ~ At(Admin, "switchAdd")' /\ ~ Up'
    BY <1>2, <2>1 DEF At, Up
  <2>3. BootOwned(job[Admin])'
    BY <1>2, <1>3, <1>5, <2>1 DEF BootOwned
  <2> QED
    BY <1>5, <2>2, <2>3
<1>6. CASE Expired(todo) = {} /\ local.fw # "iptables"
  <2>1. job'[Admin] = Idle
    BY <1>6 DEF NextSwitch
  <2> QED
    BY <1>6, <2>1 DEF BootOwned, At, Idle
<1> QED
  BY <1>4, <1>5, <1>6

\* A session that is not to be dropped has its reservation.
LEMMA KeptOwned ==
    ASSUME ReservationInv', ForeignInv, NEW key \in Key, sessions'[key] # Nil,
           sessions'[key] = sessions[key], Dropping(key) => Dropping(key)'
    PROVE  Dropping(key)' \/ Owned(key[1], key[2], sessions[key])'
<1> SUFFICES ASSUME ~ Dropping(key)'
             PROVE  Owned(key[1], key[2], sessions[key])'
  OBVIOUS
<1>1. PICK row : row = sessions'[key] /\ row = sessions[key]
  OBVIOUS
<1>2. Owned(key[1], key[2], row)
  BY <1>1 DEF ForeignInv
<1>3. Kept(row.addr) => rdns'[SlotOf(key[1], row.addr)] = key[2]
  BY <1>1 DEF ReservationInv, AddressIsReserved, Kept, OffsetOf, SlotOf
<1>4. Owned(key[1], key[2], row)'
  BY <1>2, <1>3 DEF Owned, Kept, OffsetOf, SlotOf
<1> QED
  BY <1>1, <1>4

LEMMA RestartForeign ==
    ASSUME ReservationInv, ReservationInv', Reserving, ForeignInv, Restart
    PROVE  ForeignInv'
<1> DEFINE main == [Idle EXCEPT !.fw = portalFw, !.boot = TRUE]
<1>1. /\ TypeOK /\ TypeOK' /\ "restart" \in Events
      /\ UNCHANGED <<sessions, rdns, nat, portalFw, dnsFw>>
      /\ \A g \in Worker \cup {Ticker} : job'[g] = Idle
      /\ job'[Admin] = IF portalFw # "none" THEN NextSwitch(main, Stored(Client)) ELSE Idle
  BY ForwardingAssumption
     DEF Restart, Goroutine, ReservationInv, BootSafe, At, ForeignInv, db
<1>2. main \in Job /\ main.boot /\ main.fw = portalFw
  BY <1>1, IdleType DEF Job, Idle, TypeOK
<1> HIDE DEF main
<1>3. PICK stored \in SUBSET Task : stored = Stored(Client)
  BY <1>1, StoredType
<1>4. ASSUME NEW task \in stored
      PROVE  /\ task.key \in Key /\ task.row = sessions[task.key]
             /\ sessions[task.key] # Nil
  BY <1>3, <1>4 DEF Stored
<1>5. ASSUME NEW key \in Key, sessions[key] # Nil
      PROVE  \E task \in stored : task.key = key /\ task.row = sessions[key]
  <2> DEFINE its == [key |-> key, row |-> sessions[key], reason |-> sessions[key].reason]
  <2>1. its \in stored
    BY <1>3, <1>5 DEF Stored, Key
  <2> QED
    BY <2>1
<1>6. ASSUME NEW key \in Key, Dropping(key)
      PROVE  /\ portalFw # "none"
             /\ sessions[key] # Nil => sessions[key].expired
  BY <1>6 DEF Dropping, Up, ReservationInv, BootSafe
<1>7. ASSUME NEW task \in stored
      PROVE  task.row.expired \/ Owned(task.key[1], task.key[2], task.row)'
  <2>1. task.row.expired \/ Owned(task.key[1], task.key[2], task.row)
    BY <1>4, <1>6 DEF ForeignInv
  <2> QED
    BY <1>1, <2>1 DEF Owned, SlotOf, OffsetOf, Kept
<1>8. CASE portalFw = "none"
  <2>1. job'[Admin] = Idle /\ nat' = NoRules
    BY <1>1, <1>8 DEF ForeignInv, NoRules
  <2>2. BootOwned(job[Admin])'
    BY <2>1 DEF BootOwned, Idle
  <2>3. (RulesAreOwned /\ RulesAreReserved)'
    BY <2>1 DEF RulesAreOwned, RulesAreReserved, NoRules, Dest
  <2>4. \A key \in Key : sessions'[key] # Nil =>
           Dropping(key)' \/ Owned(key[1], key[2], sessions[key])'
    BY <1>1, <1>6, <1>8, KeptOwned
  <2> QED
    BY <1>1, <2>2, <2>3, <2>4, StartOwns
<1>9. CASE portalFw # "none"
  <2>1. /\ BootOwned(job[Admin])' /\ ~ At(Admin, "switchAdd")'
        /\ Up' => Expired(stored) = {} /\ portalFw' # "iptables"
        /\ \A task \in Expired(stored) : Dropping(task.key)'
    BY <1>1, <1>2, <1>3, <1>7, <1>9, NextSwitchOwned
  <2>2. ASSUME NEW key \in Key, sessions'[key] # Nil
        PROVE  Dropping(key)' \/ Owned(key[1], key[2], sessions[key])'
    <3>1. PICK task \in stored : task.key = key /\ task.row = sessions[key]
      BY <1>1, <1>5, <2>2
    <3>2. Dropping(key) => task \in Expired(stored)
      BY <1>1, <1>6, <2>2, <3>1 DEF Expired
    <3>3. Dropping(key) => Dropping(key)'
      BY <2>1, <3>1, <3>2
    <3> QED
      BY <1>1, <2>2, <3>3, KeptOwned
  <2>3. (Up \/ At(Admin, "switchAdd") => RulesAreOwned /\ RulesAreReserved)'
    <3> SUFFICES ASSUME Up'
                 PROVE  (RulesAreOwned /\ RulesAreReserved)'
      BY <2>1
    <3>1. nat' = NoRules
      BY <1>1, <2>1 DEF ForeignInv, NoRules
    <3> QED
      BY <3>1 DEF RulesAreOwned, RulesAreReserved, NoRules, Dest
  <2> QED
    BY <1>1, <2>1, <2>2, <2>3, StartOwns
<1> QED
  BY <1>8, <1>9

\* The reservation that goes belongs to the session that goes.
LEMMA SwitchRowForeign ==
    ASSUME ReservationInv, ReservationInv', Orderly, ForeignInv, SwitchRow
    PROVE  ForeignInv'
<1>1. PICK local : local = job[Admin]
  OBVIOUS
<1>2. /\ local \in Job /\ BootSafe(local) /\ local.boot
      /\ TypeOK /\ BootOwned(local) /\ local.pc = "switchRow"
      /\ \A g \in Worker \cup {Ticker} : job'[g] = Idle
  BY <1>1, SwitchMoves DEF Switch, ForeignInv, ReservationInv, SwitchRow, At
<1>3. PICK task \in Expired(local.todo) :
        /\ IF task.row.target # Nil
           THEN DeleteReverseDNS(<<task.key[1], OffsetFromIP4(task.row.addr)>>)
           ELSE UNCHANGED rdns
        /\ Continue(Admin, [local EXCEPT !.pc = "switchDelete", !.at = task])
  BY <1>1 DEF SwitchRow
<1> DEFINE next == [local EXCEPT !.pc = "switchDelete", !.at = task]
           gone == <<task.key[1], OffsetFromIP4(task.row.addr)>>
<1>4. /\ next.pc = "switchDelete" /\ next.todo = local.todo
      /\ next.boot = local.boot /\ next.fw = local.fw
  BY <1>2 DEF Job
<1>5. job'[Admin] = next /\ UNCHANGED <<sessions, nat, portalFw, dnsFw>>
  BY <1>2, <1>3 DEF SwitchRow, Continue, TypeOK, Goroutine
<1> HIDE DEF next
<1>6. \A slot \in Slot : slot # gone => rdns'[slot] = rdns[slot]
  BY <1>2, <1>3 DEF DeleteReverseDNS, TypeOK
<1>7. /\ task \in local.todo /\ task \in Task /\ task.key \in Key /\ task.row.expired
      /\ task.row.addr \in Address \cup {NoIP}
  BY <1>2 DEF Expired, Job, Task, Row
<1>8. Kept(task.row.addr) =>
            rdns[SlotOf(task.key[1], task.row.addr)] \in {task.key[2], Nil}
  BY <1>2 DEF BootSafe
<1>9. ASSUME NEW other \in local.todo, ~ other.row.expired
      PROVE  Owned(other.key[1], other.key[2], other.row)'
  <2>1. Owned(other.key[1], other.key[2], other.row)
    BY <1>2, <1>9 DEF BootOwned
  <2>2. other \in Task /\ other.key \in Key /\ other.row.addr \in Address \cup {NoIP}
    BY <1>2 DEF Job, Task, Row
  <2> DEFINE slot == SlotOf(other.key[1], other.row.addr)
  <2>3. ASSUME Kept(other.row.addr)
        PROVE  rdns'[slot] = other.key[2]
    <3>1. rdns[slot] = other.key[2] /\ other.key[2] # Nil
      BY <2>1, <2>2, <2>3, ForwardingAssumption DEF Owned, Key
    <3>2. slot \in Slot
      BY <2>2, <2>3, PoolOffsets DEF SlotOf, Slot, Key
    <3>3. ASSUME slot = gone
          PROVE  FALSE
      <4>1. /\ other.key[1] = task.key[1]
            /\ OffsetFromIP4(task.row.addr) = OffsetOf(other.row.addr)
        BY <3>3 DEF SlotOf
      <4>2. task.row.addr = other.row.addr
        BY <1>7, <2>2, <2>3, <4>1, PoolOffsets
      <4>3. rdns[slot] \in {task.key[2], Nil}
        BY <1>8, <2>3, <4>1, <4>2
      <4>4. task.key = other.key
        BY <1>7, <2>2, <3>1, <4>1, <4>3 DEF Key
      <4> QED
        BY <1>2, <1>7, <1>9, <4>4 DEF BootSafe
    <3> QED
      BY <1>6, <3>1, <3>2, <3>3
  <2> QED
    BY <2>1, <2>3 DEF Owned, SlotOf, OffsetOf, Kept
<1>10. BootOwned(job[Admin])'
  BY <1>2, <1>4, <1>5, <1>9 DEF BootOwned
<1>11. ~ Up' /\ ~ At(Admin, "switchAdd")'
  BY <1>2, <1>4, <1>5 DEF Up, At
<1>12. \A key \in Key : Dropping(key) => Dropping(key)'
  BY <1>1, <1>4, <1>5, <1>11 DEF Dropping, Expired
<1>13. \A key \in Key : sessions'[key] # Nil =>
         Dropping(key)' \/ Owned(key[1], key[2], sessions[key])'
  BY <1>5, <1>12, KeptOwned
<1> QED
  BY <1>2, <1>5, <1>10, <1>11, <1>13, StartOwns

LEMMA SwitchDeleteForeign ==
    ASSUME ReservationInv, ReservationInv', Orderly, ForeignInv, SwitchDelete
    PROVE  ForeignInv'
<1>1. PICK local : local = job[Admin]
  OBVIOUS
<1>2. /\ local \in Job /\ BootSafe(local) /\ local.boot
      /\ TypeOK /\ BootOwned(local) /\ local.pc = "switchDelete"
      /\ \A g \in Worker \cup {Ticker} : job'[g] = Idle
  BY <1>1, SwitchMoves DEF Switch, ForeignInv, ReservationInv, SwitchDelete, At
<1>3. PICK todo : todo = local.todo \ {local.at}
  OBVIOUS
<1>4. PICK key : key = local.at.key
  OBVIOUS
<1>5. /\ local.at \in local.todo /\ local.at \in Expired(local.todo)
      /\ todo \in SUBSET Task /\ todo \subseteq local.todo /\ key \in Key
  BY <1>2, <1>3, <1>4 DEF BootSafe, Expired, Job, Task
<1>6. /\ sessions' = [sessions EXCEPT ![key] = Nil]
      /\ UNCHANGED <<rdns, nat, portalFw, dnsFw>>
      /\ job'[Admin] = NextSwitch(local, todo)
  BY <1>1, <1>2, <1>3, <1>4
     DEF SwitchDelete, DeleteDNSSession, Conflict, Orderly, Continue, TypeOK, Goroutine
<1>7. \A task \in todo :
         task.row.expired \/ Owned(task.key[1], task.key[2], task.row)'
  BY <1>2, <1>5, <1>6 DEF BootOwned, Owned, SlotOf, OffsetOf, Kept
<1>8. /\ BootOwned(job[Admin])' /\ ~ At(Admin, "switchAdd")'
      /\ Up' => Expired(todo) = {} /\ portalFw' # "iptables"
      /\ \A task \in Expired(todo) : Dropping(task.key)'
  BY <1>2, <1>5, <1>6, <1>7, NextSwitchOwned DEF BootOwned
<1>9. ASSUME NEW k \in Key, sessions'[k] # Nil
      PROVE  Dropping(k)' \/ Owned(k[1], k[2], sessions[k])'
  <2>1. k # key /\ sessions'[k] = sessions[k]
    BY <1>2, <1>5, <1>6, <1>9 DEF TypeOK
  <2>2. Dropping(k) => \E task \in Expired(todo) : task.key = k
    BY <1>1, <1>3, <1>4, <2>1 DEF Dropping, Expired
  <2>3. Dropping(k) => Dropping(k)'
    BY <1>8, <2>2
  <2> QED
    BY <1>9, <2>1, <2>3, KeptOwned
<1>10. (Up \/ At(Admin, "switchAdd") => RulesAreOwned /\ RulesAreReserved)'
  <2> SUFFICES ASSUME Up'
               PROVE  (RulesAreOwned /\ RulesAreReserved)'
    BY <1>8
  <2>1. nat' = NoRules
    BY <1>6, <1>8 DEF ForeignInv, NoRules
  <2> QED
    BY <2>1 DEF RulesAreOwned, RulesAreReserved, NoRules, Dest
<1> QED
  BY <1>2, <1>6, <1>8, <1>9, <1>10, StartOwns

\* The chains are empty before the first rule is appended, and every rule is that of
\* a session that keeps its reservation.
LEMMA SwitchRulesForeign ==
    ASSUME ReservationInv, ReservationInv', Reserving, ForeignInv,
           ClearPrerouting \/ ClearOutput \/ SwitchAdd
    PROVE  ForeignInv'
<1>1. PICK local : local = job[Admin]
  OBVIOUS
<1>2. /\ local \in Job /\ BootSafe(local) /\ local.boot /\ ~ Up
      /\ TypeOK /\ BootOwned(local)
      /\ \A g \in Worker \cup {Ticker} : job'[g] = Idle
      /\ UNCHANGED <<sessions, rdns, portalFw, dnsFw>>
  BY <1>1, SwitchMoves
     DEF Switch, ForeignInv, ReservationInv, ClearPrerouting, ClearOutput, SwitchAdd, db
<1>3. Expired(local.todo) = {} /\ dnsFw = "iptables" /\ "iptables" \notin Events
  BY <1>1, <1>2
     DEF ClearPrerouting, ClearOutput, SwitchAdd, At, BootSafe, BootOwned, ForeignInv,
         Reserving
<1>4. \A key \in Key : sessions'[key] # Nil =>
         Dropping(key)' \/ Owned(key[1], key[2], sessions[key])'
  <2>1. \A key \in Key : ~ Dropping(key)
    BY <1>1, <1>3 DEF Dropping
  <2> QED
    BY <1>2, <2>1, KeptOwned
<1>5. \A task \in local.todo : Owned(task.key[1], task.key[2], task.row)'
  <2>1. \A task \in local.todo : Owned(task.key[1], task.key[2], task.row)
    BY <1>2, <1>3 DEF BootOwned, Expired
  <2> QED
    BY <1>2, <2>1 DEF Owned, SlotOf, OffsetOf, Kept
<1>6. ASSUME NEW todo \in SUBSET local.todo, Continue(Admin, NextAdd(local, todo)),
             (RulesAreOwned /\ RulesAreReserved)'
      PROVE  ForeignInv'
  <2> DEFINE next == [local EXCEPT !.pc = "switchAdd", !.todo = todo]
  <2>1. /\ next.boot = local.boot /\ next.pc = "switchAdd" /\ next.todo = todo
        /\ next.fw = local.fw
    BY <1>2 DEF Job
  <2>2. job'[Admin] = next \/ job'[Admin] = Idle
    BY <1>2, <1>6 DEF NextAdd, Continue, TypeOK, Goroutine
  <2> HIDE DEF next
  <2>3. CASE job'[Admin] = next
    <3>1. BootOwned(job[Admin])'
      BY <1>2, <1>3, <1>5, <2>1, <2>3 DEF BootOwned, ForeignInv
    <3> QED
      BY <1>2, <1>3, <1>4, <1>6, <3>1, StartOwns
  <2>4. CASE job'[Admin] = Idle
    <3>1. BootOwned(job[Admin])'
      BY <2>4 DEF BootOwned, Idle
    <3> QED
      BY <1>2, <1>3, <1>4, <1>6, <3>1, StartOwns
  <2> QED
    BY <2>2, <2>3, <2>4
<1>7. CASE ClearPrerouting
  <2> DEFINE next == [local EXCEPT !.pc = "clearOutput"]
  <2>1. /\ next.boot = local.boot /\ next.pc = "clearOutput" /\ next.todo = local.todo
        /\ next.fw = local.fw
    BY <1>2 DEF Job
  <2>2. job'[Admin] = next
    BY <1>1, <1>2, <1>7 DEF ClearPrerouting, Continue, TypeOK, Goroutine
  <2> HIDE DEF next
  <2>3. \A slot \in (Client \ Gateway) \X Address : nat'[slot] = NoRules[slot]
    BY <1>3, <1>7 DEF ClearPrerouting, ClearChain
  <2>4. BootOwned(job[Admin])'
    BY <1>2, <1>3, <1>5, <2>1, <2>2, <2>3 DEF BootOwned, ForeignInv, NoRules
  <2>5. ~ Up' /\ ~ At(Admin, "switchAdd")'
    BY <1>2, <2>1, <2>2 DEF Up, At
  <2> QED
    BY <1>2, <1>3, <1>4, <2>4, <2>5, StartOwns
<1>8. CASE ClearOutput
  <2>1. /\ \A slot \in (Client \ Gateway) \X Address : nat[slot] = NoRules[slot]
        /\ nat' = [slot \in Client \X Address |->
                      IF slot[1] \in Gateway THEN NoRules[slot] ELSE nat[slot]]
        /\ Continue(Admin, NextAdd(local, local.todo))
    BY <1>1, <1>2, <1>3, <1>8 DEF ClearOutput, ClearChain, At, BootOwned
  <2>2. \A slot \in Client \X Address : nat'[slot] = NoRules[slot]
    BY <2>1
  <2>3. \A slot \in Client \X Address : \A dest \in Dest : ~ nat'[slot][dest] > 0
    BY <2>2 DEF NoRules
  <2>4. (RulesAreOwned /\ RulesAreReserved)'
    BY <2>3 DEF RulesAreOwned, RulesAreReserved, Dest
  <2> QED
    BY <1>6, <2>1, <2>4
<1>9. CASE SwitchAdd
  <2>1. PICK task \in local.todo :
          /\ AddForwardRule("iptables", task.key[1], task.row.addr, DestIP(task.row))
          /\ Continue(Admin, NextAdd(local, local.todo \ {task}))
    BY <1>1, <1>9 DEF SwitchAdd
  <2>2. /\ task \in Task /\ task.key[1] \in Client /\ task.key[2] \in Host
        /\ task.row \in Row
    BY <1>2 DEF Job, Task, Key
  <2>3. Owned(task.key[1], task.key[2], task.row)
    BY <1>2, <1>3 DEF BootOwned, Expired
  <2>4. DestIP(task.row) \in Target => DestIP(task.row) = task.row.target
    BY <2>2, DestTarget DEF Row
  <2>5. NewRulesOwned
    <3>1. AddForwardRule(dnsFw, task.key[1], task.row.addr, DestIP(task.row))
      BY <1>3, <2>1
    <3> QED
      BY <1>2, <2>2, <2>3, <2>4, <3>1, NewRuleOwned
  <2>6. RulesAreOwned /\ RulesAreReserved
    BY <1>9 DEF SwitchAdd, ForeignInv
  <2>7. (RulesAreOwned /\ RulesAreReserved)'
    BY <1>2, <2>5, <2>6, StillOwned, RulesStayOwned
  <2> QED
    BY <1>6, <2>1, <2>7
<1> QED
  BY <1>7, <1>8, <1>9

LEMMA SwitchForeign ==
    ASSUME ReservationInv, ReservationInv', Reserving, ForeignInv, Switch
    PROVE  ForeignInv'
BY SwitchMoves, SwitchRowForeign, SwitchDeleteForeign, SwitchRulesForeign DEF Reserving

LEMMA TimeForeign ==
    ASSUME ReservationInv, TypeOK', ForeignInv, Time \/ UNCHANGED vars
    PROVE  ForeignInv'
<1>1. UNCHANGED <<rdns, nat, portalFw, dnsFw, job>>
  BY DEF Time, SessionExpires, PortalSessionExpires, ScheduleChanges, vars, db
<1>2. TypeOK
  BY DEF ReservationInv
<1>3. ASSUME NEW key \in Key, sessions'[key] # Nil
      PROVE  /\ sessions[key] # Nil
             /\ sessions'[key].target = sessions[key].target
             /\ sessions'[key].addr = sessions[key].addr
  <2>1. CASE UNCHANGED sessions
    BY <1>3, <2>1
  <2>2. ASSUME NEW other \in Key, SessionExpires(other)
        PROVE  /\ sessions[key] # Nil
               /\ sessions'[key].target = sessions[key].target
               /\ sessions'[key].addr = sessions[key].addr
    <3> DEFINE row == [sessions[other] EXCEPT !.expired = TRUE]
    <3>1. sessions[other] \in Row /\ sessions[other] # Nil
          /\ sessions' = [sessions EXCEPT ![other] = row]
      BY <1>2, <2>2 DEF SessionExpires, TypeOK
    <3>2. row.target = sessions[other].target /\ row.addr = sessions[other].addr
      BY <3>1 DEF Row
    <3> HIDE DEF row
    <3> QED
      BY <1>2, <1>3, <3>1, <3>2 DEF TypeOK
  <2> QED
    BY <2>1, <2>2 DEF Time, PortalSessionExpires, ScheduleChanges, vars, db
<1>4. ASSUME NEW key \in Key, sessions'[key] # Nil
      PROVE  Dropping(key)' \/ Owned(key[1], key[2], sessions[key])'
  <2>1. Dropping(key) => Dropping(key)'
    BY <1>1 DEF Dropping, Up, Expired
  <2>2. Owned(key[1], key[2], sessions[key]) => Owned(key[1], key[2], sessions'[key])
    BY <1>3, <1>4, OwnedSame
  <2>3. Owned(key[1], key[2], sessions'[key]) => Owned(key[1], key[2], sessions[key])'
    BY <1>1 DEF Owned, SlotOf, OffsetOf, Kept
  <2> QED
    BY <1>3, <1>4, <2>1, <2>2, <2>3 DEF ForeignInv
<1>5. /\ \A g \in Worker \cup {Ticker} :
           TasksOwned(job[g])' /\ job'[g].pc \notin FlushPc
      /\ \A w \in Worker : DraftOwned(job[w])'
  <2>1. Grows
    BY <1>1, StillOwned
  <2> QED
    BY <1>1, <1>2, <2>1, BystanderOwns DEF ForeignInv, Goroutine
<1>6. BootOwned(job[Admin])'
  BY <1>1 DEF ForeignInv, BootOwned, Owned, SlotOf, OffsetOf, Kept
<1>7. /\ (Up \/ At(Admin, "switchAdd") => RulesAreOwned /\ RulesAreReserved)'
      /\ (dnsFw = portalFw)' /\ (dnsFw # "iptables" => nat = NoRules)'
  BY <1>1 DEF ForeignInv, Up, At, RulesAreOwned, RulesAreReserved, NoRules, OffsetOf, Kept,
     SlotOf
<1> QED
  BY <1>4, <1>5, <1>6, <1>7 DEF ForeignInv

\* ForeignInv holds in every reachable state in which reservations end only at a
\* start: every address in a session, a snapshot or a request under way is reserved
\* for the host it answers for, and its record is one upstream gave for that host;
\* main has cleared the chains before it appends the rules of the sessions it keeps.
THEOREM ForeignInvHolds ==
    ASSUME Reserving
    PROVE  Spec => []ForeignInv
<1>1. Orderly
  BY DEF Reserving
<1>2. Init => ForeignInv
  <2> HAVE Init
  <2>1. \A g \in Goroutine : job[g] = Idle
    BY DEF Init
  <2>2. \A g \in Worker \cup {Ticker} : TasksOwned(job[g]) /\ job[g].pc \notin FlushPc
    BY <2>1 DEF TasksOwned, ReevalPc, ReviewPc, FlushPc, Goroutine, Idle
  <2>3. \A w \in Worker : DraftOwned(job[w])
    BY <2>1 DEF DraftOwned, AllocPc, Goroutine, Idle
  <2>4. BootOwned(job[Admin])
    BY <2>1 DEF BootOwned, Goroutine, Idle
  <2>5. ASSUME NEW slot \in Client \X Address, NEW dest \in Dest
        PROVE  ~ nat[slot][dest] > 0
    BY DEF Init, NoRules
  <2>6. RulesAreOwned /\ RulesAreReserved
    BY <2>5 DEF RulesAreOwned, RulesAreReserved, Dest
  <2>7. \A key \in Key : sessions[key] = Nil
    BY DEF Init
  <2> QED
    BY <2>2, <2>3, <2>4, <2>6, <2>7 DEF Init, ForeignInv
<1>3. ReservationInv /\ ReservationInv' /\ ForeignInv /\ [Next]_vars => ForeignInv'
  <2> HAVE ReservationInv /\ ReservationInv' /\ ForeignInv /\ [Next]_vars
  <2>1. TypeOK'
    BY DEF ReservationInv
  <2>2. ASSUME NEW w \in Worker, Requests(w) \/ Serve(w)
        PROVE  ForeignInv'
    <3>1. ~ Flush(w)
      BY FlushStep DEF ForeignInv, Goroutine
    <3> QED
      BY <1>1, <2>1, <2>2, <3>1, RequestsForeign, QueryForeign, ReevalForeign DEF Serve
  <2>3. \A fw \in Firewall : ~ StartSwitch(fw)
    BY <1>1 DEF StartSwitch, Orderly
  <2> QED
    BY <1>1, <2>1, <2>2, <2>3, ReviewForeign, RestartForeign, SwitchForeign, TimeForeign
       DEF Next
<1>4. Spec => []ReservationInv
  BY <1>1, InvariantHolds
<1> QED
  BY <1>2, <1>3, <1>4, PTL DEF Spec

\* Nobody who asks for one host is sent to another: a rule that leads an address to a
\* host's real address stands only while that address is reserved for a name that
\* resolves there, whatever expiries, reviews, page views and changes of access come
\* between any two steps of the requests.  It stays so when calls of iptables fail and
\* when the process stops and starts again, but not when both happen: where a failing
\* call leaves a chain as it was, the rules of the last run stay.
THEOREM NoRuleIsForeign ==
    ASSUME Reserving
    PROVE  Spec => []NoForeignRule
<1>1. ForeignInv => NoForeignRule
  BY DEF ForeignInv, NoForeignRule
<1> QED
  BY <1>1, ForeignInvHolds, PTL

-----------------------------------------------------------------------------
(***************************************************************************)
(* The rule a session describes is the one installed: RuleInv is           *)
(* inductive.                                                              *)
(***************************************************************************)

\* What the lemmas of this section rest on: a state of a settled gateway.
InRule == ReservationInv /\ ForeignInv /\ RuleInv

\* The goroutine is about to append a rule for the address.
About(local, slot) ==
    \/ local.pc = "allocAdd" /\ <<local.client, local.row.addr>> = slot
    \/ local.pc \in {"reevalSave", "reevalAdd"} /\ <<local.client, local.at.row.addr>> = slot

LEMMA SettledFw ==
    ASSUME Settled, InRule
    PROVE  /\ Orderly /\ TypeOK /\ dnsFw = "iptables" /\ portalFw = "iptables"
           /\ \A i, j \in Interface : i = j
BY DEF Settled, Reserving, InRule, ReservationInv, TypeOK

\* Main sleeps: everybody is served, with rows that are the names' own.
LEMMA MainSleeps ==
    ASSUME InRule
    PROVE  /\ Up /\ job[Admin].pc = "idle" /\ \A slot : ~ About(job[Admin], slot)
           /\ \A key \in Key :
                 sessions[key] # Nil => Owned(key[1], key[2], sessions[key])
<1>1. Up /\ job[Admin].pc = "idle"
  BY DEF InRule, RuleInv, At, ReservationInv, BootSafe, Up
<1> QED
  BY <1>1, StoredOwned DEF InRule, About

LEMMA PendingAbout ==
    ASSUME NEW slot
    PROVE  /\ Pending(slot) # {} <=> \E g \in Goroutine : About(job[g], slot)
           /\ Pending(slot)' # {} <=> \E g \in Goroutine : About(job'[g], slot)
BY DEF Pending, About, At

\* The rules of every address are no more than they were and no new goroutine is
\* about to append one, or the address has none left, or it got its one rule.
LEMMA OneRuleStep ==
    ASSUME TypeOK, TypeOK', OneRule,
           \A slot \in Client \X Address : Kept(slot[2]) =>
              \/ /\ \A d \in Dest : nat'[slot][d] <= nat[slot][d]
                 /\ Pending(slot)' # {} => Pending(slot) # {}
              \/ \A d \in Dest : nat'[slot][d] = 0
              \/ /\ Pending(slot)' = {} /\ slot[2] # Own[slot[1]]
                 /\ \E dest \in Dest : \A d \in Dest :
                       nat'[slot][d] = IF d = dest THEN 1 ELSE 0
    PROVE  OneRule'
<1> SUFFICES ASSUME NEW slot \in Client \X Address, Kept(slot[2])
             PROVE  /\ \A dest \in Dest : nat'[slot][dest] <= 1
                    /\ \A d, e \in Dest : nat'[slot][d] > 0 /\ nat'[slot][e] > 0 => d = e
                    /\ Pending(slot)' # {} \/ slot[2] = Own[slot[1]] =>
                          \A dest \in Dest : nat'[slot][dest] = 0
  BY DEF OneRule, Kept, OffsetOf
<1>1. \A d \in Dest : nat[slot][d] \in Nat /\ nat'[slot][d] \in Nat
  BY DEF TypeOK
<1>2. /\ \A dest \in Dest : nat[slot][dest] <= 1
      /\ \A d, e \in Dest : nat[slot][d] > 0 /\ nat[slot][e] > 0 => d = e
      /\ Pending(slot) # {} \/ slot[2] = Own[slot[1]] =>
            \A dest \in Dest : nat[slot][dest] = 0
  BY DEF OneRule
<1> DEFINE before == Pending(slot) # {} \/ slot[2] = Own[slot[1]]
           after == Pending(slot)' # {} \/ slot[2] = Own[slot[1]]
<1> HIDE DEF before, after
<1>3. CASE /\ \A d \in Dest : nat'[slot][d] <= nat[slot][d]
           /\ after => before
  <2>1. ASSUME NEW d \in Dest
        PROVE  /\ nat'[slot][d] <= 1
               /\ nat'[slot][d] > 0 => nat[slot][d] > 0
               /\ nat[slot][d] = 0 => nat'[slot][d] = 0
    BY <1>1, <1>2, <1>3
  <2>2. \A d, e \in Dest : nat'[slot][d] > 0 /\ nat'[slot][e] > 0 => d = e
    BY <1>2, <2>1
  <2> QED
    BY <1>2, <1>3, <2>1, <2>2 DEF before, after
<1>4. CASE \A d \in Dest : nat'[slot][d] = 0
  BY <1>4
<1>5. CASE ~ after /\ \E dest \in Dest : \A d \in Dest :
                         nat'[slot][d] = IF d = dest THEN 1 ELSE 0
  BY <1>5 DEF after
<1> QED
  BY <1>3, <1>4, <1>5 DEF before, after

\* One goroutine moves and appends nothing.
LEMMA NoneAppended ==
    ASSUME TypeOK, TypeOK', OneRule, NEW g \in Goroutine, Moves(g),
           \A slot \in Client \X Address :
              Kept(slot[2]) => \A d \in Dest : nat'[slot][d] <= nat[slot][d],
           \A slot \in Client \X Address : Kept(slot[2]) /\ About(job'[g], slot) =>
              About(job[g], slot) \/ \A d \in Dest : nat'[slot][d] = 0
    PROVE  OneRule'
<1>1. ASSUME NEW slot \in Client \X Address, Kept(slot[2])
      PROVE  \/ /\ \A d \in Dest : nat'[slot][d] <= nat[slot][d]
                /\ Pending(slot)' # {} => Pending(slot) # {}
             \/ \A d \in Dest : nat'[slot][d] = 0
  <2>1. CASE \A d \in Dest : nat'[slot][d] = 0
    BY <2>1
  <2>2. CASE ~ \A d \in Dest : nat'[slot][d] = 0
    <3>1. \A h \in Goroutine : About(job'[h], slot) => About(job[h], slot)
      BY <1>1, <2>2 DEF Moves
    <3>2. (\E h \in Goroutine : About(job'[h], slot)) => \E h \in Goroutine : About(job[h], slot)
      BY <3>1
    <3>3. Pending(slot)' # {} => Pending(slot) # {}
      BY <3>2, PendingAbout
    <3> QED
      BY <1>1, <3>3
  <2> QED
    BY <2>1, <2>2
<1> QED
  BY <1>1, OneRuleStep

\* A worker appends the rule it was about to append.
LEMMA RuleAppended ==
    ASSUME InRule, TypeOK', NEW w \in Worker, NEW client \in Client, client = job[w].client,
           Moves(w), NEW addr \in Address, NEW dest \in Dest, Adds(client, addr, dest),
           addr # Own[client], About(job[w], <<client, addr>>), \A slot : ~ About(job'[w], slot)
    PROVE  OneRule'
<1>1. TypeOK /\ OneRule /\ w \in Goroutine
  BY DEF InRule, ReservationInv, RuleInv, Goroutine
<1>2. ASSUME NEW slot \in Client \X Address, Kept(slot[2]), slot # <<client, addr>>
      PROVE  /\ \A d \in Dest : nat'[slot][d] <= nat[slot][d]
             /\ Pending(slot)' # {} => Pending(slot) # {}
  <2>1. \A d \in Dest : nat'[slot][d] = nat[slot][d] /\ nat[slot][d] \in Nat
    BY <1>1, <1>2 DEF Adds, TypeOK
  <2>2. \A g \in Goroutine : About(job'[g], slot) => About(job[g], slot)
    BY DEF Moves
  <2>3. (\E g \in Goroutine : About(job'[g], slot)) => \E g \in Goroutine : About(job[g], slot)
    BY <2>2
  <2>4. Pending(slot)' # {} => Pending(slot) # {}
    BY <2>3, PendingAbout
  <2> QED
    BY <2>1, <2>4
<1>3. ASSUME NEW slot \in Client \X Address, Kept(slot[2]), slot = <<client, addr>>
      PROVE  /\ Pending(slot)' = {}
             /\ \A d \in Dest : nat'[slot][d] = IF d = dest THEN 1 ELSE 0
  <2>1. Pending(slot) # {}
    BY <1>1, <1>3, PendingAbout
  <2>2. \A d \in Dest : nat[slot][d] = 0
    BY <1>1, <1>3, <2>1 DEF OneRule
  <2>3. \A d \in Dest : nat'[slot][d] = IF d = dest THEN 1 ELSE 0
    BY <1>3, <2>2 DEF Adds
  <2>4. ASSUME NEW g \in Goroutine, About(job'[g], slot)
        PROVE  FALSE
    <3>1. g # w /\ job'[g] = job[g]
      BY <2>4 DEF Moves
    <3>2. CASE g \in Worker
      <4>1. job[g].client = client
        BY <1>3, <2>4, <3>1 DEF About
      <4> QED
        BY <3>1, <3>2, <4>1, Alone DEF InRule
    <3>3. CASE g = Ticker
      BY <2>4, <3>1, <3>3 DEF About, InRule, RuleInv, ReviewPc
    <3> QED
      BY <2>4, <3>1, <3>2, <3>3, MainSleeps DEF Goroutine
  <2>5. Pending(slot)' = {}
    BY <2>4, PendingAbout
  <2> QED
    BY <2>3, <2>5
<1> QED
  BY <1>1, <1>2, <1>3, OneRuleStep

LEMMA DestAlike ==
    ASSUME NEW row, NEW other, SameAnswer(row, other), row.reason = other.reason
    PROVE  DestIP(row) = DestIP(other)
BY DEF SameAnswer, DestIP

LEMMA DestType ==
    ASSUME NEW row \in Row, row.target # Nil
    PROVE  DestIP(row) \in Dest
BY DEF DestIP, Dest, Row

\* The review has the row it is about to delete on its list.
LEMMA DeletingFacts ==
    ASSUME InRule, NEW key, Deleting(key)
    PROVE  sessions[key] # Nil
<1>1. job[Ticker].pc \in RowPc /\ job[Ticker].pc \in ReviewPc
  BY DEF Deleting, At, RowPc, ReviewPc
<1>2. job[Ticker].at \in job[Ticker].todo
  BY <1>1 DEF InRule, ForeignInv, TasksOwned, Goroutine
<1> QED
  BY <1>1, <1>2 DEF InRule, RuleInv, ReviewMatches, Deleting

\* A step leaves a session and its rule as they are, or the review takes the rule
\* away and then deletes the session.
Calm(key) ==
    /\ Deleting(key) => Deleting(key)' \/ sessions'[key] = Nil
    /\ sessions'[key] # Nil =>
          /\ sessions[key] # Nil
          /\ SameAnswer(sessions'[key], sessions[key])
          /\ sessions'[key].reason = sessions[key].reason
    /\ \A addr \in Address : \A dest \in Dest :
          /\ Kept(addr)
          /\ rdns[SlotOf(key[1], addr)] = key[2]
          /\ ~ Deleting(key)'
          /\ nat[<<key[1], addr>>][dest] > 0
          => nat'[<<key[1], addr>>][dest] > 0

LEMMA StaysServed ==
    ASSUME NEW key \in Key, Calm(key), ~ Deleting(key)', NEW row \in Row,
           Owned(key[1], key[2], row), Served(key[1], row)
    PROVE  Served(key[1], row)'
<1> SUFFICES ASSUME Kept(row.addr), row.addr # Own[key[1]]
             PROVE  nat'[<<key[1], row.addr>>][DestIP(row)] > 0
  BY DEF Served, Installed, Kept, OffsetOf, DestIP
<1>1. row.addr \in Address /\ rdns[SlotOf(key[1], row.addr)] = key[2] /\ row.target # Nil
  BY DEF Owned, Row, Kept
<1>2. DestIP(row) \in Dest
  BY <1>1, DestType
<1>3. nat[<<key[1], row.addr>>][DestIP(row)] > 0
  BY DEF Served, Installed
<1> QED
  BY <1>1, <1>2, <1>3 DEF Calm

\* What a worker that does not move relies on.
LEMMA BystanderServed ==
    ASSUME InRule, NEW v \in Worker, job'[v] = job[v], untold \subseteq untold',
           \A key \in Key : key[1] = job[v].client => Calm(key)
    PROVE  DraftServed(job[v])' /\ TasksMatch(job[v])'
<1>1. /\ TypeOK /\ DraftServed(job[v]) /\ TasksMatch(job[v]) /\ v \in Goroutine
      /\ DraftOwned(job[v]) /\ TasksOwned(job[v]) /\ DraftSafe(job[v])
  BY DEF InRule, RuleInv, ForeignInv, ReservationInv, Goroutine
<1>2. DraftServed(job[v])'
  <2> SUFFICES ASSUME job[v].pc \in {"resolve"} \cup AllocPc
               PROVE  DraftServed(job[v])'
    BY DEF DraftServed
  <2>1. PICK client \in Client, host \in Host :
          client = job[v].client /\ host = job[v].host /\ <<client, host>> \in Key
    BY DraftFacts DEF InRule, QueryPc
  <2> DEFINE key == <<client, host>>
  <2>2. Calm(key)
    BY <2>1
  <2>3. ASSUME job[v].pc \in AllocPc \ {"allocAdd"}, key \notin untold',
               ~ job[v].cached \/ sessions'[key] # Nil, ~ Silences(job[v])',
               ~ Deleting(key)'
        PROVE  Served(job[v].client, job[v].row)'
    <3>1. ~ job[v].cached => sessions[key] = Nil
      BY <1>1, <2>1 DEF DraftSafe
    <3>2. ~ job[v].cached \/ sessions[key] # Nil
      BY <2>2, <2>3 DEF Calm
    <3>3. ~ Deleting(key)
      BY <2>2, <2>3, <3>1, DeletingFacts DEF Calm
    <3>4. Served(client, job[v].row)
      <4>1. ~ Silences(job[v])
        BY <2>1, <2>2, <2>3, <3>1 DEF Silences, Calm, SameAnswer
      <4> QED
        BY <1>1, <2>1, <2>3, <3>2, <3>3, <4>1 DEF DraftServed
    <3>5. job[v].row \in Row /\ job[v].row # Nil
      BY <2>3, DraftFacts DEF InRule, QueryPc
    <3>6. Owned(client, host, job[v].row)
      BY <1>1, <2>1, <2>3, <3>5 DEF DraftOwned
    <3>7. PICK row \in Row : row = job[v].row
      BY <3>5
    <3>8. Served(key[1], row)'
      BY <2>1, <2>2, <2>3, <3>4, <3>6, <3>7, StaysServed
    <3> QED
      BY <2>1, <3>7, <3>8
  <2>4. ASSUME job[v].pc = "resolve", job[v].row # Nil, sessions'[key] # Nil
        PROVE  /\ SameAnswer(job[v].row, sessions'[key])
               /\ job[v].row.reason = sessions'[key].reason
    BY <1>1, <2>1, <2>2, <2>4 DEF DraftServed, Calm, SameAnswer
  <2>5. job[v].pc = "resolve" /\ job[v].row # Nil => job[v].cached
    BY <1>1 DEF DraftServed
  <2> QED
    BY <2>1, <2>3, <2>4, <2>5 DEF DraftServed
<1>3. TasksMatch(job[v])'
  <2> SUFFICES ASSUME job[v].pc \in ReevalPc \ {"reevaluate"}
               PROVE  TasksMatch(job[v])'
    BY DEF TasksMatch, ReevalPc
  <2>1. ASSUME NEW task \in job[v].todo
        PROVE  /\ task \in Task /\ task.key \in Key /\ Calm(task.key)
               /\ Owned(task.key[1], task.key[2], task.row)
    <3>1. task \in Task /\ task.key[1] = job[v].client
      BY SnapshotFacts DEF InRule, Safe, SnapshotSafe
    <3> QED
      BY <1>1, <3>1 DEF Task, TasksOwned
  <2>2. ASSUME NEW task \in job[v].todo, sessions'[task.key] # Nil
        PROVE  /\ SameAnswer(task.row, sessions'[task.key])
               /\ \/ task.row.reason = sessions'[task.key].reason
                  \/ task.row.reason = AccessBlockedRule /\ task.reason = AccessAllowed
                  \/ job[v].pc \in RowPc /\ task = job[v].at
    <3>1. /\ sessions[task.key] # Nil
          /\ SameAnswer(sessions'[task.key], sessions[task.key])
          /\ sessions'[task.key].reason = sessions[task.key].reason
      BY <2>1, <2>2 DEF Calm
    <3> QED
      BY <1>1, <3>1 DEF TasksMatch, SameAnswer
  <2>3. \A task, other \in job[v].todo : task.key = other.key => task = other
    BY <1>1 DEF TasksMatch
  <2>4. ASSUME job[v].pc = "reevalStore", job[v].at.key \notin untold',
               sessions'[job[v].at.key] # Nil, ~ Deleting(job[v].at.key)'
        PROVE  Served(job[v].client, Changed(job[v].at))'
    <3>1. PICK task \in job[v].todo : task = job[v].at /\ task.key[1] = job[v].client
      BY <2>4, ReevalTask DEF InRule
    <3>2. PICK row \in Row : row = Changed(task) /\ SameAnswer(row, task.row)
      BY <2>4, <3>1, ReevalTask DEF InRule
    <3>3. Owned(task.key[1], task.key[2], row)
      BY <2>1, <3>2, OwnedSame DEF SameAnswer
    <3>4. sessions[task.key] # Nil /\ ~ Deleting(task.key)
      BY <2>1, <2>4, <3>1 DEF Calm
    <3>5. Served(task.key[1], row)
      BY <1>1, <2>4, <3>1, <3>2, <3>4 DEF TasksMatch
    <3>6. PICK key \in Key : key = task.key
      BY <2>1
    <3>7. ~ Deleting(key)'
      BY <2>4, <3>1, <3>6
    <3>8. Served(key[1], row)'
      BY <2>1, <3>3, <3>5, <3>6, <3>7, StaysServed
    <3> QED
      BY <3>1, <3>2, <3>6, <3>8 DEF Changed
  <2> QED
    BY <2>2, <2>3, <2>4 DEF TasksMatch
<1> QED
  BY <1>2, <1>3

\* A worker's step disturbs nobody but its client.
LEMMA WorkerRules ==
    ASSUME InRule, TypeOK', NEW w \in Worker, NEW client \in Client, Moves(w),
           job[w].client = client \/ job[w].pc = "idle",
           \A v \in Worker \ {w} : job[v].client # client, untold \subseteq untold',
           \A key \in Key : /\ key[1] # client => sessions'[key] = sessions[key]
                            /\ sessions[key] # Nil => sessions'[key] # Nil,
           \A slot \in Client \X Address : \A d \in Dest :
              slot[1] # client => nat'[slot][d] = nat[slot][d],
           OneRule',
           \A key \in Key : /\ key[1] = client /\ sessions'[key] # Nil
                            /\ key \notin untold' /\ ~ Deleting(key) /\ ~ Reworking(w, key)'
                            => Served(key[1], sessions[key])',
           DraftServed(job[w])', TasksMatch(job[w])'
    PROVE  RuleInv'
<1>1. /\ TypeOK /\ StoredServed /\ ReviewMatches(job[Ticker])
      /\ job[Ticker].pc \in {"idle"} \cup ReviewPc
      /\ Ticker \in Goroutine /\ Ticker \notin Worker
      /\ Admin \in Goroutine /\ Admin \notin Worker /\ At(Admin, "idle")
  BY ForwardingAssumption DEF InRule, ReservationInv, RuleInv, Goroutine
<1>2. job'[Ticker] = job[Ticker] /\ job'[Admin] = job[Admin] /\ \A v \in Worker \ {w} : job'[v] = job[v]
  BY <1>1 DEF Moves, Goroutine
<1>3. ASSUME NEW key
      PROVE  Deleting(key)' <=> Deleting(key)
  BY <1>2 DEF Deleting, At
<1>4. ASSUME NEW key \in Key, key[1] # client
      PROVE  Calm(key)
  <2>1. sessions'[key] = sessions[key] /\ key[1] \in Client
    BY <1>4 DEF Key
  <2>2. \A addr \in Address : \A d \in Dest :
           nat'[<<key[1], addr>>][d] = nat[<<key[1], addr>>][d]
    BY <1>4, <2>1
  <2> QED
    BY <1>3, <2>1, <2>2 DEF Calm, SameAnswer
<1>5. ASSUME NEW key \in Key \ untold', sessions'[key] # Nil, ~ Deleting(key)',
             \A v \in Worker : ~ Reworking(v, key)'
      PROVE  Served(key[1], sessions[key])'
  <2>1. CASE key[1] = client
    BY <1>3, <1>5, <2>1
  <2>2. CASE key[1] # client
    <3>1. PICK row \in Row : row = sessions[key] /\ row = sessions'[key] /\ row # Nil
      BY <1>1, <1>5, <2>2 DEF TypeOK
    <3>2. ASSUME Reworking(w, key)
          PROVE  FALSE
      <4>1. key[1] = job[w].client /\ job[w].pc # "idle"
        BY <3>2, ReevalTask DEF Reworking, InRule
      <4> QED
        BY <2>2, <4>1
    <3>3. \A v \in Worker : ~ Reworking(v, key)
      BY <1>2, <1>5, <3>2 DEF Reworking
    <3>4. Served(key[1], row)
      BY <1>1, <1>3, <1>5, <3>1, <3>3 DEF StoredServed
    <3>5. Owned(key[1], key[2], row)
      BY <3>1, MainSleeps
    <3>6. Served(key[1], row)'
      BY <1>4, <1>5, <2>2, <3>4, <3>5, StaysServed
    <3> QED
      BY <3>1, <3>6
  <2> QED
    BY <2>1, <2>2
<1>6. StoredServed'
  BY <1>5 DEF StoredServed
<1>7. ASSUME NEW v \in Worker
      PROVE  DraftServed(job[v])' /\ TasksMatch(job[v])'
  <2>1. CASE v = w
    BY <2>1
  <2>2. CASE v # w
    <3>1. job'[v] = job[v] /\ job[v].client # client
      BY <1>2, <2>2
    <3> QED
      BY <1>4, <3>1, BystanderServed
  <2> QED
    BY <2>1, <2>2
<1>8. ReviewMatches(job[Ticker])'
  <2>1. ASSUME NEW task \in job[Ticker].todo, sessions[task.key] # Nil
        PROVE  sessions'[task.key] # Nil
    <3>1. task.key \in Key
      BY TickerTask DEF InRule, Task
    <3> QED
      BY <2>1, <3>1
  <2> QED
    BY <1>1, <1>2, <2>1 DEF ReviewMatches
<1>9. (At(Admin, "idle") /\ job[Ticker].pc \in {"idle"} \cup ReviewPc)'
  BY <1>1, <1>2 DEF At
<1> QED
  BY <1>6, <1>7, <1>8, <1>9 DEF RuleInv

\* A worker's step that touches neither a session nor a rule.
LEMMA QuietRules ==
    ASSUME InRule, TypeOK', NEW w \in Worker, NEW client \in Client, Moves(w),
           job[w].client = client \/ job[w].pc = "idle",
           \A v \in Worker \ {w} : job[v].client # client,
           UNCHANGED <<sessions, nat>>, untold \subseteq untold',
           \A key \in Key : Reworking(w, key) => Reworking(w, key)',
           \A slot \in Client \X Address : Kept(slot[2]) /\ About(job'[w], slot) =>
              About(job[w], slot) \/ \A d \in Dest : nat[slot][d] = 0,
           DraftServed(job[w])', TasksMatch(job[w])'
    PROVE  RuleInv'
<1>1. TypeOK /\ StoredServed /\ OneRule /\ Ticker \notin Worker
  BY ForwardingAssumption DEF InRule, ReservationInv, RuleInv
<1>2. \A g \in Goroutine \ {w} : job'[g] = job[g]
  BY DEF Moves
<1>3. OneRule'
  <2>1. /\ \A slot \in Client \X Address : \A d \in Dest : nat'[slot][d] <= nat[slot][d]
        /\ \A slot \in Client \X Address : Kept(slot[2]) /\ About(job'[w], slot) =>
              About(job[w], slot) \/ \A d \in Dest : nat'[slot][d] = 0
    BY <1>1 DEF TypeOK
  <2> QED
    BY <1>1, <2>1, NoneAppended DEF Goroutine
<1>4. ASSUME NEW key \in Key, key[1] = client, sessions'[key] # Nil, key \notin untold',
             ~ Deleting(key), ~ Reworking(w, key)'
      PROVE  Served(key[1], sessions[key])'
  <2>1. ~ Reworking(w, key)
    BY <1>4
  <2>2. ASSUME NEW v \in Worker \ {w}
        PROVE  ~ Reworking(v, key)
    BY <1>4, ReevalTask DEF Reworking, InRule
  <2>3. Served(key[1], sessions[key])
    BY <1>1, <1>4, <2>1, <2>2 DEF StoredServed
  <2> QED
    BY <2>3 DEF Served, Installed, DestIP, Kept, OffsetOf
<1> QED
  BY <1>3, <1>4, WorkerRules

\* The rule of a stored row is there while a request of its own host is under way.
LEMMA OwnStands ==
    ASSUME InRule, NEW w \in Worker, job[w].client \in Client, NEW key \in Key,
           key \notin untold, key[1] = job[w].client, ~ Reworking(w, key), sessions[key] # Nil, ~ Deleting(key)
    PROVE  Served(key[1], sessions[key])
<1>1. ASSUME NEW v \in Worker, Reworking(v, key)
      PROVE  FALSE
  <2>1. job[v].client = key[1]
    BY <1>1, ReevalTask DEF Reworking, InRule
  <2>2. v # w
    BY <1>1
  <2> QED
    BY <2>1, <2>2, Alone DEF InRule
<1> QED
  BY <1>1 DEF InRule, RuleInv, StoredServed

\* One more rule takes no rule away.
LEMMA CalmWhenAdded ==
    ASSUME TypeOK, UNCHANGED sessions, job'[Ticker] = job[Ticker],
           NEW client, NEW addr, NEW dest, Adds(client, addr, dest)
    PROVE  \A key \in Key : Calm(key)
<1> SUFFICES ASSUME NEW key \in Key
             PROVE  Calm(key)
  OBVIOUS
<1>1. Deleting(key) => Deleting(key)'
  BY DEF Deleting, At
<1>2. ASSUME NEW a \in Address, NEW d \in Dest, nat[<<key[1], a>>][d] > 0
      PROVE  nat'[<<key[1], a>>][d] > 0
  <2>1. <<key[1], a>> \in Client \X Address
    BY DEF Key
  <2>2. nat[<<key[1], a>>][d] \in Nat
    BY <2>1 DEF TypeOK
  <2> QED
    BY <1>2, <2>1, <2>2 DEF Adds
<1> QED
  BY <1>1, <1>2 DEF Calm, SameAnswer

\* What a request goes on with when its row and its tables stay as they are.
LEMMA DraftStays ==
    ASSUME InRule, NEW w \in Worker, job[w].pc \in AllocPc \ {"allocAdd"}, Moves(w), SameRequest(w),
           UNCHANGED <<sessions, nat>>, untold \subseteq untold',
           job'[w].pc \in AllocPc \ {"allocAdd"},
           job'[w].row = job[w].row, job'[w].cached = job[w].cached
    PROVE  DraftServed(job[w])'
<1>1. job'[Ticker] = job[Ticker]
  BY ForwardingAssumption DEF Moves, Goroutine
<1>2. \A key : Deleting(key)' <=> Deleting(key)
  BY <1>1 DEF Deleting, At
<1>3. PICK client, host : client = job[w].client /\ host = job[w].host
  OBVIOUS
<1>4. ASSUME <<client, host>> \notin untold, ~ Silences(job[w]),
             ~ job[w].cached \/ sessions[<<client, host>>] # Nil, ~ Deleting(<<client, host>>)
      PROVE  Served(client, job[w].row)
  BY <1>3, <1>4 DEF InRule, RuleInv, DraftServed
<1>5. PICK row : row = job[w].row
  OBVIOUS
<1>6. Served(client, row) => Served(client, row)'
  BY DEF Served, Installed, DestIP, Kept, OffsetOf
<1>7. job'[w].pc # "resolve"
  BY DEF AllocPc
<1>8. Silences(job[w])' <=> Silences(job[w])
  BY DEF Silences, SameRequest
<1> QED
  BY <1>2, <1>3, <1>4, <1>5, <1>6, <1>7, <1>8 DEF DraftServed, SameRequest

LEMMA QueryFrame ==
    ASSUME NEW w \in Worker, Query(w)
    PROVE  job[w].pc \in QueryPc /\ untold \subseteq untold'
<1>1. CASE LookupHit(w) \/ LookupMiss(w)
  BY <1>1 DEF LookupHit, LookupMiss, At, QueryPc, history
<1>2. CASE Resolve(w) \/ ResolveFails(w)
  <2>1. /\ At(w, "resolve")
        /\ UNCHANGED <<db, nat, policy, unseen, portalFw, dnsFw, history>>
    BY <1>2 DEF Resolve, ResolveFails
  <2> QED
    BY <2>1 DEF At, QueryPc, history
<1>3. CASE AllocGet(w) \/ AllocDelete(w) \/ AllocList(w) \/ AllocAdd(w)
  BY <1>3 DEF AllocGet, AllocDelete, AllocList, AllocAdd, At, QueryPc, AllocPc, history
<1>4. CASE AllocCreate(w)
  BY <1>4 DEF AllocCreate, At, QueryPc, AllocPc
<1>5. CASE Store(w)
  BY <1>5 DEF Store, At, QueryPc, AllocPc
<1> QED
  BY <1>1, <1>2, <1>3, <1>4, <1>5 DEF Query

LEMMA QueryRules ==
    ASSUME InRule, ReservationInv', Settled, NEW w \in Worker, Query(w)
    PROVE  RuleInv'
<1>1. PICK client \in Client, host \in Host :
        /\ client = job[w].client /\ host = job[w].host
        /\ job[w].pc \in QueryPc /\ job[w] \in Job /\ <<client, host>> \in Key
        /\ OwnKey(w) = <<client, host>> /\ Up
  BY QueryFrame, MainSleeps, DraftFacts DEF OwnKey, InRule
<1> DEFINE key == <<client, host>>
<1>2. /\ ReservationInv /\ TypeOK /\ TypeOK' /\ Orderly /\ dnsFw = "iptables"
      /\ \A i, j \in Interface : i = j
      /\ DraftServed(job[w]) /\ DraftOwned(job[w]) /\ DraftSafe(job[w]) /\ w \in Goroutine
      /\ untold \subseteq untold'
  BY QueryFrame, SettledFw DEF InRule, RuleInv, ForeignInv, ReservationInv, Goroutine
<1>3. \A v \in Worker \ {w} : job[v].client # client
  BY <1>1, <1>2, Alone
<1>4. \A k : ~ Reworking(w, k)
  BY <1>1 DEF Reworking, QueryPc, AllocPc
<1>5. ASSUME sessions[key] # Nil
      PROVE  /\ sessions[key] \in Row
             /\ key \notin untold /\ ~ Deleting(key) => Served(client, sessions[key])
  BY <1>1, <1>2, <1>4, <1>5, OwnStands DEF TypeOK
<1>6. ASSUME Moves(w)
      PROVE  \A k : Deleting(k)' <=> Deleting(k)
  <2>1. job'[Ticker] = job[Ticker]
    BY <1>6, ForwardingAssumption DEF Moves, Goroutine
  <2> QED
    BY <2>1 DEF Deleting, At
<1>7. ASSUME Moves(w), UNCHANGED <<sessions, nat>>, job'[w].pc \in QueryPc \cup {"idle"},
             DraftServed(job[w])',
             \A slot \in Client \X Address : Kept(slot[2]) /\ About(job'[w], slot) =>
                \A d \in Dest : nat[slot][d] = 0
      PROVE  RuleInv'
  <2>1. TasksMatch(job[w])'
    BY <1>7 DEF TasksMatch, QueryPc, AllocPc, ReevalPc
  <2> QED
    BY <1>1, <1>2, <1>3, <1>4, <1>7, <2>1, QuietRules
<1>8. ASSUME job'[w].pc \in QueryPc \cup {"idle"}, job'[w].pc # "allocAdd"
      PROVE  \A slot : ~ About(job'[w], slot)
  BY <1>8 DEF About, QueryPc, AllocPc
<1>9. ASSUME Moves(w), SameRequest(w), job'[w].pc \in AllocPc \ {"allocAdd"},
             NEW r, r = job'[w].row,
             /\ key \notin untold /\ ~ Deleting(key)
             /\ ~ job'[w].cached \/ sessions'[key] # Nil
             /\ ~ (/\ sessions'[key] # Nil /\ r.addr = sessions'[key].addr
                   /\ r.reason # sessions'[key].reason)
             => Served(client, r)'
      PROVE  DraftServed(job[w])'
  <2>1. job'[w].pc # "resolve" /\ job'[w].client = client /\ job'[w].host = host
    BY <1>1, <1>9 DEF AllocPc, SameRequest
  <2>2. (~ Silences(job[w]))' =>
           ~ (/\ sessions'[key] # Nil /\ r.addr = sessions'[key].addr
              /\ r.reason # sessions'[key].reason)
    BY <1>9, <2>1 DEF Silences
  <2> QED
    BY <1>2, <1>6, <1>9, <2>1, <2>2 DEF DraftServed
<1>10. CASE LookupHit(w)
  <2> DEFINE row == job'[w].row
  <2>1. /\ Moves(w) /\ SameRequest(w) /\ UNCHANGED <<sessions, rdns, nat>>
        /\ job'[w].pc = "store" /\ sessions[key] # Nil
        /\ SameAnswer(row, sessions[key])
    BY <1>1, <1>2, <1>10, LookupHitStep
  <2>2. ASSUME key \notin untold, ~ Deleting(key), row.reason = sessions[key].reason
        PROVE  Served(client, row)
    <3>1. DestIP(row) = DestIP(sessions[key]) /\ row.addr = sessions[key].addr
      BY <2>1, <2>2, DestAlike DEF SameAnswer
    <3> QED
      BY <1>5, <2>1, <2>2, <3>1 DEF Served
  <2>3. PICK r : r = row
    OBVIOUS
  <2>4. Served(client, r) => Served(client, r)'
    BY <2>1 DEF Served, Installed, DestIP, Kept, OffsetOf
  <2>5. r.addr = sessions'[key].addr /\ sessions'[key] = sessions[key]
    BY <2>1, <2>3 DEF SameAnswer
  <2>6. DraftServed(job[w])'
    BY <1>9, <2>1, <2>2, <2>3, <2>4, <2>5 DEF AllocPc
  <2> QED
    BY <1>7, <1>8, <2>1, <2>6 DEF QueryPc, AllocPc
<1>11. CASE LookupMiss(w)
  <2>1. /\ Moves(w) /\ SameRequest(w) /\ UNCHANGED <<sessions, rdns, nat>>
        /\ job'[w].pc = "resolve" /\ job'[w].row = sessions[key]
        /\ job'[w].cached <=> sessions[key] # Nil
    BY <1>1, <1>2, <1>11, LookupMissStep
  <2>2. DraftServed(job[w])'
    BY <1>1, <2>1 DEF DraftServed, SameRequest, SameAnswer, AllocPc
  <2> QED
    BY <1>7, <1>8, <2>1, <2>2 DEF QueryPc
<1>12. CASE Resolve(w)
  <2>1. PICK target : /\ job'[w].row = Merged(job[w], target)
                      /\ job'[w].pc = AllocateFrom(Merged(job[w], target))
    BY <1>2, <1>12, ResolveStep
  <2>2. /\ Moves(w) /\ SameRequest(w) /\ UNCHANGED <<sessions, rdns, nat>>
        /\ job'[w].cached = job[w].cached
    BY <1>2, <1>12, ResolveStep
  <2> DEFINE old == job[w].row
             row == Merged(job[w], target)
  <2>3. job'[w].pc \in QueryPc /\ job'[w].pc \notin {"resolve", "allocAdd"}
    BY <2>1 DEF AllocateFrom, QueryPc, AllocPc
  <2>4. /\ row.target = target
        /\ row.addr = IF old # Nil /\ old.target = target THEN old.addr ELSE NoIP
        /\ row.ifc = IF old # Nil THEN old.ifc ELSE job[w].ifc
    BY <1>1, MergedFields
  <2> HIDE DEF row
  <2>5. ASSUME key \notin untold, ~ job[w].cached \/ sessions[key] # Nil, ~ Deleting(key),
               Kept(row.addr),
               ~ (/\ sessions[key] # Nil /\ row.addr = sessions[key].addr
                  /\ row.reason # sessions[key].reason)
        PROVE  Served(client, row)
    <3>1. old # Nil /\ row.addr = old.addr /\ old.target = target /\ row.ifc = old.ifc
      BY <2>4, <2>5 DEF Kept
    <3>2. job[w].cached /\ (sessions[key] # Nil => SameAnswer(old, sessions[key]))
      BY <1>1, <1>2, <1>12, <3>1 DEF DraftServed, Resolve, At
    <3>3. /\ SameAnswer(row, sessions[key]) /\ sessions[key] # Nil
          /\ row.reason = sessions[key].reason
      BY <2>4, <2>5, <3>1, <3>2 DEF SameAnswer
    <3>4. DestIP(row) = DestIP(sessions[key])
      BY <3>3, DestAlike
    <3> QED
      BY <1>5, <2>5, <3>3, <3>4 DEF Served, SameAnswer
  <2>6. PICK r : r = row
    OBVIOUS
  <2>7. ASSUME key \notin untold, ~ job[w].cached \/ sessions[key] # Nil, ~ Deleting(key),
               ~ (/\ sessions[key] # Nil /\ r.addr = sessions[key].addr
                  /\ r.reason # sessions[key].reason)
        PROVE  Served(client, r)'
    BY <2>2, <2>5, <2>6, <2>7 DEF Served, Installed, DestIP, Kept, OffsetOf
  <2>8. DraftServed(job[w])'
    <3>1. job'[w].pc \in AllocPc \ {"allocAdd"} \/ job'[w].pc \notin {"resolve"} \cup AllocPc
      BY <2>3
    <3>2. r = job'[w].row
      BY <2>1, <2>6 DEF row
    <3>3. job'[w].pc \in AllocPc \ {"allocAdd"} => DraftServed(job[w])'
      BY <1>9, <2>2, <2>7, <3>2
    <3>4. job'[w].pc \notin {"resolve"} \cup AllocPc => DraftServed(job[w])'
      BY DEF DraftServed, AllocPc
    <3> QED
      BY <3>1, <3>3, <3>4
  <2> QED
    BY <1>7, <1>8, <2>2, <2>3, <2>8
<1>13. CASE ResolveFails(w)
  <2>1. Finished(w) /\ Moves(w) /\ UNCHANGED <<sessions, nat>>
    BY <1>2, <1>13, FinishMoves DEF ResolveFails, db
  <2>2. DraftServed(job[w])'
    BY <2>1 DEF DraftServed, Finished, AllocPc
  <2> QED
    BY <1>7, <1>8, <2>1, <2>2 DEF Finished
<1>14. CASE AllocGet(w) \/ AllocList(w)
  <2>1. job[w].pc \in AllocPc \ {"allocAdd"}
    BY <1>14 DEF AllocGet, AllocList, At, AllocPc
  <2>2. /\ Moves(w) /\ SameRequest(w) /\ UNCHANGED <<sessions, rdns, nat>>
        /\ job'[w].row = job[w].row /\ job'[w].cached = job[w].cached
        /\ job'[w].pc \in AllocPc \ {"allocAdd"}
    BY <1>2, <1>14, AllocGetStep, AllocListStep DEF AllocPc
  <2>3. DraftServed(job[w])'
    BY <1>2, <2>1, <2>2, DraftStays
  <2> QED
    BY <1>7, <1>8, <2>2, <2>3 DEF QueryPc
<1>15. CASE AllocCreate(w)
  <2>1. PICK addr \in Address : addr = IP4fromOffset(job[w].offset)
    BY <1>2, <1>15, AllocCreateStep
  <2>2. /\ Moves(w) /\ SameRequest(w) /\ UNCHANGED <<sessions, nat>>
        /\ rdns[SlotOf(client, addr)] = Nil
        /\ job'[w].row.addr = addr /\ job'[w].pc = "allocAdd"
    BY <1>1, <1>2, <1>15, <2>1, AllocCreateStep
  <2>3. DraftServed(job[w])'
    BY <2>2 DEF DraftServed
  <2>4. ASSUME NEW slot \in Client \X Address, Kept(slot[2]), About(job'[w], slot),
               NEW d \in Dest
        PROVE  nat[slot][d] = 0
    <3>1. slot = <<client, addr>>
      BY <1>1, <2>2, <2>4 DEF About, SameRequest
    <3>2. ~ nat[slot][d] > 0
      BY <1>1, <2>2, <2>4, <3>1 DEF InRule, ForeignInv, RulesAreReserved
    <3> QED
      BY <1>2, <3>2 DEF TypeOK
  <2> QED
    BY <1>7, <2>2, <2>3, <2>4 DEF QueryPc, AllocPc
<1>16. CASE AllocAdd(w)
  <2> DEFINE row == job[w].row
             sent == [row EXCEPT !.ifc = job[w].ifc]
             dest == DestIP(row)
  <2>1. job[w].pc = "allocAdd" /\ job[w].pc \in AllocPc
    BY <1>16 DEF AllocAdd, At, AllocPc
  <2>2. /\ Moves(w) /\ SameRequest(w) /\ UNCHANGED <<sessions, rdns>>
        /\ job'[w].row = row /\ job'[w].pc = "store" /\ job'[w].cached = job[w].cached
        /\ AddForwardRule(dnsFw, client, row.addr, DestIP(sent))
    BY <1>1, <1>2, <1>16, AllocAddStep
  <2>3. row \in Row /\ row # Nil /\ row.target # Nil /\ Owned(client, host, row)
    BY <1>1, <1>2, <2>1, DraftFacts DEF DraftOwned
  <2>4. job[w].ifc = row.ifc
    BY <1>1, <1>2, <2>3, JobType DEF Row
  <2>5. sent = row
    BY <2>3, <2>4 DEF Row
  <2>6. dest \in Dest
    BY <2>3, DestType
  <2> HIDE DEF sent, dest
  <2>7. \/ row.addr # Own[client] /\ Adds(client, row.addr, dest)
        \/ row.addr \in {NoIP, Own[client]} /\ UNCHANGED nat
    BY <1>2, <2>2, <2>5, AddsRule DEF Settled, dest
  <2>8. CASE row.addr \in {NoIP, Own[client]} /\ UNCHANGED nat
    <3>1. ~ Kept(row.addr) \/ row.addr = Own[client]
      BY <2>8 DEF Kept
    <3>2. DraftServed(job[w])'
      <4>1. PICK r : r = row
        OBVIOUS
      <4>2. Served(client, r)'
        BY <3>1, <4>1 DEF Served, Kept, OffsetOf
      <4> QED
        BY <1>9, <2>2, <4>1, <4>2 DEF AllocPc
    <3> QED
      BY <1>7, <1>8, <2>2, <2>8, <3>2 DEF QueryPc, AllocPc
  <2>9. CASE row.addr # Own[client] /\ Adds(client, row.addr, dest)
    <3>1. PICK addr \in Address : addr = row.addr
      BY <2>3, <2>9 DEF Adds, Row
    <3>2. About(job[w], <<client, addr>>) /\ \A slot : ~ About(job'[w], slot)
      BY <1>1, <2>1, <2>2, <3>1 DEF About
    <3>3. OneRule'
      BY <1>1, <1>2, <2>2, <2>6, <2>9, <3>1, <3>2, RuleAppended
    <3>4. job'[Ticker] = job[Ticker]
      BY <2>2, ForwardingAssumption DEF Moves, Goroutine
    <3>5. \A k \in Key : Calm(k)
      BY <1>2, <2>2, <2>9, <3>4, CalmWhenAdded
    <3>6. ASSUME NEW k \in Key, k[1] = client, sessions'[k] # Nil, k \notin untold', ~ Deleting(k)
          PROVE  Served(k[1], sessions[k])'
      <4>1. PICK r \in Row : r = sessions[k] /\ r = sessions'[k] /\ r # Nil
        BY <1>2, <2>2, <3>6 DEF TypeOK
      <4>2. Served(k[1], r) /\ Owned(k[1], k[2], r)
        BY <1>1, <1>2, <1>4, <3>6, <4>1, OwnStands, MainSleeps
      <4>3. ~ Deleting(k)'
        BY <1>6, <2>2, <3>6
      <4>4. Served(k[1], r)'
        BY <3>5, <4>2, <4>3, StaysServed
      <4> QED
        BY <4>1, <4>4
    <3>7. nat'[<<client, addr>>][dest] > 0
      <4>1. <<client, addr>> \in Client \X Address /\ nat[<<client, addr>>][dest] \in Nat
        BY <1>2, <2>6 DEF TypeOK
      <4> QED
        BY <2>6, <2>9, <3>1, <4>1 DEF Adds
    <3>8. PICK r : r = row
      OBVIOUS
    <3>9. Served(client, r)'
      BY <3>1, <3>7, <3>8 DEF Served, Installed, Kept, DestIP, dest
    <3>10. DraftServed(job[w])'
      BY <1>1, <2>2, <3>8, <3>9 DEF DraftServed, SameRequest
    <3>11. TasksMatch(job[w])'
      BY <2>2 DEF TasksMatch, ReevalPc
    <3>12. \A slot \in Client \X Address : \A d \in Dest :
              slot[1] # client => nat'[slot][d] = nat[slot][d]
      BY <2>9 DEF Adds
    <3> QED
      BY <1>1, <1>2, <1>3, <2>2, <3>3, <3>6, <3>10, <3>11, <3>12, WorkerRules
  <2> QED
    BY <2>7, <2>8, <2>9
<1>17. CASE Store(w)
  <2>1. job[w].pc = "store" /\ job[w].pc \in AllocPc \ {"allocAdd"}
    BY <1>17 DEF Store, At, AllocPc
  <2>2. /\ Moves(w) /\ Finished(w) /\ UNCHANGED <<rdns, nat>>
        /\ job[w].row \in Row /\ job[w].row # Nil
        /\ \/ /\ ~ job[w].cached \/ sessions[key] # Nil
              /\ sessions' = [sessions EXCEPT ![key] = job[w].row]
           \/ UNCHANGED sessions
    BY <1>1, <1>2, <1>17, StoreStep
  <2>3. DraftServed(job[w])' /\ TasksMatch(job[w])' /\ \A slot : ~ About(job'[w], slot)
    BY <2>2 DEF DraftServed, TasksMatch, About, Finished, AllocPc, ReevalPc
  <2>4. CASE UNCHANGED sessions
    BY <1>7, <2>2, <2>3, <2>4 DEF Finished
  <2>5. CASE /\ ~ job[w].cached \/ sessions[key] # Nil
             /\ sessions' = [sessions EXCEPT ![key] = job[w].row]
    <3>1. PICK row : row = job[w].row
      OBVIOUS
    <3>2. ~ Deleting(key) /\ key \notin untold /\ ~ Silences(job[w]) => Served(client, row)
      BY <1>1, <1>2, <2>1, <2>5, <3>1 DEF DraftServed
    <3>3. \A k \in Key : sessions'[k] = IF k = key THEN row ELSE sessions[k]
      BY <1>1, <1>2, <2>5, <3>1 DEF TypeOK
    <3>4. key \notin untold' => ~ Silences(job[w])
      <4>1. sessions'[key] = row /\ row # Nil
        BY <1>1, <2>2, <3>1, <3>3
      <4>2. Silences(job[w]) => Overwritten(key)
        BY <1>1, <3>1, <4>1 DEF Silences, Overwritten
      <4>3. Overwritten(key) => key \in untold'
        BY <1>1, <1>17 DEF Store
      <4> QED
        BY <4>2, <4>3
    <3>5. ASSUME NEW k \in Key, k[1] = client, sessions'[k] # Nil, k \notin untold', ~ Deleting(k)
          PROVE  Served(k[1], sessions[k])'
      <4>1. CASE k = key
        <5>1. Served(client, row)'
          BY <1>2, <2>2, <3>2, <3>5, <3>4, <4>1 DEF Served, Installed, DestIP, Kept, OffsetOf
        <5> QED
          BY <3>3, <4>1, <5>1
      <4>2. CASE k # key
        <5>1. PICK r : r = sessions[k]
          OBVIOUS
        <5>2. Served(k[1], r)
          BY <1>1, <1>2, <1>4, <3>3, <3>5, <4>2, <5>1, OwnStands
        <5>3. Served(k[1], r)'
          BY <2>2, <5>2 DEF Served, Installed, DestIP, Kept, OffsetOf
        <5> QED
          BY <3>3, <4>2, <5>1, <5>3
      <4> QED
        BY <4>1, <4>2
    <3>6. OneRule'
      <4>1. \A slot \in Client \X Address : \A d \in Dest : nat'[slot][d] <= nat[slot][d]
        BY <1>2, <2>2 DEF TypeOK
      <4> QED
        BY <1>2, <2>2, <2>3, <4>1, NoneAppended DEF InRule, RuleInv
    <3>7. \A k \in Key : /\ k[1] # client => sessions'[k] = sessions[k]
                         /\ sessions[k] # Nil => sessions'[k] # Nil
      BY <2>2, <3>1, <3>3
    <3>8. \A slot \in Client \X Address : \A d \in Dest :
             slot[1] # client => nat'[slot][d] = nat[slot][d]
      BY <2>2
    <3> QED
      BY <1>1, <1>2, <1>3, <2>2, <2>3, <3>5, <3>6, <3>7, <3>8, WorkerRules
  <2> QED
    BY <2>2, <2>4, <2>5
<1> QED
  BY <1>2, <1>10, <1>11, <1>12, <1>13, <1>14, <1>15, <1>16, <1>17, NoAllocDelete DEF Query

LEMMA RequestsRules ==
    ASSUME InRule, ReservationInv', Settled, NEW w \in Worker, Requests(w) \/ Page(w)
    PROVE  RuleInv'
<1>1. PICK client \in Client :
        /\ Moves(w) /\ UNCHANGED <<sessions, nat, untold>>
        /\ job[w].pc \in {"idle", "page", "handle"}
        /\ job'[w].pc \in {"reevaluate", "lookup", "page", "handle", "idle"}
        /\ job[w].client = client \/ job[w].pc = "idle"
        /\ \A v \in Worker \ {w} : job[v].client # client
  <2>1. ReservationInv /\ Orderly /\ "flush" \notin Events
    BY SettledFw DEF InRule, Settled, Reserving
  <2>2. CASE Requests(w)
    BY <2>1, <2>2, ArrivalStep
  <2>3. CASE Page(w)
    <3>1. PICK client \in Client : client = job[w].client
      BY <2>1, <2>3, PageStep
    <3>2. \A v \in Worker \ {w} : job[v].client # client
      BY <2>1, <3>1, Alone
    <3> QED
      BY <2>1, <2>3, <3>1, <3>2, PageStep DEF PagePc
  <2> QED
    BY <2>2, <2>3
<1>2. /\ DraftServed(job[w])' /\ TasksMatch(job[w])'
      /\ \A slot : ~ About(job'[w], slot)
  BY <1>1 DEF DraftServed, TasksMatch, About, AllocPc, ReevalPc
<1>3. \A key : ~ Reworking(w, key)
  BY <1>1 DEF Reworking
<1> QED
  BY <1>1, <1>2, <1>3, QuietRules DEF ReservationInv

\* A reevaluation that goes on to its next row.
LEMMA GoesOnMatches ==
    ASSUME NEW w \in Worker, NEW todo, GoesOn(w, todo),
           \A task, other \in todo : task.key = other.key => task = other,
           \A task \in todo : sessions'[task.key] # Nil =>
              /\ SameAnswer(task.row, sessions'[task.key])
              /\ \/ task.row.reason = sessions'[task.key].reason
                 \/ task.row.reason = AccessBlockedRule /\ task.reason = AccessAllowed
    PROVE  /\ DraftServed(job[w])' /\ TasksMatch(job[w])'
           /\ \A slot : ~ About(job'[w], slot)
           /\ \A key : ~ Reworking(w, key)'
<1>1. \/ job'[w].pc = "reevalRow" /\ job'[w].todo = todo
      \/ job'[w].pc \in {"lookup", "handle", "idle"}
  BY DEF GoesOn, Finished
<1>2. /\ job'[w].pc \notin {"resolve"} \cup AllocPc
      /\ job'[w].pc \notin {"allocAdd", "reevalSave", "reevalAdd", "reevalStore"}
      /\ job'[w].pc \in ReevalPc => job'[w].todo = todo
  BY <1>1 DEF AllocPc, ReevalPc
<1>3. DraftServed(job[w])'
  BY <1>2 DEF DraftServed
<1>4. TasksMatch(job[w])'
  BY <1>2 DEF TasksMatch
<1> QED
  BY <1>2, <1>3, <1>4 DEF About, Reworking

\* A reevaluation in the middle of a row.
LEMMA AtTaskMatches ==
    ASSUME InRule, NEW w \in Worker, NEW task \in job[w].todo, job[w].pc \in ReevalPc \ {"reevaluate"},
           NEW pc \in {"reevalSave", "reevalAdd", "reevalStore"}, AtTask(w, task, pc),
           \A other \in job[w].todo : sessions'[other.key] # Nil =>
              /\ SameAnswer(other.row, sessions'[other.key])
              /\ \/ other.row.reason = sessions'[other.key].reason
                 \/ other.row.reason = AccessBlockedRule /\ other.reason = AccessAllowed
                 \/ other = task,
           /\ pc = "reevalStore" /\ task.key \notin untold'
           /\ sessions'[task.key] # Nil /\ ~ Deleting(task.key)'
           => Served(job[w].client, Changed(task))'
    PROVE  /\ DraftServed(job[w])' /\ TasksMatch(job[w])' /\ Reworking(w, task.key)'
           /\ \A slot : About(job'[w], slot) =>
                 slot = <<job[w].client, task.row.addr>> /\ pc # "reevalStore"
<1>1. /\ job'[w].pc = pc /\ job'[w].at = task /\ job'[w].todo = job[w].todo
      /\ job'[w].client = job[w].client
  BY DEF AtTask, SameRequest
<1>2. DraftServed(job[w])'
  BY <1>1 DEF DraftServed, AllocPc
<1>3. \A this, other \in job[w].todo : this.key = other.key => this = other
  BY DEF InRule, RuleInv, TasksMatch
<1>4. pc \in RowPc
  BY DEF RowPc
<1>5. TasksMatch(job[w])'
  BY <1>1, <1>3, <1>4 DEF TasksMatch
<1> QED
  BY <1>1, <1>2, <1>5 DEF Reworking, About

\* Removing the rule of one session leaves the rules of the others alone: they
\* answer with other addresses.
LEMMA RemovalSpares ==
    ASSUME NEW key \in Key, NEW other \in Key, key # other, NEW row,
           Owned(other[1], other[2], row), NEW dest, Removes(other[1], row.addr, dest)
    PROVE  \A addr \in Address : \A d \in Dest :
              Kept(addr) /\ rdns[SlotOf(key[1], addr)] = key[2] =>
                 nat'[<<key[1], addr>>][d] = nat[<<key[1], addr>>][d]
<1> SUFFICES ASSUME NEW addr \in Address, NEW d \in Dest, Kept(addr),
                    rdns[SlotOf(key[1], addr)] = key[2]
             PROVE  nat'[<<key[1], addr>>][d] = nat[<<key[1], addr>>][d]
  OBVIOUS
<1>1. key = <<key[1], key[2]>> /\ other = <<other[1], other[2]>> /\ key[1] \in Client
  BY DEF Key
<1>2. <<key[1], addr>> \in Client \X Address
  BY <1>1
<1>3. CASE <<key[1], addr>> = <<other[1], row.addr>>
  <2>1. key[1] = other[1] /\ addr = row.addr
    BY <1>3
  <2>2. rdns[SlotOf(other[1], row.addr)] = other[2]
    BY <2>1 DEF Owned
  <2> QED
    BY <1>1, <2>1, <2>2
<1>4. CASE <<key[1], addr>> # <<other[1], row.addr>>
  BY <1>2, <1>4 DEF Removes
<1> QED
  BY <1>3, <1>4

\* The rule a session described was its address's only one.
LEMMA RemovalClears ==
    ASSUME TypeOK, OneRule, NEW client \in Client, NEW host, NEW row \in Row, Kept(row.addr),
           Owned(client, host, row), Removes(client, row.addr, DestIP(row))
    PROVE  \A d \in Dest : nat'[<<client, row.addr>>][d] = 0
<1> DEFINE slot == <<client, row.addr>>
           dest == DestIP(row)
<1>1. dest \in Dest /\ slot \in Client \X Address
  BY DestType DEF Owned, Row, Kept
<1>2. nat[slot][dest] > 0
  BY DEF Removes, Installed
<1> HIDE DEF dest
<1>3. /\ nat[slot][dest] <= 1
      /\ \A d \in Dest : nat[slot][d] \in Nat /\ (nat[slot][d] > 0 => d = dest)
  <2>1. Kept(slot[2])
    OBVIOUS
  <2> HIDE DEF slot
  <2>2. \A d \in Dest : nat[slot][d] \in Nat
    BY <1>1 DEF TypeOK
  <2> QED
    BY <1>1, <1>2, <2>1, <2>2 DEF OneRule
<1>4. \A d \in Dest : nat'[slot][d] = IF d = dest THEN nat[slot][d] - 1 ELSE nat[slot][d]
  BY <1>1 DEF Removes, dest
<1> QED
  BY <1>1, <1>2, <1>3, <1>4

LEMMA ReevalRules ==
    ASSUME InRule, ReservationInv', Settled, NEW w \in Worker, Reeval(w)
    PROVE  RuleInv'
<1>1. job[w].pc \in ReevalPc
  BY DEF Reeval, Reevaluate, ReevalRow, ReevalSave, ReevalAdd, ReevalStore, At, ReevalPc
<1>2. /\ ReservationInv /\ TypeOK /\ TypeOK' /\ Orderly /\ dnsFw = "iptables" /\ OneRule
      /\ TasksMatch(job[w]) /\ TasksOwned(job[w]) /\ w \in Goroutine
      /\ untold' = untold
  <2>1. untold' = untold
    BY DEF Reeval, Reevaluate, ReevalRow, ReevalSave, ReevalAdd, ReevalStore, history
  <2> QED
    BY <2>1, SettledFw DEF InRule, RuleInv, ForeignInv, ReservationInv, Goroutine
<1>3. PICK client \in Client : client = job[w].client /\ job[w].todo \in SUBSET Task
  BY <1>1, <1>2, SnapshotFacts
<1>4. \A v \in Worker \ {w} : job[v].client # client
  BY <1>2, <1>3, Alone
<1>5. ASSUME Moves(w)
      PROVE  \A k : Deleting(k)' <=> Deleting(k)
  <2>1. job'[Ticker] = job[Ticker]
    BY <1>5, ForwardingAssumption DEF Moves, Goroutine
  <2> QED
    BY <2>1 DEF Deleting, At
<1>6. ASSUME job[w].pc # "reevaluate", NEW task \in job[w].todo
      PROVE  /\ task \in Task /\ task.key \in Key /\ task.key[1] = client
             /\ task.row \in Row /\ Owned(task.key[1], task.key[2], task.row)
             /\ \A other \in job[w].todo : task.key = other.key => task = other
             /\ sessions[task.key] # Nil =>
                   /\ SameAnswer(task.row, sessions[task.key])
                   /\ \/ task.row.reason = sessions[task.key].reason
                      \/ task.row.reason = AccessBlockedRule /\ task.reason = AccessAllowed
                      \/ job[w].pc \in RowPc /\ task = job[w].at
  <2>1. task \in Task /\ task.key[1] = client
    BY <1>1, <1>2, <1>3, <1>6, SnapshotFacts DEF Safe, SnapshotSafe
  <2>2. Owned(task.key[1], task.key[2], task.row)
    BY <1>1, <1>2, <1>6 DEF TasksOwned
  <2>3. /\ \A other \in job[w].todo : task.key = other.key => task = other
        /\ sessions[task.key] # Nil =>
              /\ SameAnswer(task.row, sessions[task.key])
              /\ \/ task.row.reason = sessions[task.key].reason
                 \/ task.row.reason = AccessBlockedRule /\ task.reason = AccessAllowed
                 \/ job[w].pc \in RowPc /\ task = job[w].at
    BY <1>1, <1>2, <1>6 DEF TasksMatch
  <2> QED
    BY <2>1, <2>2, <2>3 DEF Task
<1>7. ASSUME NEW k \in Key, k[1] = client, k \notin untold, ~ Reworking(w, k),
             sessions[k] # Nil, ~ Deleting(k)
      PROVE  /\ sessions[k] \in Row /\ Owned(k[1], k[2], sessions[k])
             /\ Served(client, sessions[k])
  <2>1. sessions[k] \in Row /\ Owned(k[1], k[2], sessions[k])
    BY <1>2, <1>7, MainSleeps DEF TypeOK
  <2>2. Served(k[1], sessions[k])
    BY <1>3, <1>7, OwnStands
  <2> QED
    BY <1>7, <2>1, <2>2
<1>8. ASSUME NEW row, Served(client, row), UNCHANGED nat
      PROVE  Served(client, row)'
  BY <1>8 DEF Served, Installed, DestIP, Kept, OffsetOf
<1>9. CASE Reevaluate(w)
  <2>1. PICK todo : GoesOn(w, todo) /\ Verifies(w, todo)
    BY <1>2, <1>9, ReevaluateStep
  <2>2. Moves(w) /\ UNCHANGED <<sessions, nat>> /\ job[w].pc = "reevaluate"
    BY <1>2, <1>9, ReevaluateStep DEF Reevaluate, At
  <2>3. PICK info \in Policy : info = policy[client]
    BY <1>2 DEF TypeOK
  <2>4. ASSUME NEW task \in todo
        PROVE  /\ SameAnswer(task.row, sessions'[task.key])
               /\ \/ task.row.reason = sessions'[task.key].reason
                  \/ task.row.reason = AccessBlockedRule /\ task.reason = AccessAllowed
    <3>1. /\ task \in Task /\ SameAnswer(task.row, sessions[task.key])
          /\ task.reason = info.verdict[task.key[2]]
          /\ \/ task.row.reason = sessions[task.key].reason
             \/ task.row.reason = AccessBlockedRule /\ ~ info.profile
      BY <1>3, <2>1, <2>3 DEF Verifies
    <3>2. task.key[2] \in Host
      BY <3>1 DEF Task, Key
    <3>3. ~ info.profile => task.reason = AccessAllowed
      BY <3>1, <3>2, ForwardingAssumption
    <3> QED
      BY <2>2, <3>1, <3>3
  <2>5. \A task, other \in todo : task.key = other.key => task = other
    BY <2>1 DEF Verifies
  <2>6. /\ DraftServed(job[w])' /\ TasksMatch(job[w])'
        /\ \A slot : ~ About(job'[w], slot)
    BY <2>1, <2>4, <2>5, GoesOnMatches
  <2>7. \A k \in Key : ~ Reworking(w, k)
    BY <2>2 DEF Reworking
  <2> QED
    BY <1>2, <1>3, <1>4, <2>2, <2>6, <2>7, QuietRules
<1>10. CASE ReevalRow(w)
  <2>1. job[w].pc = "reevalRow" /\ Moves(w) /\ UNCHANGED <<sessions, rdns>>
        /\ job[w].pc \in ReevalPc \ {"reevaluate"} /\ job[w].pc \notin RowPc
    BY <1>2, <1>10, ReevalRowStep DEF ReevalRow, At, ReevalPc, RowPc
  <2>2. PICK task \in job[w].todo :
          \/ /\ AtTask(w, task, "reevalSave")
             /\ RemoveForwardRule(dnsFw, client, task.row.addr, DestIP(task.row))
          \/ /\ AtTask(w, task, "reevalStore")
             /\ task.row.target # Nil
             /\ RemoveForwardRuleFails(dnsFw, client, task.row.addr, DestIP(task.row))
          \/ /\ AtTask(w, task, "reevalStore")
             /\ task.row.target = Nil
             /\ UNCHANGED nat
    BY <1>2, <1>3, <1>10, ReevalRowStep
  <2>3. /\ task \in Task /\ task.key \in Key /\ task.key[1] = client /\ task.row \in Row
        /\ Owned(task.key[1], task.key[2], task.row)
    BY <1>6, <2>1
  <2>4. \A k : ~ Reworking(w, k)
    BY <2>1 DEF Reworking
  <2>5. ASSUME NEW other \in job[w].todo, sessions'[other.key] # Nil
        PROVE  /\ SameAnswer(other.row, sessions'[other.key])
               /\ \/ other.row.reason = sessions'[other.key].reason
                  \/ other.row.reason = AccessBlockedRule /\ other.reason = AccessAllowed
                  \/ other = task
    BY <1>6, <2>1, <2>5
  <2>6. CASE /\ AtTask(w, task, "reevalSave")
             /\ RemoveForwardRule(dnsFw, client, task.row.addr, DestIP(task.row))
    <3> DEFINE row == task.row
    <3>1. Removes(client, row.addr, DestIP(row))
      BY <1>2, <2>6, RemovesRule
    <3>2. /\ DraftServed(job[w])' /\ TasksMatch(job[w])' /\ Reworking(w, task.key)'
          /\ \A slot : About(job'[w], slot) => slot = <<client, row.addr>>
      BY <1>3, <2>1, <2>5, <2>6, AtTaskMatches
    <3>3. OneRule'
      <4>1. ASSUME NEW slot \in Client \X Address, NEW d \in Dest
            PROVE  nat'[slot][d] <= nat[slot][d]
        <5>1. nat[slot][d] \in Nat
          BY <1>2 DEF TypeOK
        <5> QED
          BY <3>1, <5>1 DEF Removes
      <4>2. ASSUME Kept(row.addr)
            PROVE  \A d \in Dest : nat'[<<client, row.addr>>][d] = 0
        BY <1>2, <2>3, <3>1, <4>2, RemovalClears
      <4>3. \A slot \in Client \X Address : Kept(slot[2]) /\ About(job'[w], slot) =>
               \A d \in Dest : nat'[slot][d] = 0
        BY <3>2, <4>2
      <4> QED
        BY <1>2, <2>1, <4>1, <4>3, NoneAppended
    <3>4. ASSUME NEW k \in Key, k[1] = client, sessions'[k] # Nil, k \notin untold',
                 ~ Deleting(k), ~ Reworking(w, k)'
          PROVE  Served(k[1], sessions[k])'
      <4>1. k # task.key
        BY <3>2, <3>4
      <4>2. PICK r \in Row : r = sessions[k] /\ r = sessions'[k]
        BY <1>2, <1>7, <2>1, <2>4, <3>4
      <4>3. Served(k[1], r) /\ Owned(k[1], k[2], r)
        BY <1>2, <1>7, <2>1, <2>4, <3>4, <4>2
      <4>4. PICK key \in Key : key = task.key
        BY <2>3
      <4>5. \A addr \in Address : \A d \in Dest :
              Kept(addr) /\ rdns[SlotOf(k[1], addr)] = k[2] =>
                 nat'[<<k[1], addr>>][d] = nat[<<k[1], addr>>][d]
        BY <2>3, <3>1, <4>1, <4>4, RemovalSpares
      <4>6. Calm(k) /\ ~ Deleting(k)'
        BY <1>5, <2>1, <3>4, <4>5 DEF Calm, SameAnswer
      <4>7. Served(k[1], r)'
        BY <4>3, <4>6, StaysServed
      <4> QED
        BY <4>2, <4>7
    <3>5. \A slot \in Client \X Address : \A d \in Dest :
             slot[1] # client => nat'[slot][d] = nat[slot][d]
      BY <3>1 DEF Removes
    <3> QED
      BY <1>2, <1>3, <1>4, <2>1, <3>2, <3>3, <3>4, <3>5, WorkerRules
  <2>7. ASSUME AtTask(w, task, "reevalStore"), UNCHANGED nat,
               /\ task.key \notin untold
               /\ sessions[task.key] # Nil /\ ~ Deleting(task.key)
               => Served(client, Changed(task))
        PROVE  RuleInv'
    <3>1. PICK row : row = Changed(task)
      OBVIOUS
    <3>2. /\ task.key \notin untold'
          /\ sessions'[task.key] # Nil /\ ~ Deleting(task.key)'
          => Served(client, row)'
      BY <1>2, <1>5, <1>8, <2>1, <2>7, <3>1
    <3>3. /\ task.key \notin untold'
          /\ sessions'[task.key] # Nil /\ ~ Deleting(task.key)'
          => Served(job[w].client, Changed(task))'
      <4>1. job'[w].client = client
        BY <1>3, <2>7 DEF AtTask, SameRequest
      <4> QED
        BY <3>1, <3>2, <4>1 DEF Changed
    <3>4. /\ DraftServed(job[w])' /\ TasksMatch(job[w])'
          /\ \A slot : ~ About(job'[w], slot)
      BY <1>3, <2>1, <2>5, <2>7, <3>3, AtTaskMatches
    <3> QED
      BY <1>2, <1>3, <1>4, <2>1, <2>4, <2>7, <3>4, QuietRules
  <2>8. /\ Changed(task).addr = task.row.addr /\ Changed(task).target = task.row.target
        /\ Changed(task).ifc = task.row.ifc /\ Changed(task).reason = task.reason
    BY <2>3 DEF Changed, Task, Row
  <2>9. CASE /\ AtTask(w, task, "reevalStore") /\ task.row.target # Nil
             /\ RemoveForwardRuleFails(dnsFw, client, task.row.addr, DestIP(task.row))
    <3>1. UNCHANGED nat /\ ~ Installed(client, task.row.addr, DestIP(task.row))
      BY <1>2, <2>9 DEF RemoveForwardRuleFails, Settled
    <3>2. ASSUME task.key \notin untold, sessions[task.key] # Nil, ~ Deleting(task.key),
                 Kept(task.row.addr), task.row.addr # Own[client]
          PROVE  Installed(client, task.row.addr, DestIP(Changed(task)))
      <4> DEFINE stored == sessions[task.key]
      <4>1. Served(client, stored) /\ SameAnswer(task.row, stored)
        BY <1>6, <1>7, <2>1, <2>3, <2>4, <3>2
      <4>2. Installed(client, task.row.addr, DestIP(stored))
        BY <3>2, <4>1 DEF Served, SameAnswer
      <4>3. task.row.reason # stored.reason
        BY <3>1, <4>1, <4>2, DestAlike
      <4>4. task.row.reason = AccessBlockedRule /\ task.reason = AccessAllowed
        BY <1>6, <2>1, <3>2, <4>3
      <4>5. DestIP(task.row) = task.row.ifc /\ DestIP(Changed(task)) = task.row.target
        BY <2>8, <4>4 DEF DestIP, AccessBlockedRule, AccessAllowed
      <4>6. DestIP(stored) \in {task.row.ifc, task.row.target}
        BY <4>1 DEF DestIP, SameAnswer
      <4> QED
        BY <3>1, <4>2, <4>5, <4>6
    <3> QED
      BY <2>7, <2>8, <2>9, <3>1, <3>2 DEF Served
  <2>10. CASE AtTask(w, task, "reevalStore") /\ task.row.target = Nil /\ UNCHANGED nat
    <3>1. Served(client, Changed(task))
      BY <2>3, <2>8, <2>10 DEF Served, Owned
    <3> QED
      BY <2>7, <2>10, <3>1
  <2> QED
    BY <2>2, <2>6, <2>9, <2>10
<1>11. CASE ReevalSave(w)
  <2>1. job[w].pc = "reevalSave" /\ job[w].pc \in ReevalPc \ {"reevaluate"}
    BY <1>11 DEF ReevalSave, At, ReevalPc
  <2>2. PICK task \in job[w].todo :
          /\ task = job[w].at /\ task.key \in Key /\ task.key[1] = client
          /\ SameAnswer(Changed(task), task.row)
    BY <1>2, <1>3, <2>1, ReevalTask
  <2>3. PICK row : row = Changed(task)
    OBVIOUS
  <2>4. /\ Moves(w) /\ UNCHANGED <<rdns, nat>> /\ AtTask(w, task, "reevalAdd")
        /\ Updates(task.key, row)
    BY <1>2, <1>11, <2>2, <2>3, ReevalSaveStep
  <2>5. \A k \in Key : sessions'[k] = IF k = task.key /\ sessions[k] # Nil THEN row
                                      ELSE sessions[k]
    BY <1>2, <2>2, <2>4 DEF Updates, TypeOK
  <2>6. ASSUME NEW other \in job[w].todo, sessions'[other.key] # Nil
        PROVE  /\ SameAnswer(other.row, sessions'[other.key])
               /\ \/ other.row.reason = sessions'[other.key].reason
                  \/ other.row.reason = AccessBlockedRule /\ other.reason = AccessAllowed
                  \/ other = task
    <3>1. CASE other = task
      BY <2>2, <2>3, <2>5, <2>6, <3>1 DEF SameAnswer
    <3>2. CASE other # task
      <4>1. other.key # task.key /\ other.key \in Key
        BY <1>6, <2>1, <3>2
      <4>2. sessions'[other.key] = sessions[other.key]
        BY <2>5, <4>1
      <4> QED
        BY <1>6, <2>1, <2>2, <2>6, <3>2, <4>2
    <3> QED
      BY <3>1, <3>2
  <2>7. /\ DraftServed(job[w])' /\ TasksMatch(job[w])' /\ Reworking(w, task.key)'
        /\ \A slot : About(job'[w], slot) => slot = <<client, task.row.addr>>
    BY <1>3, <2>1, <2>4, <2>6, AtTaskMatches
  <2>8. OneRule'
    <3>1. \A slot \in Client \X Address : \A d \in Dest : nat'[slot][d] <= nat[slot][d]
      BY <1>2, <2>4 DEF TypeOK
    <3>2. \A slot : About(job'[w], slot) => About(job[w], slot)
      BY <1>3, <2>1, <2>2, <2>7 DEF About
    <3> QED
      BY <1>2, <2>4, <3>1, <3>2, NoneAppended
  <2>9. ASSUME NEW k \in Key, k[1] = client, sessions'[k] # Nil, k \notin untold',
               ~ Deleting(k), ~ Reworking(w, k)'
        PROVE  Served(k[1], sessions[k])'
    <3>1. k # task.key
      BY <2>7, <2>9
    <3>2. ~ Reworking(w, k)
      BY <2>2, <3>1 DEF Reworking
    <3>3. PICK r : r = sessions[k] /\ r = sessions'[k]
      BY <2>5, <3>1
    <3>4. Served(client, r)
      BY <1>2, <1>7, <2>9, <3>2, <3>3
    <3>5. Served(client, r)'
      BY <1>8, <2>4, <3>4
    <3> QED
      BY <2>9, <3>3, <3>5
  <2>10. \A k \in Key : /\ k[1] # client => sessions'[k] = sessions[k]
                        /\ sessions[k] # Nil => sessions'[k] # Nil
    <3>1. row # Nil
      BY <1>2, <2>1, <2>2, <2>3, ReevalTask, ForwardingAssumption
    <3> QED
      BY <2>2, <2>5, <3>1
  <2> QED
    BY <1>2, <1>3, <1>4, <2>4, <2>7, <2>8, <2>9, <2>10, WorkerRules
<1>12. CASE ReevalAdd(w)
  <2>1. job[w].pc = "reevalAdd" /\ job[w].pc \in ReevalPc \ {"reevaluate"}
    BY <1>12 DEF ReevalAdd, At, ReevalPc
  <2>2. PICK task \in job[w].todo :
          /\ task = job[w].at /\ task.key \in Key /\ task.key[1] = client
          /\ Changed(task) \in Row /\ SameAnswer(Changed(task), task.row)
    BY <1>2, <1>3, <2>1, ReevalTask
  <2>3. PICK row \in Row : row = Changed(task)
    BY <2>2
  <2> DEFINE dest == DestIP(row)
  <2>4. /\ Moves(w) /\ UNCHANGED <<sessions, rdns>> /\ AtTask(w, task, "reevalStore")
        /\ AddForwardRule(dnsFw, client, row.addr, dest)
    BY <1>2, <1>3, <1>12, <2>2, <2>3, ReevalAddStep DEF SameAnswer
  <2>5. Owned(client, task.key[2], row)
    BY <1>6, <2>1, <2>2, <2>3, OwnedSame DEF SameAnswer
  <2>6. ASSUME NEW other \in job[w].todo, sessions'[other.key] # Nil
        PROVE  /\ SameAnswer(other.row, sessions'[other.key])
               /\ \/ other.row.reason = sessions'[other.key].reason
                  \/ other.row.reason = AccessBlockedRule /\ other.reason = AccessAllowed
                  \/ other = task
    BY <1>6, <2>1, <2>2, <2>4, <2>6
  <2>7. ASSUME Served(client, row)'
        PROVE  /\ DraftServed(job[w])' /\ TasksMatch(job[w])' /\ Reworking(w, task.key)'
               /\ \A slot : ~ About(job'[w], slot)
    <3>1. job'[w].client = client
      BY <1>3, <2>4 DEF AtTask, SameRequest
    <3>2. Served(job[w].client, Changed(task))'
      BY <2>3, <2>7, <3>1 DEF Changed
    <3> QED
      BY <1>3, <2>1, <2>4, <2>6, <3>2, AtTaskMatches
  <2>8. \A k : Reworking(w, k)' <=> Reworking(w, k)
    BY <2>1, <2>2, <2>4 DEF Reworking, AtTask
  <2>9. \/ row.addr # Own[client] /\ Adds(client, row.addr, dest)
        \/ row.addr \in {NoIP, Own[client]} /\ UNCHANGED nat
    BY <1>2, <2>4, AddsRule DEF Settled
  <2>10. CASE row.addr \in {NoIP, Own[client]} /\ UNCHANGED nat
    <3>1. Served(client, row)'
      BY <2>10 DEF Served, Kept
    <3> QED
      BY <1>2, <1>3, <1>4, <2>4, <2>7, <2>8, <2>10, <3>1, QuietRules
  <2>11. CASE row.addr # Own[client] /\ Adds(client, row.addr, dest)
    <3>1. PICK addr \in Address : addr = row.addr
      BY <2>11 DEF Adds, Row
    <3>2. Kept(addr) => row.target # Nil /\ dest \in Dest
      BY <2>5, <3>1, DestType DEF Owned
    <3> HIDE DEF dest
    <3>3. Served(client, row)'
      <4>1. ASSUME Kept(addr)
            PROVE  nat'[<<client, addr>>][dest] > 0
        <5>1. <<client, addr>> \in Client \X Address /\ nat[<<client, addr>>][dest] \in Nat
          BY <1>2, <3>2, <4>1 DEF TypeOK
        <5> QED
          BY <2>11, <3>1, <3>2, <4>1, <5>1 DEF Adds
      <4> QED
        BY <3>1, <4>1 DEF Served, Installed, Kept, OffsetOf, DestIP, dest
    <3>4. About(job[w], <<client, addr>>) /\ \A slot : ~ About(job'[w], slot)
      BY <1>3, <2>1, <2>2, <2>3, <2>7, <3>1, <3>3 DEF About, SameAnswer
    <3>5. OneRule'
      <4>1. CASE Kept(addr)
        BY <1>2, <1>3, <2>4, <2>11, <3>1, <3>2, <3>4, <4>1, RuleAppended
      <4>2. CASE ~ Kept(addr)
        <5>1. ASSUME NEW slot \in Client \X Address, Kept(slot[2]), NEW d \in Dest
              PROVE  nat'[slot][d] <= nat[slot][d]
          <6>1. nat[slot][d] \in Nat /\ slot # <<client, addr>>
            BY <1>2, <4>2, <5>1 DEF TypeOK
          <6> QED
            BY <2>11, <3>1, <6>1 DEF Adds
        <5> QED
          BY <1>2, <2>4, <3>4, <5>1, NoneAppended
      <4> QED
        BY <4>1, <4>2
    <3>6. job'[Ticker] = job[Ticker]
      BY <2>4, ForwardingAssumption DEF Moves, Goroutine
    <3>7. \A k \in Key : Calm(k)
      BY <1>2, <2>4, <2>11, <3>6, CalmWhenAdded
    <3>8. ASSUME NEW k \in Key, k[1] = client, sessions'[k] # Nil, k \notin untold',
                 ~ Deleting(k), ~ Reworking(w, k)'
          PROVE  Served(k[1], sessions[k])'
      <4>1. PICK r \in Row : r = sessions[k] /\ r = sessions'[k] /\ Owned(k[1], k[2], r)
                             /\ Served(k[1], r)
        BY <1>2, <1>7, <2>4, <2>8, <3>8
      <4>2. ~ Deleting(k)'
        BY <1>5, <2>4, <3>8
      <4>3. Served(k[1], r)'
        BY <3>7, <4>1, <4>2, StaysServed
      <4> QED
        BY <4>1, <4>3
    <3>9. \A slot \in Client \X Address : \A d \in Dest :
             slot[1] # client => nat'[slot][d] = nat[slot][d]
      BY <2>11 DEF Adds
    <3> QED
      BY <1>2, <1>3, <1>4, <2>4, <2>7, <3>3, <3>5, <3>8, <3>9, WorkerRules
  <2> QED
    BY <2>9, <2>10, <2>11
<1>13. CASE ReevalStore(w)
  <2>1. job[w].pc = "reevalStore" /\ job[w].pc \in ReevalPc \ {"reevaluate"}
    BY <1>13 DEF ReevalStore, At, ReevalPc
  <2>2. PICK task \in job[w].todo :
          /\ task = job[w].at /\ task.key \in Key /\ task.key[1] = client
          /\ SameAnswer(Changed(task), task.row) /\ Changed(task).reason = task.reason
    BY <1>2, <1>3, <2>1, ReevalTask
  <2>3. Moves(w) /\ UNCHANGED <<rdns, nat>>
    BY <1>2, <1>13, ReevalStoreStep
  <2>4. PICK row \in Row : /\ Updates(task.key, row) /\ SameAnswer(row, task.row)
                           /\ row.reason = task.reason
    BY <1>2, <1>13, <2>2, ReevalStoreStep
  <2>5. PICK todo : todo = job[w].todo \ {task}
    OBVIOUS
  <2>6. GoesOn(w, todo)
    BY <1>2, <1>13, <2>2, <2>5, ReevalStoreStep
  <2>7. \A k \in Key : sessions'[k] = IF k = task.key /\ sessions[k] # Nil THEN row
                                      ELSE sessions[k]
    BY <1>2, <2>2, <2>4 DEF Updates, TypeOK
  <2>8. ASSUME NEW other \in todo, sessions'[other.key] # Nil
        PROVE  /\ SameAnswer(other.row, sessions'[other.key])
               /\ \/ other.row.reason = sessions'[other.key].reason
                  \/ other.row.reason = AccessBlockedRule /\ other.reason = AccessAllowed
    <3>1. other \in job[w].todo /\ other # task
      BY <2>5
    <3>2. other.key # task.key /\ other.key \in Key
      BY <1>6, <2>1, <3>1
    <3>3. sessions'[other.key] = sessions[other.key]
      BY <2>7, <3>2
    <3> QED
      BY <1>6, <2>1, <2>2, <2>8, <3>1, <3>3
  <2>9. \A one, other \in todo : one.key = other.key => one = other
    BY <1>6, <2>1, <2>5
  <2>10. /\ DraftServed(job[w])' /\ TasksMatch(job[w])' /\ \A slot : ~ About(job'[w], slot)
    BY <2>6, <2>8, <2>9, GoesOnMatches
  <2>11. OneRule'
    <3>1. \A slot \in Client \X Address : \A d \in Dest : nat'[slot][d] <= nat[slot][d]
      BY <1>2, <2>3 DEF TypeOK
    <3> QED
      BY <1>2, <2>3, <2>10, <3>1, NoneAppended
  <2>12. ASSUME NEW k \in Key, k[1] = client, sessions'[k] # Nil, k \notin untold',
                ~ Deleting(k)
         PROVE  Served(k[1], sessions[k])'
    <3>1. CASE k = task.key
      <4>1. sessions[k] # Nil /\ sessions'[k] = row
        BY <2>7, <2>12, <3>1
      <4>2. Served(client, Changed(task))
        BY <1>2, <1>3, <2>1, <2>2, <2>12, <3>1, <4>1 DEF TasksMatch
      <4>3. SameAnswer(row, Changed(task)) /\ row.reason = Changed(task).reason
        BY <2>2, <2>4 DEF SameAnswer
      <4>4. DestIP(row) = DestIP(Changed(task)) /\ row.addr = Changed(task).addr
        BY <4>3, DestAlike DEF SameAnswer
      <4>5. Served(client, row)
        BY <4>2, <4>4 DEF Served
      <4>6. Served(client, row)'
        BY <1>8, <2>3, <4>5
      <4> QED
        BY <2>12, <4>1, <4>6
    <3>2. CASE k # task.key
      <4>1. ~ Reworking(w, k)
        BY <2>2, <3>2 DEF Reworking
      <4>2. PICK r : r = sessions[k] /\ r = sessions'[k]
        BY <2>7, <3>2
      <4>3. Served(client, r)
        BY <1>2, <1>7, <2>12, <4>1, <4>2
      <4>4. Served(client, r)'
        BY <1>8, <2>3, <4>3
      <4> QED
        BY <2>12, <4>2, <4>4
    <3> QED
      BY <3>1, <3>2
  <2>13. \A k \in Key : /\ k[1] # client => sessions'[k] = sessions[k]
                        /\ sessions[k] # Nil => sessions'[k] # Nil
    <3>1. row # Nil
      BY ForwardingAssumption
    <3> QED
      BY <2>2, <2>7, <3>1
  <2> QED
    BY <1>2, <1>3, <1>4, <2>3, <2>10, <2>11, <2>12, <2>13, WorkerRules
<1> QED
  BY <1>9, <1>10, <1>11, <1>12, <1>13 DEF Reeval

\* A step of the review or of time leaves every session it does not delete with
\* its rule, and what the workers have in hand.
LEMMA OthersRules ==
    ASSUME InRule, TypeOK', \A v \in Worker \cup {Admin} : job'[v] = job[v],
           untold \subseteq untold',
           \A key \in Key : Calm(key),
           job'[Ticker].pc \in {"idle"} \cup ReviewPc, ReviewMatches(job[Ticker])',
           \A slot \in Client \X Address :
              Kept(slot[2]) => \A d \in Dest : nat'[slot][d] <= nat[slot][d]
    PROVE  RuleInv'
<1>1. TypeOK /\ OneRule /\ StoredServed
  BY DEF InRule, ReservationInv, RuleInv
<1>2. OneRule'
  <2>1. ASSUME NEW slot, NEW g \in Goroutine, About(job'[g], slot)
        PROVE  About(job[g], slot)
    <3>1. g # Ticker
      BY <2>1 DEF About, ReviewPc
    <3> QED
      BY <2>1, <3>1 DEF Goroutine
  <2>2. ASSUME NEW slot \in Client \X Address, Pending(slot)' # {}
        PROVE  Pending(slot) # {}
    <3>1. \E g \in Goroutine : About(job[g], slot)
      BY <2>1, <2>2, PendingAbout
    <3> QED
      BY <3>1, PendingAbout
  <2> QED
    BY <1>1, <2>2, OneRuleStep
<1>3. ASSUME NEW key \in Key \ untold', sessions'[key] # Nil, ~ Deleting(key)',
             \A v \in Worker : ~ Reworking(v, key)'
      PROVE  Served(key[1], sessions[key])'
  <2>1. /\ sessions[key] # Nil /\ SameAnswer(sessions'[key], sessions[key])
        /\ sessions'[key].reason = sessions[key].reason /\ ~ Deleting(key) /\ Calm(key)
    BY <1>3 DEF Calm
  <2>2. \A v \in Worker : ~ Reworking(v, key)
    BY <1>3 DEF Reworking
  <2>3. PICK row \in Row : row = sessions[key]
    BY <1>1, <2>1 DEF TypeOK
  <2>4. Served(key[1], row) /\ Owned(key[1], key[2], row)
    BY <1>1, <1>3, <2>1, <2>2, <2>3, MainSleeps DEF StoredServed
  <2>5. Served(key[1], row)'
    BY <1>3, <2>1, <2>4, StaysServed
  <2>6. PICK other : other = sessions'[key]
    OBVIOUS
  <2>7. other.addr = row.addr /\ DestIP(other) = DestIP(row)
    BY <2>1, <2>3, <2>6, DestAlike DEF SameAnswer
  <2>8. Served(key[1], other)'
    BY <2>5, <2>7 DEF Served, Installed, DestIP, Kept, OffsetOf
  <2> QED
    BY <2>6, <2>8
<1>4. StoredServed'
  BY <1>3 DEF StoredServed
<1>5. \A v \in Worker : DraftServed(job[v])' /\ TasksMatch(job[v])'
  BY BystanderServed
<1>6. At(Admin, "idle")'
  BY DEF At, InRule, RuleInv
<1> QED
  BY <1>2, <1>4, <1>5, <1>6 DEF RuleInv

LEMMA ReviewRules ==
    ASSUME InRule, ReservationInv', Settled, Review
    PROVE  RuleInv'
<1>1. /\ ReservationInv /\ TypeOK /\ TypeOK' /\ Orderly /\ portalFw = "iptables"
      /\ ReviewMatches(job[Ticker]) /\ TasksOwned(job[Ticker])
      /\ Ticker \notin Worker \cup {Admin} /\ untold' = untold
  <2>1. untold' = untold
    BY DEF Review, StartReview, ReviewExtend, ReviewRow, ReviewDelete, history
  <2> QED
    BY <2>1, SettledFw, ForwardingAssumption
       DEF InRule, RuleInv, ForeignInv, ReservationInv, Goroutine
<1>2. ASSUME Moves(Ticker)
      PROVE  \A v \in Worker \cup {Admin} : job'[v] = job[v]
  BY <1>1, <1>2 DEF Moves, Goroutine
<1>3. \A slot \in Client \X Address : \A d \in Dest : nat[slot][d] \in Nat
  BY <1>1 DEF TypeOK
<1>4. ASSUME job[Ticker].pc \in {"reviewRow", "reviewDelete"}, NEW task \in job[Ticker].todo
      PROVE  /\ task \in Task /\ task.key \in Key
             /\ Owned(task.key[1], task.key[2], task.row) /\ sessions[task.key] # Nil
             /\ \A other \in job[Ticker].todo : task.key = other.key => task = other
  <2>1. task \in Task /\ job[Ticker].pc \in ReviewPc
    BY <1>1, <1>4, TickerTask DEF ReviewPc
  <2> QED
    BY <1>1, <1>4, <2>1 DEF Task, TasksOwned, ReviewMatches
<1>5. ASSUME NEW todo, ReviewsOn(todo),
             \A task \in todo : sessions'[task.key] # Nil,
             \A task, other \in todo : task.key = other.key => task = other
      PROVE  /\ job'[Ticker].pc \in {"idle"} \cup ReviewPc /\ ReviewMatches(job[Ticker])'
             /\ \A key : ~ Deleting(key)'
  BY <1>5 DEF ReviewsOn, ReviewMatches, ReviewPc, Deleting, At
<1>6. ASSUME job[Ticker].pc # "reviewDelete", UNCHANGED <<sessions, nat>>
      PROVE  \A key \in Key : Calm(key)
  BY <1>6 DEF Calm, SameAnswer, Deleting, At
<1>7. CASE StartReview
  <2>1. PICK todo : /\ ReviewsOn(todo)
                    /\ \A task \in todo : sessions[task.key] # Nil
                    /\ \A task, other \in todo : task.key = other.key => task = other
    BY <1>1, <1>7, StartReviewStep
  <2>2. Moves(Ticker) /\ UNCHANGED <<sessions, nat>> /\ job[Ticker].pc # "reviewDelete"
    BY <1>1, <1>7, StartReviewStep DEF StartReview, At
  <2>3. job'[Ticker].pc \in {"idle"} \cup ReviewPc /\ ReviewMatches(job[Ticker])'
    BY <1>5, <2>1, <2>2
  <2> QED
    BY <1>1, <1>2, <1>3, <1>6, <2>2, <2>3, OthersRules
<1>8. CASE ReviewRow
  <2>1. job[Ticker].pc = "reviewRow" /\ Moves(Ticker) /\ UNCHANGED <<sessions, rdns>>
    BY <1>1, <1>8, ReviewRowStep DEF ReviewRow, At
  <2>2. PICK task \in job[Ticker].todo :
          \/ /\ AtReview(task)
             /\ RemoveForwardRule(portalFw, task.key[1], task.row.addr, DestIP(task.row))
          \/ ReviewsOn(job[Ticker].todo \ {task}) /\ UNCHANGED nat
          \/ AtReview(task) /\ UNCHANGED nat
    BY <1>1, <1>8, ReviewRowStep
  <2>3. ASSUME AtReview(task)
        PROVE  /\ job'[Ticker].pc \in {"idle"} \cup ReviewPc /\ ReviewMatches(job[Ticker])'
               /\ Deleting(task.key)'
    BY <1>4, <2>1, <2>3 DEF AtReview, ReviewMatches, ReviewPc, Deleting, At
  <2>4. CASE /\ AtReview(task)
             /\ RemoveForwardRule(portalFw, task.key[1], task.row.addr, DestIP(task.row))
    <3>1. Removes(task.key[1], task.row.addr, DestIP(task.row))
      BY <1>1, <2>4, RemovesRule
    <3>2. ASSUME NEW key \in Key
          PROVE  Calm(key)
      <4>1. ~ Deleting(key)
        BY <2>1 DEF Deleting, At
      <4>2. CASE key = task.key
        BY <2>1, <2>3, <2>4, <4>1, <4>2 DEF Calm, SameAnswer
      <4>3. CASE key # task.key
        <5>1. PICK other \in Key : other = task.key
          BY <1>4, <2>1
        <5>2. \A addr \in Address : \A d \in Dest :
                 Kept(addr) /\ rdns[SlotOf(key[1], addr)] = key[2] =>
                    nat'[<<key[1], addr>>][d] = nat[<<key[1], addr>>][d]
          BY <1>4, <2>1, <3>1, <4>3, <5>1, RemovalSpares
        <5> QED
          BY <2>1, <4>1, <5>2 DEF Calm, SameAnswer
      <4> QED
        BY <4>2, <4>3
    <3>3. ASSUME NEW slot \in Client \X Address, NEW d \in Dest
          PROVE  nat'[slot][d] <= nat[slot][d]
      BY <1>3, <3>1 DEF Removes
    <3> QED
      BY <1>1, <1>2, <2>1, <2>3, <2>4, <3>2, <3>3, OthersRules
  <2>5. CASE ReviewsOn(job[Ticker].todo \ {task}) /\ UNCHANGED nat
    <3>1. PICK todo : todo = job[Ticker].todo \ {task}
      OBVIOUS
    <3>2. /\ \A one \in todo : sessions'[one.key] # Nil
          /\ \A one, other \in todo : one.key = other.key => one = other
      BY <1>4, <2>1, <3>1
    <3>3. job'[Ticker].pc \in {"idle"} \cup ReviewPc /\ ReviewMatches(job[Ticker])'
      BY <1>5, <2>5, <3>1, <3>2
    <3> QED
      BY <1>1, <1>2, <1>3, <1>6, <2>1, <2>5, <3>3, OthersRules
  <2>6. CASE AtReview(task) /\ UNCHANGED nat
    BY <1>1, <1>2, <1>3, <1>6, <2>1, <2>3, <2>6, OthersRules
  <2> QED
    BY <2>2, <2>4, <2>5, <2>6
<1>9. CASE ReviewDelete
  <2>1. /\ Moves(Ticker) /\ UNCHANGED <<rdns, nat>> /\ job[Ticker].pc = "reviewDelete"
        /\ sessions' = [sessions EXCEPT ![job[Ticker].at.key] = Nil]
        /\ ReviewsOn(job[Ticker].todo \ {job[Ticker].at})
    BY <1>1, <1>9, ReviewDeleteStep
  <2>2. PICK task \in job[Ticker].todo : task = job[Ticker].at
    BY <1>1, <2>1 DEF TasksOwned, ReviewPc, RowPc
  <2>3. \A key \in Key : sessions'[key] = IF key = task.key THEN Nil ELSE sessions[key]
    BY <1>1, <2>1, <2>2 DEF TypeOK
  <2>4. PICK todo : todo = job[Ticker].todo \ {task}
    OBVIOUS
  <2>5. ASSUME NEW one \in todo
        PROVE  sessions'[one.key] # Nil
    <3>1. one \in job[Ticker].todo /\ one # task
      BY <2>4
    <3>2. one.key # task.key /\ one.key \in Key /\ sessions[one.key] # Nil
      BY <1>4, <2>1, <3>1
    <3> QED
      BY <2>3, <3>2
  <2>6. \A one, other \in todo : one.key = other.key => one = other
    BY <1>4, <2>1, <2>4
  <2>7. job'[Ticker].pc \in {"idle"} \cup ReviewPc /\ ReviewMatches(job[Ticker])'
    BY <1>5, <2>1, <2>2, <2>4, <2>5, <2>6
  <2>8. ASSUME NEW key \in Key
        PROVE  Calm(key)
    <3>1. Deleting(key) => key = task.key
      BY <2>2 DEF Deleting
    <3> QED
      BY <2>1, <2>3, <3>1 DEF Calm, SameAnswer
  <2> QED
    BY <1>1, <1>2, <1>3, <2>1, <2>7, <2>8, OthersRules
<1> QED
  BY <1>1, <1>7, <1>8, <1>9, NoReviewExtend DEF Review

LEMMA TimeRules ==
    ASSUME InRule, ReservationInv', Settled, Time \/ UNCHANGED vars
    PROVE  RuleInv'
<1>1. /\ TypeOK /\ TypeOK' /\ ReviewMatches(job[Ticker])
      /\ job[Ticker].pc \in {"idle"} \cup ReviewPc
  BY DEF InRule, RuleInv, ReservationInv
<1>2. UNCHANGED <<nat, job, untold>>
  BY DEF Time, SessionExpires, PortalSessionExpires, ScheduleChanges, vars, db, history
<1>3. ASSUME NEW key \in Key
      PROVE  /\ sessions'[key] # Nil <=> sessions[key] # Nil
             /\ sessions[key] # Nil => /\ SameAnswer(sessions'[key], sessions[key])
                                       /\ sessions'[key].reason = sessions[key].reason
  <2>1. CASE UNCHANGED sessions
    BY <2>1 DEF SameAnswer
  <2>2. CASE \E k \in Key : SessionExpires(k)
    <3>1. PICK k \in Key : /\ sessions[k] # Nil
                           /\ sessions' = [sessions EXCEPT ![k].expired = TRUE]
      BY <2>2 DEF SessionExpires
    <3>2. sessions[k] \in Row /\ sessions'[k] = [sessions[k] EXCEPT !.expired = TRUE]
      BY <1>1, <3>1 DEF TypeOK
    <3>3. [sessions[k] EXCEPT !.expired = TRUE] \in Row
      BY <3>2 DEF Row
    <3>4. sessions'[k] # Nil /\ SameAnswer(sessions'[k], sessions[k])
          /\ sessions'[k].reason = sessions[k].reason
      <4>1. sessions'[k] # Nil
        BY <3>2, <3>3, ForwardingAssumption
      <4> QED
        BY <3>2, <4>1 DEF SameAnswer, Row
    <3>5. key # k => sessions'[key] = sessions[key]
      BY <1>1, <3>1 DEF TypeOK
    <3> QED
      BY <3>1, <3>4, <3>5 DEF SameAnswer
  <2> QED
    BY <2>1, <2>2 DEF Time, PortalSessionExpires, ScheduleChanges, vars, db
<1>4. \A key \in Key : Calm(key)
  BY <1>2, <1>3 DEF Calm, Deleting, At
<1>5. ReviewMatches(job[Ticker])'
  <2>1. \A task \in job[Ticker].todo : task.key \in Key
    BY TickerTask DEF InRule, Task
  <2> QED
    BY <1>1, <1>2, <1>3, <2>1 DEF ReviewMatches
<1>6. \A slot \in Client \X Address : \A d \in Dest : nat'[slot][d] <= nat[slot][d]
  BY <1>1, <1>2 DEF TypeOK
<1> QED
  BY <1>1, <1>2, <1>4, <1>5, <1>6, OthersRules

\* The inductive invariant of the rules: between the steps of a request too, a
\* session whose address nobody is working on has the rule it describes, unless a
\* lookup from the cache gave it another verdict, and no address has two.
THEOREM RuleInvHolds ==
    ASSUME Settled
    PROVE  Spec => []RuleInv
<1>1. Orderly /\ Reserving /\ ~ Restart /\ \A fw \in Firewall : ~ StartSwitch(fw)
  BY DEF Settled, Reserving, Orderly, Restart, StartSwitch
<1>2. Init => RuleInv
  <2> HAVE Init
  <2>1. \A g \in Goroutine : job[g].pc = "idle"
    BY DEF Init, Idle
  <2>2. /\ job[Ticker].pc = "idle" /\ At(Admin, "idle")
        /\ \A w \in Worker : job[w].pc = "idle"
    BY <2>1 DEF Goroutine, At
  <2>3. \A w \in Worker : DraftServed(job[w]) /\ TasksMatch(job[w])
    BY <2>2 DEF DraftServed, TasksMatch, AllocPc, ReevalPc
  <2>4. StoredServed /\ ReviewMatches(job[Ticker])
    BY <2>2 DEF Init, StoredServed, ReviewMatches, ReviewPc
  <2>5. \A slot \in Client \X Address : \A d \in Dest : nat[slot][d] = 0
    BY DEF Init, NoRules
  <2>6. OneRule
    BY <2>5 DEF OneRule
  <2> QED
    BY <2>2, <2>3, <2>4, <2>6 DEF RuleInv
<1>3. InRule /\ ReservationInv' /\ [Next]_vars => RuleInv'
  <2> HAVE InRule /\ ReservationInv' /\ [Next]_vars
  <2>1. ASSUME NEW w \in Worker, Requests(w) \/ Serve(w)
        PROVE  RuleInv'
    <3>1. ReservationInv /\ ~ Flush(w)
      BY FlushStep DEF InRule, ForeignInv, Goroutine
    <3> QED
      BY <2>1, <3>1, RequestsRules, QueryRules, ReevalRules DEF Serve
  <2>2. ~ Switch
    BY DEF InRule, RuleInv, At, Switch, SwitchSet, SwitchRow, SwitchDelete,
       ClearPrerouting, ClearOutput, SwitchAdd
  <2> QED
    BY <1>1, <2>1, <2>2, ReviewRules, TimeRules DEF Next
<1>4. Spec => [](ReservationInv /\ ForeignInv)
  BY <1>1, InvariantHolds, ForeignInvHolds, PTL
<1>5. (ReservationInv /\ ForeignInv) /\ ReservationInv' /\ RuleInv /\ [Next]_vars => RuleInv'
  BY <1>3 DEF InRule
<1> QED
  BY <1>2, <1>4, <1>5, PTL DEF Spec

\* Nothing of a quiet client's sessions is in anybody's hands.
LEMMA QuietClient ==
    ASSUME ReservationInv, NEW key \in Key, Quiet(key[1])
    PROVE  ~ Deleting(key) /\ \A w \in Worker : ~ Reworking(w, key)
<1>1. ~ Deleting(key)
  BY DEF Deleting, Quiet, At
<1>2. \A w \in Worker : ~ Reworking(w, key)
  BY ReevalTask DEF Reworking, Quiet
<1> QED
  BY <1>1, <1>2

\* Whoever got an answer reaches what it stands for: after every request, whatever the
\* reevaluations and reviews in between removed and appended, the rule that a session
\* describes, to the host or to the portal, is installed, unless a lookup from the
\* cache changed its verdict or its address is the client's own.
THEOREM SessionHasItsRule ==
    ASSUME Settled
    PROVE  Spec => []RuleMatchesSession
<1>1. ReservationInv /\ RuleInv => RuleMatchesSession
  <2> SUFFICES ASSUME ReservationInv, RuleInv, NEW key \in Key \ untold,
                      sessions[key] # Nil, Quiet(key[1]), Kept(sessions[key].addr),
                      sessions[key].addr # Own[key[1]]
               PROVE  Installed(key[1], sessions[key].addr, DestIP(sessions[key]))
    BY DEF RuleMatchesSession
  <2>1. ~ Deleting(key) /\ \A w \in Worker : ~ Reworking(w, key)
    BY QuietClient
  <2> QED
    BY <2>1 DEF RuleInv, StoredServed, Served
<1>2. Orderly
  BY DEF Settled, Reserving
<1> QED
  BY <1>1, <1>2, InvariantHolds, RuleInvHolds, PTL

\* A refused client cannot get past the portal on a rule left over from a time of
\* access: the one rule of a blocked session's address leads to the portal, unless the
\* firewall was not told of the refusal.
THEOREM BlockedLeadsToPortal ==
    ASSUME Settled
    PROVE  Spec => []ToldIsBlocked
<1>1. ReservationInv /\ RuleInv => ToldIsBlocked
  <2> SUFFICES ASSUME ReservationInv, RuleInv, NEW key \in Key \ untold, sessions[key] # Nil,
                      Quiet(key[1]), Kept(sessions[key].addr),
                      sessions[key].reason > AccessAllowed, NEW target \in Target
               PROVE  nat[<<key[1], sessions[key].addr>>][target] = 0
    BY DEF ToldIsBlocked, LeadsNowhere
  <2> DEFINE row == sessions[key]
             slot == <<key[1], row.addr>>
  <2>1. row \in Row /\ key[1] \in Client /\ row.addr \in Address /\ TypeOK
    BY DEF ReservationInv, TypeOK, Row, Key, Kept
  <2>2. slot \in Client \X Address /\ target \in Dest /\ row.ifc \in Dest /\ row.ifc # target
    BY <2>1, ForwardingAssumption DEF Dest, Row
  <2>3. Kept(slot[2]) /\ slot[1] = key[1] /\ slot[2] = row.addr
    OBVIOUS
  <2>4. nat[slot][target] \in Nat
    BY <2>1, <2>2 DEF TypeOK
  <2>5. CASE row.addr = Own[key[1]]
    <3> HIDE DEF slot
    <3> QED
      BY <2>2, <2>3, <2>5 DEF RuleInv, OneRule, slot
  <2>6. CASE row.addr # Own[key[1]]
    <3>1. ~ Deleting(key) /\ \A w \in Worker : ~ Reworking(w, key)
      BY QuietClient
    <3>2. nat[slot][row.ifc] > 0
      BY <2>6, <3>1 DEF RuleInv, StoredServed, Served, Installed, DestIP
    <3> HIDE DEF slot
    <3>3. ~ nat[slot][target] > 0
      BY <2>2, <2>3, <3>2 DEF RuleInv, OneRule
    <3> QED
      BY <2>4, <3>3 DEF slot
  <2> QED
    BY <2>5, <2>6
<1>2. Orderly
  BY DEF Settled, Reserving
<1> QED
  BY <1>1, <1>2, InvariantHolds, RuleInvHolds, PTL

=============================================================================

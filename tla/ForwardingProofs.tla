--------------------------- MODULE ForwardingProofs ---------------------------
(***************************************************************************)
(* Theorems about Forwarding for any number of clients, hosts, goroutines  *)
(* and addresses, with overlapping requests, failing calls and every event.*)
(***************************************************************************)
EXTENDS ForwardingProperties, AddressPoolProofs, FiniteSetTheorems

-----------------------------------------------------------------------------
(***************************************************************************)
(* Lemmas on the parts of a step: the goroutine, the store, the firewall.  *)
(***************************************************************************)

\* A goroutine that goes on with a well-typed local state leaves all well typed.
LEMMA ContinueType ==
    ASSUME TypeOK, NEW g \in Goroutine, NEW local \in Job, Equipped(local),
           Continue(g, local)
    PROVE  job' \in [Goroutine -> Job] /\ \A h \in Goroutine : Equipped(job'[h])
BY DEF TypeOK, Continue

LEMMA IdleType == Idle \in Job /\ Equipped(Idle)
<1>1. 0 \in Offset
  BY PoolAssumption DEF Offset
<1> QED
  BY <1>1, ForwardingAssumption DEF Idle, Job, Equipped, Pc, QueryPc, AllocPc, ReevalPc, FlushPc,
     ReviewPc, RowPc, PagePc, SwitchPc

\* Whatever a store operation on one session does, it leaves rows or nothing.
LEMMA SessionsType ==
    ASSUME TypeOK, NEW key,
           \/ \E row \in Row : UpdateDNSSession(key, row) \/ CreateDNSSession(key, row)
           \/ DeleteDNSSession(key)
           \/ UNCHANGED sessions
    PROVE  sessions' \in [Key -> Row \cup {Nil}]
BY DEF TypeOK, UpdateDNSSession, CreateDNSSession, DeleteDNSSession

LEMMA ReverseType ==
    ASSUME TypeOK, NEW slot,
           \/ \E host \in Host : CreateReverseDNS(slot, host)
           \/ CreateReverseDNSFails(slot) \/ DeleteReverseDNS(slot)
           \/ UNCHANGED rdns
    PROVE  rdns' \in [Slot -> Host \cup {Nil}]
BY DEF TypeOK, CreateReverseDNS, CreateReverseDNSFails, DeleteReverseDNS

\* EXCEPT keeps the type of a function, at a point outside its domain as well.
LEMMA ExceptType ==
    ASSUME NEW S, NEW T, NEW f \in [S -> T], NEW x, NEW y, x \in S => y \in T
    PROVE  [f EXCEPT ![x] = y] \in [S -> T]
<1>1. CASE x \in S
  BY <1>1
<1>2. CASE x \notin S
  <2>1. \A z \in S : z # x
    BY <1>2
  <2> QED
    BY <2>1
<1> QED
  BY <1>1, <1>2

\* The copies of a rule are counted by a natural number: a rule is removed only
\* when there is one.
LEMMA RulesType ==
    ASSUME TypeOK, NEW fw, NEW client, NEW addr, NEW dest,
           \/ AddForwardRule(fw, client, addr, dest)
           \/ RemoveForwardRule(fw, client, addr, dest)
           \/ RemoveForwardRuleFails(fw, client, addr, dest)
           \/ UNCHANGED nat
    PROVE  nat' \in [Client \X Address -> [Dest -> Nat]]
<1> DEFINE slot == <<client, addr>>
           added == [nat[slot] EXCEPT ![dest] = nat[slot][dest] + 1]
           removed == [nat[slot] EXCEPT ![dest] = nat[slot][dest] - 1]
<1>1. nat \in [Client \X Address -> [Dest -> Nat]]
  BY DEF TypeOK
<1>2. slot \in Client \X Address => added \in [Dest -> Nat]
  <2> HAVE slot \in Client \X Address
  <2>1. nat[slot] \in [Dest -> Nat]
    BY <1>1
  <2>2. dest \in Dest => nat[slot][dest] + 1 \in Nat
    BY <2>1
  <2> HIDE DEF slot
  <2> QED
    BY <2>1, <2>2, ExceptType
<1>3. nat[slot][dest] > 0 /\ slot \in Client \X Address => removed \in [Dest -> Nat]
  <2> HAVE nat[slot][dest] > 0 /\ slot \in Client \X Address
  <2>1. nat[slot] \in [Dest -> Nat]
    BY <1>1
  <2>2. dest \in Dest => nat[slot][dest] - 1 \in Nat
    BY <2>1
  <2> HIDE DEF slot
  <2> QED
    BY <2>1, <2>2, ExceptType
<1>4. \/ nat' = [nat EXCEPT ![slot] = added]
      \/ nat' = [nat EXCEPT ![slot] = removed] /\ nat[slot][dest] > 0
      \/ nat' = nat
  BY DEF AddForwardRule, RemoveForwardRule, RemoveForwardRuleFails, Installed
<1> HIDE DEF slot, added, removed
<1>5. CASE nat' = [nat EXCEPT ![slot] = added]
  BY <1>1, <1>2, <1>5, ExceptType
<1>6. CASE nat' = [nat EXCEPT ![slot] = removed] /\ nat[slot][dest] > 0
  BY <1>1, <1>3, <1>6, ExceptType
<1> QED
  BY <1>1, <1>4, <1>5, <1>6

-----------------------------------------------------------------------------
(***************************************************************************)
(* Type correctness, one lemma per group of actions.                       *)
(***************************************************************************)

\* TypeOK without the history.
Typed ==
    /\ sessions \in [Key -> Row \cup {Nil}]
    /\ rdns \in [Slot -> Host \cup {Nil}]
    /\ nat \in [Client \X Address -> [Dest -> Nat]]
    /\ policy \in [Client -> Policy]
    /\ unseen \in [Client -> BOOLEAN]
    /\ portalFw \in Firewall
    /\ dnsFw \in Firewall
    /\ job \in [Goroutine -> Job]
    /\ \A g \in Goroutine : Equipped(job[g])

\* A step of a goroutine that keeps the tables well typed keeps everything so.
LEMMA StepType ==
    ASSUME TypeOK, NEW g \in Goroutine, NEW local \in Job, Equipped(local),
           Continue(g, local),
           sessions' \in [Key -> Row \cup {Nil}],
           rdns' \in [Slot -> Host \cup {Nil}],
           nat' \in [Client \X Address -> [Dest -> Nat]],
           policy' \in [Client -> Policy], unseen' \in [Client -> BOOLEAN],
           portalFw' \in Firewall, dnsFw' \in Firewall
    PROVE  Typed'
BY ContinueType DEF TypeOK, Typed

\* What is known of a goroutine before its step.
LEMMA JobType ==
    ASSUME TypeOK, NEW g \in Goroutine
    PROVE  /\ job[g] \in Job
           /\ Equipped(job[g])
           /\ job[g].pc \in QueryPc => /\ job[g].client \in Client
                                       /\ job[g].host \in Host
                                       /\ job[g].ifc \in Interface
                                       /\ job[g].ses \in SessionInfo
           /\ job[g].pc \in ReevalPc \cup PagePc \cup FlushPc => job[g].client \in Client
           /\ job[g].pc \in AllocPc => job[g].row \in Row
           /\ job[g].pc \in RowPc => job[g].at \in Task
<1>1. job[g] \in Job /\ Equipped(job[g])
  BY DEF TypeOK
<1> QED
  BY <1>1, ForwardingAssumption DEF Job, Equipped, QueryPc

LEMMA PcNames ==
    /\ {"idle"} \cup QueryPc \cup ReevalPc \cup PagePc \cup FlushPc \cup ReviewPc
          \cup SwitchPc \subseteq Pc
    /\ AllocPc \subseteq QueryPc
    /\ 0 \in Offset
BY PoolAssumption DEF Pc, QueryPc, Offset

\* The rows a snapshot is made of.
LEMMA StoredType ==
    ASSUME TypeOK, NEW clients
    PROVE  Stored(clients) \in SUBSET Task
<1>1. ASSUME NEW key \in Key, sessions[key] # Nil
      PROVE  [key |-> key, row |-> sessions[key], reason |-> sessions[key].reason] \in Task
  <2>1. sessions[key] \in Row
    BY <1>1 DEF TypeOK
  <2> QED
    BY <2>1 DEF Task, Row
<1> QED
  BY <1>1 DEF Stored

LEMMA StartTypes ==
    ASSUME TypeOK, NEW w \in Worker, Requests(w)
    PROVE  Typed'
<1> USE DEF Goroutine
<1>1. Idle \in Job /\ Equipped(Idle)
  BY IdleType
<1>2. PICK client \in Client :
        \/ \E host \in Host, ifc \in Interface : StartQuery(w, client, host, ifc)
        \/ \E host \in Host : StartPage(w, client, host)
        \/ StartFlush(w, client)
        \/ \E info \in Policy : StartDeleteSession(w, client, info)
  BY DEF Requests
<1>3. ASSUME NEW host \in Host, NEW ifc \in Interface, StartQuery(w, client, host, ifc)
      PROVE  Typed'
  <2> DEFINE local == [Idle EXCEPT
                       !.pc = IF unseen[client] THEN "reevaluate" ELSE "lookup",
                       !.client = client, !.host = host, !.ifc = ifc,
                       !.ses = policy[client]]
  <2>1. policy[client] \in Policy /\ policy[client] # Nil
    BY ForwardingAssumption DEF TypeOK
  <2>2. local \in Job
    BY <2>1, PcNames DEF Job, Idle, QueryPc, ReevalPc
  <2>3. Equipped(local)
    BY <1>1, <2>1, ForwardingAssumption DEF Equipped, SwitchPc, PagePc, Idle, AllocPc, RowPc, QueryPc
  <2>4. unseen' \in [Client -> BOOLEAN]
    BY <1>3 DEF StartQuery, TypeOK
  <2>5. Continue(w, local) /\ UNCHANGED <<db, nat, policy, portalFw, dnsFw>>
    BY <1>3 DEF StartQuery
  <2> HIDE DEF local
  <2> QED
    BY <2>2, <2>3, <2>4, <2>5, StepType DEF TypeOK, db
<1>4. ASSUME Continue(w, [Idle EXCEPT !.pc = "flushList", !.client = client]),
             policy' \in [Client -> Policy], unseen' \in [Client -> BOOLEAN],
             UNCHANGED <<db, nat, portalFw, dnsFw>>
      PROVE  Typed'
  <2> DEFINE local == [Idle EXCEPT !.pc = "flushList", !.client = client]
  <2>1. local \in Job
    BY PcNames DEF Job, Idle, FlushPc
  <2>2. Equipped(local)
    BY ForwardingAssumption DEF Equipped, Idle, AllocPc, RowPc, QueryPc, SwitchPc
  <2>3. Continue(w, local)
    BY <1>4
  <2> HIDE DEF local
  <2> QED
    BY <1>4, <2>1, <2>2, <2>3, StepType DEF TypeOK, db
<1>5. ASSUME NEW host \in Host, StartPage(w, client, host)
      PROVE  Typed'
  <2> DEFINE row == sessions[<<client, host>>]
             local == [Idle EXCEPT !.pc = IF row = Nil THEN "handle" ELSE "page",
                                   !.client = client, !.row = row]
  <2>1. Continue(w, local) /\ UNCHANGED <<db, nat, policy, unseen, portalFw, dnsFw>>
    BY <1>5 DEF StartPage
  <2>2. row \in Row \cup {Nil}
    BY DEF TypeOK, Key
  <2> HIDE DEF row
  <2>3. local \in Job
    BY <2>2, PcNames DEF Job, Idle, PagePc
  <2>4. Equipped(local)
    BY ForwardingAssumption DEF Equipped, Idle, AllocPc, RowPc, QueryPc, SwitchPc
  <2> HIDE DEF local
  <2> QED
    BY <2>1, <2>3, <2>4, StepType DEF TypeOK, db
<1>6. CASE StartFlush(w, client)
  BY <1>4, <1>6 DEF StartFlush, TypeOK
<1>7. ASSUME NEW info \in Policy, StartDeleteSession(w, client, info)
      PROVE  Typed'
  BY <1>4, <1>7 DEF StartDeleteSession, TypeOK
<1> QED
  BY <1>2, <1>3, <1>5, <1>6, <1>7

\* The session made from an answer is a row, its record one of the answer's.
LEMMA MergedType ==
    ASSUME NEW local \in Job, local.host \in Host, local.ifc \in Interface,
           local.ses \in SessionInfo,
           NEW records \in Answer[local.host], NEW target \in Picked(local.row, records)
    PROVE  Merged(local, target) \in Row
<1>1. records \subseteq Target
  BY ForwardingAssumption
<1>2. local.row \in Row \cup {Nil} /\ local.ses.verdict[local.host] \in Reason
  BY DEF Job, SessionInfo
<1>3. target \in Target \cup {Nil}
  BY <1>1, <1>2 DEF Picked, Row
<1> QED
  BY <1>2, <1>3 DEF Merged, Row

LEMMA LookupTypes ==
    ASSUME TypeOK, NEW w \in Worker,
           LookupHit(w) \/ LookupMiss(w) \/ Resolve(w) \/ ResolveFails(w)
    PROVE  Typed'
<1> USE DEF Goroutine
<1> DEFINE key == <<job[w].client, job[w].host>>
<1>1. /\ job[w] \in Job /\ Equipped(job[w]) 
      /\ job[w].client \in Client /\ job[w].host \in Host
      /\ job[w].ifc \in Interface /\ job[w].ses \in SessionInfo
  BY JobType DEF LookupHit, LookupMiss, Resolve, ResolveFails, At, QueryPc
<1>2. sessions[key] \in Row \cup {Nil}
  BY <1>1 DEF TypeOK, Key
<1>3. ASSUME NEW local \in Job, Equipped(local), Continue(w, local),
             UNCHANGED <<db, nat, policy, unseen, portalFw, dnsFw>>
      PROVE  Typed'
  BY <1>3, StepType DEF TypeOK, db
<1>4. CASE LookupHit(w)
  <2> DEFINE row == [sessions[key] EXCEPT !.reason = job[w].ses.verdict[job[w].host]]
             local == [job[w] EXCEPT !.pc = "store", !.cached = TRUE, !.row = row]
  <2>1. row \in Row
    <3>1. sessions[key] \in Row
      BY <1>2, <1>4 DEF LookupHit
    <3>2. job[w].ses.verdict[job[w].host] \in Reason
      BY <1>1 DEF SessionInfo
    <3> HIDE DEF key
    <3> QED
      BY <3>1, <3>2 DEF Row
  <2>2. Continue(w, local) /\ UNCHANGED <<db, nat, policy, unseen, portalFw, dnsFw>>
    BY <1>4 DEF LookupHit
  <2> HIDE DEF row
  <2>3. local \in Job
    BY <1>1, <2>1, PcNames DEF Job, AllocPc
  <2>4. Equipped(local)
    BY <1>1, <2>1, ForwardingAssumption DEF Equipped, SwitchPc, PagePc, RowPc, Job
  <2> HIDE DEF local
  <2> QED
    BY <1>3, <2>2, <2>3, <2>4
<1>5. CASE LookupMiss(w)
  <2> DEFINE row == sessions[key]
             local == [job[w] EXCEPT !.pc = "resolve", !.row = row, !.cached = (row # Nil)]
  <2>1. Continue(w, local) /\ UNCHANGED <<db, nat, policy, unseen, portalFw, dnsFw>>
    BY <1>5 DEF LookupMiss
  <2> HIDE DEF row
  <2>2. row \in Row \cup {Nil}
    BY <1>2 DEF row
  <2>3. local \in Job
    <3>1. (row # Nil) \in BOOLEAN /\ "resolve" \in Pc
      BY PcNames DEF QueryPc
    <3> QED
      BY <1>1, <2>2, <3>1 DEF Job
  <2>4. Equipped(local)
    BY <1>1, ForwardingAssumption DEF Equipped, SwitchPc, PagePc, RowPc, AllocPc, Job
  <2> HIDE DEF local
  <2> QED
    BY <1>3, <2>1, <2>3, <2>4
<1>6. CASE Resolve(w)
  <2>0. PICK records \in Answer[job[w].host] :
          \E target \in Picked(job[w].row, records) :
             Continue(w, [job[w] EXCEPT !.pc = AllocateFrom(Merged(job[w], target)),
                                        !.row = Merged(job[w], target)])
    BY <1>6 DEF Resolve
  <2>1. PICK target \in Picked(job[w].row, records) :
          Continue(w, [job[w] EXCEPT !.pc = AllocateFrom(Merged(job[w], target)),
                                     !.row = Merged(job[w], target)])
    BY <2>0
  <2> DEFINE row == Merged(job[w], target)
             local == [job[w] EXCEPT !.pc = AllocateFrom(row), !.row = row]
  <2>2. row \in Row
    BY <1>1, MergedType
  <2> HIDE DEF row
  <2>3. AllocateFrom(row) \in AllocPc
    BY DEF AllocateFrom, AllocPc
  <2>4. local \in Job
    BY <1>1, <2>2, <2>3, PcNames DEF Job
  <2>5. Equipped(local)
    BY <1>1, <2>2, <2>3, ForwardingAssumption DEF Equipped, SwitchPc, PagePc, RowPc, AllocPc, Job
  <2>6. Continue(w, local) /\ UNCHANGED <<db, nat, policy, unseen, portalFw, dnsFw>>
    BY <1>6, <2>1 DEF Resolve, row
  <2> HIDE DEF local
  <2> QED
    BY <1>3, <2>4, <2>5, <2>6
<1>7. CASE ResolveFails(w)
  BY <1>3, <1>7, IdleType DEF ResolveFails, Finish
<1> QED
  BY <1>4, <1>5, <1>6, <1>7

LEMMA AllocateTypes ==
    ASSUME TypeOK, NEW w \in Worker,
           \/ AllocGet(w) \/ AllocDelete(w) \/ AllocList(w) \/ AllocCreate(w)
           \/ AllocAdd(w) \/ Store(w)
    PROVE  Typed'
<1> USE DEF Goroutine
<1>1. /\ job[w] \in Job /\ Equipped(job[w])
      /\ job[w].client \in Client /\ job[w].host \in Host
      /\ job[w].row \in Row /\ job[w].offset \in Offset
      /\ job[w].pc \in AllocPc
  <2>1. job[w].pc \in AllocPc
    BY DEF AllocGet, AllocDelete, AllocList, AllocCreate, AllocAdd, Store, At, AllocPc
  <2> QED
    BY <2>1, JobType, PcNames DEF Job
<1>2. ASSUME NEW pc \in AllocPc, NEW offset \in Offset, NEW addr \in Address \cup {NoIP}
      PROVE  LET local == [job[w] EXCEPT !.pc = pc, !.offset = offset,
                                         !.row = [job[w].row EXCEPT !.addr = addr]]
             IN  local \in Job /\ Equipped(local)
  <2> DEFINE row == [job[w].row EXCEPT !.addr = addr]
             local == [job[w] EXCEPT !.pc = pc, !.offset = offset, !.row = row]
  <2>1. row \in Row
    BY <1>1 DEF Row
  <2> HIDE DEF row
  <2>2. local \in Job
    BY <1>1, <2>1, PcNames DEF Job
  <2>3. Equipped(local)
    BY <1>1, <2>1, ForwardingAssumption, PcNames DEF Equipped, SwitchPc, PagePc, RowPc, AllocPc, Job
  <2> QED
    BY <2>2, <2>3 DEF row
<1>3. ASSUME NEW pc \in AllocPc, NEW offset \in Offset,
             Continue(w, [job[w] EXCEPT !.pc = pc, !.offset = offset]),
             sessions' \in [Key -> Row \cup {Nil}],
             rdns' \in [Slot -> Host \cup {Nil}],
             nat' \in [Client \X Address -> [Dest -> Nat]],
             UNCHANGED <<policy, unseen, portalFw, dnsFw>>
      PROVE  Typed'
  <2> DEFINE local == [job[w] EXCEPT !.pc = pc, !.offset = offset]
  <2>1. local \in Job
    BY <1>1, <1>3, PcNames DEF Job
  <2>2. Equipped(local)
    BY <1>1, <1>3, ForwardingAssumption, PcNames DEF Equipped, SwitchPc, PagePc, RowPc, AllocPc, Job
  <2>3. Continue(w, local)
    BY <1>3
  <2> HIDE DEF local
  <2> QED
    BY <1>3, <2>1, <2>2, <2>3, StepType DEF TypeOK
<1>4. ASSUME NEW pc \in AllocPc, Continue(w, [job[w] EXCEPT !.pc = pc]),
             sessions' \in [Key -> Row \cup {Nil}],
             rdns' \in [Slot -> Host \cup {Nil}],
             nat' \in [Client \X Address -> [Dest -> Nat]],
             UNCHANGED <<policy, unseen, portalFw, dnsFw>>
      PROVE  Typed'
  <2>1. [job[w] EXCEPT !.pc = pc] = [job[w] EXCEPT !.pc = pc, !.offset = job[w].offset]
    BY <1>1 DEF Job
  <2> QED
    BY <1>1, <1>3, <1>4, <2>1
<1>5. /\ UNCHANGED sessions => sessions' \in [Key -> Row \cup {Nil}]
      /\ UNCHANGED rdns => rdns' \in [Slot -> Host \cup {Nil}]
      /\ UNCHANGED nat => nat' \in [Client \X Address -> [Dest -> Nat]]
  BY DEF TypeOK
<1>6. CASE AllocGet(w)
  <2> DEFINE pc == IF rdns[OwnSlot(w)] = Nil THEN "allocList"
                   ELSE IF rdns[OwnSlot(w)] = job[w].host THEN "store"
                   ELSE "allocDelete"
  <2>1. pc \in AllocPc
    BY DEF AllocPc
  <2>2. Continue(w, [job[w] EXCEPT !.pc = pc])
        /\ UNCHANGED <<db, nat, policy, unseen, portalFw, dnsFw>>
    BY <1>6 DEF AllocGet
  <2> HIDE DEF pc
  <2> QED
    BY <1>4, <1>5, <2>1, <2>2 DEF db
<1>7. CASE AllocDelete(w)
  <2>1. rdns' \in [Slot -> Host \cup {Nil}]
    BY <1>7, ReverseType DEF AllocDelete
  <2> QED
    BY <1>4, <1>5, <1>7, <2>1 DEF AllocDelete, AllocPc
<1>8. CASE AllocList(w)
  <2> DEFINE free == firstAvailable(Reserved(job[w].client))
  <2>1. free.found => free.offset \in Offset
    BY FirstAvailableIsLeast
  <2>2. CASE free.found
    BY <1>3, <1>5, <1>8, <2>1, <2>2 DEF AllocList, AllocPc, db
  <2>3. CASE ~ free.found
    BY <1>4, <1>5, <1>8, <2>3 DEF AllocList, AllocPc, db
  <2> QED
    BY <2>2, <2>3
<1>9. CASE AllocCreate(w)
  <2> DEFINE addr == IP4fromOffset(job[w].offset)
             after(pc) == [job[w] EXCEPT !.pc = pc, !.offset = 0,
                                         !.row = [job[w].row EXCEPT !.addr = addr]]
  <2>1. PICK pc \in {"allocAdd", "store"} : Continue(w, after(pc))
    BY <1>9, <1>1 DEF AllocCreate
  <2>2. rdns' \in [Slot -> Host \cup {Nil}]
    BY <1>1, <1>9, ReverseType DEF AllocCreate
  <2>3. addr \in Address
    BY <1>1 DEF Address
  <2>4. after(pc) \in Job /\ Equipped(after(pc))
    BY <1>2, <2>3, PcNames DEF AllocPc
  <2> HIDE DEF after
  <2> QED
    BY <1>5, <1>9, <2>1, <2>2, <2>4, StepType DEF AllocCreate, TypeOK
<1>10. CASE AllocAdd(w)
  <2>1. nat' \in [Client \X Address -> [Dest -> Nat]]
    BY <1>10, RulesType DEF AllocAdd
  <2> QED
    BY <1>4, <1>5, <1>10, <2>1 DEF AllocAdd, AllocPc, db
<1>11. CASE Store(w)
  <2>1. sessions' \in [Key -> Row \cup {Nil}]
    BY <1>1, <1>11, SessionsType DEF Store
  <2> QED
    BY <1>5, <1>11, <2>1, IdleType, StepType DEF Store, Finish, TypeOK
<1> QED
  BY <1>6, <1>7, <1>8, <1>9, <1>10, <1>11

\* What ReevaluateAccess goes on with: the next row, the lookup, or nothing.
LEMMA NextReevalType ==
    ASSUME NEW local \in Job, Equipped(local), local.client \in Client,
           NEW todo \in SUBSET Task
    PROVE  NextReeval(local, todo) \in Job /\ Equipped(NextReeval(local, todo))
<1>1. local.host # Nil => local.ses # Nil /\ local.ifc # Nil
  BY DEF Equipped
<1>2. CASE todo # {}
  <2> DEFINE next == [local EXCEPT !.pc = "reevalRow", !.todo = todo, !.at = Nil]
  <2>1. next \in Job
    BY PcNames DEF Job, ReevalPc
  <2>2. Equipped(next)
    BY <1>1, ForwardingAssumption DEF Equipped, SwitchPc, PagePc, Job, QueryPc, AllocPc, RowPc
  <2> QED
    BY <1>2, <2>1, <2>2 DEF NextReeval
<1>3. CASE todo = {} /\ local.host # Nil
  <2> DEFINE next == [local EXCEPT !.pc = "lookup", !.todo = {}, !.at = Nil]
  <2>1. next \in Job
    BY PcNames DEF Job, QueryPc
  <2>2. Equipped(next)
    BY <1>1, <1>3, ForwardingAssumption DEF Equipped, SwitchPc, PagePc, Job, AllocPc, RowPc
  <2> QED
    BY <1>3, <2>1, <2>2 DEF NextReeval
<1>4. CASE todo = {} /\ local.host = Nil /\ local.row # Nil
  <2> DEFINE next == [local EXCEPT !.pc = "handle", !.todo = {}, !.at = Nil]
  <2>1. next \in Job
    BY PcNames DEF Job, PagePc
  <2>2. Equipped(next)
    BY <1>1, <1>4, ForwardingAssumption
       DEF Equipped, Job, QueryPc, AllocPc, RowPc, SwitchPc
  <2> QED
    BY <1>4, <2>1, <2>2 DEF NextReeval
<1>5. CASE todo = {} /\ local.host = Nil /\ local.row = Nil
  BY <1>5, IdleType DEF NextReeval
<1> QED
  BY <1>2, <1>3, <1>4, <1>5

\* A goroutine in the middle of a row.
LEMMA AtRowType ==
    ASSUME NEW local \in Job, Equipped(local), local.client \in Client, NEW task \in Task,
           NEW pc \in ReevalPc \cup FlushPc
    PROVE  LET next == [local EXCEPT !.pc = pc, !.at = task]
           IN  next \in Job /\ Equipped(next)
<1> DEFINE next == [local EXCEPT !.pc = pc, !.at = task]
<1>1. next \in Job
  BY PcNames DEF Job
<1>2. Equipped(next)
  BY ForwardingAssumption DEF Equipped, SwitchPc, PagePc, Job, QueryPc, AllocPc, ReevalPc, FlushPc
<1> QED
  BY <1>1, <1>2

LEMMA ReevaluateTypes ==
    ASSUME TypeOK, NEW w \in Worker, Reeval(w)
    PROVE  Typed'
<1> USE DEF Goroutine
<1>1. /\ job[w] \in Job /\ Equipped(job[w]) /\ job[w].client \in Client
      /\ job[w].todo \in SUBSET Task
      /\ job[w].pc \in RowPc => job[w].at \in Task
  <2>1. job[w].pc \in ReevalPc
    BY DEF Reeval, Reevaluate, ReevalRow, ReevalSave, ReevalAdd, ReevalStore, At, ReevalPc
  <2> QED
    BY <2>1, JobType DEF Job
<1>2. /\ UNCHANGED sessions => sessions' \in [Key -> Row \cup {Nil}]
      /\ UNCHANGED rdns => rdns' \in [Slot -> Host \cup {Nil}]
      /\ UNCHANGED nat => nat' \in [Client \X Address -> [Dest -> Nat]]
  BY DEF TypeOK
<1>3. CASE Reevaluate(w)
  <2> DEFINE info == policy[job[w].client]
             Seen(row) == IF info.profile THEN row
                          ELSE [row EXCEPT !.reason = AccessBlockedRule]
             tasks == {[task EXCEPT !.row = Seen(task.row),
                                    !.reason = info.verdict[task.key[2]]] :
                         task \in Stored({job[w].client})}
             todo == {task \in tasks : task.reason # task.row.reason}
  <2>1. info \in SessionInfo
    BY <1>1, ForwardingAssumption DEF TypeOK
  <2>2. ASSUME NEW task \in Stored({job[w].client})
        PROVE  [task EXCEPT !.row = Seen(task.row),
                            !.reason = info.verdict[task.key[2]]] \in Task
    <3>1. task \in Task
      BY StoredType
    <3>2. Seen(task.row) \in Row
      BY <3>1 DEF Task, Row, Reason, AccessBlockedRule, AccessAllowed
    <3>3. info.verdict[task.key[2]] \in Reason
      BY <2>1, <3>1 DEF Task, Key, SessionInfo
    <3> HIDE DEF Seen, info
    <3> QED
      BY <3>1, <3>2, <3>3 DEF Task
  <2>3. todo \in SUBSET Task
    BY <2>2
  <2>4. /\ Continue(w, NextReeval(job[w], todo))
        /\ unseen' = [unseen EXCEPT ![job[w].client] = FALSE]
        /\ UNCHANGED <<db, nat, policy, portalFw, dnsFw>>
    BY <1>3 DEF Reevaluate
  <2> HIDE DEF todo
  <2>5. unseen' \in [Client -> BOOLEAN]
    BY <2>4 DEF TypeOK
  <2> QED
    BY <1>1, <1>2, <2>3, <2>4, <2>5, NextReevalType, StepType DEF TypeOK, db
<1>4. CASE ReevalRow(w)
  <2>1. PICK task \in job[w].todo, pc \in {"reevalSave", "reevalStore"} :
          Continue(w, [job[w] EXCEPT !.pc = pc, !.at = task])
    BY <1>4 DEF ReevalRow
  <2>2. nat' \in [Client \X Address -> [Dest -> Nat]]
    BY <1>4, <1>2, RulesType DEF ReevalRow
  <2> DEFINE local == [job[w] EXCEPT !.pc = pc, !.at = task]
  <2>3. local \in Job /\ Equipped(local)
    BY <1>1, <2>1, AtRowType DEF ReevalPc
  <2>4. Continue(w, local)
    BY <2>1
  <2> HIDE DEF local
  <2> QED
    BY <1>2, <1>4, <2>2, <2>3, <2>4, StepType DEF ReevalRow, TypeOK, db
<1>5. ASSUME job[w].at \in Task
      PROVE  Changed(job[w].at) \in Row
             /\ [Changed(job[w].at) EXCEPT !.expired = FALSE] \in Row
  BY <1>5 DEF Changed, Task, Row
<1>6. ASSUME job[w].at \in Task, NEW pc \in ReevalPc
      PROVE  LET local == [job[w] EXCEPT !.pc = pc]
             IN  local \in Job /\ Equipped(local)
  <2>1. [job[w] EXCEPT !.pc = pc] = [job[w] EXCEPT !.pc = pc, !.at = job[w].at]
    BY <1>1 DEF Job
  <2> QED
    BY <1>1, <1>6, <2>1, AtRowType
<1>7. CASE ReevalSave(w)
  <2>1. job[w].at \in Task
    BY <1>1, <1>7 DEF ReevalSave, At, RowPc
  <2>2. sessions' \in [Key -> Row \cup {Nil}]
    BY <1>5, <1>7, <2>1, SessionsType DEF ReevalSave
  <2> QED
    BY <1>2, <1>6, <1>7, <2>1, <2>2, StepType DEF ReevalSave, ReevalPc, TypeOK
<1>8. CASE ReevalAdd(w)
  <2>1. job[w].at \in Task
    BY <1>1, <1>8 DEF ReevalAdd, At, RowPc
  <2>2. nat' \in [Client \X Address -> [Dest -> Nat]]
    BY <1>8, RulesType DEF ReevalAdd
  <2> QED
    BY <1>2, <1>6, <1>8, <2>1, <2>2, StepType DEF ReevalAdd, ReevalPc, TypeOK, db
<1>9. CASE ReevalStore(w)
  <2>1. job[w].at \in Task
    BY <1>1, <1>9 DEF ReevalStore, At, RowPc
  <2>2. sessions' \in [Key -> Row \cup {Nil}]
    BY <1>5, <1>9, <2>1, SessionsType DEF ReevalStore
  <2> QED
    BY <1>1, <1>2, <1>9, <2>2, NextReevalType, StepType DEF ReevalStore, TypeOK
<1> QED
  BY <1>3, <1>4, <1>7, <1>8, <1>9 DEF Reeval

LEMMA FlushTypes ==
    ASSUME TypeOK, NEW w \in Worker, Flush(w)
    PROVE  Typed'
<1> USE DEF Goroutine
<1>1. /\ job[w] \in Job /\ Equipped(job[w]) /\ job[w].client \in Client
      /\ job[w].todo \in SUBSET Task /\ job[w].offs \in SUBSET Offset
      /\ job[w].pc \in FlushPc
  <2>1. job[w].pc \in FlushPc
    BY DEF Flush, FlushList, FlushRow, FlushDelete, FlushRevList, FlushRev, At, FlushPc
  <2> QED
    BY <2>1, JobType DEF Job
<1>2. /\ UNCHANGED sessions => sessions' \in [Key -> Row \cup {Nil}]
      /\ UNCHANGED rdns => rdns' \in [Slot -> Host \cup {Nil}]
      /\ UNCHANGED nat => nat' \in [Client \X Address -> [Dest -> Nat]]
  BY DEF TypeOK
<1>3. ASSUME NEW todo \in SUBSET Task
      PROVE  NextFlush(job[w], todo) \in Job /\ Equipped(NextFlush(job[w], todo))
  <2> DEFINE pc == IF todo = {} THEN "flushRevList" ELSE "flushRow"
             local == [job[w] EXCEPT !.pc = pc, !.todo = todo, !.at = Nil]
  <2>1. pc \in FlushPc /\ pc \notin QueryPc \cup AllocPc \cup {"page"} \cup RowPc \cup SwitchPc
    BY DEF FlushPc, QueryPc, AllocPc, RowPc, SwitchPc
  <2> HIDE DEF pc
  <2>2. local \in Job
    BY <1>1, <2>1, PcNames DEF Job
  <2>3. Equipped(local)
    BY <1>1, <2>1, ForwardingAssumption DEF Equipped, Job
  <2> QED
    BY <2>2, <2>3 DEF NextFlush, pc
<1>4. CASE FlushList(w)
  BY <1>2, <1>3, <1>4, StoredType, StepType DEF FlushList, TypeOK, db
<1>5. CASE FlushRow(w)
  <2>1. PICK task \in job[w].todo :
          Continue(w, [job[w] EXCEPT !.pc = "flushDelete", !.at = task])
    BY <1>5 DEF FlushRow
  <2>2. nat' \in [Client \X Address -> [Dest -> Nat]]
    BY <1>5, <1>2, RulesType DEF FlushRow
  <2> DEFINE local == [job[w] EXCEPT !.pc = "flushDelete", !.at = task]
  <2>3. local \in Job /\ Equipped(local)
    BY <1>1, <2>1, AtRowType DEF FlushPc
  <2>4. Continue(w, local)
    BY <2>1
  <2> HIDE DEF local
  <2> QED
    BY <1>2, <1>5, <2>2, <2>3, <2>4, StepType DEF FlushRow, TypeOK, db
<1>6. CASE FlushDelete(w)
  <2>1. sessions' \in [Key -> Row \cup {Nil}]
    BY <1>6, SessionsType DEF FlushDelete
  <2> QED
    BY <1>1, <1>2, <1>3, <1>6, <2>1, StepType DEF FlushDelete, TypeOK
<1>7. ASSUME NEW offs \in SUBSET Offset
      PROVE  LET local == [job[w] EXCEPT !.pc = "flushRev", !.offs = offs]
             IN  local \in Job /\ Equipped(local)
  <2> DEFINE local == [job[w] EXCEPT !.pc = "flushRev", !.offs = offs]
  <2>1. local \in Job
    BY <1>1, PcNames DEF Job, FlushPc
  <2>2. Equipped(local)
    BY <1>1, ForwardingAssumption DEF Equipped, SwitchPc, PagePc, Job, QueryPc, AllocPc, RowPc
  <2> QED
    BY <2>1, <2>2
<1>8. CASE FlushRevList(w)
  <2> DEFINE offs == Reserved(job[w].client)
  <2>1. offs \in SUBSET Offset
    BY DEF Reserved
  <2>2. CASE offs = {}
    BY <1>2, <1>8, <2>2, IdleType, StepType DEF FlushRevList, TypeOK, db
  <2>3. CASE offs # {}
    <3>1. Continue(w, [job[w] EXCEPT !.pc = "flushRev", !.offs = offs])
      BY <1>8, <2>3 DEF FlushRevList
    <3> HIDE DEF offs
    <3> QED
      BY <1>2, <1>7, <1>8, <2>1, <3>1, StepType DEF FlushRevList, TypeOK, db
  <2> QED
    BY <2>2, <2>3
<1>9. CASE FlushRev(w)
  <2>1. PICK o \in job[w].offs :
          /\ DeleteReverseDNS(<<job[w].client, o>>)
          /\ Continue(w, IF job[w].offs = {o} THEN Idle
                         ELSE [job[w] EXCEPT !.offs = @ \ {o}])
    BY <1>9 DEF FlushRev
  <2>2. rdns' \in [Slot -> Host \cup {Nil}]
    BY <2>1, ReverseType
  <2>3. CASE job[w].offs = {o}
    BY <1>2, <1>9, <2>1, <2>2, <2>3, IdleType, StepType DEF FlushRev, TypeOK
  <2>4. CASE job[w].offs # {o}
    <3> DEFINE local == [job[w] EXCEPT !.offs = job[w].offs \ {o}]
    <3>1. local = [job[w] EXCEPT !.pc = "flushRev", !.offs = job[w].offs \ {o}]
      BY <1>1, <1>9 DEF FlushRev, At, Job
    <3>2. job[w].offs \ {o} \in SUBSET Offset
      BY <1>1
    <3>3. local \in Job /\ Equipped(local)
      BY <1>7, <3>1, <3>2
    <3>4. Continue(w, local)
      BY <2>1, <2>4
    <3> HIDE DEF local
    <3> QED
      BY <1>2, <1>9, <2>2, <3>3, <3>4, StepType DEF FlushRev, TypeOK
  <2> QED
    BY <2>3, <2>4
<1> QED
  BY <1>4, <1>5, <1>6, <1>8, <1>9 DEF Flush

LEMMA ReviewTypes ==
    ASSUME TypeOK, Review
    PROVE  Typed'
<1> USE DEF Goroutine
<1>1. job[Ticker] \in Job /\ Equipped(job[Ticker])
  BY JobType
<1>2. /\ UNCHANGED sessions => sessions' \in [Key -> Row \cup {Nil}]
      /\ UNCHANGED rdns => rdns' \in [Slot -> Host \cup {Nil}]
      /\ UNCHANGED nat => nat' \in [Client \X Address -> [Dest -> Nat]]
  BY DEF TypeOK
<1>3. ASSUME NEW local \in Job, Equipped(local), NEW todo \in SUBSET Task
      PROVE  NextReview(local, todo) \in Job /\ Equipped(NextReview(local, todo))
  <2> DEFINE next == [local EXCEPT !.pc = "reviewRow", !.todo = todo, !.at = Nil]
  <2>1. next \in Job
    BY <1>3, PcNames DEF Job, ReviewPc
  <2>2. Equipped(next)
    BY <1>3 DEF Equipped, SwitchPc, PagePc, Job, QueryPc, ReevalPc, FlushPc, AllocPc, RowPc
  <2> QED
    BY <1>3, <2>1, <2>2, IdleType DEF NextReview
<1>4. CASE StartReview
  <2> DEFINE tasks == Stored(Client)
             expired == {task \in tasks : task.row.expired}
  <2>1. tasks \in SUBSET Task /\ expired \in SUBSET Task
    BY StoredType
  <2>2. PICK busy \in SUBSET Counted(tasks) :
          Continue(Ticker,
             IF busy = {} THEN NextReview(Idle, expired)
             ELSE [Idle EXCEPT !.pc = "reviewExtend", !.busy = busy, !.todo = expired])
    BY <1>4 DEF StartReview
  <2>3. busy \in SUBSET Task
    BY <2>1 DEF Counted
  <2> HIDE DEF expired
  <2>4. CASE busy = {}
    BY <1>2, <1>3, <1>4, <2>1, <2>2, <2>4, IdleType, StepType DEF StartReview, TypeOK, db
  <2>5. CASE busy # {}
    <3> DEFINE local == [Idle EXCEPT !.pc = "reviewExtend", !.busy = busy, !.todo = expired]
    <3>1. local \in Job
      BY <2>1, <2>3, PcNames DEF Job, Idle, ReviewPc
    <3>2. Equipped(local)
      BY DEF Equipped, SwitchPc, PagePc, Idle, QueryPc, ReevalPc, FlushPc, AllocPc, RowPc
    <3>3. Continue(Ticker, local)
      BY <2>2, <2>5
    <3> HIDE DEF local
    <3> QED
      BY <1>2, <1>4, <3>1, <3>2, <3>3, StepType DEF StartReview, TypeOK, db
  <2> QED
    BY <2>4, <2>5
<1>5. CASE ReviewExtend
  <2>1. PICK task \in job[Ticker].busy :
          /\ UpdateDNSSession(task.key, [task.row EXCEPT !.expired = FALSE])
          /\ Continue(Ticker,
                IF job[Ticker].busy = {task}
                THEN NextReview([job[Ticker] EXCEPT !.busy = {}], job[Ticker].todo)
                ELSE [job[Ticker] EXCEPT !.busy = @ \ {task}])
    BY <1>5 DEF ReviewExtend
  <2>2. task \in Task
    BY <1>1 DEF Job
  <2>3. sessions' \in [Key -> Row \cup {Nil}]
    <3>1. [task.row EXCEPT !.expired = FALSE] \in Row
      BY <2>2 DEF Task, Row
    <3> QED
      BY <2>1, <3>1, SessionsType
  <2>4. ASSUME NEW busy \in SUBSET Task
        PROVE  LET local == [job[Ticker] EXCEPT !.busy = busy]
               IN  local \in Job /\ Equipped(local)
    <3> DEFINE local == [job[Ticker] EXCEPT !.busy = busy]
    <3>1. local \in Job
      BY <1>1 DEF Job
    <3>2. Equipped(local)
      BY <1>1 DEF Equipped, SwitchPc, PagePc, Job
    <3> QED
      BY <3>1, <3>2
  <2>5. CASE job[Ticker].busy = {task}
    <3> DEFINE done == [job[Ticker] EXCEPT !.busy = {}]
    <3>1. done \in Job /\ Equipped(done) /\ job[Ticker].todo \in SUBSET Task
      BY <1>1, <2>4 DEF Job
    <3>2. Continue(Ticker, NextReview(done, job[Ticker].todo))
      BY <2>1, <2>5
    <3> HIDE DEF done
    <3> QED
      BY <1>2, <1>3, <1>5, <2>3, <3>1, <3>2, StepType DEF ReviewExtend, TypeOK
  <2>6. CASE job[Ticker].busy # {task}
    <3> DEFINE local == [job[Ticker] EXCEPT !.busy = job[Ticker].busy \ {task}]
    <3>1. job[Ticker].busy \ {task} \in SUBSET Task
      BY <1>1 DEF Job
    <3>2. local \in Job /\ Equipped(local)
      BY <2>4, <3>1
    <3>3. Continue(Ticker, local)
      BY <2>1, <2>6
    <3> HIDE DEF local
    <3> QED
      BY <1>2, <1>5, <2>3, <3>2, <3>3, StepType DEF ReviewExtend, TypeOK
  <2> QED
    BY <2>5, <2>6
<1>6. CASE ReviewRow
  <2>1. PICK task \in job[Ticker].todo :
          \/ Continue(Ticker, [job[Ticker] EXCEPT !.pc = "reviewDelete", !.at = task])
          \/ Continue(Ticker, NextReview(job[Ticker], job[Ticker].todo \ {task}))
    BY <1>6 DEF ReviewRow
  <2>2. nat' \in [Client \X Address -> [Dest -> Nat]]
    BY <1>6, <1>2, RulesType DEF ReviewRow
  <2>3. task \in Task /\ job[Ticker].todo \ {task} \in SUBSET Task
    BY <1>1 DEF Job
  <2>4. CASE Continue(Ticker, [job[Ticker] EXCEPT !.pc = "reviewDelete", !.at = task])
    <3> DEFINE local == [job[Ticker] EXCEPT !.pc = "reviewDelete", !.at = task]
    <3>1. local \in Job
      BY <1>1, <2>3, PcNames DEF Job, ReviewPc
    <3>2. Equipped(local)
      BY <1>1, <2>3, ForwardingAssumption
         DEF Equipped, SwitchPc, PagePc, Job, QueryPc, ReevalPc, FlushPc, AllocPc
    <3>3. Continue(Ticker, local)
      BY <2>4
    <3> HIDE DEF local
    <3> QED
      BY <1>2, <1>6, <2>2, <3>1, <3>2, <3>3, StepType DEF ReviewRow, TypeOK, db
  <2>5. CASE Continue(Ticker, NextReview(job[Ticker], job[Ticker].todo \ {task}))
    BY <1>1, <1>2, <1>3, <1>6, <2>2, <2>3, <2>5, StepType DEF ReviewRow, TypeOK, db
  <2> QED
    BY <2>1, <2>4, <2>5
<1>7. CASE ReviewDelete
  <2>1. sessions' \in [Key -> Row \cup {Nil}]
    BY <1>7, SessionsType DEF ReviewDelete
  <2>2. job[Ticker].todo \ {job[Ticker].at} \in SUBSET Task
    BY <1>1 DEF Job
  <2> QED
    BY <1>1, <1>2, <1>3, <1>7, <2>1, <2>2, StepType DEF ReviewDelete, TypeOK
<1> QED
  BY <1>4, <1>5, <1>6, <1>7 DEF Review

LEMMA PageTypes ==
    ASSUME TypeOK, NEW w \in Worker, Page(w)
    PROVE  Typed'
<1> USE DEF Goroutine
<1>1. /\ job[w] \in Job /\ Equipped(job[w]) /\ job[w].client \in Client
      /\ job[w].pc \in PagePc
  <2>1. job[w].pc \in PagePc
    BY DEF Page, ViewSession, ShowPage, ChangeAccess, At, PagePc
  <2> QED
    BY <2>1, JobType
<1>2. ASSUME NEW pc \in {"handle", "reevaluate"}, NEW row \in Row \cup {Nil},
             Continue(w, [job[w] EXCEPT !.pc = pc, !.row = row]),
             policy' \in [Client -> Policy], unseen' \in [Client -> BOOLEAN],
             UNCHANGED <<db, nat, portalFw, dnsFw>>
      PROVE  Typed'
  <2> DEFINE local == [job[w] EXCEPT !.pc = pc, !.row = row]
  <2>1. local \in Job
    BY <1>1, PcNames DEF Job, PagePc, ReevalPc
  <2>2. Equipped(local)
    BY <1>1, ForwardingAssumption DEF Equipped, Job, AllocPc, RowPc, QueryPc, SwitchPc
  <2>3. Continue(w, local)
    BY <1>2
  <2> HIDE DEF local
  <2> QED
    BY <1>2, <2>1, <2>2, <2>3, StepType DEF TypeOK, db
<1>3. CASE ViewSession(w)
  <2>1. PICK pc \in {"handle", "reevaluate"} : Continue(w, [job[w] EXCEPT !.pc = pc])
    BY <1>3 DEF ViewSession
  <2>2. [job[w] EXCEPT !.pc = pc] = [job[w] EXCEPT !.pc = pc, !.row = job[w].row]
        /\ job[w].row \in Row \cup {Nil}
    BY <1>1 DEF Job
  <2> QED
    BY <1>2, <1>3, <2>1, <2>2 DEF ViewSession, TypeOK
<1>4. CASE ShowPage(w)
  BY <1>4, IdleType, StepType DEF ShowPage, Finish, TypeOK, db
<1>5. ASSUME NEW info \in Policy, ChangeAccess(w, info)
      PROVE  Typed'
  BY <1>2, <1>5 DEF ChangeAccess, TypeOK
<1> QED
  BY <1>3, <1>4, <1>5 DEF Page

\* What SetActiveFirewall goes on with.
LEMMA NextSwitchType ==
    ASSUME NEW local \in Job, Equipped(local), local.fw # Nil, NEW todo \in SUBSET Task
    PROVE  NextSwitch(local, todo) \in Job /\ Equipped(NextSwitch(local, todo))
<1>1. ASSUME NEW pc \in {"switchRow", "clearPrerouting"}, NEW left \in SUBSET Task
      PROVE  LET next == [local EXCEPT !.pc = pc, !.todo = left, !.at = Nil]
             IN  next \in Job /\ Equipped(next)
  <2> DEFINE next == [local EXCEPT !.pc = pc, !.todo = left, !.at = Nil]
  <2>1. next \in Job
    BY PcNames DEF Job, SwitchPc
  <2>2. Equipped(next)
    BY DEF Equipped, Job, QueryPc, ReevalPc, PagePc, FlushPc, AllocPc, RowPc
  <2> QED
    BY <2>1, <2>2
<1>2. CASE Expired(todo) # {}
  BY <1>1, <1>2 DEF NextSwitch
<1>3. CASE Expired(todo) = {} /\ local.fw = "iptables"
  <2> DEFINE left == {task \in todo : task.row.addr # NoIP}
  <2>1. [local EXCEPT !.pc = "clearPrerouting", !.at = Nil, !.todo = left] =
        [local EXCEPT !.pc = "clearPrerouting", !.todo = left, !.at = Nil]
    BY DEF Job
  <2>2. left \in SUBSET Task
    OBVIOUS
  <2> QED
    BY <1>1, <1>3, <2>1, <2>2 DEF NextSwitch
<1>4. CASE Expired(todo) = {} /\ local.fw # "iptables"
  BY <1>4, IdleType DEF NextSwitch
<1> QED
  BY <1>2, <1>3, <1>4

LEMMA SwitchTypes ==
    ASSUME TypeOK, Switch
    PROVE  Typed'
<1> USE DEF Goroutine
<1> DEFINE local == job[Admin]
<1>1. /\ local \in Job /\ Equipped(local) /\ local.fw \in Firewall
      /\ local.todo \in SUBSET Task /\ local.fw # Nil
  <2>1. local.pc \in SwitchPc
    BY DEF Switch, SwitchSet, SwitchRow, SwitchDelete, ClearPrerouting, ClearOutput,
           SwitchAdd, At, SwitchPc
  <2>2. local \in Job /\ Equipped(local)
    BY JobType
  <2> QED
    BY <2>1, <2>2 DEF Job, Equipped
<1>2. /\ UNCHANGED sessions => sessions' \in [Key -> Row \cup {Nil}]
      /\ UNCHANGED rdns => rdns' \in [Slot -> Host \cup {Nil}]
      /\ UNCHANGED nat => nat' \in [Client \X Address -> [Dest -> Nat]]
  BY DEF TypeOK
<1>3. ASSUME NEW next \in Job, Equipped(next), Continue(Admin, next),
             sessions' \in [Key -> Row \cup {Nil}],
             rdns' \in [Slot -> Host \cup {Nil}],
             nat' \in [Client \X Address -> [Dest -> Nat]],
             portalFw' \in Firewall, UNCHANGED <<policy, unseen, dnsFw>>
      PROVE  Typed'
  BY <1>3, StepType DEF TypeOK
<1>4. CASE SwitchSet
  <2>1. /\ Continue(Admin, IF local.fw = "none" THEN Idle
                           ELSE NextSwitch(local, local.todo))
        /\ portalFw' = local.fw
        /\ UNCHANGED <<db, nat, policy, unseen, dnsFw>>
    BY <1>4 DEF SwitchSet
  <2> HIDE DEF local
  <2> QED
    BY <1>1, <1>2, <1>3, <2>1, NextSwitchType, IdleType DEF db
<1>5. ASSUME NEW pc \in {"switchDelete", "clearOutput"}, NEW at \in Task,
             pc = "clearOutput" => at = local.at
      PROVE  LET next == [local EXCEPT !.pc = pc, !.at = at]
             IN  next \in Job /\ Equipped(next)
  <2> DEFINE next == [local EXCEPT !.pc = pc, !.at = at]
  <2>1. next \in Job
    BY <1>1, PcNames DEF Job, SwitchPc
  <2>2. Equipped(next)
    BY <1>1, ForwardingAssumption
       DEF Equipped, Job, QueryPc, ReevalPc, PagePc, FlushPc, AllocPc
  <2> QED
    BY <2>1, <2>2
<1>6. CASE SwitchRow
  <2>1. PICK task \in Expired(local.todo) :
          /\ IF task.row.target # Nil
             THEN DeleteReverseDNS(<<task.key[1], OffsetFromIP4(task.row.addr)>>)
             ELSE UNCHANGED rdns
          /\ Continue(Admin, [local EXCEPT !.pc = "switchDelete", !.at = task])
    BY <1>6 DEF SwitchRow
  <2>2. rdns' \in [Slot -> Host \cup {Nil}]
    BY <2>1, ReverseType
  <2>3. task \in Task
    BY <1>1 DEF Expired
  <2> DEFINE next == [local EXCEPT !.pc = "switchDelete", !.at = task]
  <2>4. next \in Job /\ Equipped(next)
    BY <1>5, <2>3
  <2>5. Continue(Admin, next)
    BY <2>1
  <2>6. UNCHANGED <<sessions, nat, policy, unseen, portalFw, dnsFw>>
    BY <1>6 DEF SwitchRow
  <2> HIDE DEF next
  <2> QED
    BY <1>2, <1>3, <2>2, <2>4, <2>5, <2>6 DEF TypeOK
<1>7. CASE SwitchDelete
  <2>1. sessions' \in [Key -> Row \cup {Nil}]
    BY <1>7, SessionsType DEF SwitchDelete
  <2>2. /\ Continue(Admin, NextSwitch(local, local.todo \ {local.at}))
        /\ UNCHANGED <<rdns, nat, policy, unseen, portalFw, dnsFw>>
    BY <1>7 DEF SwitchDelete
  <2>3. local.todo \ {local.at} \in SUBSET Task
    BY <1>1
  <2> HIDE DEF local
  <2> QED
    BY <1>1, <1>2, <1>3, <2>1, <2>2, <2>3, NextSwitchType DEF TypeOK
<1>8. ASSUME NEW clients, ClearChain(clients)
      PROVE  nat' \in [Client \X Address -> [Dest -> Nat]]
  BY <1>8 DEF ClearChain, NoRules, TypeOK
<1>9. CASE ClearPrerouting
  <2>1. nat' \in [Client \X Address -> [Dest -> Nat]]
    BY <1>8, <1>9 DEF ClearPrerouting
  <2> DEFINE next == [local EXCEPT !.pc = "clearOutput"]
  <2>2. next \in Job
    BY <1>1, PcNames DEF Job, SwitchPc
  <2>3. Equipped(next)
    BY <1>1 DEF Equipped, Job, QueryPc, ReevalPc, PagePc, FlushPc, AllocPc, RowPc
  <2>4. Continue(Admin, next) /\ UNCHANGED <<db, policy, unseen, portalFw, dnsFw>>
    BY <1>9 DEF ClearPrerouting
  <2> HIDE DEF next
  <2> QED
    BY <1>2, <1>3, <2>1, <2>2, <2>3, <2>4 DEF TypeOK, db
<1>10. ASSUME NEW todo \in SUBSET Task
       PROVE  NextAdd(local, todo) \in Job /\ Equipped(NextAdd(local, todo))
  <2> DEFINE next == [local EXCEPT !.pc = "switchAdd", !.todo = todo]
  <2>1. next \in Job
    BY <1>1, PcNames DEF Job, SwitchPc
  <2>2. Equipped(next)
    BY <1>1 DEF Equipped, Job, QueryPc, ReevalPc, PagePc, FlushPc, AllocPc, RowPc
  <2> QED
    BY <2>1, <2>2, IdleType DEF NextAdd
<1>11. CASE ClearOutput
  <2>1. nat' \in [Client \X Address -> [Dest -> Nat]]
    BY <1>8, <1>11 DEF ClearOutput
  <2>2. /\ Continue(Admin, NextAdd(local, local.todo))
        /\ UNCHANGED <<db, policy, unseen, portalFw, dnsFw>>
    BY <1>11 DEF ClearOutput
  <2> HIDE DEF local
  <2> QED
    BY <1>1, <1>2, <1>3, <1>10, <2>1, <2>2 DEF TypeOK, db
<1>12. CASE SwitchAdd
  <2>1. PICK task \in local.todo :
          /\ AddForwardRule("iptables", task.key[1], task.row.addr, DestIP(task.row))
          /\ Continue(Admin, NextAdd(local, local.todo \ {task}))
    BY <1>12 DEF SwitchAdd
  <2>2. nat' \in [Client \X Address -> [Dest -> Nat]]
    BY <2>1, RulesType
  <2>3. UNCHANGED <<db, policy, unseen, portalFw, dnsFw>>
    BY <1>12 DEF SwitchAdd
  <2>4. local.todo \ {task} \in SUBSET Task
    BY <1>1
  <2> HIDE DEF local
  <2> QED
    BY <1>1, <1>2, <1>3, <1>10, <2>1, <2>2, <2>3, <2>4 DEF TypeOK, db
<1> QED
  BY <1>4, <1>6, <1>7, <1>9, <1>11, <1>12 DEF Switch

LEMMA ProcessTypes ==
    ASSUME TypeOK, Restart \/ \E fw \in Firewall : StartSwitch(fw)
    PROVE  Typed'
<1> USE DEF Goroutine
<1>0. Idle \in Job /\ Equipped(Idle) /\ Stored(Client) \in SUBSET Task
  BY IdleType, StoredType
<1>1. CASE Restart
  <2> DEFINE fw == IF At(Admin, "switchSet") THEN job[Admin].fw ELSE portalFw
             main == [Idle EXCEPT !.fw = fw, !.boot = TRUE]
             next == IF fw # "none" THEN NextSwitch(main, Stored(Client)) ELSE Idle
  <2>1. fw \in Firewall /\ fw # Nil
    <3>1. job[Admin] \in Job /\ Equipped(job[Admin])
      BY JobType
    <3>2. At(Admin, "switchSet") => job[Admin].fw # Nil
      BY <3>1 DEF Equipped, At, SwitchPc
    <3>3. Nil \notin Firewall
      BY ForwardingAssumption DEF TypeOK
    <3> QED
      BY <3>1, <3>2, <3>3 DEF Job, TypeOK
  <2> HIDE DEF fw
  <2>2. main \in Job /\ Equipped(main) /\ main.fw # Nil
    BY <1>0, <2>1 DEF Idle, Job, Equipped, QueryPc, ReevalPc, PagePc, FlushPc, AllocPc,
       RowPc, SwitchPc
  <2>3. next \in Job /\ Equipped(next)
    <3> HIDE DEF main
    <3> QED
      BY <1>0, <2>2, NextSwitchType
  <2>4. job' = [g \in Goroutine |-> IF g = Admin THEN next ELSE Idle]
        /\ portalFw' = fw /\ dnsFw' = fw /\ UNCHANGED <<db, nat, policy, unseen>>
    BY <1>1 DEF Restart, fw
  <2> HIDE DEF next
  <2> QED
    BY <1>0, <2>1, <2>3, <2>4 DEF TypeOK, Typed, db
<1>2. ASSUME NEW fw \in Firewall, StartSwitch(fw)
      PROVE  Typed'
  <2> DEFINE next == [Idle EXCEPT !.pc = "switchSet", !.fw = fw, !.todo = Stored(Client)]
  <2>1. Continue(Admin, next) /\ UNCHANGED <<db, nat, policy, unseen, portalFw, dnsFw>>
    BY <1>2 DEF StartSwitch
  <2>2. next \in Job
    BY <1>0, PcNames DEF Idle, Job, SwitchPc
  <2>3. Equipped(next)
    BY ForwardingAssumption
       DEF Idle, Equipped, QueryPc, ReevalPc, PagePc, FlushPc, AllocPc, RowPc
  <2> HIDE DEF next
  <2> QED
    BY <2>1, <2>2, <2>3, StepType DEF TypeOK, db
<1> QED
  BY <1>1, <1>2

LEMMA TimeTypes ==
    ASSUME TypeOK, Time
    PROVE  Typed'
<1>1. ASSUME NEW key \in Key, SessionExpires(key)
      PROVE  Typed'
  <2>1. sessions[key] \in Row
    BY <1>1 DEF SessionExpires, TypeOK
  <2>2. [sessions[key] EXCEPT !.expired = TRUE] \in Row
    BY <2>1 DEF Row
  <2>3. sessions' = [sessions EXCEPT ![key] = [sessions[key] EXCEPT !.expired = TRUE]]
    BY <1>1 DEF SessionExpires
  <2>4. sessions' \in [Key -> Row \cup {Nil}]
    BY <2>2, <2>3 DEF TypeOK
  <2> QED
    BY <1>1, <2>4 DEF SessionExpires, TypeOK, Typed
<1>2. ASSUME NEW client \in Client, NEW info \in Policy,
             PortalSessionExpires(client, info) \/ ScheduleChanges(client, info)
      PROVE  Typed'
  BY <1>2 DEF PortalSessionExpires, ScheduleChanges, TypeOK, Typed, db
<1> QED
  BY <1>1, <1>2 DEF Time

LEMMA InitTypes ==
    Init => TypeOK
<1> HAVE Init
<1>1. NoRules \in [Client \X Address -> [Dest -> Nat]]
  BY DEF NoRules
<1> QED
  BY <1>1, IdleType DEF Init, TypeOK

\* The history speaks of clients, sessions and reservations.
HistoryTyped == owed \subseteq Client /\ untold \subseteq Key /\ made \subseteq Key \cup Slot

LEMMA HistoryTypes ==
    TypeOK /\ [Next]_vars => HistoryTyped'
<1> HAVE TypeOK /\ [Next]_vars
<1> USE DEF HistoryTyped
<1>1. CASE UNCHANGED history
  BY <1>1 DEF history, TypeOK
<1>2. ASSUME NEW w \in Worker, Requests(w)
      PROVE  HistoryTyped'
  BY <1>1, <1>2 DEF Requests, StartQuery, StartPage, StartFlush, StartDeleteSession,
     Remembered, TypeOK
<1>3. ASSUME NEW w \in Worker, Query(w)
      PROVE  HistoryTyped'
  <2>1. job[w].pc \in QueryPc
    BY <1>3 DEF Query, LookupHit, LookupMiss, Resolve, ResolveFails, AllocGet, AllocDelete,
       AllocList, AllocCreate, AllocAdd, Store, At, QueryPc, AllocPc
  <2>2. /\ <<job[w].client, job[w].host>> \in Key
        /\ <<job[w].client, job[w].offset>> \in Slot
    BY <2>1, JobType DEF Key, Slot, Job, Goroutine
  <2>3. CASE Store(w) \/ AllocCreate(w)
    BY <2>2, <2>3 DEF Store, AllocCreate, TypeOK
  <2>4. CASE ~ (Store(w) \/ AllocCreate(w))
    BY <1>1, <1>3, <2>4 DEF Query, LookupHit, LookupMiss, Resolve, ResolveFails, AllocGet,
       AllocDelete, AllocList, AllocAdd
  <2> QED
    BY <2>3, <2>4
<1>4. ASSUME NEW w \in Worker, Reeval(w)
      PROVE  HistoryTyped'
  BY <1>1, <1>4 DEF Reeval, Reevaluate, ReevalRow, ReevalSave, ReevalAdd, ReevalStore, TypeOK
<1>5. ASSUME NEW w \in Worker, Page(w)
      PROVE  HistoryTyped'
  <2>1. CASE ViewSession(w)
    <3>1. job[w].client \in Client
      BY <2>1, JobType DEF ViewSession, At, PagePc, Goroutine
    <3> QED
      BY <2>1, <3>1 DEF ViewSession, TypeOK
  <2> QED
    BY <1>1, <1>5, <2>1 DEF Page, ShowPage, ChangeAccess
<1>6. ASSUME NEW w \in Worker, Flush(w)
      PROVE  HistoryTyped'
  BY <1>1, <1>6 DEF Flush, FlushList, FlushRow, FlushDelete, FlushRevList, FlushRev
<1>7. CASE Review
  BY <1>1, <1>7 DEF Review, StartReview, ReviewExtend, ReviewRow, ReviewDelete
<1>8. CASE Switch \/ Restart \/ \E fw \in Firewall : StartSwitch(fw)
  BY <1>1, <1>8 DEF Switch, SwitchSet, SwitchRow, SwitchDelete, ClearPrerouting,
     ClearOutput, SwitchAdd, Restart, StartSwitch
<1>9. CASE Time
  BY <1>1, <1>9 DEF Time, SessionExpires, PortalSessionExpires, ScheduleChanges
<1> QED
  BY <1>1, <1>2, <1>3, <1>4, <1>5, <1>6, <1>7, <1>8, <1>9 DEF Next, Serve, vars

\* The steps of a goroutine, of the process and of time, and no step at all.
LEMMA NextTypes ==
    TypeOK /\ [Next]_vars => TypeOK'
<1> SUFFICES ASSUME TypeOK, Next \/ UNCHANGED vars
             PROVE  TypeOK'
  OBVIOUS
<1>1. ASSUME NEW w \in Worker, Requests(w) \/ Serve(w)
      PROVE  Typed'
  BY <1>1, StartTypes, LookupTypes, AllocateTypes, ReevaluateTypes, PageTypes, FlushTypes
     DEF Serve, Query
<1>2. ASSUME UNCHANGED vars
      PROVE  Typed'
  <2>1. UNCHANGED <<sessions, rdns, nat, policy, unseen, portalFw, dnsFw, job>>
    BY <1>2 DEF vars, db
  <2> QED
    BY <2>1 DEF TypeOK, Typed
<1>3. Typed'
  <2>1. CASE Review \/ Switch \/ Time
    BY <2>1, ReviewTypes, SwitchTypes, TimeTypes
  <2>2. CASE Restart \/ \E fw \in Firewall : StartSwitch(fw)
    BY <2>2, ProcessTypes
  <2> QED
    BY <1>1, <1>2, <2>1, <2>2 DEF Next
<1>4. HistoryTyped'
  BY HistoryTypes
<1> QED
  BY <1>3, <1>4 DEF TypeOK, Typed, HistoryTyped

\* Every table keeps its shape, the number of copies of a rule stays a natural
\* number (iptables -D follows iptables -C, RemoveForwardRule), and a handler has
\* in hand, at each of its steps, the row, the session information and the request
\* it dereferences there: no step meets a nil pointer.
THEOREM TypeCorrect == Spec => []TypeOK
<1>1. Init => TypeOK
  BY InitTypes
<1>2. TypeOK /\ [Next]_vars => TypeOK'
  BY NextTypes
<1> QED
  BY <1>1, <1>2, PTL DEF Spec

-----------------------------------------------------------------------------
(***************************************************************************)
(* The reverse table implements AddressLease.                              *)
(***************************************************************************)

LEMMA DeleteReleases ==
    ASSUME TypeOK, NEW slot, DeleteReverseDNS(slot)
    PROVE  [Lease!Next]_rdns
<1>1. CASE rdns' = [rdns EXCEPT ![slot] = Nil]
  <2>1. rdns' = [s \in Slot |-> IF s \in {slot} \cap Slot THEN Nil ELSE rdns[s]]
    BY <1>1 DEF TypeOK
  <2>2. Lease!Release({slot} \cap Slot)
    BY <2>1 DEF Lease!Release
  <2> QED
    BY <2>2 DEF Lease!Next
<1> QED
  BY <1>1 DEF DeleteReverseDNS

LEMMA CreateLeases ==
    ASSUME TypeOK, NEW w \in Worker, AllocCreate(w)
    PROVE  [Lease!Next]_rdns
<1> DEFINE slot == <<job[w].client, job[w].offset>>
<1>1. job[w] \in Job /\ job[w].client \in Client /\ job[w].host \in Host
  BY JobType DEF AllocCreate, At, QueryPc, AllocPc, Goroutine
<1>2. slot \in Slot
  BY <1>1 DEF Job, Slot
<1>3. CASE CreateReverseDNS(slot, job[w].host)
  <2>1. Lease!Lease(slot, job[w].host)
    BY <1>3 DEF CreateReverseDNS, Lease!Lease
  <2> HIDE DEF slot
  <2> QED
    BY <1>1, <1>2, <2>1 DEF Lease!Next
<1>4. CASE UNCHANGED rdns
  BY <1>4
<1> QED
  BY <1>3, <1>4 DEF AllocCreate, CreateReverseDNSFails

LEMMA NextLeases ==
    TypeOK /\ [Next]_vars => [Lease!Next]_rdns
<1> HAVE TypeOK /\ [Next]_vars
<1>1. ASSUME NEW w \in Worker, Requests(w)
      PROVE  UNCHANGED rdns
  BY <1>1 DEF Requests, StartQuery, StartPage, StartFlush, StartDeleteSession, db
<1>2. ASSUME NEW w \in Worker, Query(w)
      PROVE  [Lease!Next]_rdns
  <2>1. CASE AllocDelete(w)
    BY <2>1, DeleteReleases DEF AllocDelete
  <2>2. CASE AllocCreate(w)
    BY <2>2, CreateLeases
  <2>3. CASE \/ LookupHit(w) \/ LookupMiss(w) \/ Resolve(w) \/ ResolveFails(w)
             \/ AllocGet(w) \/ AllocList(w) \/ AllocAdd(w) \/ Store(w)
    BY <2>3 DEF LookupHit, LookupMiss, Resolve, ResolveFails, AllocGet, AllocList,
       AllocAdd, Store, db
  <2> QED
    BY <1>2, <2>1, <2>2, <2>3 DEF Query
<1>3. ASSUME NEW w \in Worker, Reeval(w)
      PROVE  UNCHANGED rdns
  BY <1>3 DEF Reeval, Reevaluate, ReevalRow, ReevalSave, ReevalAdd, ReevalStore, db
<1>4. ASSUME NEW w \in Worker, Flush(w)
      PROVE  [Lease!Next]_rdns
  <2>1. CASE FlushRev(w)
    BY <2>1, DeleteReleases DEF FlushRev
  <2>2. CASE FlushList(w) \/ FlushRow(w) \/ FlushDelete(w) \/ FlushRevList(w)
    BY <2>2 DEF FlushList, FlushRow, FlushDelete, FlushRevList, db
  <2> QED
    BY <1>4, <2>1, <2>2 DEF Flush
<1>5. CASE Review
  BY <1>5 DEF Review, StartReview, ReviewExtend, ReviewRow, ReviewDelete, db
<1>6. CASE Restart \/ \E fw \in Firewall : StartSwitch(fw)
  BY <1>6 DEF Restart, StartSwitch, db
<1>7. CASE Switch
  <2>1. CASE SwitchRow
    BY <2>1, DeleteReleases DEF SwitchRow
  <2> QED
    BY <1>7, <2>1 DEF Switch, SwitchSet, SwitchDelete, ClearPrerouting, ClearOutput,
       SwitchAdd, db
<1>10. ASSUME NEW w \in Worker, Page(w)
       PROVE  UNCHANGED rdns
  BY <1>10 DEF Page, ViewSession, ShowPage, ChangeAccess, db
<1>8. CASE Time
  BY <1>8 DEF Time, SessionExpires, PortalSessionExpires, ScheduleChanges, db
<1>9. CASE UNCHANGED vars
  BY <1>9 DEF vars, db
<1> QED
  BY <1>1, <1>2, <1>3, <1>4, <1>5, <1>6, <1>7, <1>8, <1>9, <1>10
     DEF Next, Serve

\* However many goroutines allocate and flush at once, whichever calls fail and
\* whenever the process restarts, no reservation changes hands in one step
\* (CreateReverseDNS, DeleteReverseDNS, SetActiveFirewall).
THEOREM LeaseRefinement == Spec => ReverseTableLeases
<1>1. Init => Lease!Init
  BY DEF Init, Lease!Init
<1>2. TypeOK /\ [Next]_vars => [Lease!Next]_rdns
  BY NextLeases
<1>3. Spec => []TypeOK
  BY TypeCorrect
<1> QED
  BY <1>1, <1>2, <1>3, PTL DEF Spec, ReverseTableLeases, Lease!Spec

-----------------------------------------------------------------------------
(***************************************************************************)
(* Sums over finite sets, by the recursive function of MapThenFoldSet.     *)
(***************************************************************************)

Some(s) == CHOOSE x \in s : TRUE
Total(g, S) == MapThenSumSet(LAMBDA x : g[x], S)

SumsUp(g, sum, s) == sum[s] = IF s = {} THEN 0 ELSE g[Some(s)] + sum[s \ {Some(s)}]

SumOf(g, S) ==
    CHOOSE sum : sum = [s \in SUBSET S |-> IF s = {} THEN 0 ELSE g[Some(s)] + sum[s \ {Some(s)}]]

LEMMA TotalUnfolds == \A g, S : Total(g, S) = SumOf(g, S)[S]
BY DEF Total, MapThenSumSet, MapThenFoldSet, SumOf, Some

\* Induction over the numbers and over the subsets of a finite set: a least
\* counterexample is one too many.
LEMMA Counting ==
    ASSUME NEW Good \in SUBSET Nat, 0 \in Good, \A n \in Good : n + 1 \in Good
    PROVE  \A n \in Nat : n \in Good
<1> SUFFICES ASSUME Nat \ Good # {}
             PROVE  FALSE
  OBVIOUS
<1> DEFINE least == Min(Nat \ Good)
<1>1. least \in Nat \ Good /\ \A n \in Nat \ Good : least <= n
  BY MinNat
<1> HIDE DEF least
<1>2. least # 0 /\ least - 1 \in Nat
  BY <1>1
<1>3. least - 1 \in Good
  BY <1>1, <1>2
<1>4. least - 1 + 1 \in Good
  BY <1>3
<1> QED BY <1>1, <1>4

LEMMA Collecting ==
    ASSUME NEW S, IsFiniteSet(S), NEW Good \in SUBSET (SUBSET S), {} \in Good,
           \A T \in Good : \A x \in S \ T : T \cup {x} \in Good
    PROVE  S \in Good
<1> DEFINE Sizes == {n \in Nat : \A T \in SUBSET S : Cardinality(T) = n => T \in Good}
<1>1. 0 \in Sizes
  <2>1. ASSUME NEW T \in SUBSET S, Cardinality(T) = 0
        PROVE  T \in Good
    <3>1. IsFiniteSet(T)
      BY FS_Subset
    <3>2. T = {}
      BY <2>1, <3>1, FS_EmptySet
    <3> QED BY <3>2
  <2> QED BY <2>1
<1>2. ASSUME NEW n \in Sizes
      PROVE  n + 1 \in Sizes
  <2>1. ASSUME NEW T \in SUBSET S, Cardinality(T) = n + 1
        PROVE  T \in Good
    <3>1. IsFiniteSet(T)
      BY FS_Subset
    <3>2. T # {}
      BY <2>1, FS_EmptySet
    <3>3. PICK x \in T : TRUE
      BY <3>2
    <3>4. Cardinality(T \ {x}) = n
      <4>1. Cardinality(T \ {x}) = Cardinality(T) - 1
        BY <3>1, <3>3, FS_RemoveElement
      <4>2. n \in Nat
        OBVIOUS
      <4> QED BY <2>1, <4>1, <4>2
    <3>5. T \ {x} \in Good
      BY <3>4
    <3>6. (T \ {x}) \cup {x} = T
      BY <3>3
    <3> QED BY <3>3, <3>5, <3>6
  <2> QED BY <2>1
<1> HIDE DEF Sizes
<1>3. \A n \in Nat : n \in Sizes
  BY <1>1, <1>2, Counting DEF Sizes
<1>4. Cardinality(S) \in Nat
  BY FS_CardinalityType
<1> QED BY <1>3, <1>4 DEF Sizes

\* The recursion of the fold has a solution.
LEMMA SumsExist ==
    ASSUME NEW g, NEW S, IsFiniteSet(S)
    PROVE  \A s \in SUBSET S : SumsUp(g, SumOf(g, S), s)
<1> DEFINE Small(n) == {s \in SUBSET S : Cardinality(s) <= n}
           Solved == {n \in Nat : \E sum : \A s \in Small(n) : SumsUp(g, sum, s)}
<1>0. \A s \in SUBSET S : Cardinality(s) \in Nat /\ IsFiniteSet(s)
  BY FS_Subset, FS_CardinalityType
<1>1. ASSUME NEW n \in Nat, NEW s \in Small(n), s # {}
      PROVE  n # 0 /\ s \ {Some(s)} \in Small(n - 1) /\ s \ {Some(s)} \in Small(n)
  <2>1. Some(s) \in s
    BY <1>1 DEF Some
  <2>2. Cardinality(s \ {Some(s)}) = Cardinality(s) - 1
    BY <1>0, <2>1, FS_RemoveElement
  <2>3. Cardinality(s) # 0
    BY <1>0, <1>1, FS_EmptySet
  <2>4. s \ {Some(s)} \in SUBSET S /\ Cardinality(s) \in Nat /\ Cardinality(s) <= n
    BY <1>0
  <2> QED BY <2>2, <2>3, <2>4
<1>2. 0 \in Solved
  <2> DEFINE zero == [s \in SUBSET S |-> 0]
  <2>1. \A s \in Small(0) : s = {} /\ zero[s] = 0
    BY <1>1
  <2>2. \A s \in Small(0) : SumsUp(g, zero, s)
    BY <2>1 DEF SumsUp
  <2> QED BY <2>2
<1>3. ASSUME NEW n \in Solved
      PROVE  n + 1 \in Solved
  <2>1. PICK sum : \A s \in Small(n) : SumsUp(g, sum, s)
    BY <1>3
  <2> DEFINE next == [s \in SUBSET S |-> IF s \in Small(n) THEN sum[s]
                                         ELSE g[Some(s)] + sum[s \ {Some(s)}]]
  <2>2. \A s \in Small(n) : next[s] = sum[s]
    OBVIOUS
  <2>3. ASSUME NEW s \in Small(n + 1)
        PROVE  SumsUp(g, next, s)
    <3>1. CASE s \in Small(n)
      <4>1. s # {} => next[s \ {Some(s)}] = sum[s \ {Some(s)}]
        BY <1>1, <2>2, <3>1
      <4>2. next[s] = sum[s] /\ SumsUp(g, sum, s)
        BY <2>1, <2>2, <3>1
      <4> HIDE DEF next
      <4> QED BY <4>1, <4>2, Zenon DEF SumsUp
    <3>2. CASE s \notin Small(n)
      <4>1. s # {}
        BY <3>2, FS_EmptySet
      <4>2. s \ {Some(s)} \in Small(n)
        BY <1>1, <4>1
      <4>3. next[s \ {Some(s)}] = sum[s \ {Some(s)}]
        BY <2>2, <4>2
      <4>4. next[s] = g[Some(s)] + sum[s \ {Some(s)}]
        BY <3>2
      <4> HIDE DEF next
      <4> QED BY <4>1, <4>3, <4>4, Zenon DEF SumsUp
    <3> QED BY <3>1, <3>2
  <2> HIDE DEF next
  <2> QED BY <2>3
<1>4. Cardinality(S) \in Solved
  <2> HIDE DEF Solved
  <2>1. \A n \in Nat : n \in Solved
    <3>1. Solved \in SUBSET Nat
      BY DEF Solved
    <3> QED BY <1>2, <1>3, <3>1, Counting
  <2> QED BY <2>1, FS_CardinalityType
<1>5. PICK sum : \A s \in SUBSET S : SumsUp(g, sum, s)
  <2>1. \A s \in SUBSET S : s \in Small(Cardinality(S))
    BY FS_Subset
  <2> HIDE DEF Small
  <2> QED BY <1>4, <2>1
<1> DEFINE whole == [s \in SUBSET S |-> sum[s]]
           Solves(f) == f = [s \in SUBSET S |-> IF s = {} THEN 0 ELSE g[Some(s)] + f[s \ {Some(s)}]]
<1>6. Solves(whole)
  <2>1. ASSUME NEW s \in SUBSET S
        PROVE  whole[s] = IF s = {} THEN 0 ELSE g[Some(s)] + whole[s \ {Some(s)}]
    <3>1. whole[s \ {Some(s)}] = sum[s \ {Some(s)}] /\ whole[s] = sum[s]
      OBVIOUS
    <3>2. SumsUp(g, sum, s)
      BY <1>5
    <3> HIDE DEF whole
    <3> QED BY <3>1, <3>2, Zenon DEF SumsUp
  <2> QED BY <2>1
<1> HIDE DEF whole
<1>7. Solves(SumOf(g, S))
  BY <1>6 DEF SumOf
<1>8. ASSUME NEW s \in SUBSET S
      PROVE  SumsUp(g, SumOf(g, S), s)
  BY <1>7 DEF SumsUp
<1> QED BY <1>8
LEMMA SumOfPart ==
    ASSUME NEW g, NEW S, IsFiniteSet(S), NEW T \in SUBSET S
    PROVE  SumOf(g, S)[T] = Total(g, T)
<1> DEFINE Agree == {U \in SUBSET T : SumOf(g, S)[U] = SumOf(g, T)[U]}
           Sizes == {n \in Nat : \A U \in SUBSET T : Cardinality(U) = n => U \in Agree}
<1>1. IsFiniteSet(T)
  BY FS_Subset
<1>2. \A U \in SUBSET T : /\ SumsUp(g, SumOf(g, S), U) /\ SumsUp(g, SumOf(g, T), U)
                          /\ IsFiniteSet(U)
  BY <1>1, SumsExist, FS_Subset
<1>3. 0 \in Sizes
  <2>1. ASSUME NEW U \in SUBSET T, Cardinality(U) = 0
        PROVE  U \in Agree
    <3>1. U = {}
      BY <1>2, <2>1, FS_EmptySet
    <3> QED BY <1>2, <3>1 DEF SumsUp
  <2> QED BY <2>1
<1>4. ASSUME NEW n \in Sizes
      PROVE  n + 1 \in Sizes
  <2>1. ASSUME NEW U \in SUBSET T, Cardinality(U) = n + 1
        PROVE  U \in Agree
    <3>1. U # {}
      BY <2>1, FS_EmptySet
    <3>2. Some(U) \in U
      BY <3>1 DEF Some
    <3>3. Cardinality(U \ {Some(U)}) = n
      <4>1. Cardinality(U \ {Some(U)}) = Cardinality(U) - 1
        BY <1>2, <3>2, FS_RemoveElement
      <4>2. n \in Nat
        OBVIOUS
      <4> QED BY <2>1, <4>1, <4>2
    <3>4. U \ {Some(U)} \in Agree
      BY <3>3
    <3>5. SumOf(g, S)[U \ {Some(U)}] = SumOf(g, T)[U \ {Some(U)}]
      BY <3>4
    <3>6. SumsUp(g, SumOf(g, S), U) /\ SumsUp(g, SumOf(g, T), U)
      BY <1>2
    <3>7. SumOf(g, S)[U] = SumOf(g, T)[U]
      BY <3>1, <3>5, <3>6, Zenon DEF SumsUp
    <3> QED BY <3>7
  <2> QED BY <2>1
<1> HIDE DEF Sizes
<1>5. \A n \in Nat : n \in Sizes
  <2>1. Sizes \in SUBSET Nat
    BY DEF Sizes
  <2> QED BY <1>3, <1>4, <2>1, Counting
<1>6. T \in Agree
  BY <1>1, <1>5, FS_CardinalityType DEF Sizes
<1> QED BY <1>6, TotalUnfolds

\* What MapThenSumSet returns.
LEMMA TotalSteps ==
    ASSUME NEW g, NEW S, IsFiniteSet(S)
    PROVE  Total(g, S) = IF S = {} THEN 0 ELSE g[Some(S)] + Total(g, S \ {Some(S)})
<1>1. SumsUp(g, SumOf(g, S), S)
  BY SumsExist
<1>2. SumOf(g, S)[S \ {Some(S)}] = Total(g, S \ {Some(S)})
  BY SumOfPart
<1> QED BY <1>1, <1>2, TotalUnfolds, Zenon DEF SumsUp

LEMMA TotalNat ==
    ASSUME NEW g, NEW S, IsFiniteSet(S), \A x \in S : g[x] \in Nat
    PROVE  Total(g, S) \in Nat
<1> DEFINE Sizes == {n \in Nat : \A T \in SUBSET S : Cardinality(T) = n => Total(g, T) \in Nat}
<1>1. \A T \in SUBSET S : IsFiniteSet(T) /\ Cardinality(T) \in Nat
  BY FS_Subset, FS_CardinalityType
<1>2. 0 \in Sizes
  <2>1. ASSUME NEW T \in SUBSET S, Cardinality(T) = 0
        PROVE  Total(g, T) \in Nat
    <3>1. T = {}
      BY <1>1, <2>1, FS_EmptySet
    <3>2. Total(g, T) = 0
      BY <1>1, <3>1, TotalSteps
    <3> QED BY <3>2
  <2> QED BY <2>1
<1>3. ASSUME NEW n \in Sizes
      PROVE  n + 1 \in Sizes
  <2>0. n \in Nat
    OBVIOUS
  <2>1. ASSUME NEW T \in SUBSET S, Cardinality(T) = n + 1
        PROVE  Total(g, T) \in Nat
    <3>1. T # {}
      BY <2>0, <2>1, FS_EmptySet
    <3>2. Some(T) \in T
      BY <3>1 DEF Some
    <3>3. Cardinality(T \ {Some(T)}) = Cardinality(T) - 1
      BY <1>1, <3>2, FS_RemoveElement
    <3>4. Total(g, T \ {Some(T)}) \in Nat
      BY <2>0, <2>1, <3>3
    <3> QED BY <1>1, <3>1, <3>2, <3>4, TotalSteps
  <2> QED BY <2>0, <2>1
<1> HIDE DEF Sizes
<1>4. \A n \in Nat : n \in Sizes
  <2>1. Sizes \in SUBSET Nat
    BY DEF Sizes
  <2> QED BY <1>2, <1>3, <2>1, Counting
<1> QED BY <1>1, <1>4 DEF Sizes

\* It does not matter which element is taken first.
LEMMA TotalTakes ==
    ASSUME NEW g, NEW S, IsFiniteSet(S), \A x \in S : g[x] \in Nat, NEW e \in S
    PROVE  Total(g, S) = g[e] + Total(g, S \ {e})
<1> DEFINE Takes(T) == \A x \in T : Total(g, T) = g[x] + Total(g, T \ {x})
           Sizes == {n \in Nat : \A T \in SUBSET S : Cardinality(T) = n => Takes(T)}
<1>1. \A T \in SUBSET S : IsFiniteSet(T) /\ Cardinality(T) \in Nat
  BY FS_Subset, FS_CardinalityType
<1>2. \A T \in SUBSET S : Total(g, T) \in Nat
  BY <1>1, TotalNat
<1>3. 0 \in Sizes
  <2>1. ASSUME NEW T \in SUBSET S, Cardinality(T) = 0
        PROVE  Takes(T)
    <3>1. T = {}
      BY <1>1, <2>1, FS_EmptySet
    <3> QED BY <3>1
  <2> HIDE DEF Takes
  <2> QED BY <2>1
<1>4. ASSUME NEW n \in Sizes
      PROVE  n + 1 \in Sizes
  <2>0. n \in Nat
    OBVIOUS
  <2>1. ASSUME NEW T \in SUBSET S, Cardinality(T) = n + 1, NEW x \in T
        PROVE  Total(g, T) = g[x] + Total(g, T \ {x})
    <3> DEFINE c == Some(T)
    <3>1. T # {}
      OBVIOUS
    <3>2. c \in T
      BY <3>1 DEF Some
    <3> HIDE DEF c
    <3>3. Takes(T \ {x}) /\ Takes(T \ {c})
      <4>1. Cardinality(T \ {x}) = n /\ Cardinality(T \ {c}) = n
        <5>1. /\ Cardinality(T \ {x}) = Cardinality(T) - 1
              /\ Cardinality(T \ {c}) = Cardinality(T) - 1
          BY <1>1, <3>2, FS_RemoveElement
        <5> QED BY <2>0, <2>1, <5>1
      <4> HIDE DEF Takes
      <4> QED BY <4>1
    <3>4. Total(g, T) = g[c] + Total(g, T \ {c})
      BY <1>1, <3>1, TotalSteps DEF c
    <3>5. CASE x = c
      BY <3>4, <3>5
    <3>6. CASE x # c
      <4>1. Total(g, T \ {c}) = g[x] + Total(g, (T \ {c}) \ {x})
        BY <3>3, <3>6
      <4>2. Total(g, T \ {x}) = g[c] + Total(g, (T \ {x}) \ {c})
        BY <3>2, <3>3, <3>6
      <4>3. (T \ {c}) \ {x} = (T \ {x}) \ {c}
        OBVIOUS
      <4>4. /\ Total(g, (T \ {x}) \ {c}) \in Nat
            /\ g[x] \in Nat /\ g[c] \in Nat
        BY <1>2, <3>2
      <4>5. Total(g, (T \ {c}) \ {x}) = Total(g, (T \ {x}) \ {c})
        BY <4>3
      <4> QED BY <3>4, <4>1, <4>2, <4>4, <4>5
    <3> QED BY <3>5, <3>6
  <2> QED BY <2>0, <2>1
<1> HIDE DEF Takes, Sizes
<1>5. \A n \in Nat : n \in Sizes
  <2>1. Sizes \in SUBSET Nat
    BY DEF Sizes
  <2> QED BY <1>3, <1>4, <2>1, Counting
<1>6. Takes(S)
  BY <1>1, <1>5 DEF Sizes
<1> QED BY <1>6 DEF Takes

LEMMA TotalSame ==
    ASSUME NEW g, NEW h, NEW S, IsFiniteSet(S), \A x \in S : g[x] \in Nat /\ h[x] = g[x]
    PROVE  Total(h, S) = Total(g, S)
<1> DEFINE Good == {T \in SUBSET S : Total(h, T) = Total(g, T)}
<1>1. {} \in Good
  BY FS_EmptySet, TotalSteps
<1>2. ASSUME NEW T \in Good, NEW x \in S \ T
      PROVE  T \cup {x} \in Good
  <2>1. IsFiniteSet(T \cup {x}) /\ (T \cup {x}) \ {x} = T
    BY FS_Subset
  <2>2. Total(g, T \cup {x}) = g[x] + Total(g, T)
    BY <2>1, TotalTakes
  <2>3. Total(h, T \cup {x}) = h[x] + Total(h, T)
    BY <2>1, TotalTakes
  <2> QED BY <2>2, <2>3
<1> HIDE DEF Good
<1>3. Good \in SUBSET (SUBSET S)
  BY DEF Good
<1>4. S \in Good
  BY <1>1, <1>2, <1>3, Collecting
<1> QED BY <1>4 DEF Good

\* One term of a sum changes.
LEMMA TotalChanges ==
    ASSUME NEW S, IsFiniteSet(S), NEW g \in [S -> Nat], NEW h \in [S -> Nat],
           NEW e \in S, \A x \in S \ {e} : h[x] = g[x]
    PROVE  Total(h, S) - h[e] = Total(g, S) - g[e]
<1>1. Total(g, S) = g[e] + Total(g, S \ {e}) /\ Total(h, S) = h[e] + Total(h, S \ {e})
  BY TotalTakes
<1>2. IsFiniteSet(S \ {e})
  BY FS_Subset
<1>3. Total(h, S \ {e}) = Total(g, S \ {e})
  BY <1>2, TotalSame
<1>4. Total(g, S \ {e}) \in Nat
  BY <1>2, TotalNat
<1> QED BY <1>1, <1>3, <1>4

LEMMA TotalZero ==
    ASSUME NEW g, NEW S, IsFiniteSet(S), \A x \in S : g[x] = 0
    PROVE  Total(g, S) = 0
<1> DEFINE Good == {T \in SUBSET S : Total(g, T) = 0}
<1>1. {} \in Good
  BY FS_EmptySet, TotalSteps
<1>2. ASSUME NEW T \in Good, NEW x \in S \ T
      PROVE  T \cup {x} \in Good
  <2>1. IsFiniteSet(T \cup {x}) /\ (T \cup {x}) \ {x} = T
    BY FS_Subset
  <2>2. Total(g, T \cup {x}) = g[x] + Total(g, T)
    BY <2>1, TotalTakes
  <2> QED BY <2>2
<1> HIDE DEF Good
<1>3. Good \in SUBSET (SUBSET S)
  BY DEF Good
<1>4. S \in Good
  BY <1>1, <1>2, <1>3, Collecting
<1> QED BY <1>4 DEF Good

-----------------------------------------------------------------------------
(***************************************************************************)
(* Rules do not multiply.                                                  *)
(***************************************************************************)

Bounded == IsFiniteSet(Worker) /\ IsFiniteSet(Target) /\ IsFiniteSet(Interface)

\* The goroutine is about to append a rule for the address.
Appends(local, slot) ==
    \/ local.pc = "allocAdd" /\ <<local.client, local.row.addr>> = slot
    \/ local.pc \in {"reevalSave", "reevalAdd"} /\ <<local.client, local.at.row.addr>> = slot

Appenders(jobs, slot) == {g \in Goroutine : Appends(jobs[g], slot)}

One(holds) == IF holds THEN 1 ELSE 0

\* No other goroutine moves.
OnlyMoves(g) == \A h \in Goroutine \ {g} : job'[h] = job[h]

LEMMA ClaimsAdd ==
    ASSUME NEW slot
    PROVE  /\ Claims(slot) = Total(nat[slot], Dest) + Cardinality(Appenders(job, slot))
           /\ Claims(slot)' = Total(nat'[slot], Dest) + Cardinality(Appenders(job', slot))
<1>1. /\ Pending(slot) = Appenders(job, slot)
      /\ Pending(slot)' = Appenders(job', slot)
  BY DEF Pending, Appenders, Appends, At
<1>2. /\ Claims(slot) = Total(nat[slot], Dest) + Cardinality(Pending(slot))
      /\ Claims(slot)' = Total(nat'[slot], Dest) + Cardinality(Pending(slot)')
  BY DEF Claims, Total, MapThenSumSet, MapThenFoldSet
<1> QED BY <1>1, <1>2, Zenon

LEMMA Finite ==
    ASSUME Bounded
    PROVE  IsFiniteSet(Dest) /\ IsFiniteSet(Goroutine)
<1>1. IsFiniteSet(Target \cup Interface)
  BY FS_Union DEF Bounded
<1>2. IsFiniteSet({Ticker} \cup {Admin})
  BY FS_Singleton, FS_Union
<1>3. IsFiniteSet(Worker \cup ({Ticker} \cup {Admin}))
  BY <1>2, FS_Union DEF Bounded
<1>4. Goroutine = Worker \cup ({Ticker} \cup {Admin})
  BY DEF Goroutine
<1> QED BY <1>1, <1>3, <1>4 DEF Dest

\* One goroutine moves: the number of those about to append changes by what it does.
LEMMA PendingMoves ==
    ASSUME Bounded, NEW g \in Goroutine, OnlyMoves(g), NEW slot
    PROVE  /\ Cardinality(Appenders(job, slot)) \in Nat
           /\ Cardinality(Appenders(job', slot)) \in Nat
           /\ Cardinality(Appenders(job, slot)) + One(Appends(job'[g], slot))
                = Cardinality(Appenders(job', slot)) + One(Appends(job[g], slot))
<1> DEFINE A == {h \in Goroutine : Appends(job[h], slot)}
           B == {h \in Goroutine : Appends(job'[h], slot)}
           rest == A \ {g}
<1>1. IsFiniteSet(A) /\ IsFiniteSet(rest) /\ IsFiniteSet(B)
  <2>1. A \in SUBSET Goroutine /\ rest \in SUBSET Goroutine /\ B \in SUBSET Goroutine
    OBVIOUS
  <2> HIDE DEF A, B, rest
  <2> QED BY <2>1, Finite, FS_Subset
<1>2. g \notin rest
  OBVIOUS
<1>3. A = IF Appends(job[g], slot) THEN rest \cup {g} ELSE rest
  OBVIOUS
<1>4. B = IF Appends(job'[g], slot) THEN rest \cup {g} ELSE rest
  BY DEF OnlyMoves
<1>5. Cardinality(rest \cup {g}) = Cardinality(rest) + 1 /\ Cardinality(rest) \in Nat
  <2> HIDE DEF rest
  <2> QED BY <1>1, <1>2, FS_AddElement, FS_CardinalityType
<1> HIDE DEF A, B, rest
<1>6. Cardinality(A) = Cardinality(rest) + One(Appends(job[g], slot))
  BY <1>3, <1>5 DEF One
<1>7. Cardinality(B) = Cardinality(rest) + One(Appends(job'[g], slot))
  BY <1>4, <1>5 DEF One
<1>8. One(Appends(job[g], slot)) \in Nat /\ One(Appends(job'[g], slot)) \in Nat
  BY DEF One
<1>9. /\ Cardinality(A) \in Nat /\ Cardinality(B) \in Nat
      /\ Cardinality(A) + One(Appends(job'[g], slot)) = Cardinality(B) + One(Appends(job[g], slot))
  BY <1>5, <1>6, <1>7, <1>8
<1> QED BY <1>9 DEF A, B, Appenders

\* What a goroutine's step adds to the claims on an address: what it did to the rules
\* and what it is about to do.
LEMMA ClaimsMove ==
    ASSUME Bounded, TypeOK, TypeOK', NEW g \in Goroutine, OnlyMoves(g),
           NEW slot \in Client \X Address
    PROVE  /\ Total(nat[slot], Dest) \in Nat /\ Total(nat'[slot], Dest) \in Nat
           /\ Claims(slot) \in Nat /\ Claims(slot)' \in Nat
           /\ Claims(slot)' + Total(nat[slot], Dest) + One(Appends(job[g], slot))
                = Claims(slot) + Total(nat'[slot], Dest) + One(Appends(job'[g], slot))
<1> DEFINE before == Cardinality(Appenders(job, slot))
           after  == Cardinality(Appenders(job', slot))
<1>2. /\ before \in Nat /\ after \in Nat
      /\ before + One(Appends(job'[g], slot)) = after + One(Appends(job[g], slot))
  BY PendingMoves
<1>3. Total(nat[slot], Dest) \in Nat /\ Total(nat'[slot], Dest) \in Nat
  BY Finite, TotalNat DEF TypeOK
<1>4. Claims(slot) = Total(nat[slot], Dest) + before /\ Claims(slot)' = Total(nat'[slot], Dest) + after
  BY ClaimsAdd
<1>5. One(Appends(job[g], slot)) \in Nat /\ One(Appends(job'[g], slot)) \in Nat
  BY DEF One
<1> HIDE DEF before, after
<1> QED BY <1>2, <1>3, <1>4, <1>5

\* An append adds one rule at most, a removal takes one away.
LEMMA AddedRules ==
    ASSUME Bounded, TypeOK, TypeOK', NEW fw, NEW client, NEW addr, NEW dest,
           AddForwardRule(fw, client, addr, dest), NEW slot \in Client \X Address
    PROVE  Total(nat'[slot], Dest) <= Total(nat[slot], Dest) + One(<<client, addr>> = slot)
<1>1. Total(nat[slot], Dest) \in Nat /\ nat[slot] \in [Dest -> Nat] /\ nat'[slot] \in [Dest -> Nat]
  BY Finite, TotalNat DEF TypeOK
<1>2. CASE nat'[slot] = nat[slot]
  BY <1>1, <1>2 DEF One
<1>3. CASE nat'[slot] # nat[slot]
  <2>1. nat' = [nat EXCEPT ![<<client, addr>>][dest] = @ + 1]
    BY <1>3 DEF AddForwardRule
  <2>2. <<client, addr>> = slot /\ dest \in Dest
    BY <1>1, <1>3, <2>1 DEF TypeOK
  <2>3. nat'[slot][dest] = nat[slot][dest] + 1 /\ \A d \in Dest \ {dest} : nat'[slot][d] = nat[slot][d]
    BY <2>1, <2>2 DEF TypeOK
  <2>4. Total(nat'[slot], Dest) - nat'[slot][dest] = Total(nat[slot], Dest) - nat[slot][dest]
    BY <1>1, <2>2, <2>3, Finite, TotalChanges
  <2>5. Total(nat'[slot], Dest) \in Nat /\ nat[slot][dest] \in Nat
    BY <1>1, <2>2, Finite, TotalNat
  <2> QED BY <1>1, <2>2, <2>3, <2>4, <2>5 DEF One
<1> QED BY <1>2, <1>3

LEMMA RemovedRules ==
    ASSUME Bounded, TypeOK, TypeOK', NEW fw, NEW client, NEW addr, NEW dest \in Dest,
           RemoveForwardRule(fw, client, addr, dest), NEW slot \in Client \X Address
    PROVE  Total(nat'[slot], Dest) = Total(nat[slot], Dest) - One(<<client, addr>> = slot)
<1>1. /\ Total(nat[slot], Dest) \in Nat /\ nat[slot] \in [Dest -> Nat] /\ nat'[slot] \in [Dest -> Nat]
      /\ Total(nat'[slot], Dest) \in Nat
  BY Finite, TotalNat DEF TypeOK
<1>2. nat' = [nat EXCEPT ![<<client, addr>>][dest] = @ - 1]
  BY DEF RemoveForwardRule
<1>3. CASE <<client, addr>> = slot
  <2>1. nat'[slot][dest] = nat[slot][dest] - 1 /\ \A d \in Dest \ {dest} : nat'[slot][d] = nat[slot][d]
    BY <1>2, <1>3 DEF TypeOK
  <2>2. Total(nat'[slot], Dest) - nat'[slot][dest] = Total(nat[slot], Dest) - nat[slot][dest]
    BY <1>1, <2>1, Finite, TotalChanges
  <2>3. nat[slot][dest] \in Nat
    BY <1>1
  <2> QED BY <1>1, <1>3, <2>1, <2>2, <2>3 DEF One
<1>4. CASE <<client, addr>> # slot
  <2>1. nat'[slot] = nat[slot]
    BY <1>2, <1>4 DEF TypeOK
  <2> QED BY <1>1, <1>4, <2>1 DEF One
<1> QED BY <1>3, <1>4
\* Steps after which nobody is about to append who was not, and which leave the
\* rules or take one away.
LEMMA NoMoreClaims ==
    ASSUME Bounded, TypeOK, TypeOK', NEW g \in Goroutine, OnlyMoves(g),
           NEW slot \in Client \X Address,
           Total(nat'[slot], Dest) + One(Appends(job'[g], slot))
             <= Total(nat[slot], Dest) + One(Appends(job[g], slot))
    PROVE  ~ (Claims(slot)' > Claims(slot))
<1>1. One(Appends(job'[g], slot)) \in Nat /\ One(Appends(job[g], slot)) \in Nat
  BY DEF One
<1> QED BY <1>1, ClaimsMove

Appending == {"allocAdd", "reevalSave", "reevalAdd"}

LEMMA PassiveStep ==
    ASSUME Bounded, TypeOK, TypeOK', NEW g \in Goroutine, OnlyMoves(g),
           job'[g].pc \notin Appending,
           \/ UNCHANGED nat
           \/ \E fw, client, addr : \E dest \in Dest : RemoveForwardRule(fw, client, addr, dest),
           NEW slot \in Client \X Address
    PROVE  ~ (Claims(slot)' > Claims(slot))
<1>1. ~ Appends(job'[g], slot)
  BY DEF Appends, Appending
<1>2. Total(nat'[slot], Dest) <= Total(nat[slot], Dest)
  <2>1. Total(nat[slot], Dest) \in Nat
    BY Finite, TotalNat DEF TypeOK
  <2>2. CASE UNCHANGED nat
    BY <2>1, <2>2
  <2>3. ASSUME NEW fw, NEW client, NEW addr, NEW dest \in Dest,
               RemoveForwardRule(fw, client, addr, dest)
        PROVE  Total(nat'[slot], Dest) <= Total(nat[slot], Dest)
    BY <2>1, <2>3, RemovedRules DEF One
  <2> QED BY <2>2, <2>3
<1>3. Total(nat[slot], Dest) \in Nat /\ Total(nat'[slot], Dest) \in Nat
  BY Finite, TotalNat DEF TypeOK
<1> QED BY <1>1, <1>2, <1>3, NoMoreClaims DEF One

LEMMA OneMoves ==
    ASSUME TypeOK, NEW g \in Goroutine, NEW local, Continue(g, local)
    PROVE  OnlyMoves(g) /\ job'[g] = local
BY DEF TypeOK, Continue, OnlyMoves

LEMMA WorkerInHand ==
    ASSUME TypeOK, NEW w \in Worker
    PROVE  w \in Goroutine /\ job[w] \in Job /\ Equipped(job[w])
BY DEF TypeOK, Goroutine

LEMMA QueryClaims ==
    ASSUME Bounded, TypeOK, TypeOK', NEW w \in Worker,
           \/ LookupHit(w) \/ LookupMiss(w) \/ Resolve(w) \/ ResolveFails(w)
           \/ AllocGet(w) \/ AllocDelete(w) \/ AllocList(w) \/ Store(w),
           NEW slot \in Client \X Address
    PROVE  ~ (Claims(slot)' > Claims(slot))
<1> DEFINE Passive == UNCHANGED nat /\ OnlyMoves(w) /\ job'[w].pc \notin Appending
<1>1. w \in Goroutine /\ job[w] \in Job
  BY WorkerInHand
<1>2. CASE LookupHit(w)
  <2> DEFINE local == [job[w] EXCEPT !.pc = "store", !.cached = TRUE,
                         !.row = [sessions[<<job[w].client, job[w].host>>] EXCEPT
                            !.reason = job[w].ses.verdict[job[w].host]]]
  <2>1. UNCHANGED nat /\ Continue(w, local)
    BY <1>2 DEF LookupHit
  <2>2. local.pc = "store"
    BY <1>1 DEF Job
  <2> HIDE DEF local
  <2> QED BY <1>1, <2>1, <2>2, OneMoves, PassiveStep DEF Appending
<1>3. CASE LookupMiss(w)
  <2> DEFINE row == sessions[<<job[w].client, job[w].host>>]
             local == [job[w] EXCEPT !.pc = "resolve", !.row = row, !.cached = (row # Nil)]
  <2>1. UNCHANGED nat /\ Continue(w, local)
    BY <1>3 DEF LookupMiss
  <2>2. local.pc = "resolve"
    BY <1>1 DEF Job
  <2> HIDE DEF local
  <2> QED BY <1>1, <2>1, <2>2, OneMoves, PassiveStep DEF Appending
<1>4. CASE Resolve(w)
  <2>1. PICK row : Continue(w, [job[w] EXCEPT !.pc = AllocateFrom(row), !.row = row])
    BY <1>4 DEF Resolve
  <2> DEFINE local == [job[w] EXCEPT !.pc = AllocateFrom(row), !.row = row]
  <2>2. local.pc \in {"store", "allocGet", "allocList"}
    BY <1>1 DEF Job, AllocateFrom
  <2>3. UNCHANGED nat
    BY <1>4 DEF Resolve
  <2>4. Continue(w, local)
    BY <2>1
  <2> HIDE DEF local
  <2> QED BY <1>1, <2>2, <2>3, <2>4, OneMoves, PassiveStep DEF Appending
<1>5. CASE ResolveFails(w) \/ Store(w)
  <2>1. UNCHANGED nat /\ Continue(w, Idle)
    BY <1>5 DEF ResolveFails, Store, Finish
  <2> QED BY <1>1, <2>1, OneMoves, PassiveStep DEF Appending, Idle
<1>6. CASE AllocGet(w) \/ AllocDelete(w) \/ AllocList(w)
  <2>1. UNCHANGED nat
    BY <1>6 DEF AllocGet, AllocDelete, AllocList
  <2>2. PICK local : Continue(w, local) /\ local.pc \in {"store", "allocList", "allocDelete", "allocCreate"}
    <3>1. CASE AllocGet(w)
      <4> DEFINE pc == IF rdns[OwnSlot(w)] = Nil THEN "allocList"
                       ELSE IF rdns[OwnSlot(w)] = job[w].host THEN "store"
                       ELSE "allocDelete"
                 local == [job[w] EXCEPT !.pc = pc]
      <4>1. Continue(w, local)
        BY <3>1 DEF AllocGet
      <4>2. pc \in {"store", "allocList", "allocDelete"}
        OBVIOUS
      <4> HIDE DEF pc
      <4>3. local.pc = pc
        BY <1>1 DEF Job
      <4> HIDE DEF local
      <4> QED BY <4>1, <4>2, <4>3
    <3>2. CASE AllocDelete(w)
      BY <1>1, <3>2 DEF AllocDelete, Job
    <3>3. CASE AllocList(w)
      <4> DEFINE free == firstAvailable(Reserved(job[w].client))
                 found == [job[w] EXCEPT !.pc = "allocCreate", !.offset = free.offset]
                 full == [job[w] EXCEPT !.pc = "store"]
      <4>1. Continue(w, found) \/ Continue(w, full)
        BY <3>3 DEF AllocList
      <4>2. found.pc = "allocCreate" /\ full.pc = "store"
        BY <1>1 DEF Job
      <4> HIDE DEF found, full
      <4> QED BY <4>1, <4>2
    <3> QED BY <1>6, <3>1, <3>2, <3>3
  <2> QED BY <1>1, <2>1, <2>2, OneMoves, PassiveStep DEF Appending
<1> QED BY <1>2, <1>3, <1>4, <1>5, <1>6
LEMMA NextReevalPasses ==
    ASSUME NEW local \in Job, NEW todo
    PROVE  NextReeval(local, todo).pc \notin Appending
BY DEF NextReeval, Job, Appending, Idle

LEMMA NextFlushPasses ==
    ASSUME NEW local \in Job, NEW todo
    PROVE  NextFlush(local, todo).pc \notin Appending
BY DEF NextFlush, Job, Appending

LEMMA NextReviewPasses ==
    ASSUME NEW local \in Job, NEW todo
    PROVE  NextReview(local, todo).pc \notin Appending
BY DEF NextReview, Job, Appending, Idle

LEMMA NextSwitchPasses ==
    ASSUME NEW local \in Job, NEW todo
    PROVE  NextSwitch(local, todo).pc \notin Appending
BY DEF NextSwitch, Job, Appending, Idle

LEMMA StartClaims ==
    ASSUME Bounded, TypeOK, TypeOK', NEW w \in Worker, Requests(w),
           NEW slot \in Client \X Address
    PROVE  ~ (Claims(slot)' > Claims(slot))
<1>1. w \in Goroutine
  BY WorkerInHand
<1>2. UNCHANGED nat
  BY DEF Requests, StartQuery, StartPage, StartFlush, StartDeleteSession
<1>3. PICK local : Continue(w, local) /\ local.pc \notin Appending
  <2>1. ASSUME NEW client \in Client, NEW host \in Host, NEW ifc \in Interface, StartQuery(w, client, host, ifc)
        PROVE  \E local : Continue(w, local) /\ local.pc \notin Appending
    <3> DEFINE pc == IF unseen[client] THEN "reevaluate" ELSE "lookup"
               local == [Idle EXCEPT !.pc = pc, !.client = client, !.host = host, !.ifc = ifc,
                                     !.ses = policy[client]]
    <3>1. Continue(w, local)
      BY <2>1 DEF StartQuery
    <3>2. local.pc = pc
      BY DEF Idle
    <3> HIDE DEF local
    <3> QED BY <3>1, <3>2 DEF Appending
  <2>2. ASSUME NEW client \in Client, NEW host \in Host, StartPage(w, client, host)
        PROVE  \E local : Continue(w, local) /\ local.pc \notin Appending
    <3> DEFINE row == sessions[<<client, host>>]
               pc == IF row = Nil THEN "handle" ELSE "page"
               local == [Idle EXCEPT !.pc = pc, !.client = client, !.row = row]
    <3>1. Continue(w, local)
      BY <2>2 DEF StartPage
    <3>2. local.pc = pc
      BY DEF Idle
    <3> HIDE DEF local
    <3> QED BY <3>1, <3>2 DEF Appending
  <2>3. ASSUME NEW client \in Client, StartFlush(w, client) \/ \E info \in Policy : StartDeleteSession(w, client, info)
        PROVE  \E local : Continue(w, local) /\ local.pc \notin Appending
    <3> DEFINE local == [Idle EXCEPT !.pc = "flushList", !.client = client]
    <3>1. Continue(w, local)
      BY <2>3 DEF StartFlush, StartDeleteSession
    <3>2. local.pc = "flushList"
      BY DEF Idle
    <3> HIDE DEF local
    <3> QED BY <3>1, <3>2 DEF Appending
  <2> QED BY <2>1, <2>2, <2>3 DEF Requests
<1> QED BY <1>1, <1>2, <1>3, OneMoves, PassiveStep

LEMMA PageClaims ==
    ASSUME Bounded, TypeOK, TypeOK', NEW w \in Worker, Page(w),
           NEW slot \in Client \X Address
    PROVE  ~ (Claims(slot)' > Claims(slot))
<1>1. w \in Goroutine /\ job[w] \in Job
  BY WorkerInHand
<1>2. UNCHANGED nat
  BY DEF Page, ViewSession, ShowPage, ChangeAccess
<1>3. PICK local : Continue(w, local) /\ local.pc \in {"handle", "reevaluate", "idle"}
  <2>1. CASE ViewSession(w)
    BY <1>1, <2>1 DEF ViewSession, Job
  <2>2. CASE ShowPage(w)
    BY <2>2 DEF ShowPage, Finish, Idle
  <2>3. ASSUME NEW info \in Policy, ChangeAccess(w, info)
        PROVE  \E local : Continue(w, local) /\ local.pc = "reevaluate"
    <3> DEFINE local == [job[w] EXCEPT !.pc = "reevaluate", !.row = Nil]
    <3>1. Continue(w, local) /\ local.pc = "reevaluate"
      BY <1>1, <2>3 DEF ChangeAccess, Job
    <3> QED BY <3>1
  <2> QED BY <2>1, <2>2, <2>3 DEF Page
<1> QED BY <1>1, <1>2, <1>3, OneMoves, PassiveStep DEF Appending

LEMMA FlushClaims ==
    ASSUME Bounded, TypeOK, TypeOK', NEW w \in Worker, Flush(w),
           NEW slot \in Client \X Address
    PROVE  ~ (Claims(slot)' > Claims(slot))
<1>1. w \in Goroutine /\ job[w] \in Job
  BY WorkerInHand
<1>2. CASE FlushList(w)
  <2>1. UNCHANGED nat /\ Continue(w, NextFlush(job[w], Stored({job[w].client})))
    BY <1>2 DEF FlushList
  <2> QED BY <1>1, <2>1, OneMoves, NextFlushPasses, PassiveStep
<1>3. CASE FlushRow(w)
  <2>1. PICK task \in job[w].todo :
          /\ IF portalFw # "none" /\ task.row.target # Nil
             THEN \/ RemoveForwardRule(portalFw, job[w].client, task.row.addr, DestIP(task.row))
                  \/ RemoveForwardRuleFails(portalFw, job[w].client, task.row.addr, DestIP(task.row))
             ELSE UNCHANGED nat
          /\ Continue(w, [job[w] EXCEPT !.pc = "flushDelete", !.at = task])
    BY <1>3 DEF FlushRow
  <2> DEFINE local == [job[w] EXCEPT !.pc = "flushDelete", !.at = task]
  <2>2. local.pc = "flushDelete"
    BY <1>1 DEF Job
  <2>3. task.row.target # Nil => DestIP(task.row) \in Dest
    BY <1>1 DEF Job, Task, Row, DestIP, Dest
  <2>4. \/ UNCHANGED nat
        \/ \E fw, client, addr : \E dest \in Dest : RemoveForwardRule(fw, client, addr, dest)
    BY <2>1, <2>3 DEF RemoveForwardRuleFails
  <2>5. Continue(w, local)
    BY <2>1
  <2> HIDE DEF local
  <2> QED BY <1>1, <2>2, <2>4, <2>5, OneMoves, PassiveStep DEF Appending
<1>4. CASE FlushDelete(w)
  <2>1. UNCHANGED nat /\ Continue(w, NextFlush(job[w], job[w].todo \ {job[w].at}))
    BY <1>4 DEF FlushDelete
  <2> QED BY <1>1, <2>1, OneMoves, NextFlushPasses, PassiveStep
<1>5. CASE FlushRevList(w)
  <2> DEFINE local == [job[w] EXCEPT !.pc = "flushRev", !.offs = Reserved(job[w].client)]
  <2>1. UNCHANGED nat /\ (Continue(w, Idle) \/ Continue(w, local))
    BY <1>5 DEF FlushRevList
  <2>2. local.pc = "flushRev" /\ Idle.pc = "idle"
    BY <1>1 DEF Job, Idle
  <2> HIDE DEF local
  <2> QED BY <1>1, <2>1, <2>2, OneMoves, PassiveStep DEF Appending
<1>6. CASE FlushRev(w)
  <2>1. PICK o \in job[w].offs : Continue(w, IF job[w].offs = {o} THEN Idle
                                            ELSE [job[w] EXCEPT !.offs = @ \ {o}])
    BY <1>6 DEF FlushRev
  <2> DEFINE local == [job[w] EXCEPT !.offs = @ \ {o}]
  <2>2. Continue(w, Idle) \/ Continue(w, local)
    BY <2>1
  <2>3. local.pc = "flushRev" /\ Idle.pc = "idle"
    BY <1>1, <1>6 DEF Job, Idle, FlushRev, At
  <2>4. UNCHANGED nat
    BY <1>6 DEF FlushRev
  <2> HIDE DEF local
  <2> QED BY <1>1, <2>2, <2>3, <2>4, OneMoves, PassiveStep DEF Appending
<1> QED BY <1>2, <1>3, <1>4, <1>5, <1>6 DEF Flush

LEMMA ReviewClaims ==
    ASSUME Bounded, TypeOK, TypeOK', Review, NEW slot \in Client \X Address
    PROVE  ~ (Claims(slot)' > Claims(slot))
<1>1. Ticker \in Goroutine /\ job[Ticker] \in Job
  BY DEF Goroutine, TypeOK
<1>2. Idle \in Job
  BY IdleType
<1>3. CASE StartReview
  <2> DEFINE tasks == Stored(Client)
             expired == {task \in tasks : task.row.expired}
  <2>1. PICK busy : Continue(Ticker, IF busy = {} THEN NextReview(Idle, expired)
                ELSE [Idle EXCEPT !.pc = "reviewExtend", !.busy = busy, !.todo = expired])
    BY <1>3 DEF StartReview
  <2> DEFINE local == [Idle EXCEPT !.pc = "reviewExtend", !.busy = busy, !.todo = expired]
  <2>2. Continue(Ticker, NextReview(Idle, expired)) \/ Continue(Ticker, local)
    BY <2>1
  <2>3. local.pc = "reviewExtend"
    BY DEF Idle
  <2>4. UNCHANGED nat
    BY <1>3 DEF StartReview
  <2> HIDE DEF local, expired
  <2> QED BY <1>1, <1>2, <2>2, <2>3, <2>4, OneMoves, NextReviewPasses, PassiveStep DEF Appending
<1>4. CASE ReviewExtend
  <2>1. PICK task : Continue(Ticker,
               IF job[Ticker].busy = {task}
               THEN NextReview([job[Ticker] EXCEPT !.busy = {}], job[Ticker].todo)
               ELSE [job[Ticker] EXCEPT !.busy = @ \ {task}])
    BY <1>4 DEF ReviewExtend
  <2> DEFINE local == [job[Ticker] EXCEPT !.busy = @ \ {task}]
             done == [job[Ticker] EXCEPT !.busy = {}]
  <2>2. Continue(Ticker, NextReview(done, job[Ticker].todo)) \/ Continue(Ticker, local)
    BY <2>1
  <2>3. local.pc = "reviewExtend" /\ done \in Job
    BY <1>1, <1>4 DEF Job, ReviewExtend, At
  <2>4. UNCHANGED nat
    BY <1>4 DEF ReviewExtend
  <2> HIDE DEF local, done
  <2> QED BY <1>1, <2>2, <2>3, <2>4, OneMoves, NextReviewPasses, PassiveStep DEF Appending
<1>5. CASE ReviewRow
  <2> DEFINE local(task) == [job[Ticker] EXCEPT !.pc = "reviewDelete", !.at = task]
  <2>1. PICK task \in job[Ticker].todo :
          IF portalFw # "none" /\ task.row.target # Nil
          THEN \/ /\ RemoveForwardRule(portalFw, task.key[1], task.row.addr, DestIP(task.row))
                  /\ Continue(Ticker, local(task))
               \/ /\ RemoveForwardRuleFails(portalFw, task.key[1], task.row.addr, DestIP(task.row))
                  /\ Continue(Ticker, NextReview(job[Ticker], job[Ticker].todo \ {task}))
          ELSE Continue(Ticker, local(task)) /\ UNCHANGED nat
    BY <1>5 DEF ReviewRow
  <2>2. local(task).pc = "reviewDelete"
    BY <1>1 DEF Job
  <2>3. task.row.target # Nil => DestIP(task.row) \in Dest
    BY <1>1 DEF Job, Task, Row, DestIP, Dest
  <2>4. \/ UNCHANGED nat
        \/ \E fw, client, addr : \E dest \in Dest : RemoveForwardRule(fw, client, addr, dest)
    BY <2>1, <2>3 DEF RemoveForwardRuleFails
  <2>5. Continue(Ticker, local(task)) \/ Continue(Ticker, NextReview(job[Ticker], job[Ticker].todo \ {task}))
    BY <2>1
  <2> HIDE DEF local
  <2> QED BY <1>1, <2>2, <2>4, <2>5, OneMoves, NextReviewPasses, PassiveStep DEF Appending
<1>6. CASE ReviewDelete
  <2>1. /\ UNCHANGED nat
        /\ Continue(Ticker, NextReview(job[Ticker], job[Ticker].todo \ {job[Ticker].at}))
    BY <1>6 DEF ReviewDelete
  <2> QED BY <1>1, <2>1, OneMoves, NextReviewPasses, PassiveStep
<1> QED BY <1>3, <1>4, <1>5, <1>6 DEF Review
\* UpdateIPv4 appends only after it has removed a rule of the same address.
LEMMA ReevalClaims ==
    ASSUME Bounded, TypeOK, TypeOK', NEW w \in Worker, Reeval(w),
           NEW slot \in Client \X Address
    PROVE  ~ (Claims(slot)' > Claims(slot))
<1>1. w \in Goroutine /\ job[w] \in Job
  BY WorkerInHand
<1>2. Total(nat[slot], Dest) \in Nat /\ Total(nat'[slot], Dest) \in Nat
  BY Finite, TotalNat DEF TypeOK
<1>3. CASE Reevaluate(w)
  <2>1. PICK todo : Continue(w, NextReeval(job[w], todo))
    BY <1>3 DEF Reevaluate
  <2>2. UNCHANGED nat
    BY <1>3 DEF Reevaluate
  <2> QED BY <1>1, <2>1, <2>2, OneMoves, NextReevalPasses, PassiveStep
<1>4. CASE ReevalRow(w)
  <2> DEFINE local(task, pc) == [job[w] EXCEPT !.pc = pc, !.at = task]
  <2>1. PICK task \in job[w].todo :
          IF dnsFw # "none" /\ task.row.target # Nil
          THEN \/ /\ RemoveForwardRule(dnsFw, job[w].client, task.row.addr, DestIP(task.row))
                  /\ Continue(w, local(task, "reevalSave"))
               \/ /\ RemoveForwardRuleFails(dnsFw, job[w].client, task.row.addr, DestIP(task.row))
                  /\ Continue(w, local(task, "reevalStore"))
          ELSE Continue(w, local(task, "reevalStore")) /\ UNCHANGED nat
    BY <1>4 DEF ReevalRow
  <2>2. local(task, "reevalStore").pc = "reevalStore"
    BY <1>1 DEF Job
  <2>3. CASE Continue(w, local(task, "reevalStore")) /\ UNCHANGED nat
    <3> HIDE DEF local
    <3> QED BY <1>1, <2>2, <2>3, OneMoves, PassiveStep DEF Appending
  <2>4. CASE /\ task.row.target # Nil
             /\ RemoveForwardRule(dnsFw, job[w].client, task.row.addr, DestIP(task.row))
             /\ Continue(w, local(task, "reevalSave"))
    <3> DEFINE next == local(task, "reevalSave")
    <3>1. DestIP(task.row) \in Dest
      BY <1>1, <2>4 DEF Job, Task, Row, DestIP, Dest
    <3>2. Total(nat'[slot], Dest) = Total(nat[slot], Dest) - One(<<job[w].client, task.row.addr>> = slot)
      BY <2>4, <3>1, RemovedRules
    <3>3. next.pc = "reevalSave" /\ next.client = job[w].client /\ next.at = task
      BY <1>1 DEF Job
    <3> HIDE DEF next
    <3>4. Appends(next, slot) <=> <<job[w].client, task.row.addr>> = slot
      BY <3>3 DEF Appends
    <3>5. job'[w] = next /\ OnlyMoves(w)
      BY <1>1, <2>4, OneMoves DEF next
    <3>6. ~ Appends(job[w], slot)
      BY <1>4 DEF ReevalRow, At, Appends
    <3> QED BY <1>1, <1>2, <3>2, <3>4, <3>5, <3>6, NoMoreClaims DEF One
  <2> QED BY <2>1, <2>3, <2>4 DEF RemoveForwardRuleFails
<1>5. CASE ReevalSave(w)
  <2> DEFINE next == [job[w] EXCEPT !.pc = "reevalAdd"]
  <2>1. UNCHANGED nat /\ Continue(w, next) /\ job[w].pc = "reevalSave"
    BY <1>5 DEF ReevalSave, At
  <2>2. next.pc = "reevalAdd" /\ next.client = job[w].client /\ next.at = job[w].at
    BY <1>1 DEF Job
  <2> HIDE DEF next
  <2>3. Appends(next, slot) <=> Appends(job[w], slot)
    BY <2>1, <2>2 DEF Appends
  <2>4. job'[w] = next /\ OnlyMoves(w)
    BY <1>1, <2>1, OneMoves
  <2> QED BY <1>1, <1>2, <2>1, <2>3, <2>4, NoMoreClaims DEF One
<1>6. CASE ReevalAdd(w)
  <2> DEFINE next == [job[w] EXCEPT !.pc = "reevalStore"]
             addr == job[w].at.row.addr
  <2>1. /\ Continue(w, next) /\ job[w].pc = "reevalAdd"
        /\ AddForwardRule(dnsFw, job[w].client, Changed(job[w].at).addr, DestIP(Changed(job[w].at)))
    BY <1>6 DEF ReevalAdd, At
  <2>2. Changed(job[w].at).addr = addr
    <3>1. job[w].at \in Task
      BY <1>1, <2>1, WorkerInHand DEF Equipped, RowPc, Job
    <3> QED BY <3>1 DEF Changed, Task, Row
  <2>3. Total(nat'[slot], Dest) <= Total(nat[slot], Dest) + One(<<job[w].client, addr>> = slot)
    BY <2>1, <2>2, AddedRules
  <2>4. next.pc = "reevalStore"
    BY <1>1 DEF Job
  <2>5. job'[w] = next /\ OnlyMoves(w)
    BY <1>1, <2>1, OneMoves
  <2> HIDE DEF next
  <2>6. ~ Appends(job'[w], slot)
    BY <2>4, <2>5 DEF Appends
  <2>7. Appends(job[w], slot) <=> <<job[w].client, addr>> = slot
    BY <2>1 DEF Appends
  <2> QED BY <1>1, <1>2, <2>3, <2>5, <2>6, <2>7, NoMoreClaims DEF One
<1>7. CASE ReevalStore(w)
  <2>1. UNCHANGED nat /\ Continue(w, NextReeval(job[w], job[w].todo \ {job[w].at}))
    BY <1>7 DEF ReevalStore
  <2> QED BY <1>1, <2>1, OneMoves, NextReevalPasses, PassiveStep
<1> QED BY <1>3, <1>4, <1>5, <1>6, <1>7 DEF Reeval

LEMMA AllocAddClaims ==
    ASSUME Bounded, TypeOK, TypeOK', NEW w \in Worker, AllocAdd(w),
           NEW slot \in Client \X Address
    PROVE  ~ (Claims(slot)' > Claims(slot))
<1>1. w \in Goroutine /\ job[w] \in Job
  BY WorkerInHand
<1>2. Total(nat[slot], Dest) \in Nat /\ Total(nat'[slot], Dest) \in Nat
  BY Finite, TotalNat DEF TypeOK
<1> DEFINE next == [job[w] EXCEPT !.pc = "store"]
           addr == job[w].row.addr
<1>3. PICK dest : AddForwardRule(dnsFw, job[w].client, addr, dest)
  BY DEF AllocAdd
<1>4. Continue(w, next) /\ job[w].pc = "allocAdd"
  BY DEF AllocAdd, At
<1>5. Total(nat'[slot], Dest) <= Total(nat[slot], Dest) + One(<<job[w].client, addr>> = slot)
  BY <1>3, AddedRules
<1>6. next.pc = "store"
  BY <1>1 DEF Job
<1>7. job'[w] = next /\ OnlyMoves(w)
  BY <1>1, <1>4, OneMoves
<1> HIDE DEF next
<1>8. ~ Appends(job'[w], slot)
  BY <1>6, <1>7 DEF Appends
<1>9. Appends(job[w], slot) <=> <<job[w].client, addr>> = slot
  BY <1>4 DEF Appends
<1> QED BY <1>1, <1>2, <1>5, <1>7, <1>8, <1>9, NoMoreClaims DEF One

Leased(slot) ==
    /\ rdns[<<slot[1], OffsetOf(slot[2])>>] = Nil
    /\ rdns'[<<slot[1], OffsetOf(slot[2])>>] # Nil
    /\ Claims(slot)' = Claims(slot) + 1

\* Allocate is about to append only for the address it has just reserved.
LEMMA AllocCreateClaims ==
    ASSUME Bounded, TypeOK, TypeOK', NEW w \in Worker, AllocCreate(w),
           NEW slot \in Client \X Address, Claims(slot)' > Claims(slot)
    PROVE  Leased(slot)
<1>1. w \in Goroutine /\ job[w] \in Job /\ Equipped(job[w])
  BY WorkerInHand
<1> DEFINE addr == IP4fromOffset(job[w].offset)
           own == <<job[w].client, job[w].offset>>
           Takes(pc) == [job[w] EXCEPT !.pc = pc, !.offset = 0, !.row.addr = addr]
<1>2. /\ job[w].pc = "allocCreate" /\ UNCHANGED nat
      /\ \/ CreateReverseDNS(own, job[w].host) /\ (Continue(w, Takes("allocAdd")) \/ Continue(w, Takes("store")))
         \/ Continue(w, Takes("store"))
  BY DEF AllocCreate, At
<1>3. job[w].row \in Row /\ job[w].host # Nil /\ job[w].client \in Client /\ job[w].offset \in Offset
  BY <1>1, <1>2 DEF Equipped, AllocPc, QueryPc, Job
<1>4. ASSUME NEW pc
      PROVE  Takes(pc).pc = pc /\ Takes(pc).client = job[w].client /\ Takes(pc).row.addr = addr
  BY <1>1, <1>3 DEF Job, Row
<1> HIDE DEF Takes, addr
<1>5. ~ Continue(w, Takes("store"))
  <2> SUFFICES ASSUME Continue(w, Takes("store"))
               PROVE  FALSE
    OBVIOUS
  <2> QED BY <1>1, <1>2, <1>4, OneMoves, PassiveStep DEF Appending
<1>6. CreateReverseDNS(own, job[w].host) /\ Continue(w, Takes("allocAdd"))
  BY <1>2, <1>5
<1>7. job'[w] = Takes("allocAdd") /\ OnlyMoves(w)
  BY <1>1, <1>6, OneMoves
<1>8. ~ Appends(job[w], slot)
  BY <1>2 DEF Appends
<1>9. /\ Total(nat[slot], Dest) \in Nat /\ Claims(slot) \in Nat /\ Claims(slot)' \in Nat
      /\ Claims(slot)' = Claims(slot) + One(Appends(job'[w], slot))
  <2>1. /\ Total(nat[slot], Dest) \in Nat /\ Claims(slot) \in Nat /\ Claims(slot)' \in Nat
        /\ Claims(slot)' + Total(nat[slot], Dest) + One(Appends(job[w], slot))
             = Claims(slot) + Total(nat[slot], Dest) + One(Appends(job'[w], slot))
    BY <1>1, <1>2, <1>7, ClaimsMove
  <2> QED BY <1>8, <2>1 DEF One
<1>10. Appends(job'[w], slot)
  BY <1>9 DEF One
<1>11. <<job[w].client, addr>> = slot
  BY <1>4, <1>7, <1>10 DEF Appends
<1>12. <<slot[1], OffsetOf(slot[2])>> = own
  <2>1. OffsetOf(addr) = job[w].offset
    BY <1>3, PoolAssumption DEF addr, OffsetOf, IP4fromOffset, Offset
  <2> QED BY <1>11, <2>1
<1>13. own \in Slot /\ rdns[own] = Nil /\ rdns'[own] # Nil
  BY <1>3, <1>6 DEF CreateReverseDNS, TypeOK, Slot
<1> QED BY <1>9, <1>10, <1>12, <1>13 DEF Leased, One

\* SetActiveFirewall empties the chains, then appends the rule of one session it read
\* after the other.
LEMMA SwitchClaims ==
    ASSUME Bounded, TypeOK, TypeOK', Switch,
           NEW slot \in Client \X Address, Claims(slot)' > Claims(slot)
    PROVE  Claims(slot)' = Claims(slot) + 1 /\ InstallsOne(slot)
<1> DEFINE local == job[Admin]
<1>1. Admin \in Goroutine /\ local \in Job
  BY DEF TypeOK, Goroutine
<1>2. ASSUME NEW next, Continue(Admin, next), next.pc \notin Appending,
             Total(nat'[slot], Dest) <= Total(nat[slot], Dest)
      PROVE  FALSE
  <2>1. job'[Admin] = next /\ OnlyMoves(Admin)
    BY <1>1, <1>2, OneMoves
  <2>2. One(Appends(job'[Admin], slot)) = 0
    BY <1>2, <2>1 DEF Appends, Appending, One
  <2>3. /\ One(Appends(local, slot)) \in Nat
        /\ Total(nat[slot], Dest) \in Nat /\ Total(nat'[slot], Dest) \in Nat
    BY Finite, TotalNat DEF TypeOK, One
  <2> HIDE DEF local
  <2> QED BY <1>1, <1>2, <2>1, <2>2, <2>3, NoMoreClaims DEF local
<1>3. UNCHANGED nat => Total(nat'[slot], Dest) <= Total(nat[slot], Dest)
  <2>1. Total(nat[slot], Dest) \in Nat
    BY Finite, TotalNat DEF TypeOK
  <2> QED BY <2>1
<1>4. ~ SwitchSet
  <2> SUFFICES ASSUME SwitchSet PROVE FALSE
    OBVIOUS
  <2>1. /\ Continue(Admin, IF local.fw = "none" THEN Idle ELSE NextSwitch(local, local.todo))
        /\ UNCHANGED nat
    BY DEF SwitchSet
  <2>2. Idle.pc \notin Appending
    BY DEF Idle, Appending
  <2> HIDE DEF local
  <2> QED BY <1>1, <1>2, <1>3, <2>1, <2>2, NextSwitchPasses
<1>5. ~ SwitchRow
  <2> SUFFICES ASSUME SwitchRow PROVE FALSE
    OBVIOUS
  <2>1. PICK task : Continue(Admin, [local EXCEPT !.pc = "switchDelete", !.at = task])
    BY DEF SwitchRow
  <2> DEFINE next == [local EXCEPT !.pc = "switchDelete", !.at = task]
  <2>2. next.pc = "switchDelete" /\ Continue(Admin, next) /\ UNCHANGED nat
    BY <1>1, <2>1 DEF Job, SwitchRow
  <2> HIDE DEF next
  <2> QED BY <1>2, <1>3, <2>2 DEF Appending
<1>6. ~ SwitchDelete
  <2> SUFFICES ASSUME SwitchDelete PROVE FALSE
    OBVIOUS
  <2>1. Continue(Admin, NextSwitch(local, local.todo \ {local.at})) /\ UNCHANGED nat
    BY DEF SwitchDelete
  <2> HIDE DEF local
  <2> QED BY <1>1, <1>2, <1>3, <2>1, NextSwitchPasses
<1>7. ASSUME NEW clients, ClearChain(clients)
      PROVE  Total(nat'[slot], Dest) <= Total(nat[slot], Dest)
  <2>1. nat'[slot] = NoRules[slot] \/ UNCHANGED nat \/ nat'[slot] = nat[slot]
    BY <1>7 DEF ClearChain
  <2>2. CASE nat'[slot] = NoRules[slot]
    <3>1. \A dest \in Dest : nat'[slot][dest] = 0
      BY <2>2 DEF NoRules
    <3>2. Total(nat'[slot], Dest) = 0 /\ Total(nat[slot], Dest) \in Nat
      BY <3>1, Finite, TotalZero, TotalNat DEF TypeOK
    <3> QED BY <3>2
  <2>3. CASE nat'[slot] = nat[slot]
    <3>1. Total(nat[slot], Dest) \in Nat
      BY Finite, TotalNat DEF TypeOK
    <3> QED BY <2>3, <3>1
  <2> QED BY <1>3, <2>1, <2>2, <2>3
<1>8. ASSUME NEW todo
      PROVE  /\ NextAdd(local, todo).pc \notin Appending
             /\ NextAdd(local, todo).todo = todo
  BY <1>1 DEF NextAdd, Job, Idle, Appending
<1>9. ~ ClearPrerouting
  <2> SUFFICES ASSUME ClearPrerouting PROVE FALSE
    OBVIOUS
  <2> DEFINE next == [local EXCEPT !.pc = "clearOutput"]
  <2>1. next.pc = "clearOutput" /\ Continue(Admin, next) /\ ClearChain(Client \ Gateway)
    BY <1>1 DEF Job, ClearPrerouting
  <2> HIDE DEF next
  <2> QED BY <1>2, <1>7, <2>1 DEF Appending
<1>10. ~ ClearOutput
  <2> SUFFICES ASSUME ClearOutput PROVE FALSE
    OBVIOUS
  <2>1. Continue(Admin, NextAdd(local, local.todo)) /\ ClearChain(Gateway)
    BY DEF ClearOutput
  <2> HIDE DEF local
  <2> QED BY <1>2, <1>7, <1>8, <2>1
<1>11. CASE SwitchAdd
  <2>1. PICK task \in local.todo :
          /\ AddForwardRule("iptables", task.key[1], task.row.addr, DestIP(task.row))
          /\ Continue(Admin, NextAdd(local, local.todo \ {task}))
    BY <1>11 DEF SwitchAdd
  <2> DEFINE next == NextAdd(local, local.todo \ {task})
             mine == <<task.key[1], task.row.addr>> = slot
  <2>2. Total(nat'[slot], Dest) <= Total(nat[slot], Dest) + One(mine)
    BY <2>1, AddedRules
  <2>3. next.pc \notin Appending /\ next.todo = local.todo \ {task}
    BY <1>8
  <2>4. job'[Admin] = next /\ OnlyMoves(Admin)
    BY <1>1, <2>1, OneMoves
  <2> HIDE DEF next
  <2>5. One(Appends(job'[Admin], slot)) = 0 /\ One(Appends(local, slot)) = 0
    BY <1>11, <2>3, <2>4 DEF Appends, Appending, One, SwitchAdd, At
  <2>6. /\ Total(nat[slot], Dest) \in Nat /\ Total(nat'[slot], Dest) \in Nat
        /\ Claims(slot) \in Nat /\ Claims(slot)' \in Nat
        /\ Claims(slot)' + Total(nat[slot], Dest) = Claims(slot) + Total(nat'[slot], Dest)
    <3>1. /\ Total(nat[slot], Dest) \in Nat /\ Total(nat'[slot], Dest) \in Nat
          /\ Claims(slot) \in Nat /\ Claims(slot)' \in Nat
          /\ Claims(slot)' + Total(nat[slot], Dest) + One(Appends(local, slot))
               = Claims(slot) + Total(nat'[slot], Dest) + One(Appends(job'[Admin], slot))
      BY <1>1, <2>4, ClaimsMove
    <3> QED BY <2>5, <3>1
  <2>7. mine /\ Claims(slot)' = Claims(slot) + 1
    <3> HIDE DEF mine
    <3> QED BY <2>2, <2>6 DEF One
  <2> QED BY <1>11, <2>1, <2>3, <2>4, <2>7 DEF InstallsOne, SwitchAdd
<1> QED BY <1>4, <1>5, <1>6, <1>9, <1>10, <1>11 DEF Switch

\* Rules that stay and goroutines none of which is newly about to append.
LEMMA StillClaims ==
    ASSUME Bounded, TypeOK, UNCHANGED nat,
           \A g \in Goroutine : job'[g] = job[g] \/ job'[g].pc \notin Appending,
           NEW slot \in Client \X Address
    PROVE  ~ (Claims(slot)' > Claims(slot))
<1> DEFINE before == Appenders(job, slot)
           after  == Appenders(job', slot)
<1>1. after \in SUBSET before /\ before \in SUBSET Goroutine
  BY DEF Appenders, Appends, Appending
<1>2. Claims(slot) = Total(nat[slot], Dest) + Cardinality(before)
  BY ClaimsAdd
<1>3. Claims(slot)' = Total(nat[slot], Dest) + Cardinality(after)
  BY ClaimsAdd
<1>4. Total(nat[slot], Dest) \in Nat
  BY Finite, TotalNat DEF TypeOK
<1> HIDE DEF before, after
<1>5. IsFiniteSet(before)
  BY <1>1, Finite, FS_Subset
<1>6. /\ Cardinality(before) \in Nat /\ Cardinality(after) \in Nat
      /\ Cardinality(after) <= Cardinality(before)
  BY <1>1, <1>5, FS_Subset, FS_CardinalityType
<1> QED BY <1>2, <1>3, <1>4, <1>6

\* Rules do not multiply: an address has more rules, with those about to be appended,
\* only one at a time, because it was reserved anew or because SetActiveFirewall
\* installs a session it read.  It holds although two goroutines may rework the same
\* row at once, the tables disagree, and any call of iptables fails, those that empty
\* the chains included (UpdateIPv4, Allocate, SetActiveFirewall, ClearChain).
THEOREM RulesDoNotMultiply ==
    ASSUME Bounded
    PROVE  Spec => RulePerReservation
<1> DEFINE Installed1(slot) == Claims(slot)' = Claims(slot) + 1 /\ InstallsOne(slot)
           Accounted == \A slot \in Client \X Address :
                           Claims(slot)' > Claims(slot) => Leased(slot) \/ Installed1(slot)
<1>1. TypeOK /\ TypeOK' /\ [Next]_vars => Accounted
  <2> SUFFICES ASSUME TypeOK, TypeOK', [Next]_vars, NEW slot \in Client \X Address,
                      Claims(slot)' > Claims(slot)
               PROVE  Leased(slot) \/ Installed1(slot)
    BY Zenon
  <2>1. ASSUME NEW w \in Worker, Requests(w) \/ Serve(w)
        PROVE  Leased(slot)
    <3>1. \/ Requests(w) \/ Reeval(w) \/ Page(w) \/ Flush(w) \/ AllocAdd(w)
          \/ AllocCreate(w) \/ LookupHit(w) \/ LookupMiss(w) \/ Resolve(w)
          \/ ResolveFails(w) \/ AllocGet(w) \/ AllocDelete(w) \/ AllocList(w) \/ Store(w)
      BY <2>1, Zenon DEF Serve, Query
    <3> QED BY <3>1, StartClaims, ReevalClaims, PageClaims, FlushClaims, AllocAddClaims,
               AllocCreateClaims, QueryClaims
  <2>2. CASE Review
    BY <2>2, ReviewClaims
  <2>3. CASE Switch
    BY <2>3, SwitchClaims
  <2>4. CASE Restart
    <3> DEFINE fw == IF At(Admin, "switchSet") THEN job[Admin].fw ELSE portalFw
               main == [Idle EXCEPT !.fw = fw, !.boot = TRUE]
    <3>1. /\ UNCHANGED nat
          /\ \A g \in Goroutine :
                job'[g] = Idle \/ job'[g] = NextSwitch(main, Stored(Client))
      BY <2>4 DEF Restart
    <3>2. main \in Job
      <4>1. fw \in Firewall \cup {Nil}
        BY DEF TypeOK, Job, Goroutine
      <4> HIDE DEF fw
      <4> QED BY <4>1, IdleType DEF Job, Idle
    <3> HIDE DEF main
    <3>3. Idle.pc \notin Appending /\ NextSwitch(main, Stored(Client)).pc \notin Appending
      BY <3>2, NextSwitchPasses DEF Idle, Appending
    <3>4. \A g \in Goroutine : job'[g].pc \notin Appending
      BY <3>1, <3>3
    <3> QED BY <3>1, <3>4, StillClaims
  <2>5. ASSUME NEW fw \in Firewall, StartSwitch(fw)
        PROVE  FALSE
    <3> DEFINE next == [Idle EXCEPT !.pc = "switchSet", !.fw = fw, !.todo = Stored(Client)]
    <3>1. UNCHANGED nat /\ Continue(Admin, next) /\ next.pc = "switchSet"
      BY <2>5 DEF StartSwitch, Idle
    <3> HIDE DEF next
    <3>2. \A g \in Goroutine : job'[g] = job[g] \/ job'[g].pc \notin Appending
      BY <3>1, OneMoves DEF Goroutine, OnlyMoves, Appending
    <3> QED BY <3>1, <3>2, StillClaims
  <2>6. CASE Time
    <3>1. UNCHANGED <<nat, job>>
      BY <2>6 DEF Time, SessionExpires, PortalSessionExpires, ScheduleChanges
    <3> QED BY <3>1, StillClaims
  <2>7. CASE UNCHANGED vars
    <3>1. UNCHANGED <<nat, job>>
      BY <2>7 DEF vars
    <3> QED BY <3>1, StillClaims
  <2> QED BY <2>1, <2>2, <2>3, <2>4, <2>5, <2>6, <2>7 DEF Next
<1>2. Spec => [][Accounted]_vars
  BY <1>1, TypeCorrect, PTL DEF Spec
<1>3. Accounted => \A slot \in Client \X Address :
          Claims(slot)' > Claims(slot) =>
             /\ Claims(slot)' = Claims(slot) + 1
             /\ \/ /\ rdns[<<slot[1], OffsetOf(slot[2])>>] = Nil
                   /\ rdns'[<<slot[1], OffsetOf(slot[2])>>] # Nil
                \/ InstallsOne(slot)
  BY Zenon DEF Leased
<1> QED BY <1>2, <1>3, PTL DEF RulePerReservation

=============================================================================

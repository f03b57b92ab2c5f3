-------------------------- MODULE ReservationInvariant --------------------------
(***************************************************************************)
(* Why a session answers only with an address reserved for its own name,   *)
(* when a client's requests follow one another.  AddressIsReserved is not  *)
(* inductive: what a goroutine has read and is about to write back matters *)
(* as much as what is stored.                                              *)
(***************************************************************************)
EXTENDS ForwardingProperties

\* One request of a client at a time, a flush of it being one; no update is refused;
\* the review extends nothing, so it writes no row back; the firewall is set by
\* main alone.
Orderly ==
    /\ ~ Overlap
    /\ "conflict" \notin Events
    /\ "traffic" \notin Events
    /\ "switch" \notin Events

SlotOf(client, addr) == <<client, OffsetOf(addr)>>

ReservedFor(table, client, host, addr) ==
    Kept(addr) => table[SlotOf(client, addr)] = host

\* A request's row will be stored only where it may: a new one while there is
\* none, a cached one over the one it was read from; and its address is the name's.
DraftSafe(local) ==
    LET key == <<local.client, local.host>>
    IN  local.pc \in {"resolve"} \cup AllocPc =>
          /\ local.pc # "allocDelete"
          /\ ~ local.cached => sessions[key] = Nil
          /\ local.pc = "allocGet" =>
               Kept(local.row.addr) /\ OffsetFromIP4(local.row.addr) # MaxValue
          /\ local.pc = "allocCreate" => rdns[<<local.client, local.offset>>] = Nil
          /\ local.row # Nil =>
               ReservedFor(rdns, local.client, local.host, local.row.addr)

\* The rows of a reevaluation have the addresses of the rows they overwrite.
SnapshotSafe(local) ==
    local.pc \in ReevalPc \ {"reevaluate"} =>
       /\ local.pc # "reevalRow" => local.at \in local.todo
       /\ \A task \in local.todo :
            /\ task.key[1] = local.client
            /\ sessions[task.key] # Nil => sessions[task.key].addr = task.row.addr

\* A flush has every row of the client on its list, and reservations are deleted
\* when no session is left.
FlushSafe(local) ==
    /\ local.pc = "flushDelete" => local.at \in local.todo
    /\ local.pc \in {"flushRow", "flushDelete"} =>
         \A task \in local.todo : task.key[1] = local.client
    /\ local.pc \in {"flushRow", "flushDelete"} =>
         \A host \in Host : sessions[<<local.client, host>>] # Nil =>
            \E task \in local.todo : task.key = <<local.client, host>>
    /\ local.pc \in {"flushRevList", "flushRev"} =>
         \A host \in Host : sessions[<<local.client, host>>] = Nil
    /\ local.pc = "flushRev" =>
         \A o \in Offset : rdns[<<local.client, o>>] # Nil => o \in local.offs

\* Main sets the firewall alone, the expired sessions first.  Each of them on its
\* list has its reservation or lost it, to nobody else.
BootSafe(local) ==
    /\ local.boot <=> local.pc # "idle"
    /\ local.pc # "switchSet"
    /\ local.pc = "switchDelete" => local.at \in Expired(local.todo)
    /\ local.pc \in {"clearPrerouting", "clearOutput", "switchAdd"} =>
         Expired(local.todo) = {}
    /\ local.boot =>
         /\ portalFw # "none"
         /\ \A g \in Worker \cup {Ticker} : job[g] = Idle
         /\ \A task \in Expired(local.todo) :
              LET row == sessions[task.key]
              IN  /\ \A other \in local.todo : task.key = other.key => task = other
                  /\ row # Nil /\ row.expired /\ row.addr = task.row.addr
                  /\ Kept(row.addr) =>
                        rdns[SlotOf(task.key[1], row.addr)] \in {task.key[2], Nil}

WorkersApart ==
    \A v, w \in Worker :
       job[v].client # Nil /\ job[v].client = job[w].client => v = w

ReservationInv ==
    /\ TypeOK
    /\ AddressIsReserved
    /\ WorkersApart
    /\ ~ At(Ticker, "reviewExtend")
    /\ BootSafe(job[Admin])
    /\ \A w \in Worker :
         DraftSafe(job[w]) /\ SnapshotSafe(job[w]) /\ FlushSafe(job[w])

-----------------------------------------------------------------------------
(***************************************************************************)
(* Why a flush forgets the client, whoever runs beside it.                 *)
(***************************************************************************)

\* What is stored of the client is on the flush's list or newer than the flush.
FlushedSoFar(local) ==
    /\ local.pc \in {"flushRow", "flushDelete"} =>
         \A host \in Host : sessions[<<local.client, host>>] # Nil =>
            \/ <<local.client, host>> \in made
            \/ \E task \in local.todo : task.key = <<local.client, host>>
    /\ local.pc \in {"flushRevList", "flushRev"} =>
         \A host \in Host :
            sessions[<<local.client, host>>] # Nil => <<local.client, host>> \in made
    /\ local.pc = "flushRev" =>
         \A o \in Offset : rdns[<<local.client, o>>] # Nil =>
            o \in local.offs \/ <<local.client, o>> \in made

FlushInv == TypeOK /\ \A w \in Worker : FlushedSoFar(job[w])

=============================================================================

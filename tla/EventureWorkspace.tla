------------------------- MODULE EventureWorkspace -------------------------
(***************************************************************************)
(* The participants of one Eventure event: one participant per company,    *)
(* its numbered attendee slots, its payment rows, and the registrations    *)
(* that payments and slot assignment tie to the slots                      *)
(* (eventure/services/workspace.service.ts, payment-ledger.service.ts and  *)
(* the payment half of registration.service.ts).                           *)
(*                                                                         *)
(* A handler is a request between two of its database statements; what it  *)
(* has read is in its record.  A $transaction of several statements runs   *)
(* at READ COMMITTED: its reads are a step of their own, its writes become *)
(* visible together.  A confirmation holds the participant's row from its  *)
(* first write on, so its later reads and writes are one step.             *)
(*                                                                         *)
(* Rows are ordered by updatedAt to find a company's newest payment only:  *)
(* newest is a pointer to it.  Left out: the append-only rows of the       *)
(* ledger (history, transactions, line items), follow-ups, flights, names  *)
(* and amounts beyond "all paid", and packages.                            *)
(***************************************************************************)
EXTENDS Integers, FiniteSets

CONSTANTS Companies,   \* sponsor organizations of the event
          Regs,        \* registrations, numbered in the order of createdAt
          Handlers,    \* requests in flight at once
          Counts,      \* attendee counts a client sends
          Ops,         \* the operations clients call
          Bodies,      \* what the amounts of a payment say: "all", "part", "forced"
          Options,     \* slots a price option brings, 0 for none
          PartIds, SlotIds, PayIds   \* bounds: ids of participants, slots, payments
CONSTANT None

VARIABLES parts,   \* company -> its participant row, or NoPart
          slots,   \* slot id -> row, or NoSlot
          pays,    \* payment id -> row, or NoPay
          newest,  \* company -> the payment row updated last, 0 without one
          regs,    \* registration -> row
          reqs,    \* handler -> what it is doing
          paidOnce,  \* history: companies a payment was confirmed for once
          moved,   \* history: registrations whose company changed
          merged,  \* history: participants were merged
          refused, \* history: companies one of whose reconciles was refused
          wsCalm   \* history: no request began or moved while another was in flight

wsVars == <<parts, slots, pays, newest, regs, reqs, paidOnce, moved, merged, refused, wsCalm>>

NoPart == [id |-> 0, confirmed |-> FALSE, count |-> 0, active |-> FALSE]
NoSlot == [pid |-> 0, n |-> 0, named |-> FALSE, reg |-> None]
NoPay == [company |-> None, full |-> FALSE, paid |-> FALSE]
\* A request; what its step does not use is blank.
Idle == [pc |-> "idle", company |-> None, to |-> None, pid |-> 0, pay |-> 0, count |-> 0, flag |-> FALSE,
         body |-> "all", rm |-> FALSE, then |-> "done", reg |-> None, held |-> {}, pairs |-> {}, left |-> {}]

PartOf(pid) == {c \in Companies : parts[c].id = pid}
SlotsOf(pid) == {s \in SlotIds : slots[s].pid = pid}
NumbersOf(pid) == {slots[s].n : s \in SlotsOf(pid)}
Paid(pay) == pay # 0 /\ pays[pay].paid

\* A cuid is new to the table and to every request that still holds one.
NewParts == {i \in PartIds : /\ \A c \in Companies : parts[c].id # i
                             /\ \A h \in Handlers : reqs[h].pid # i /\ \A e \in reqs[h].left : e.pid # i}
NewPartId == CHOOSE i \in NewParts : TRUE
NewPays == {i \in PayIds : pays[i] = NoPay /\ \A h \in Handlers : reqs[h].pay # i}
NewPayId == CHOOSE i \in NewPays : TRUE
FreeSlots == {s \in SlotIds : slots[s] = NoSlot
                 /\ \A h \in Handlers : s \notin reqs[h].held /\ \A p \in reqs[h].pairs : p.slot # s}
\* An id for each of the numbers ns.
Numberings(ns) == {f \in [ns -> FreeSlots] : \A m, n \in ns : f[m] = f[n] => m = n}
\* The slots of pid with new ones for the numbers ns, linked to reg.
NewSlots(pid, ns, reg) ==
    LET f == CHOOSE f \in Numberings(ns) : TRUE
    IN [s \in SlotIds |-> IF \E n \in ns : f[n] = s
                          THEN [pid |-> pid, n |-> CHOOSE n \in ns : f[n] = s, named |-> reg # None, reg |-> reg]
                          ELSE slots[s]]

Pcs == {"idle", "recRead", "recDrop", "recSurvivors", "recFill", "confirm", "syncMark", "syncRead", "syncLink",
        "create", "createSlots", "payLedger", "payWrite", "importPay", "importFlag", "slot", "merge",
        "cleanNext", "repair", "archive", "assign", "assignWrite"}
Parts == [id : PartIds \cup {0}, confirmed : BOOLEAN, count : Int, active : BOOLEAN]
SlotRows == [pid : PartIds \cup {0}, n : Nat, named : BOOLEAN, reg : Regs \cup {None}]
Payments == [company : Companies \cup {None}, full : BOOLEAN, paid : BOOLEAN]
Registrations == [state : {"new", "here", "gone"}, company : Companies \cup {None}, paid : BOOLEAN]
Entries == [pid : PartIds, company : Companies, count : Int]
Requests == [pc : Pcs, company : Companies \cup {None}, to : Companies \cup {None}, pid : PartIds \cup {0},
             pay : PayIds \cup {0}, count : Int, flag : BOOLEAN, body : {"all", "part", "forced"}, rm : BOOLEAN,
             then : {"done", "syncMark", "cleanNext"}, reg : Regs \cup {None}, held : SUBSET SlotIds,
             pairs : SUBSET [reg : Regs, slot : SlotIds], left : SUBSET Entries]
IdsAssumption ==
    /\ None \notin Companies \cup Regs /\ Regs \subseteq Nat /\ IsFiniteSet(Regs)
    /\ Counts \subseteq Int /\ Options \subseteq Nat /\ Bodies \subseteq {"all", "part", "forced"}
    /\ PartIds \subseteq Nat \ {0} /\ PayIds \subseteq Nat \ {0} /\ IsFiniteSet(SlotIds)

WsTypeOK ==
    /\ parts \in [Companies -> Parts]
    /\ \A c \in Companies : parts[c].id = 0 => parts[c] = NoPart
    /\ slots \in [SlotIds -> SlotRows]
    /\ \A s \in SlotIds : slots[s] = NoSlot \/ (slots[s].pid # 0 /\ slots[s].n > 0)
    /\ pays \in [PayIds -> Payments]
    /\ \A p \in PayIds : pays[p].company = None => pays[p] = NoPay
    /\ newest \in [Companies -> PayIds \cup {0}]
    /\ regs \in [Regs -> Registrations]
    /\ reqs \in [Handlers -> Requests]
    /\ paidOnce \subseteq Companies /\ moved \subseteq Regs /\ refused \subseteq Companies
    /\ merged \in BOOLEAN /\ wsCalm \in BOOLEAN

WsInit ==
    /\ parts = [c \in Companies |-> NoPart]
    /\ slots = [s \in SlotIds |-> NoSlot]
    /\ pays = [p \in PayIds |-> NoPay]
    /\ newest = [c \in Companies |-> 0]
    /\ regs = [r \in Regs |-> [state |-> "new", company |-> None, paid |-> FALSE]]
    /\ reqs = [h \in Handlers |-> Idle]
    /\ paidOnce = {} /\ moved = {} /\ merged = FALSE /\ refused = {}
    /\ wsCalm = TRUE

Goto(h, r) == reqs' = [reqs EXCEPT ![h] = r]
Finish(h) == Goto(h, Idle)
Calls(h, op) == op \in Ops /\ reqs[h].pc = "idle"
At(h, pc) == reqs[h].pc = pc
----------------------------------------------------------------------------
(* reconcileAttendeeSlots: make the slots of a participant number 1 .. count. *)
(* A request enters it with pid, count, rm (forceRemoveNamedSlots) and what   *)
(* follows it (then); left is the cleanup's work list.                        *)
Reconcile(pid, c, count, rm, then) ==
    [Idle EXCEPT !.pc = "recRead", !.pid = pid, !.company = c, !.count = count, !.rm = rm, !.then = then]

\* Reads the slots; a negative count and the removal of named slots are refused.
RecRead(h) ==
    /\ At(h, "recRead")
    /\ LET r == reqs[h]
           drop == {s \in SlotsOf(r.pid) : slots[s].n > r.count}
           fewer == r.count < Cardinality(SlotsOf(r.pid))
           no == r.count < 0 \/ (fewer /\ ~r.rm /\ \E s \in drop : slots[s].named)
       IN /\ refused' = IF no THEN refused \cup {r.company} ELSE refused
          /\ IF no THEN Finish(h)
             ELSE Goto(h, IF fewer THEN [r EXCEPT !.pc = "recDrop", !.held = drop]
                                   ELSE [r EXCEPT !.pc = "recSurvivors"])
    /\ UNCHANGED <<parts, slots, pays, newest, regs, paidOnce, moved, merged>>

RecDrop(h) ==
    /\ At(h, "recDrop")
    /\ slots' = [s \in SlotIds |-> IF s \in reqs[h].held THEN NoSlot ELSE slots[s]]
    /\ Goto(h, [reqs[h] EXCEPT !.pc = "recSurvivors", !.held = {}])
    /\ UNCHANGED <<parts, pays, newest, regs, paidOnce, moved, merged, refused>>

RecSurvivors(h) ==
    /\ At(h, "recSurvivors")
    /\ Goto(h, [reqs[h] EXCEPT !.pc = "recFill", !.held = SlotsOf(reqs[h].pid)])
    /\ UNCHANGED <<parts, slots, pays, newest, regs, paidOnce, moved, merged, refused>>

\* Relabels the survivors it read, then creates the numbers above their count.
\* A survivor that is gone, a number that is taken and a participant that is
\* gone make a statement throw.
RecFill(h) ==
    /\ At(h, "recFill")
    /\ LET r == reqs[h]
           new == Cardinality(r.held) + 1 .. r.count
           fails == \/ \E s \in r.held : slots[s] = NoSlot
                    \/ new # {} /\ (PartOf(r.pid) = {} \/ NumbersOf(r.pid) \cap new # {})
       IN /\ fails \/ Numberings(new) # {}
          /\ slots' = IF fails THEN slots ELSE NewSlots(r.pid, new, None)
          /\ refused' = IF fails THEN refused ELSE refused \ {r.company}
          /\ IF fails \/ r.then = "done" THEN Finish(h)
             ELSE Goto(h, [r EXCEPT !.pc = r.then, !.held = {}])
    /\ UNCHANGED <<parts, pays, newest, regs, paidOnce, moved, merged>>
----------------------------------------------------------------------------
(* recordEventurePaymentTransaction: the company's newest row is updated by  *)
(* id, or a first one is created.  The amounts pay all or part of what is    *)
(* due; an override confirms the payment whatever they say.                  *)
Eligible(body) == body \in {"all", "forced"}
RecordPayment(pay, c, body) ==
    LET id == IF pay = 0 THEN NewPayId ELSE pay
        owner == IF pay = 0 THEN c ELSE pays[pay].company
    IN /\ pay = 0 => NewPays # {}
       /\ pays' = [pays EXCEPT ![id] = [company |-> owner, full |-> body = "all", paid |-> Eligible(body)]]
       /\ newest' = [newest EXCEPT ![owner] = id]
       /\ paidOnce' = IF Eligible(body) THEN paidOnce \cup {c, owner} ELSE paidOnce
\* An update by id of a row that is gone throws.
Stale(pay) == pay # 0 /\ pays[pay] = NoPay

\* POST /payments/confirm: reads of the transaction, after the validations.
\* Amounts the body leaves out ("kept") are taken over from the newest row; a
\* price option brings opt slots on top of the count so far.
ConfirmRead(h, c, n, body, opt, rm) ==
    /\ Calls(h, "confirm")
    /\ opt # 0 \/ n >= 0
    /\ LET due == IF body # "kept" THEN body
                  ELSE IF newest[c] # 0 /\ ~pays[newest[c]].full THEN "part" ELSE "all"
           count == IF opt = 0 THEN n ELSE opt + parts[c].count
       IN Goto(h, [Idle EXCEPT !.pc = "confirm", !.company = c, !.pid = parts[c].id,
                               !.count = count, !.body = due, !.rm = rm])
    /\ UNCHANGED <<parts, slots, pays, newest, regs, paidOnce, moved, merged, refused>>

\* Updates or creates the participant, records the payment, sets the flag.
ConfirmWrite(h) ==
    /\ At(h, "confirm")
    /\ LET r == reqs[h]
           c == r.company
           pid == IF r.pid = 0 THEN NewPartId ELSE r.pid
       IN IF parts[c].id # r.pid
          THEN Finish(h) /\ UNCHANGED <<parts, pays, newest, paidOnce>>
          ELSE /\ r.pid = 0 => NewParts # {}
               /\ RecordPayment(newest[c], c, r.body)
               /\ parts' = [parts EXCEPT ![c] = [id |-> pid, confirmed |-> Eligible(r.body),
                                                 count |-> r.count, active |-> TRUE]]
               /\ Goto(h, Reconcile(pid, c, r.count, r.rm, IF Eligible(r.body) THEN "syncMark" ELSE "done"))
    /\ UNCHANGED <<slots, regs, moved, merged, refused>>

\* syncRegistrationsOnPaymentConfirm marks the company's registrations paid ...
SyncMark(h) ==
    /\ At(h, "syncMark")
    /\ regs' = [r \in Regs |-> IF regs[r].state = "here" /\ regs[r].company = reqs[h].company
                               THEN [regs[r] EXCEPT !.paid = TRUE] ELSE regs[r]]
    /\ Goto(h, [reqs[h] EXCEPT !.pc = "syncRead"])
    /\ UNCHANGED <<parts, slots, pays, newest, paidOnce, moved, merged, refused>>

\* ... pairs those without one of this participant's slots, oldest first, with
\* its open slots, lowest number first ...
SyncRead(h) ==
    /\ At(h, "syncRead")
    /\ LET own == SlotsOf(reqs[h].pid)
           open == {s \in own : slots[s].reg = None}
           todo == {r \in Regs : /\ regs[r].state = "here" /\ regs[r].paid
                                 /\ regs[r].company = reqs[h].company
                                 /\ \A s \in own : slots[s].reg # r}
           pairs == {p \in [reg : todo, slot : open] :
                       Cardinality({q \in todo : q <= p.reg}) =
                       Cardinality({s \in open : slots[s].n <= slots[p.slot].n})}
       IN IF pairs = {} THEN Finish(h)
          ELSE Goto(h, [Idle EXCEPT !.pc = "syncLink", !.pid = reqs[h].pid, !.pairs = pairs])
    /\ UNCHANGED <<parts, slots, pays, newest, regs, paidOnce, moved, merged, refused>>

\* ... and links pair by pair; a slot or a registration that is gone throws.
SyncLink(h) ==
    /\ At(h, "syncLink")
    /\ LET pairs == reqs[h].pairs
           p == CHOOSE p \in pairs : \A q \in pairs : p.reg <= q.reg
           ok == slots[p.slot] # NoSlot /\ regs[p.reg].state = "here"
       IN /\ slots' = IF ok THEN [slots EXCEPT ![p.slot].reg = p.reg, ![p.slot].named = TRUE] ELSE slots
          /\ IF ok /\ pairs # {p} THEN Goto(h, [reqs[h] EXCEPT !.pairs = pairs \ {p}]) ELSE Finish(h)
    /\ UNCHANGED <<parts, pays, newest, regs, paidOnce, moved, merged, refused>>
----------------------------------------------------------------------------
(* POST /participants: needs an eligible newest payment and no participant.  *)

\* mutant of CreateRead: any payment will do.
CreateReadUnpaid(h, c, n) ==
    /\ Calls(h, "create") /\ n >= 0
    /\ newest[c] # 0 /\ parts[c] = NoPart
    /\ Goto(h, [Idle EXCEPT !.pc = "create", !.company = c, !.pay = newest[c], !.count = n])
    /\ UNCHANGED <<parts, slots, pays, newest, regs, paidOnce, moved, merged, refused>>

CreateRead(h, c, n) ==
    /\ Calls(h, "create") /\ n >= 0
    /\ Paid(newest[c]) /\ parts[c] = NoPart
    /\ Goto(h, [Idle EXCEPT !.pc = "create", !.company = c, !.pay = newest[c], !.count = n])
    /\ UNCHANGED <<parts, slots, pays, newest, regs, paidOnce, moved, merged, refused>>

\* The participant refers to that payment and is unique for its company.
CreateWrite(h) ==
    /\ At(h, "create")
    /\ LET r == reqs[h]
           ok == parts[r.company] = NoPart /\ ~Stale(r.pay)
       IN /\ ok => NewParts # {}
          /\ parts' = IF ok THEN [parts EXCEPT ![r.company] =
                           [id |-> NewPartId, confirmed |-> TRUE, count |-> r.count, active |-> TRUE]]
                      ELSE parts
          /\ IF ok /\ r.count > 0 THEN Goto(h, [r EXCEPT !.pc = "createSlots", !.pid = NewPartId])
             ELSE Finish(h)
    /\ UNCHANGED <<slots, pays, newest, regs, paidOnce, moved, merged, refused>>

CreateSlots(h) ==
    /\ At(h, "createSlots")
    /\ LET r == reqs[h]
           new == 1 .. r.count
           ok == PartOf(r.pid) # {} /\ NumbersOf(r.pid) \cap new = {}
       IN /\ ok => Numberings(new) # {}
          /\ slots' = IF ok THEN NewSlots(r.pid, new, None) ELSE slots
    /\ Finish(h)
    /\ UNCHANGED <<parts, pays, newest, regs, paidOnce, moved, merged, refused>>

\* POST /payments/transactions and the row of a payment import: the participant
\* is read first by the one, after the ledger by the other.
PayRead(h, c, body) ==
    /\ Calls(h, "pay")
    /\ Goto(h, [Idle EXCEPT !.pc = "payLedger", !.company = c, !.pid = parts[c].id, !.body = body])
    /\ UNCHANGED <<parts, slots, pays, newest, regs, paidOnce, moved, merged, refused>>

PayLedger(h) ==
    /\ At(h, "payLedger")
    /\ Goto(h, [reqs[h] EXCEPT !.pc = "payWrite", !.pay = newest[reqs[h].company]])
    /\ UNCHANGED <<parts, slots, pays, newest, regs, paidOnce, moved, merged, refused>>

\* Payment and flag are one transaction; either row may be gone.
PayWrite(h) ==
    /\ At(h, "payWrite")
    /\ LET r == reqs[h]
           c == r.company
       IN IF Stale(r.pay) \/ (r.pid # 0 /\ parts[c].id # r.pid)
          THEN UNCHANGED <<parts, pays, newest, paidOnce>>
          ELSE /\ RecordPayment(r.pay, c, r.body)
               /\ parts' = IF r.pid = 0 THEN parts ELSE [parts EXCEPT ![c].confirmed = Eligible(r.body)]
    /\ Finish(h)
    /\ UNCHANGED <<slots, regs, moved, merged, refused>>

\* A row of a payment import runs outside a transaction: ledger, then participant.
ImportRead(h, c, body) ==
    /\ Calls(h, "import")
    /\ Goto(h, [Idle EXCEPT !.pc = "importPay", !.company = c, !.pay = newest[c], !.body = body])
    /\ UNCHANGED <<parts, slots, pays, newest, regs, paidOnce, moved, merged, refused>>

ImportPay(h) ==
    /\ At(h, "importPay")
    /\ LET r == reqs[h]
       IN IF Stale(r.pay)
          THEN Finish(h) /\ UNCHANGED <<pays, newest, paidOnce>>
          ELSE /\ RecordPayment(r.pay, r.company, r.body)
               /\ Goto(h, [r EXCEPT !.pc = "importFlag", !.pay = 0])
    /\ UNCHANGED <<parts, slots, regs, moved, merged, refused>>

ImportFlag(h) ==
    /\ At(h, "importFlag")
    /\ LET r == reqs[h]
           p == parts[r.company]
       IN IF p = NoPart
          THEN Finish(h) /\ UNCHANGED parts
          ELSE /\ parts' = [parts EXCEPT ![r.company].confirmed = Eligible(r.body)]
               /\ IF Eligible(r.body) /\ p.count > 0
                  THEN Goto(h, Reconcile(p.id, r.company, p.count, FALSE, "done"))
                  ELSE Finish(h)
    /\ UNCHANGED <<slots, pays, newest, regs, paidOnce, moved, merged, refused>>
----------------------------------------------------------------------------
\* mutant of CountWrite: the slots are left as they are
CountWriteOnly(h, c, n, rm) ==
    /\ Calls(h, "count") /\ parts[c] # NoPart
    /\ parts' = [parts EXCEPT ![c].count = n]
    /\ UNCHANGED <<slots, pays, newest, regs, reqs, paidOnce, moved, merged, refused>>

\* PATCH attendee-count: the count is written before the slots are reconciled.
CountWrite(h, c, n, rm) ==
    /\ Calls(h, "count") /\ parts[c] # NoPart
    /\ parts' = [parts EXCEPT ![c].count = n]
    /\ Goto(h, Reconcile(parts[c].id, c, n, rm, "done"))
    /\ UNCHANGED <<slots, pays, newest, regs, paidOnce, moved, merged, refused>>

\* PATCH attendee-slots: every field left out is written back as it was read.
SlotRead(h, s, name) ==
    /\ Calls(h, "slot") /\ slots[s] # NoSlot
    /\ Goto(h, [Idle EXCEPT !.pc = "slot", !.held = {s},
                            !.flag = IF name = "keep" THEN slots[s].named ELSE name = "name"])
    /\ UNCHANGED <<parts, slots, pays, newest, regs, paidOnce, moved, merged, refused>>

SlotWrite(h) ==
    /\ At(h, "slot")
    /\ slots' = [s \in SlotIds |-> IF s \in reqs[h].held /\ slots[s] # NoSlot
                                   THEN [slots[s] EXCEPT !.named = reqs[h].flag] ELSE slots[s]]
    /\ Finish(h)
    /\ UNCHANGED <<parts, pays, newest, regs, paidOnce, moved, merged, refused>>

\* DELETE participant: its slots go with it, its payments only if asked.
RemoveParticipant(h, c, withPayments) ==
    /\ Calls(h, "remove") /\ parts[c] # NoPart
    /\ IF withPayments
       THEN /\ pays' = [p \in PayIds |-> IF pays[p].company = c THEN NoPay ELSE pays[p]]
            /\ newest' = [newest EXCEPT ![c] = 0]
       ELSE UNCHANGED <<pays, newest>>
    /\ slots' = [s \in SlotIds |-> IF s \in SlotsOf(parts[c].id) THEN NoSlot ELSE slots[s]]
    /\ parts' = [parts EXCEPT ![c] = NoPart]
    /\ refused' = refused \ {c}
    /\ UNCHANGED <<regs, reqs, paidOnce, moved, merged>>

MergeRead(h, c, d) ==
    /\ Calls(h, "merge") /\ parts[c] # NoPart /\ c # d
    /\ Goto(h, [Idle EXCEPT !.pc = "merge", !.company = c, !.to = d, !.pid = parts[c].id, !.flag = parts[c].confirmed])
    /\ UNCHANGED <<parts, slots, pays, newest, regs, paidOnce, moved, merged, refused>>

\* Slots are renumbered behind the target's, payments change company, the
\* registrations stay with the source's.  The flags are or-ed.  updateMany sets
\* one updatedAt: any of the rows that change company is the newest.
MergeWrite(h) ==
    /\ At(h, "merge")
    /\ LET r == reqs[h]
           t == IF parts[r.to] # NoPart THEN parts[r.to]
                ELSE [id |-> NewPartId, confirmed |-> r.flag, count |-> 0, active |-> TRUE]
           own == SlotsOf(t.id)
           mine == SlotsOf(r.pid)
           last == {s \in own : \A u \in own : slots[u].n <= slots[s].n}
           top == IF last = {} THEN 0 ELSE slots[CHOOSE s \in last : TRUE].n
           moving == {p \in PayIds : pays[p].company = r.company}
       IN IF parts[r.company].id # r.pid
          THEN UNCHANGED <<parts, slots, pays, newest, paidOnce, merged, refused>>
          ELSE /\ parts[r.to] = NoPart => NewParts # {}
               /\ slots' = [s \in SlotIds |->
                      IF s \notin mine THEN slots[s]
                      ELSE [slots[s] EXCEPT !.pid = t.id,
                              !.n = top + Cardinality({u \in mine : slots[u].n <= slots[s].n})]]
               /\ pays' = [p \in PayIds |-> IF p \in moving THEN [pays[p] EXCEPT !.company = r.to] ELSE pays[p]]
               /\ \E p \in (IF moving = {} THEN {newest[r.to]} ELSE moving) :
                    /\ newest' = [newest EXCEPT ![r.company] = 0, ![r.to] = p]
                    /\ parts' = [parts EXCEPT ![r.company] = NoPart,
                           ![r.to] = [t EXCEPT !.count = Cardinality(own) + Cardinality(mine),
                                               !.confirmed = @ \/ r.flag \/ Paid(p)]]
               /\ paidOnce' = IF r.company \in paidOnce THEN paidOnce \cup {r.to} ELSE paidOnce
               /\ merged' = TRUE
               /\ refused' = refused \ {r.company, r.to}
    /\ Finish(h)
    /\ UNCHANGED <<regs, moved>>
----------------------------------------------------------------------------
(* POST /cleanup-unconfirmed-participants, one participant after the other.  *)
CleanRead(h) ==
    /\ Calls(h, "cleanup")
    /\ LET some == {c \in Companies : parts[c] # NoPart /\ ~parts[c].confirmed /\ parts[c].active}
       IN /\ some # {}
          /\ Goto(h, [Idle EXCEPT !.pc = "cleanNext", !.then = "cleanNext",
                       !.left = {[pid |-> parts[c].id, company |-> c, count |-> parts[c].count] : c \in some}])
    /\ UNCHANGED <<parts, slots, pays, newest, regs, paidOnce, moved, merged, refused>>

CleanNext(h) ==
    /\ At(h, "cleanNext")
    /\ IF reqs[h].left = {} THEN Finish(h)
       ELSE \E e \in reqs[h].left :
              Goto(h, [reqs[h] EXCEPT !.left = @ \ {e}, !.pid = e.pid, !.company = e.company, !.count = e.count,
                          !.pc = IF \E p \in PayIds : pays[p].company = e.company /\ pays[p].paid
                                 THEN "repair" ELSE "archive"])
    /\ UNCHANGED <<parts, slots, pays, newest, regs, paidOnce, moved, merged, refused>>

\* Confirms the participant and reconciles the count it read, or archives it.
CleanWrite(h) ==
    /\ reqs[h].pc \in {"repair", "archive"}
    /\ LET r == reqs[h]
           c == r.company
       IN IF parts[c].id # r.pid
          THEN Finish(h) /\ UNCHANGED parts
          ELSE IF r.pc = "repair"
          THEN /\ parts' = [parts EXCEPT ![c].confirmed = TRUE]
               /\ Goto(h, [r EXCEPT !.pc = IF r.count > 0 THEN "recRead" ELSE "cleanNext"])
          ELSE /\ parts' = [parts EXCEPT ![c].active = FALSE]
               /\ Goto(h, [r EXCEPT !.pc = "cleanNext"])
    /\ UNCHANGED <<slots, pays, newest, regs, paidOnce, moved, merged, refused>>
----------------------------------------------------------------------------
(* Registrations: a desk registers one without a company, a status change    *)
(* may give it one, and "paid" asks for a slot.                              *)
Register(h, r, paid) ==
    /\ Calls(h, "register")
    /\ regs[r].state = "new" /\ \A q \in Regs : q < r => regs[q].state # "new"
    /\ regs' = [regs EXCEPT ![r] = [state |-> "here", company |-> None, paid |-> paid]]
    /\ UNCHANGED <<parts, slots, pays, newest, reqs, paidOnce, moved, merged, refused>>

DeleteRegistration(h, r) ==
    /\ Calls(h, "unregister") /\ regs[r].state = "here"
    /\ regs' = [regs EXCEPT ![r].state = "gone"]
    /\ slots' = [s \in SlotIds |-> IF slots[s].reg = r THEN [slots[s] EXCEPT !.reg = None] ELSE slots[s]]
    /\ UNCHANGED <<parts, pays, newest, reqs, paidOnce, moved, merged, refused>>

\* PATCH payment-status: the status and the company, then the slot.
PayRegistration(h, r, c, paid) ==
    /\ Calls(h, "payReg") /\ regs[r].state = "here"
    /\ regs' = [regs EXCEPT ![r].company = c, ![r].paid = paid]
    /\ moved' = IF regs[r].company \in {None, c} THEN moved ELSE moved \cup {r}
    /\ IF paid /\ c # None
       THEN Goto(h, [Idle EXCEPT !.pc = "assign", !.reg = r, !.company = c])
       ELSE UNCHANGED reqs
    /\ UNCHANGED <<parts, slots, pays, newest, paidOnce, merged, refused>>

\* assignRegistrationToSlot: nothing to do without a participant or with a slot
\* already; else the lowest open slot, or one more slot behind the last.
AssignRead(h) ==
    /\ At(h, "assign")
    /\ LET r == reqs[h]
           own == SlotsOf(parts[r.company].id)
           open == {s \in own : slots[s].reg = None}
           last == {s \in own : \A t \in own : slots[t].n <= slots[s].n}
       IN IF parts[r.company] = NoPart \/ \E s \in SlotIds : slots[s].reg = r.reg
          THEN Finish(h)
          ELSE Goto(h, [r EXCEPT !.pc = "assignWrite", !.pid = parts[r.company].id,
                          !.held = {s \in open : \A t \in open : slots[s].n <= slots[t].n},
                          !.count = IF last = {} THEN 1 ELSE slots[CHOOSE s \in last : TRUE].n + 1])
    /\ UNCHANGED <<parts, slots, pays, newest, regs, paidOnce, moved, merged, refused>>

\* A slot or a registration that is gone, a number that is taken: nothing is linked.
AssignWrite(h) ==
    /\ At(h, "assignWrite")
    /\ LET r == reqs[h]
           here == regs[r.reg].state = "here"
       IN IF r.held # {}
          THEN /\ slots' = [s \in SlotIds |-> IF here /\ s \in r.held /\ slots[s] # NoSlot
                               THEN [slots[s] EXCEPT !.reg = r.reg, !.named = TRUE] ELSE slots[s]]
               /\ UNCHANGED parts
          ELSE LET ok == here /\ r.count \notin NumbersOf(r.pid) /\ parts[r.company].id = r.pid
               IN /\ ok => Numberings({r.count}) # {}
                  /\ slots' = IF ok THEN NewSlots(r.pid, {r.count}, r.reg) ELSE slots
                  /\ parts' = IF ok THEN [parts EXCEPT ![r.company].count = @ + 1] ELSE parts
    /\ Finish(h)
    /\ UNCHANGED <<pays, newest, regs, paidOnce, moved, merged, refused>>

WsStep(h) ==
    \/ \E c \in Companies, n \in Counts, b \in Bodies \cup {"kept"}, opt \in Options, rm \in BOOLEAN :
          ConfirmRead(h, c, n, b, opt, rm)
    \/ \E c \in Companies, n \in Counts : CreateRead(h, c, n)
    \/ \E c \in Companies, b \in Bodies \ {"forced"} : PayRead(h, c, b) \/ ImportRead(h, c, b)
    \/ \E c \in Companies, n \in Counts, rm \in BOOLEAN : CountWrite(h, c, n, rm)
    \/ \E s \in SlotIds, name \in {"keep", "name", "clear"} : SlotRead(h, s, name)
    \/ \E c \in Companies, with \in BOOLEAN : RemoveParticipant(h, c, with)
    \/ \E c, d \in Companies : MergeRead(h, c, d)
    \/ \E r \in Regs, paid \in BOOLEAN : Register(h, r, paid)
    \/ \E r \in Regs : DeleteRegistration(h, r)
    \/ \E r \in Regs, c \in Companies \cup {None}, paid \in BOOLEAN : PayRegistration(h, r, c, paid)
    \/ RecRead(h) \/ RecDrop(h) \/ RecSurvivors(h) \/ RecFill(h)
    \/ ConfirmWrite(h) \/ SyncMark(h) \/ SyncRead(h) \/ SyncLink(h)
    \/ CreateWrite(h) \/ CreateSlots(h) \/ PayLedger(h) \/ PayWrite(h) \/ ImportPay(h) \/ ImportFlag(h)
    \/ SlotWrite(h) \/ MergeWrite(h) \/ CleanRead(h) \/ CleanNext(h) \/ CleanWrite(h)
    \/ AssignRead(h) \/ AssignWrite(h)

Alone(h) == \A k \in Handlers \ {h} : reqs[k].pc = "idle"
WsNext == \E h \in Handlers : WsStep(h) /\ wsCalm' = (wsCalm /\ Alone(h))
----------------------------------------------------------------------------
\* Whatever requests overlap, a participant is confirmed only when a payment for
\* its company, or for one merged into it, was confirmed or overridden once.
ConfirmedWasPaid == \A c \in Companies : parts[c].confirmed => c \in paidOnce

Quiet == \A h \in Handlers : reqs[h].pc = "idle"
\* As long as requests did not overlap, the slots of a participant are numbered
\* from 1 without a gap, and they are as many as its count unless the last
\* reconcile was refused after the count had been written.
SlotsMatchCount ==
    wsCalm /\ Quiet => \A c \in Companies : parts[c] # NoPart =>
        LET own == SlotsOf(parts[c].id)
        IN /\ NumbersOf(parts[c].id) = 1 .. Cardinality(own)
           /\ \/ parts[c].count = Cardinality(own)
              \/ c \in refused /\ parts[c].count < Cardinality(own)

\* As long as requests did not overlap, a registration holds two slots only after
\* its company changed or participants were merged.
LinkedOnce ==
    wsCalm => \A s, t \in SlotIds :
        s # t /\ slots[s].reg = slots[t].reg /\ slots[s].reg # None => slots[s].reg \in moved \/ merged

\* As long as requests did not overlap, the flag of a participant says what its
\* company's newest payment says, except after a merge.
FlagFollowsLedger ==
    wsCalm /\ Quiet /\ ~merged => \A c \in Companies :
        parts[c] # NoPart => parts[c].confirmed = Paid(newest[c])

\* As long as requests did not overlap, a named slot disappears only with its
\* participant or by a request that says so.
NamedKept == wsCalm' =>
    \A s \in SlotIds : slots[s].named /\ slots'[s] = NoSlot =>
        \/ \A c \in Companies : parts'[c].id # slots[s].pid
        \/ \E h \in Handlers : reqs[h].pc = "recDrop" /\ reqs[h].rm
=============================================================================

----------------------------- MODULE ContactLists -----------------------------
(***************************************************************************)
(* Mission Hub contacts and contact lists (src/programs/mission-hub/routes),*)
(* kept in tables the handlers create on first use.  A list names contacts  *)
(* by id; deleting a contact takes it off the lists in a second statement,  *)
(* while an edit of a list writes back the names it read.                   *)
(***************************************************************************)
CONSTANTS
  Contacts,
  Lists,
  Handlers,
  Faults    \* {"abort"} if a handler may stop half-way, {"ddl"} if creating the tables may fail

VARIABLES
  tables,   \* contactsTablesReadyPromise
  contact,  \* "absent", "active", "archived" or "deleted"
  list,
  req

vars == <<tables, contact, list, req>>

NoList == [state |-> "absent", members |-> {}]
Idle == [pc |-> "idle"]
Requests == {"postContact", "putContact", "deleteContact", "postList", "putList", "deleteList"}

Init ==
  /\ tables = "unknown"
  /\ contact = [c \in Contacts |-> "absent"]
  /\ list = [l \in Lists |-> NoList]
  /\ req = [h \in Handlers |-> Idle]

Free(h) == req[h].pc = "idle"
Answer(h) == req' = [req EXCEPT ![h] = Idle]
Goto(h, r) == req' = [req EXCEPT ![h] = r]
Shown == {c \in Contacts : contact[c] \in {"active", "archived"}}
Live(l) == list[l].state \in {"active", "archived"}

Arrive(h, what) ==
  /\ Free(h) /\ Goto(h, [pc |-> "tables", what |-> what])
  /\ UNCHANGED <<tables, contact, list>>

\* The promise is made once: when it is rejected, every later request fails.
EnsureTables(h) ==
  /\ req[h].pc = "tables"
  /\ IF tables = "failed" THEN Answer(h) /\ UNCHANGED tables
     ELSE \/ tables' = "ready" /\ Goto(h, [pc |-> req[h].what])
          \/ tables = "unknown" /\ "ddl" \in Faults /\ tables' = "failed" /\ Answer(h)
  /\ UNCHANGED <<contact, list>>

\* A new process starts with no promise.
Restart ==
  /\ tables # "unknown" /\ tables' = "unknown"
  /\ "abort" \in Faults \/ \A h \in Handlers : Free(h)
  /\ req' = [h \in Handlers |-> Idle]
  /\ UNCHANGED <<contact, list>>

PostContact(h, c) ==
  /\ req[h].pc = "postContact" /\ contact[c] = "absent"
  /\ \E st \in {"active", "archived"} : contact' = [contact EXCEPT ![c] = st]
  /\ Answer(h) /\ UNCHANGED <<tables, list>>

\* PUT reads the row and writes every column back, the archive date included.
ReadContact(h, c) ==
  /\ req[h].pc = "putContact" /\ c \in Shown
  /\ \E st \in {contact[c], "active", "archived"} :
       Goto(h, [pc |-> "writeContact", id |-> c, to |-> st])
  /\ UNCHANGED <<tables, contact, list>>

WriteContact(h) ==
  /\ req[h].pc = "writeContact"
  /\ contact' = [contact EXCEPT ![req[h].id] = IF @ = "deleted" THEN @ ELSE req[h].to]
  /\ Answer(h) /\ UNCHANGED <<tables, list>>

DeleteContact(h, c) ==
  /\ req[h].pc = "deleteContact" /\ contact[c] # "absent"
  /\ contact' = [contact EXCEPT ![c] = "deleted"]
  /\ Goto(h, [pc |-> "unlist", id |-> c])
  /\ UNCHANGED <<tables, list>>

Unlist(h) ==
  /\ req[h].pc = "unlist"
  /\ list' = [l \in Lists |-> IF Live(l)
                THEN [list[l] EXCEPT !.members = @ \ {req[h].id}] ELSE list[l]]
  /\ Answer(h) /\ UNCHANGED <<tables, contact>>

\* Clients name contacts they were shown; the handler does not check them.
PostList(h, l, members) ==
  /\ req[h].pc = "postList" /\ list[l] = NoList /\ members \subseteq Shown
  /\ \E st \in {"active", "archived"} :
       list' = [list EXCEPT ![l] = [state |-> st, members |-> members]]
  /\ Answer(h) /\ UNCHANGED <<tables, contact>>

ReadList(h, l, members) ==
  /\ req[h].pc = "putList" /\ Live(l)
  /\ members \subseteq Shown \/ members = list[l].members
  /\ \E st \in {"active", "archived"} :
       Goto(h, [pc |-> "writeList", id |-> l, members |-> members, to |-> st])
  /\ UNCHANGED <<tables, contact, list>>

WriteList(h) ==
  /\ req[h].pc = "writeList"
  /\ list' = [list EXCEPT ![req[h].id] =
       [state |-> IF @.state = "deleted" THEN @.state ELSE req[h].to,
        members |-> req[h].members]]
  /\ Answer(h) /\ UNCHANGED <<tables, contact>>

DeleteList(h, l) ==
  /\ req[h].pc = "deleteList" /\ list[l] # NoList
  /\ list' = [list EXCEPT ![l].state = "deleted"]
  /\ Answer(h) /\ UNCHANGED <<tables, contact>>

\* The row is not found, or the handler stops.
GiveUp(h) ==
  /\ req[h].pc \in Requests \/ ("abort" \in Faults /\ ~Free(h))
  /\ Answer(h) /\ UNCHANGED <<tables, contact, list>>

Next ==
  \/ \E h \in Handlers :
       \/ \E what \in Requests : Arrive(h, what)
       \/ EnsureTables(h) \/ WriteContact(h) \/ Unlist(h) \/ WriteList(h) \/ GiveUp(h)
       \/ \E c \in Contacts : PostContact(h, c) \/ ReadContact(h, c) \/ DeleteContact(h, c)
       \/ \E l \in Lists : DeleteList(h, l)
            \/ \E members \in SUBSET Contacts : PostList(h, l, members) \/ ReadList(h, l, members)
  \/ Restart

Spec == Init /\ [][Next]_vars

-----------------------------------------------------------------------------
ContactStates == {"absent", "active", "archived", "deleted"}
TypeOK ==
  /\ tables \in {"unknown", "ready", "failed"}
  /\ contact \in [Contacts -> ContactStates]
  /\ list \in [Lists -> [state : ContactStates, members : SUBSET Contacts]]
  /\ req \in [Handlers -> {Idle} \cup [pc : {"tables"}, what : Requests] \cup [pc : Requests]
       \cup [pc : {"writeContact"}, id : Contacts, to : ContactStates]
       \cup [pc : {"unlist"}, id : Contacts]
       \cup [pc : {"writeList"}, id : Lists, members : SUBSET Contacts, to : ContactStates]]

\* With requests that do not overlap or stop half-way, no list in use names a
\* deleted contact: DELETE takes it off the lists, an edit names shown ones.
ListsNameShown ==
  (\A h \in Handlers : Free(h)) =>
    \A l \in Lists : Live(l) => list[l].members \subseteq Shown
=============================================================================

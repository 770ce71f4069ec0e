---------------------------- MODULE ProgramCatalog -----------------------------
(***************************************************************************)
(* The program catalog (src/core/routes/program.routes.ts) and the app      *)
(* settings of an organization (organization.routes.ts): rows that a PUT    *)
(* reads, merges with what the client sent and writes back whole.           *)
(*                                                                         *)
(* Of a program: its type, whether it has an internal route and an external *)
(* URL, its status and whether it is deleted.  Of the settings: a version   *)
(* of each section.  The wording of a program and its display are left out. *)
(***************************************************************************)
EXTENDS Naturals

CONSTANTS
  Ids,         \* the programs
  Sections,    \* the sections of the app settings
  Versions,    \* what a section may hold
  Handlers

VARIABLES program, settings, req
vars == <<program, settings, req>>

NoRow == [type |-> "no program"]
Default == 0     \* a section nobody saved
Idle == [pc |-> "idle"]
Types == {"internal", "external", "hybrid"}
Rows == [type : Types, route : BOOLEAN, url : BOOLEAN, status : {"live", "beta", "archived"}, deleted : BOOLEAN]

Init ==
  /\ program = [p \in Ids |-> NoRow]
  /\ settings = [s \in Sections |-> Default]
  /\ req = [h \in Handlers |-> Idle]

At(h, pc) == req[h].pc = pc
Answer(h) == req' = [req EXCEPT ![h] = Idle]
Stored(p) == program[p] # NoRow
Shown(p) == Stored(p) /\ ~program[p].deleted

Reachable(type, route, url) == (type = "internal" => route) /\ (type = "external" => url)

PostProgram(p, type, route, url) ==
  /\ ~Stored(p) /\ Reachable(type, route, url)
  /\ program' = [program EXCEPT ![p] =
       [type |-> type, route |-> route, url |-> url, status |-> "live", deleted |-> FALSE]]
  /\ UNCHANGED <<settings, req>>

\* The fields a client sends, with their values.
Sent ==
  [type : Types] \cup [route : BOOLEAN, url : BOOLEAN] \cup [type : Types, url : BOOLEAN] \cup [status : {"beta"}]

StartPutProgram(h, p, sent) ==
  /\ At(h, "idle") /\ Shown(p)
  /\ LET next == [f \in DOMAIN program[p] |-> IF f \in DOMAIN sent THEN sent[f] ELSE program[p][f]] IN
     /\ Reachable(next.type, next.route, next.url)
     /\ req' = [req EXCEPT ![h] = [pc |-> "program", id |-> p, sent |-> sent, next |-> next]]
  /\ UNCHANGED <<program, settings>>

\* The whole row as read and merged; when it was deleted is not a field of the update.
PutProgram(h) ==
  /\ At(h, "program")
  /\ LET id == req[h].id IN
     program' = [program EXCEPT ![id] = [req[h].next EXCEPT !.deleted = program[id].deleted]]
  /\ Answer(h) /\ UNCHANGED settings

DeleteProgram(p) ==
  /\ Shown(p)
  /\ program' = [program EXCEPT ![p] = [@ EXCEPT !.deleted = TRUE, !.status = "archived"]]
  /\ UNCHANGED <<settings, req>>

\* GET /programs: the static catalog when there is no row or the query is too slow
Catalog(timedOut) ==
  LET rows == {p \in Ids : Shown(p)} IN
  IF timedOut \/ rows = {} THEN "static catalog" ELSE rows

-----------------------------------------------------------------------------
(* PUT /orgs/:id/app-settings                                               *)

StartSettings(h, sent) ==
  /\ At(h, "idle")
  /\ req' = [req EXCEPT ![h] = [pc |-> "settings", sent |-> sent,
       next |-> [s \in Sections |-> IF s \in DOMAIN sent THEN sent[s] ELSE settings[s]]]]
  /\ UNCHANGED <<program, settings>>

SaveSettings(h) ==
  /\ At(h, "settings")
  /\ settings' = req[h].next
  /\ Answer(h) /\ UNCHANGED program

Next ==
  \/ \E p \in Ids :
       \/ \E type \in Types, route \in BOOLEAN, url \in BOOLEAN : PostProgram(p, type, route, url)
       \/ DeleteProgram(p)
  \/ \E h \in Handlers :
       \/ \E p \in Ids, sent \in Sent : StartPutProgram(h, p, sent)
       \/ \E s \in Sections, v \in Versions : StartSettings(h, [t \in {s} |-> v])
       \/ PutProgram(h) \/ SaveSettings(h)

Spec == Init /\ [][Next]_vars

-----------------------------------------------------------------------------
Puts == [pc : {"program"}, id : Ids, sent : Sent, next : Rows]
Saves ==
  [pc : {"settings"}, sent : UNION {[{s} -> Versions] : s \in Sections}, next : [Sections -> Versions \cup {Default}]]
TypeOK ==
  /\ program \in [Ids -> Rows \cup {NoRow}]
  /\ settings \in [Sections -> Versions \cup {Default}]
  /\ req \in [Handlers -> Puts \cup Saves \cup {Idle}]

\* An internal program has its route and an external one its address, whatever
\* two PUTs of one program, each checked against the row it read, write.
ProgramsReachable ==
  \A p \in Ids : Stored(p) => Reachable(program[p].type, program[p].route, program[p].url)

\* One request at a time: saving one section keeps the others.
SettingsKept ==
  \A h \in Handlers, s \in Sections :
    (At(h, "settings") /\ req'[h] = Idle /\ settings'[s] # settings[s]) => s \in DOMAIN req[h].sent
=============================================================================

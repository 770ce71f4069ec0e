----------------------------- MODULE TaxIdentities ------------------------------
(***************************************************************************)
(* The encrypted tax identities of payees (src/programs/financial-hub/routes *)
(* /taxIdentity.routes.ts) and their audit log.  The routes ask for a role   *)
(* that nothing in the repository sets on a request (a TODO in the code);    *)
(* they are modelled for a caller who has it.                                *)
(*                                                                         *)
(* A tax id stands for its digits: its ciphertext, its hash and its last     *)
(* four digits are functions of it.  Payees exist from the start.            *)
(***************************************************************************)
EXTENDS Naturals, Sequences

CONSTANTS
  Payees, TaxIds,
  MaxReveals,  \* reveals of a user in the window
  MaxLog,      \* bound of the audit log
  Handlers,
  Faults       \* {"log"} if writing and counting the audit log may fail

VARIABLES identity, flag, log, reveals, req
vars == <<identity, flag, log, reveals, req>>

NoIdentity == [id |-> "none", type |-> "none"]
Idle == [pc |-> "idle"]
Types == {"SSN", "EIN"}

Init ==
  /\ identity = [p \in Payees |-> NoIdentity]
  /\ flag = [p \in Payees |-> FALSE]
  /\ log = <<>> /\ reveals = 0
  /\ req = [h \in Handlers |-> Idle]

At(h, pc) == req[h].pc = pc
Goto(h, pc) == req' = [req EXCEPT ![h].pc = pc]
Answer(h) == req' = [req EXCEPT ![h] = Idle]
Begin(h, pc, p, id, type) ==
  At(h, "idle") /\ req' = [req EXCEPT ![h] = [pc |-> pc, payee |-> p, id |-> id, type |-> type]]
\* logAuditEvent: a failure to log is swallowed
Log(action, p) ==
  \/ Len(log) < MaxLog /\ log' = Append(log, [action |-> action, payee |-> p])
  \/ "log" \in Faults /\ UNCHANGED log

-----------------------------------------------------------------------------
(* POST tax-identity                                                        *)

\* The id is formatted, hashed and encrypted, and looked up by its hash
\* among the other payees.
StartSave(h, p, id, type) ==
  /\ \A q \in Payees \ {p} : identity[q].id # id
  /\ Begin(h, "upsert", p, id, type)
  /\ UNCHANGED <<identity, flag, log, reveals>>

\* mutant of Upsert: the type is the stored one, even of a first save
UpsertTypeStored(h) ==
  /\ At(h, "upsert")
  /\ identity' = [identity EXCEPT ![req[h].payee] = [id |-> req[h].id, type |-> @.type]]
  /\ Goto(h, "flag") /\ UNCHANGED <<flag, log, reveals>>

\* The update of an identity leaves its type.
Upsert(h) ==
  /\ At(h, "upsert")
  /\ LET p == req[h].payee IN
     identity' = [identity EXCEPT ![p] =
       [id |-> req[h].id, type |-> IF @ = NoIdentity THEN req[h].type ELSE @.type]]
  /\ Goto(h, "flag") /\ UNCHANGED <<flag, log, reveals>>

Flag(h) ==
  /\ At(h, "flag")
  /\ flag' = [flag EXCEPT ![req[h].payee] = TRUE]
  /\ Goto(h, "log save") /\ UNCHANGED <<identity, log, reveals>>

\* The other payee's identity, which the code asks about, is never there.
LogSave(h) ==
  /\ At(h, "log save")
  /\ Log("tax_id_created", req[h].payee)
  /\ Answer(h) /\ UNCHANGED <<identity, flag, reveals>>

-----------------------------------------------------------------------------
(* DELETE tax-identity                                                      *)

\* Without an identity the delete throws.
Delete(h, p) ==
  /\ identity[p] # NoIdentity
  /\ identity' = [identity EXCEPT ![p] = NoIdentity]
  /\ Begin(h, "unflag", p, "none", "none")
  /\ UNCHANGED <<flag, log, reveals>>

Unflag(h) ==
  /\ At(h, "unflag")
  /\ flag' = [flag EXCEPT ![req[h].payee] = FALSE]
  /\ Goto(h, "log delete") /\ UNCHANGED <<identity, log, reveals>>

LogDelete(h) ==
  /\ At(h, "log delete")
  /\ Log("tax_id_deleted", req[h].payee)
  /\ Answer(h) /\ UNCHANGED <<identity, flag, reveals>>

-----------------------------------------------------------------------------
(* POST reveal: the reveals of the window are counted in the audit log, and *)
(* a count that fails lets the request pass.                                *)

Revealed == Len(SelectSeq(log, LAMBDA entry : entry.action = "tax_id_revealed"))

StartReveal(h, p) ==
  /\ Revealed < MaxReveals \/ "log" \in Faults
  /\ identity[p] # NoIdentity
  /\ Begin(h, "reveal", p, "none", "none")
  /\ UNCHANGED <<identity, flag, log, reveals>>

Reveal(h) ==
  /\ At(h, "reveal")
  /\ Log("tax_id_revealed", req[h].payee)
  /\ reveals' = IF reveals > MaxReveals THEN reveals ELSE reveals + 1
  /\ Answer(h) /\ UNCHANGED <<identity, flag>>

Next ==
  \E h \in Handlers :
    \/ \E p \in Payees, id \in TaxIds, type \in Types : StartSave(h, p, id, type)
    \/ Upsert(h) \/ Flag(h) \/ LogSave(h) \/ Unflag(h) \/ LogDelete(h) \/ Reveal(h)
    \/ \E p \in Payees : Delete(h, p) \/ StartReveal(h, p)

Spec == Init /\ [][Next]_vars

-----------------------------------------------------------------------------
Requests ==
  [pc : {"upsert", "flag", "log save"}, payee : Payees, id : TaxIds, type : Types] \cup
  [pc : {"unflag", "log delete", "reveal"}, payee : Payees, id : {"none"}, type : {"none"}]
Entries == [action : {"tax_id_created", "tax_id_deleted", "tax_id_revealed"}, payee : Payees]
TypeOK ==
  /\ identity \in [Payees -> [id : TaxIds, type : Types] \cup {NoIdentity}]
  /\ flag \in [Payees -> BOOLEAN]
  /\ log \in Seq(Entries) /\ Len(log) =< MaxLog /\ reveals \in 0..(MaxReveals + 1)
  /\ req \in [Handlers -> Requests \cup {Idle}]

\* One request at a time and no call failing: no two payees have one tax id,
\* the payee's flag says whether it has one when nothing is under way, and a
\* user is shown no more identities than the limit.
IdentitiesConsistent ==
  /\ \A p, q \in Payees : p # q /\ identity[p] # NoIdentity => identity[p].id # identity[q].id
  /\ (\A h \in Handlers : At(h, "idle")) => \A p \in Payees : flag[p] = (identity[p] # NoIdentity)
  /\ reveals =< MaxReveals

=============================================================================

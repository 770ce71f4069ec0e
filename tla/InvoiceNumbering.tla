---------------------------- MODULE InvoiceNumbering ----------------------------
(***************************************************************************)
(* TimeFlow invoices (src/programs/timeflow/routes/index.ts).  An invoice   *)
(* id doubles as its number and is a primary key shared by every workspace, *)
(* so POST /invoices may find the number it was asked for taken: it then    *)
(* scans for the next free one and tries again, a bounded number of times,  *)
(* while other requests create and delete invoices between its calls.       *)
(*                                                                         *)
(* An id is a series (the text before its trailing digits), a number and    *)
(* the width of its digits; an id without trailing digits has width 0.      *)
(* The contents of an invoice are abstracted away, and with them PUT, which *)
(* changes neither id nor owner.  rivals is a history variable: invoices    *)
(* other requests created in the series since this one started.             *)
(***************************************************************************)
EXTENDS Naturals, FiniteSets

CONSTANTS
  Series,        \* prefixes of invoice ids
  Workspaces,    \* an organization and user: the owner of an invoice
  Handlers,      \* request slots: handlers that may be in flight at once
  Requested,     \* bound: the ids clients ask for
  MaxIdAttempts, \* MAX_INVOICE_ID_ATTEMPTS
  MaxPosts,      \* bound: POST requests ever sent
  Faults         \* {"database"} if a database call may fail, else {}

VARIABLES
  invoices,  \* the rows of TimeflowInvoice: their ids and owners
  handler,   \* per slot: the request in flight, or the last one's answer
  rivals,    \* per slot: history, see above
  posts      \* bound: POST requests still to come

ReadIds == [series : Series, number : Nat, width : Nat]
BoundsAssumption == MaxIdAttempts \in Nat \ {0} /\ MaxPosts \in Nat /\ Requested \subseteq ReadIds

Numbered(id) == id.width > 0      \* INVOICE_NUMBER_PATTERN matches
Taken == {row.id : row \in invoices}

Init ==
  /\ invoices = {}
  /\ \E id \in Requested, w \in Workspaces :
       handler = [h \in Handlers |-> [pc |-> "idle", id |-> id, owner |-> w, attempt |-> 0]]
  /\ rivals = [h \in Handlers |-> 0]
  /\ posts = MaxPosts

Free(h) == handler[h].pc \in {"idle", "created", "dropped", "failed"}
Posting(h) == handler[h].pc \in {"create", "scan"}
Answer(h, pc) == handler' = [handler EXCEPT ![h].pc = pc]

\* POST /invoices with an id.
StartPost(h, w, id) ==
  /\ Free(h) /\ posts > 0
  /\ handler' = [handler EXCEPT ![h] = [pc |-> "create", id |-> id, owner |-> w, attempt |-> 1]]
  /\ rivals' = [rivals EXCEPT ![h] = 0]
  /\ posts' = posts - 1
  /\ UNCHANGED invoices

\* The row is inserted when its id is free.
CreateInvoice(h) ==
  /\ handler[h].pc = "create" /\ handler[h].id \notin Taken
  /\ invoices' = invoices \cup {[id |-> handler[h].id, owner |-> handler[h].owner]}
  /\ Answer(h, "created")
  /\ rivals' = [k \in Handlers |->
       IF k # h /\ Posting(k) /\ handler[k].id.series = handler[h].id.series
       THEN rivals[k] + 1 ELSE rivals[k]]
  /\ UNCHANGED posts

\* mutant of IdTaken: the last attempt is given up one too early
IdTakenGivesUpEarly(h) ==
  /\ handler[h].pc = "create" /\ handler[h].id \in Taken
  /\ Answer(h, IF handler[h].attempt + 1 >= MaxIdAttempts THEN "dropped" ELSE "scan")
  /\ UNCHANGED <<invoices, rivals, posts>>

\* A unique violation: another number is looked for, unless this was the last
\* attempt.
IdTaken(h) ==
  /\ handler[h].pc = "create" /\ handler[h].id \in Taken
  /\ Answer(h, IF handler[h].attempt >= MaxIdAttempts THEN "dropped" ELSE "scan")
  /\ UNCHANGED <<invoices, rivals, posts>>

\* Digits of a number below 10^10, and the id padded to the digits of another.
Digits(n) == 1 + Cardinality({k \in 1..9 : 10^k <= n})
Renumber(id, n) ==
  [id EXCEPT !.number = n, !.width = IF Digits(n) > id.width THEN Digits(n) ELSE id.width]

\* findNextFreeInvoiceId: one above the highest number of the series.
SeriesNumbers(id) ==
  {id.number} \cup {other.number : other \in {x \in Taken : x.series = id.series /\ Numbered(x)}}

\* mutant of FindNextFree: the requested number is counted up blindly
FindNextBlindly(h) ==
  /\ handler[h].pc = "scan"
  /\ IF Numbered(handler[h].id)
     THEN handler' = [handler EXCEPT
            ![h].pc = "create", ![h].attempt = @ + 1,
            ![h].id = Renumber(handler[h].id, handler[h].id.number + 1)]
     ELSE Answer(h, "dropped")
  /\ UNCHANGED <<invoices, rivals, posts>>

FindNextFree(h) ==
  /\ handler[h].pc = "scan"
  /\ IF Numbered(handler[h].id)
     THEN \E highest \in SeriesNumbers(handler[h].id) :
            /\ \A n \in SeriesNumbers(handler[h].id) : n <= highest
            /\ handler' = [handler EXCEPT
                 ![h].pc = "create", ![h].attempt = @ + 1,
                 ![h].id = Renumber(handler[h].id, highest + 1)]
     ELSE Answer(h, "dropped")
  /\ UNCHANGED <<invoices, rivals, posts>>

DatabaseError(h) ==
  /\ "database" \in Faults /\ ~Free(h)
  /\ Answer(h, "failed")
  /\ UNCHANGED <<invoices, rivals, posts>>

\* DELETE /invoices/:id: the owner's row is found, then deleted by id alone.
StartDelete(h, row) ==
  /\ Free(h)
  /\ handler' = [handler EXCEPT ![h] =
       [pc |-> "delete", id |-> row.id, owner |-> row.owner, attempt |-> 0]]
  /\ rivals' = [rivals EXCEPT ![h] = 0]
  /\ UNCHANGED <<invoices, posts>>

DeleteInvoice(h) ==
  /\ handler[h].pc = "delete"
  /\ invoices' = {row \in invoices : row.id # handler[h].id}
  /\ Answer(h, IF handler[h].id \in Taken THEN "idle" ELSE "failed")
  /\ UNCHANGED <<rivals, posts>>

HandlerStep(h) ==
  \/ CreateInvoice(h) \/ IdTaken(h) \/ FindNextFree(h) \/ DeleteInvoice(h)

Next ==
  \E h \in Handlers :
    \/ HandlerStep(h) \/ DatabaseError(h)
    \/ \E w \in Workspaces, id \in Requested : StartPost(h, w, id)
    \/ \E row \in invoices : StartDelete(h, row)

-----------------------------------------------------------------------------
TypeOK ==
  /\ invoices \subseteq [id : ReadIds, owner : Workspaces]
  /\ handler \in [Handlers -> [pc : {"idle", "create", "scan", "delete", "created", "dropped",
                                     "failed"},
                               id : ReadIds, owner : Workspaces, attempt : 0..MaxIdAttempts]]
  /\ rivals \in [Handlers -> Nat]
  /\ posts \in 0..MaxPosts

\* A numbered request is turned down only when, while it ran, other requests
\* created an invoice in its series for every attempt after its first one: the
\* retries cannot be used up by numbers that were taken before, by deletions,
\* or by the widths of other ids.
DropNeedsRivals ==
  \A h \in Handlers :
    handler[h].pc = "dropped" /\ Numbered(handler[h].id) => rivals[h] >= MaxIdAttempts - 1

\* The invariant behind it: a candidate found by a scan was free then, so
\* every later conflict is one more rival.
Contention(h) ==
  LET r == handler[h] IN
  /\ r.pc = "scan" => r.attempt < MaxIdAttempts
  /\ Numbered(r.id) =>
       /\ r.pc = "create" => /\ rivals[h] + 2 >= r.attempt
                             /\ r.id \in Taken => rivals[h] + 1 >= r.attempt
       /\ r.pc = "scan" => rivals[h] + 1 >= r.attempt
       /\ r.pc = "dropped" => rivals[h] + 1 >= MaxIdAttempts
ContentionInv == TypeOK /\ \A h \in Handlers : Contention(h)

\* A number found by a scan is above every number its series had then; so a
\* row that was renumbered and one that was there before never read the same,
\* however they are padded.
RenumberedAbove ==
  \A h \in Handlers :
    handler[h].pc = "scan" /\ handler'[h].pc = "create"
      => \A row \in invoices : row.id.series = handler[h].id.series /\ Numbered(row.id)
           => row.id.number < handler'[h].id.number

=============================================================================

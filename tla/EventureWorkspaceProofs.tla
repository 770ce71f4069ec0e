-------------------------- MODULE EventureWorkspaceProofs --------------------------
(***************************************************************************)
(* The inductive invariants of Eventure's event workspace and of the       *)
(* payment files imported into it, for any number of companies, slots,     *)
(* payments, files and handlers: what holds however requests overlap, and, *)
(* as long as they did not, what the one request in flight knows of the    *)
(* rows it has read. A step that writes is restated as what it does to the *)
(* tables (... Does), and the invariants are shown of that. EventureProofs *)
(* has the theorems.                                                       *)
(***************************************************************************)
EXTENDS Eventure, FiniteSetTheorems, WellFoundedInduction, TLAPS

-----------------------------------------------------------------------------
(* Sequences: what appending and replacing an element does.                 *)

LEMMA SeqAppends ==
  ASSUME NEW S, NEW s \in Seq(S), NEW x \in S
  PROVE  /\ Append(s, x) \in Seq(S) /\ Len(Append(s, x)) = Len(s) + 1
         /\ DOMAIN Append(s, x) = 1 .. Len(s) + 1
         /\ \A i \in DOMAIN s : Append(s, x)[i] = s[i]
         /\ Append(s, x)[Len(s) + 1] = x
OBVIOUS

LEMMA SeqMaps ==
  ASSUME NEW S, NEW n \in Nat, NEW f \in [1 .. n -> S]
  PROVE  f \in Seq(S) /\ Len(f) = n /\ DOMAIN f = 1 .. n
OBVIOUS

LEMMA SeqReplaces ==
  ASSUME NEW S, NEW s \in Seq(S), NEW i \in DOMAIN s, NEW x \in S,
         NEW t, t = [s EXCEPT ![i] = x]
  PROVE  /\ t \in Seq(S) /\ Len(t) = Len(s) /\ DOMAIN t = DOMAIN s
         /\ \A j \in DOMAIN s : t[j] = IF j = i THEN x ELSE s[j]
<1>1. Len(s) \in Nat /\ DOMAIN s = 1 .. Len(s) /\ \A j \in DOMAIN s : s[j] \in S
 OBVIOUS
<1>2. DOMAIN t = DOMAIN s /\ \A j \in DOMAIN s : t[j] = IF j = i THEN x ELSE s[j]
 OBVIOUS
<1>3. s \in [1 .. Len(s) -> S] OBVIOUS
<1>4. t \in [1 .. Len(s) -> S] BY <1>1, <1>3
<1>5. QED BY <1>1, <1>2, <1>4, SeqMaps

LEMMA SeqShape ==
  ASSUME NEW S, NEW s \in Seq(S)
  PROVE  /\ Len(s) \in Nat /\ DOMAIN s = 1 .. Len(s) /\ \A i \in DOMAIN s : s[i] \in S
         /\ s = [i \in 1 .. Len(s) |-> s[i]]
OBVIOUS

LEMMA EmptySeq == ASSUME NEW S PROVE <<>> \in Seq(S) /\ Len(<<>>) = 0 /\ DOMAIN <<>> = {}
OBVIOUS

-----------------------------------------------------------------------------
(* Payment files.  A request's rows are those that its batch stores, and    *)
(* what it is about to mark imported is in the ledger.  While requests are  *)
(* calm, the ledger has nothing of the rows that a confirm has not reached. *)

PayConfirms(h) == payReqs[h].pc \in {"row", "apply", "pay", "participant"}
PayNamed == {c.company : c \in Choices}
PayAgrees(rows, stored) ==
  \A i \in DOMAIN rows :
    i \in DOMAIN stored /\ rows[i].sponsor \in {None, stored[i].row.company} \cup PayNamed
PayAsks(h) ==
  LET q == payReqs[h] IN
  /\ q.pc # "idle" => q.batch \in DOMAIN payBatches
  /\ q.pc = "store" => payBatches[q.batch].rows = <<>>
  /\ q.pc \in {"store", "summary"} =>
       \A i \in DOMAIN q.rows : /\ q.rows[i].status \in {"valid", "warning", "error"}
                                /\ q.rows[i].sponsor \in {None, q.rows[i].row.company}
  /\ PayConfirms(h) => PayAgrees(q.rows, payBatches[q.batch].rows)
  /\ q.pc \in {"apply", "pay", "participant"} => q.i \in DOMAIN q.rows /\ q.rows[q.i].sponsor # None
  /\ q.pc = "participant" =>
       \E k \in Pay!Entries(q.batch, q.i) : ledger[k].company = q.rows[q.i].sponsor

PayShape ==
  /\ Pay!PimTypeOK
  /\ \A h \in Handlers : PayAsks(h)
  /\ \A h, k \in Handlers : h # k /\ payReqs[h].pc = "store" /\ payReqs[k].pc = "store" =>
       payReqs[h].batch # payReqs[k].batch
  /\ \A b \in DOMAIN payBatches : \A i \in DOMAIN payBatches[b].rows :
       payBatches[b].rows[i].sponsor \in {None, payBatches[b].rows[i].row.company}
  /\ \A k \in DOMAIN ledger : ledger[k].batch \in DOMAIN payBatches
  /\ Pay!ImportedIsRecorded

PayBatch == [status : Pay!Awaiting \cup Pay!Over, rows : Seq(Pay!StoredRows)]
PayReqs == {Pay!PimIdle} \cup Pay!Previews \cup Pay!Confirms

LEMMA PayTypes ==
  ASSUME Pay!PimTypeOK
  PROVE  /\ payBatches \in Seq(PayBatch) /\ payReqs \in [Handlers -> PayReqs]
         /\ DOMAIN payBatches = 1 .. Len(payBatches) /\ Len(payBatches) \in Nat
         /\ DOMAIN payBatches \subseteq 1 .. MaxBatches
         /\ \A b \in DOMAIN payBatches :
              /\ payBatches[b] \in PayBatch
              /\ payBatches[b].rows \in Seq(Pay!StoredRows)
              /\ \A i \in DOMAIN payBatches[b].rows : payBatches[b].rows[i] \in Pay!StoredRows
         /\ \A h \in Handlers : /\ payReqs[h].pc \in {"store", "summary"} => payReqs[h] \in Pay!Previews
                                /\ PayConfirms(h) => payReqs[h] \in Pay!Confirms
                                /\ payReqs[h].pc \in {"idle", "store", "summary"} \/ PayConfirms(h)
<1>1. payBatches \in Seq(PayBatch) /\ payReqs \in [Handlers -> PayReqs] /\ Len(payBatches) <= MaxBatches
 BY DEF Pay!PimTypeOK, PayBatch, PayReqs
<1>2. MaxBatches \in Nat BY EventureAssumption DEF Pay!FilesAssumption
<1>3. DOMAIN payBatches = 1 .. Len(payBatches) /\ Len(payBatches) \in Nat /\ \A b \in DOMAIN payBatches : payBatches[b] \in PayBatch
 BY <1>1, SeqShape
<1>4. \A b \in DOMAIN payBatches : payBatches[b].rows \in Seq(Pay!StoredRows)
 BY <1>3 DEF PayBatch
<1>5. \A b \in DOMAIN payBatches : \A i \in DOMAIN payBatches[b].rows : payBatches[b].rows[i] \in Pay!StoredRows
 BY <1>4, SeqShape
<1>6. ASSUME NEW h \in Handlers
      PROVE  /\ payReqs[h].pc \in {"store", "summary"} => payReqs[h] \in Pay!Previews
             /\ PayConfirms(h) => payReqs[h] \in Pay!Confirms
             /\ payReqs[h].pc \in {"idle", "store", "summary"} \/ PayConfirms(h)
 <2>1. payReqs[h] \in PayReqs BY <1>1
 <2>2. QED BY <2>1 DEF PayReqs, Pay!PimIdle, Pay!Previews, Pay!Confirms, PayConfirms
<1>7. DOMAIN payBatches \subseteq 1 .. MaxBatches BY <1>1, <1>2, <1>3
<1>8. QED BY <1>1, <1>3, <1>4, <1>5, <1>6, <1>7

\* A row's status is written.
PayWrites(b, i, st) == payBatches' = [payBatches EXCEPT ![b].rows[i].status = st]

LEMMA PayMarks ==
  ASSUME Pay!PimTypeOK, NEW b \in DOMAIN payBatches, NEW i \in DOMAIN payBatches[b].rows,
         NEW st \in {"imported", "failed", "skipped", "unmatched"}, PayWrites(b, i, st)
  PROVE  /\ payBatches' \in Seq(PayBatch) /\ Len(payBatches') = Len(payBatches)
         /\ DOMAIN payBatches' = DOMAIN payBatches
         /\ \A c \in DOMAIN payBatches :
              /\ payBatches'[c].status = payBatches[c].status
              /\ DOMAIN payBatches'[c].rows = DOMAIN payBatches[c].rows
              /\ Len(payBatches'[c].rows) = Len(payBatches[c].rows)
              /\ \A j \in DOMAIN payBatches[c].rows :
                   /\ payBatches'[c].rows[j].row = payBatches[c].rows[j].row
                   /\ payBatches'[c].rows[j].sponsor = payBatches[c].rows[j].sponsor
                   /\ payBatches'[c].rows[j].status = IF c = b /\ j = i THEN st ELSE payBatches[c].rows[j].status
<1> DEFINE old == payBatches[b].rows
           new == [old EXCEPT ![i].status = st]
<1>1. old \in Seq(Pay!StoredRows) /\ payBatches[b] \in PayBatch
 BY PayTypes
<1>2. [old[i] EXCEPT !.status = st] \in Pay!StoredRows
 <2>1. \A r \in Pay!StoredRows : [r EXCEPT !.status = st] \in Pay!StoredRows
  BY DEF Pay!StoredRows
 <2>2. QED BY <1>1, <2>1, SeqShape
<1>3. /\ new \in Seq(Pay!StoredRows) /\ Len(new) = Len(old) /\ DOMAIN new = DOMAIN old
      /\ \A j \in DOMAIN old : new[j] = IF j = i THEN [old[i] EXCEPT !.status = st] ELSE old[j]
 <2>1. PICK x : x = [old[i] EXCEPT !.status = st] OBVIOUS
 <2>2. PICK t : t = [old EXCEPT ![i] = x] OBVIOUS
 <2>3. i \in DOMAIN old /\ x \in Pay!StoredRows BY <1>2, <2>1
 <2>4. /\ t \in Seq(Pay!StoredRows) /\ Len(t) = Len(old) /\ DOMAIN t = DOMAIN old
       /\ \A j \in DOMAIN old : t[j] = IF j = i THEN x ELSE old[j]
  <3> HIDE DEF old
  <3>1. QED BY <1>1, <2>2, <2>3, SeqReplaces
 <2>5. new = t BY <2>1, <2>2
 <2>6. QED BY <2>1, <2>4, <2>5
<1>4. payBatches' = [payBatches EXCEPT ![b] = [payBatches[b] EXCEPT !.rows = new]]
 BY DEF PayWrites
<1>5. [payBatches[b] EXCEPT !.rows = new] \in PayBatch
 BY <1>1, <1>3 DEF PayBatch
<1>6. /\ payBatches' \in Seq(PayBatch) /\ Len(payBatches') = Len(payBatches) /\ DOMAIN payBatches' = DOMAIN payBatches
      /\ \A c \in DOMAIN payBatches :
           payBatches'[c] = IF c = b THEN [payBatches[b] EXCEPT !.rows = new] ELSE payBatches[c]
 BY <1>4, <1>5, PayTypes, SeqReplaces
<1>7. payBatches'[b].status = payBatches[b].status /\ payBatches'[b].rows = new
 BY <1>1, <1>6 DEF PayBatch
<1>8. \A j \in DOMAIN old : old[j] \in Pay!StoredRows BY <1>1, SeqShape
<1>9. ASSUME NEW j \in DOMAIN old
      PROVE  /\ new[j].row = old[j].row /\ new[j].sponsor = old[j].sponsor
             /\ new[j].status = IF j = i THEN st ELSE old[j].status
 BY <1>3, <1>8, <1>9 DEF Pay!StoredRows
<1>10. ASSUME NEW c \in DOMAIN payBatches, c # b
       PROVE  payBatches'[c] = payBatches[c]
 BY <1>6, <1>10
<1>11. ASSUME NEW c \in DOMAIN payBatches, c = b
       PROVE  /\ payBatches'[c].status = payBatches[c].status
              /\ payBatches[c].rows = old /\ payBatches'[c].rows = new
 BY <1>7, <1>11
<1>12. QED
 <2> HIDE DEF old, new
 <2>1. QED BY <1>3, <1>6, <1>9, <1>10, <1>11

\* A batch gets a status.
LEMMA PayStatus ==
  ASSUME Pay!PimTypeOK, NEW b \in DOMAIN payBatches, NEW st \in Pay!Awaiting \cup Pay!Over,
         payBatches' = [payBatches EXCEPT ![b].status = st]
  PROVE  /\ payBatches' \in Seq(PayBatch) /\ Len(payBatches') = Len(payBatches)
         /\ DOMAIN payBatches' = DOMAIN payBatches
         /\ \A c \in DOMAIN payBatches :
              /\ payBatches'[c].status = IF c = b THEN st ELSE payBatches[c].status
              /\ payBatches'[c].rows = payBatches[c].rows
<1>1. payBatches[b] \in PayBatch BY PayTypes
<1>2. [payBatches[b] EXCEPT !.status = st] \in PayBatch
 BY <1>1 DEF PayBatch
<1>3. payBatches' = [payBatches EXCEPT ![b] = [payBatches[b] EXCEPT !.status = st]]
 OBVIOUS
<1>4. /\ payBatches' \in Seq(PayBatch) /\ Len(payBatches') = Len(payBatches) /\ DOMAIN payBatches' = DOMAIN payBatches
      /\ \A c \in DOMAIN payBatches :
           payBatches'[c] = IF c = b THEN [payBatches[b] EXCEPT !.status = st] ELSE payBatches[c]
 BY <1>2, <1>3, PayTypes, SeqReplaces
<1>5. QED BY <1>1, <1>4 DEF PayBatch

-----------------------------------------------------------------------------
\* What no step takes back: batches and rows stay, and so do ledger entries.
PayGrows ==
  /\ DOMAIN payBatches \subseteq DOMAIN payBatches' /\ DOMAIN ledger \subseteq DOMAIN ledger'
  /\ \A b \in DOMAIN payBatches : \A i \in DOMAIN payBatches[b].rows :
       i \in DOMAIN payBatches'[b].rows /\ payBatches'[b].rows[i].row = payBatches[b].rows[i].row
  /\ \A k \in DOMAIN ledger : ledger'[k] = ledger[k]

LEMMA PayKept ==
  ASSUME Pay!PimTypeOK, NEW k \in Handlers, PayAsks(k), payReqs'[k] = payReqs[k], PayGrows,
         payReqs[k].pc = "store" => payBatches'[payReqs[k].batch].rows = payBatches[payReqs[k].batch].rows
  PROVE  PayAsks(k)'
<1> DEFINE q == payReqs[k]
<1>1. \A b, i : Pay!Entries(b, i) \subseteq Pay!Entries(b, i)'
 BY DEF PayGrows, Pay!Entries
<1>2. PayConfirms(k)' <=> PayConfirms(k) BY DEF PayConfirms
<1>3. PayConfirms(k) => PayAgrees(q.rows, payBatches'[q.batch].rows)
 <2>1. q.pc # "idle" => q.batch \in DOMAIN payBatches BY DEF PayAsks
 <2>2. PayConfirms(k) => PayAgrees(q.rows, payBatches[q.batch].rows) /\ q.batch \in DOMAIN payBatches
  BY <2>1 DEF PayAsks, PayConfirms
 <2>3. QED BY <2>2 DEF PayAgrees, PayGrows
<1>4. q.pc = "participant" => \E j \in Pay!Entries(q.batch, q.i)' : ledger'[j].company = q.rows[q.i].sponsor
 <2>1. q.pc = "participant" => \E j \in Pay!Entries(q.batch, q.i) : ledger[j].company = q.rows[q.i].sponsor
  BY DEF PayAsks
 <2>2. \A j \in Pay!Entries(q.batch, q.i) : ledger'[j] = ledger[j]
  BY DEF PayGrows, Pay!Entries
 <2>3. QED BY <1>1, <2>1, <2>2
<1>5. QED BY <1>2, <1>3, <1>4 DEF PayAsks, PayGrows, Pay!Entries

\* The shape after a step of one request: the batches and the ledger have grown,
\* the request asks what it may, and no other stores the batch that it stores.
LEMMA PayOthers ==
  ASSUME PayShape, NEW h \in Handlers, NEW r, payReqs' = [payReqs EXCEPT ![h] = r], PayGrows,
         r \in PayReqs, PayAsks(h)',
         \A k \in Handlers \ {h} : payReqs[k].pc = "store" =>
           /\ payBatches'[payReqs[k].batch].rows = payBatches[payReqs[k].batch].rows
           /\ r.pc = "store" => r.batch # payReqs[k].batch
  PROVE  /\ payReqs' \in [Handlers -> PayReqs]
         /\ \A k \in Handlers : PayAsks(k)'
         /\ \A k, l \in Handlers : k # l /\ payReqs'[k].pc = "store" /\ payReqs'[l].pc = "store" =>
              payReqs'[k].batch # payReqs'[l].batch
<1>1. Pay!PimTypeOK /\ payReqs \in [Handlers -> PayReqs]
 BY PayTypes DEF PayShape
<1>2. \A k \in Handlers : payReqs'[k] = IF k = h THEN r ELSE payReqs[k]
 BY <1>1
<1>3. \A k \in Handlers \ {h} : PayAsks(k)'
 BY <1>1, <1>2, PayKept DEF PayShape
<1>4. QED BY <1>1, <1>2, <1>3 DEF PayShape

\* Only the batches' statuses, or nothing of the batches, may change beside the ledger.
LEMMA PayRowsSame ==
  ASSUME PayShape, DOMAIN payBatches' = DOMAIN payBatches, ledger' = ledger,
         \A b \in DOMAIN payBatches : payBatches'[b].rows = payBatches[b].rows
  PROVE  /\ PayGrows
         /\ \A b \in DOMAIN payBatches' : \A i \in DOMAIN payBatches'[b].rows :
              payBatches'[b].rows[i].sponsor \in {None, payBatches'[b].rows[i].row.company}
         /\ \A k \in DOMAIN ledger' : ledger'[k].batch \in DOMAIN payBatches'
         /\ Pay!ImportedIsRecorded'
BY DEF PayShape, PayGrows, Pay!ImportedIsRecorded, Pay!Entries

LEMMA PaySponsorStep ==
  ASSUME PayShape, NEW h \in Handlers, NEW s \in Companies, Pay!SetSponsor(h, s), payCalm' \in BOOLEAN
  PROVE  PayShape'
<1>1. sponsors' \subseteq Companies /\ UNCHANGED <<ledger, payBatches, payReqs, halted>>
 BY DEF Pay!SetSponsor, PayShape, Pay!PimTypeOK
<1>2. Pay!PimTypeOK' BY <1>1 DEF PayShape, Pay!PimTypeOK
<1>3. \A k \in Handlers : PayAsks(k)'
 BY <1>1 DEF PayShape, PayAsks, PayConfirms, PayAgrees, Pay!Entries
<1>4. QED BY <1>1, <1>2, <1>3 DEF PayShape, Pay!ImportedIsRecorded, Pay!Entries

LEMMA PayPreviewStep ==
  ASSUME PayShape, NEW h \in Handlers, NEW f \in PayFiles, Pay!PreviewBatch(h, f), payCalm' \in BOOLEAN
  PROVE  PayShape'
<1> DEFINE n == Len(payBatches) + 1
           rows == [i \in DOMAIN f |-> [row |-> f[i], sponsor |-> Pay!Match(f[i], sponsors), status |-> Pay!Noted(f[i])]]
           r == [pc |-> "store", batch |-> n, rows |-> rows]
           new == [status |-> "previewing", rows |-> <<>>]
<1>1. /\ Pay!PimTypeOK /\ payBatches \in Seq(PayBatch) /\ payReqs \in [Handlers -> PayReqs]
      /\ Len(payBatches) \in Nat /\ DOMAIN payBatches = 1 .. Len(payBatches)
 BY PayTypes DEF PayShape
<1>2. Len(payBatches) < MaxBatches /\ payBatches' = Append(payBatches, new) /\ UNCHANGED <<sponsors, ledger, halted>>
 BY DEF Pay!PreviewBatch
<1>3. payReqs' = [payReqs EXCEPT ![h] = r]
 BY DEF Pay!PreviewBatch, Pay!Goto
<1>4. MaxBatches \in Nat /\ None \notin Companies /\ f \in Seq(Pay!FileRows)
 BY EventureAssumption DEF Pay!FilesAssumption
<1>5. /\ rows \in Seq(Pay!StoredRows)
      /\ \A i \in DOMAIN rows : /\ rows[i].status \in {"valid", "warning", "error"}
                                /\ rows[i].sponsor \in {None, rows[i].row.company}
 <2>1. Len(f) \in Nat /\ DOMAIN f = 1 .. Len(f) /\ \A i \in DOMAIN f : f[i] \in Pay!FileRows
  BY <1>4, SeqShape
 <2>2. \A w \in Pay!FileRows :
         /\ Pay!Match(w, sponsors) \in {None, w.company} /\ w.company \in Companies \cup {None}
         /\ Pay!Noted(w) \in {"valid", "warning", "error"}
  BY DEF Pay!Match, Pay!Noted, Pay!FileRows
 <2>3. \A i \in 1 .. Len(f) : rows[i] \in Pay!StoredRows
  BY <2>1, <2>2 DEF Pay!StoredRows
 <2>4. rows \in [1 .. Len(f) -> Pay!StoredRows] BY <2>1, <2>3
 <2>5. rows \in Seq(Pay!StoredRows) /\ DOMAIN rows = 1 .. Len(f)
  BY <2>1, <2>4, SeqMaps
 <2>6. QED BY <2>1, <2>2, <2>5
<1>6. /\ payBatches' \in Seq(PayBatch) /\ Len(payBatches') = n /\ DOMAIN payBatches' = 1 .. n
      /\ \A b \in DOMAIN payBatches : payBatches'[b] = payBatches[b]
      /\ payBatches'[n] = new
 <2>1. new \in PayBatch BY EmptySeq DEF PayBatch, Pay!Awaiting
 <2>2. QED BY <1>1, <1>2, <2>1, SeqAppends
<1>7. r \in PayReqs
 <2>1. n \in 1 .. MaxBatches BY <1>1, <1>2, <1>4
 <2>2. QED BY <1>5, <2>1 DEF PayReqs, Pay!Previews
<1>8. payReqs'[h] = r BY <1>1, <1>3
<1>9. PayAsks(h)' BY <1>1, <1>5, <1>6, <1>8 DEF PayAsks, PayConfirms
<1>10. PayGrows BY <1>1, <1>2, <1>6 DEF PayGrows
<1>11. \A k \in Handlers \ {h} : payReqs[k].pc = "store" =>
          payReqs[k].batch \in DOMAIN payBatches /\ payReqs[k].batch # n
 BY <1>1 DEF PayShape, PayAsks
<1>12. /\ payReqs' \in [Handlers -> PayReqs] /\ \A k \in Handlers : PayAsks(k)'
       /\ \A k, l \in Handlers : k # l /\ payReqs'[k].pc = "store" /\ payReqs'[l].pc = "store" =>
            payReqs'[k].batch # payReqs'[l].batch
 <2> HIDE DEF r
 <2>1. r.batch = n BY DEF r
 <2>2. \A k \in Handlers \ {h} : payReqs[k].pc = "store" =>
         /\ payBatches'[payReqs[k].batch].rows = payBatches[payReqs[k].batch].rows
         /\ r.pc = "store" => r.batch # payReqs[k].batch
  BY <1>6, <1>11, <2>1
 <2>3. QED BY <1>3, <1>7, <1>9, <1>10, <2>2, PayOthers
<1>13. Pay!PimTypeOK'
 BY <1>1, <1>2, <1>4, <1>6, <1>12 DEF Pay!PimTypeOK, PayBatch, PayReqs
<1>14. \A b \in DOMAIN payBatches' : b \in DOMAIN payBatches \/ payBatches'[b].rows = <<>>
 BY <1>1, <1>6
<1>15. /\ \A b \in DOMAIN payBatches' : \A i \in DOMAIN payBatches'[b].rows :
            payBatches'[b].rows[i].sponsor \in {None, payBatches'[b].rows[i].row.company}
       /\ Pay!ImportedIsRecorded'
 BY <1>2, <1>6, <1>14, EmptySeq DEF PayShape, Pay!ImportedIsRecorded, Pay!Entries
<1>16. \A k \in DOMAIN ledger' : ledger'[k].batch \in DOMAIN payBatches'
 BY <1>1, <1>2, <1>6 DEF PayShape
<1>17. QED BY <1>12, <1>13, <1>15, <1>16 DEF PayShape


LEMMA PayStoreStep ==
  ASSUME PayShape, NEW h \in Handlers, Pay!StoreRows(h), payCalm' \in BOOLEAN
  PROVE  PayShape'
<1> DEFINE q == payReqs[h]
           b == q.batch
           r == [q EXCEPT !.pc = "summary"]
           new == [payBatches[b] EXCEPT !.rows = q.rows]
<1>1. /\ Pay!PimTypeOK /\ payBatches \in Seq(PayBatch) /\ payReqs \in [Handlers -> PayReqs]
      /\ q.pc = "store" /\ q \in Pay!Previews /\ UNCHANGED <<sponsors, ledger, halted>>
 BY PayTypes DEF PayShape, Pay!StoreRows, Pay!At
<1>2. payBatches' = [payBatches EXCEPT ![b] = new] /\ payReqs' = [payReqs EXCEPT ![h] = r]
 BY DEF Pay!StoreRows, Pay!Goto
<1>3. /\ b \in DOMAIN payBatches /\ payBatches[b].rows = <<>> /\ payBatches[b] \in PayBatch
      /\ \A i \in DOMAIN q.rows : /\ q.rows[i].status \in {"valid", "warning", "error"}
                                  /\ q.rows[i].sponsor \in {None, q.rows[i].row.company}
 BY <1>1, PayTypes DEF PayShape, PayAsks
<1>4. new \in PayBatch /\ new.rows = q.rows /\ new.status = payBatches[b].status
 BY <1>1, <1>3 DEF PayBatch, Pay!Previews
<1>5. /\ payBatches' \in Seq(PayBatch) /\ Len(payBatches') = Len(payBatches) /\ DOMAIN payBatches' = DOMAIN payBatches
      /\ \A c \in DOMAIN payBatches : payBatches'[c] = IF c = b THEN new ELSE payBatches[c]
 <2> HIDE DEF new, b
 <2>1. QED BY <1>1, <1>2, <1>3, <1>4, SeqReplaces
<1>6. r \in PayReqs /\ r.pc = "summary" /\ r.batch = b /\ r.rows = q.rows
 BY <1>1 DEF PayReqs, Pay!Previews
<1>7. payReqs'[h] = r BY <1>1, <1>2
<1>8. PayAsks(h)'
 <2> HIDE DEF r
 <2>1. QED BY <1>3, <1>5, <1>6, <1>7 DEF PayAsks, PayConfirms
<1>9. PayGrows BY <1>1, <1>3, <1>5, EmptySeq DEF PayGrows
<1>10. \A k \in Handlers \ {h} : payReqs[k].pc = "store" =>
          /\ payBatches'[payReqs[k].batch].rows = payBatches[payReqs[k].batch].rows
          /\ r.pc = "store" => r.batch # payReqs[k].batch
 BY <1>1, <1>5, <1>6 DEF PayShape, PayAsks
<1>11. /\ payReqs' \in [Handlers -> PayReqs] /\ \A k \in Handlers : PayAsks(k)'
       /\ \A k, l \in Handlers : k # l /\ payReqs'[k].pc = "store" /\ payReqs'[l].pc = "store" =>
            payReqs'[k].batch # payReqs'[l].batch
 <2> HIDE DEF r
 <2>1. QED BY <1>2, <1>6, <1>8, <1>9, <1>10, PayOthers
<1>12. Pay!PimTypeOK'
 BY <1>1, <1>5, <1>11 DEF Pay!PimTypeOK, PayBatch, PayReqs
<1>13. /\ \A c \in DOMAIN payBatches' : \A i \in DOMAIN payBatches'[c].rows :
            payBatches'[c].rows[i].sponsor \in {None, payBatches'[c].rows[i].row.company}
       /\ Pay!ImportedIsRecorded'
 <2>1. \A c \in DOMAIN payBatches : payBatches'[c].rows = IF c = b THEN q.rows ELSE payBatches[c].rows
  BY <1>4, <1>5
 <2>2. \A c \in DOMAIN payBatches : \A i \in DOMAIN payBatches'[c].rows :
           payBatches'[c].rows[i].sponsor \in {None, payBatches'[c].rows[i].row.company}
  BY <1>3, <2>1 DEF PayShape
 <2>3. \A c \in DOMAIN payBatches : \A i \in DOMAIN payBatches'[c].rows :
           payBatches'[c].rows[i].status = "imported" => payBatches'[c].rows = payBatches[c].rows
  BY <1>3, <2>1
 <2>4. ledger' = ledger /\ \A c, i : Pay!Entries(c, i)' = Pay!Entries(c, i)
  BY <1>1 DEF Pay!Entries
 <2>5. Pay!ImportedIsRecorded'
  BY <1>5, <2>3, <2>4 DEF PayShape, Pay!ImportedIsRecorded
 <2>6. QED BY <1>5, <2>2, <2>5
<1>14. \A k \in DOMAIN ledger' : ledger'[k].batch \in DOMAIN payBatches'
 BY <1>1, <1>5 DEF PayShape
<1>15. QED BY <1>11, <1>12, <1>13, <1>14 DEF PayShape

\* A batch gets a status and its request ends: the end of a preview and of a confirm.
LEMMA PayStatusStep ==
  ASSUME PayShape, NEW h \in Handlers, payReqs[h].pc # "idle", NEW st \in Pay!Awaiting \cup Pay!Over,
         payBatches' = [payBatches EXCEPT ![payReqs[h].batch].status = st],
         Pay!Finish(h), UNCHANGED <<sponsors, ledger, halted>>, payCalm' \in BOOLEAN
  PROVE  PayShape'
<1> DEFINE b == payReqs[h].batch
<1>1. Pay!PimTypeOK /\ payReqs \in [Handlers -> PayReqs] /\ b \in DOMAIN payBatches
 BY PayTypes DEF PayShape, PayAsks
<1>2. payReqs' = [payReqs EXCEPT ![h] = Pay!PimIdle] /\ Pay!PimIdle.pc = "idle"
 BY DEF Pay!Finish, Pay!Goto, Pay!PimIdle
<1>3. /\ payBatches' \in Seq(PayBatch) /\ Len(payBatches') = Len(payBatches) /\ DOMAIN payBatches' = DOMAIN payBatches
      /\ \A c \in DOMAIN payBatches : payBatches'[c].rows = payBatches[c].rows
 BY <1>1, PayStatus
<1>4. /\ PayGrows
      /\ \A c \in DOMAIN payBatches' : \A i \in DOMAIN payBatches'[c].rows :
           payBatches'[c].rows[i].sponsor \in {None, payBatches'[c].rows[i].row.company}
      /\ \A k \in DOMAIN ledger' : ledger'[k].batch \in DOMAIN payBatches'
      /\ Pay!ImportedIsRecorded'
 BY <1>3, PayRowsSame
<1>5. PayAsks(h)' BY <1>1, <1>2 DEF PayAsks, PayConfirms
<1>6. \A k \in Handlers \ {h} : payReqs[k].pc = "store" =>
          payBatches'[payReqs[k].batch].rows = payBatches[payReqs[k].batch].rows
 BY <1>3 DEF PayShape, PayAsks
<1>7. /\ payReqs' \in [Handlers -> PayReqs] /\ \A k \in Handlers : PayAsks(k)'
      /\ \A k, l \in Handlers : k # l /\ payReqs'[k].pc = "store" /\ payReqs'[l].pc = "store" =>
           payReqs'[k].batch # payReqs'[l].batch
 <2>1. Pay!PimIdle \in PayReqs BY DEF PayReqs
 <2>2. QED BY <1>2, <1>4, <1>5, <1>6, <2>1, PayOthers
<1>8. Pay!PimTypeOK'
 BY <1>1, <1>3, <1>7 DEF Pay!PimTypeOK, PayBatch, PayReqs
<1>9. QED BY <1>4, <1>7, <1>8 DEF PayShape

\* Only the requests change.
LEMMA PayGotoStep ==
  ASSUME PayShape, NEW h \in Handlers, NEW r \in PayReqs, r.pc # "store", Pay!Goto(h, r), PayAsks(h)',
         UNCHANGED <<sponsors, ledger, payBatches>>, halted' \subseteq 1 .. MaxBatches, payCalm' \in BOOLEAN
  PROVE  PayShape'
<1>1. payReqs' = [payReqs EXCEPT ![h] = r] /\ Pay!PimTypeOK
 BY DEF Pay!Goto, PayShape
<1>2. /\ PayGrows
      /\ \A c \in DOMAIN payBatches' : \A i \in DOMAIN payBatches'[c].rows :
           payBatches'[c].rows[i].sponsor \in {None, payBatches'[c].rows[i].row.company}
      /\ \A k \in DOMAIN ledger' : ledger'[k].batch \in DOMAIN payBatches'
      /\ Pay!ImportedIsRecorded'
 BY PayRowsSame
<1>3. /\ payReqs' \in [Handlers -> PayReqs] /\ \A k \in Handlers : PayAsks(k)'
      /\ \A k, l \in Handlers : k # l /\ payReqs'[k].pc = "store" /\ payReqs'[l].pc = "store" =>
           payReqs'[k].batch # payReqs'[l].batch
 BY <1>1, <1>2, PayOthers
<1>4. Pay!PimTypeOK' BY <1>1, <1>3 DEF Pay!PimTypeOK, PayReqs
<1>5. QED BY <1>2, <1>3, <1>4 DEF PayShape

LEMMA PayEdits ==
  ASSUME NEW row \in Pay!FileRows, NEW choice \in Choices
  PROVE  /\ Pay!Edited(row, choice) \in Pay!FileRows /\ choice.does \in {"approve", "skip", "none"}
         /\ Pay!Edited(row, choice).company \in {row.company} \cup PayNamed
<1>1. choice \in [does : {"approve", "skip", "none"}, company : Companies \cup {None}, data : BOOLEAN]
 BY EventureAssumption DEF Pay!FilesAssumption
<1>2. PICK c : c = IF choice.company # None THEN choice.company ELSE row.company
 OBVIOUS
<1>3. PICK d : d = (row.data \/ choice.data) OBVIOUS
<1>4. c \in Companies \cup {None} /\ d \in BOOLEAN /\ choice.does \in {"approve", "skip", "none"}
 <2>1. row.company \in Companies \cup {None} /\ choice.company \in Companies \cup {None}
  BY <1>1 DEF Pay!FileRows
 <2>2. d \in BOOLEAN BY <1>3
 <2>3. QED BY <1>1, <1>2, <2>1, <2>2
<1>5. Pay!Edited(row, choice) = [company |-> c, data |-> d]
 BY <1>2, <1>3 DEF Pay!Edited
<1>6. c \in {row.company} \cup PayNamed BY <1>2 DEF PayNamed
<1>7. QED BY <1>4, <1>5, <1>6 DEF Pay!FileRows

LEMMA PayConfirmReadStep ==
  ASSUME PayShape, NEW h \in Handlers, NEW b \in DOMAIN payBatches,
         NEW choice \in [DOMAIN payBatches[b].rows -> Choices], Pay!ConfirmRead(h, b, choice), payCalm' \in BOOLEAN
  PROVE  PayShape'
<1> DEFINE stored == payBatches[b].rows
           edits == [i \in DOMAIN stored |-> Pay!Edited(stored[i].row, choice[i])]
           sponsor == [i \in DOMAIN stored |->
             IF Pay!Match(edits[i], sponsors) # None THEN Pay!Match(edits[i], sponsors) ELSE stored[i].sponsor]
           decided == [i \in DOMAIN stored |->
             IF choice[i].does # "none" THEN choice[i].does ELSE IF sponsor[i] # None THEN "approve" ELSE "skip"]
           rows == [i \in DOMAIN stored |-> [row |-> edits[i], sponsor |-> sponsor[i], decided |-> decided[i]]]
           r == [pc |-> "row", batch |-> b, i |-> 1, rows |-> rows, imported |-> 0, failed |-> 0, passed |-> 0]
<1>1. Pay!Goto(h, r) /\ UNCHANGED <<sponsors, ledger, payBatches, halted>>
 BY DEF Pay!ConfirmRead
<1>2. /\ Len(stored) \in Nat /\ DOMAIN stored = 1 .. Len(stored) /\ b \in 1 .. MaxBatches
      /\ payReqs \in [Handlers -> PayReqs]
      /\ \A i \in DOMAIN stored : /\ stored[i] \in Pay!StoredRows
                                  /\ stored[i].sponsor \in {None, stored[i].row.company}
 BY PayTypes, SeqShape DEF PayShape
<1>3. ASSUME NEW i \in DOMAIN stored
      PROVE  /\ sponsor[i] \in {None, stored[i].row.company} \cup PayNamed /\ edits[i] \in Pay!FileRows
             /\ sponsor[i] \in Companies \cup {None} /\ decided[i] \in {"approve", "skip"}
 <2>1. choice[i] \in Choices /\ stored[i].row \in Pay!FileRows /\ stored[i].sponsor \in Companies \cup {None}
  BY <1>2 DEF Pay!StoredRows
 <2>2. PICK e : e = Pay!Edited(stored[i].row, choice[i]) OBVIOUS
 <2>3. e \in Pay!FileRows /\ e.company \in {stored[i].row.company} \cup PayNamed /\ choice[i].does \in {"approve", "skip", "none"}
  BY <2>1, <2>2, PayEdits
 <2>4. Pay!Match(e, sponsors) \in {None, e.company} /\ e.company \in Companies \cup {None}
  BY <2>3 DEF Pay!Match, Pay!FileRows
 <2>5. sponsor[i] = IF Pay!Match(e, sponsors) # None THEN Pay!Match(e, sponsors) ELSE stored[i].sponsor
  BY <2>2
 <2>6. sponsor[i] \in {None, stored[i].row.company} \cup PayNamed /\ sponsor[i] \in Companies \cup {None}
  <3> HIDE DEF sponsor
  <3>1. QED BY <1>2, <2>1, <2>3, <2>4, <2>5
 <2>7. edits[i] \in Pay!FileRows BY <2>2, <2>3
 <2>8. decided[i] \in {"approve", "skip"}
  <3> HIDE DEF sponsor
  <3>1. QED BY <2>3
 <2> HIDE DEF sponsor, decided, edits
 <2>9. QED BY <2>6, <2>7, <2>8
<1>4. rows \in [1 .. Len(stored) -> Pay!DecidedRows]
 <2> HIDE DEF sponsor, decided, edits
 <2>1. QED BY <1>2, <1>3 DEF Pay!DecidedRows
<1>5. rows \in Seq(Pay!DecidedRows) /\ DOMAIN rows = DOMAIN stored
 BY <1>2, <1>4, SeqMaps
<1>6. r \in PayReqs
 <2> HIDE DEF rows
 <2>1. QED BY <1>2, <1>5 DEF PayReqs, Pay!Confirms
<1>7. payReqs'[h] = r BY <1>1, <1>2 DEF Pay!Goto
<1>8. PayAgrees(rows, stored)
 <2> HIDE DEF sponsor, decided, edits
 <2>1. QED BY <1>3, <1>5 DEF PayAgrees
<1>9. PayAsks(h)'
 <2> HIDE DEF rows
 <2>1. QED BY <1>1, <1>7, <1>8 DEF PayAsks, PayConfirms
<1>10. QED
 <2>1. r.pc # "store" OBVIOUS
 <2>2. halted' \subseteq 1 .. MaxBatches
  BY <1>1 DEF PayShape, Pay!PimTypeOK
 <2> HIDE DEF r
 <2>3. QED BY <1>1, <1>6, <1>9, <2>1, <2>2, PayGotoStep


\* What is left of a confirm's request when a row got its status.
PayNext(q, st, both) ==
  [q EXCEPT !.pc = "row", !.i = @ + 1,
     !.imported = IF st = "imported" \/ both THEN @ + 1 ELSE @,
     !.failed = IF st = "failed" THEN @ + 1 ELSE @,
     !.passed = IF st \in {"skipped", "unmatched"} THEN @ + 1 ELSE @]

LEMMA PayMarked ==
  ASSUME NEW q \in Pay!Confirms, NEW st, NEW both
  PROVE  /\ PayNext(q, st, both) \in Pay!Confirms /\ PayNext(q, st, both).pc = "row"
         /\ PayNext(q, st, both).batch = q.batch /\ PayNext(q, st, both).rows = q.rows /\ PayNext(q, st, both).i = q.i + 1
         /\ PayNext(q, st, both).imported = IF st = "imported" \/ both THEN q.imported + 1 ELSE q.imported
         /\ PayNext(q, st, both).failed = IF st = "failed" THEN q.failed + 1 ELSE q.failed
         /\ PayNext(q, st, both).passed = IF st \in {"skipped", "unmatched"} THEN q.passed + 1 ELSE q.passed
<1>1. PICK m : m = IF st = "imported" \/ both THEN q.imported + 1 ELSE q.imported
 OBVIOUS
<1>2. PICK f : f = IF st = "failed" THEN q.failed + 1 ELSE q.failed
 OBVIOUS
<1>3. PICK p : p = IF st \in {"skipped", "unmatched"} THEN q.passed + 1 ELSE q.passed
 OBVIOUS
<1>4. /\ q.i \in Nat \ {0} /\ q.batch \in 1 .. MaxBatches /\ q.rows \in Seq(Pay!DecidedRows)
      /\ q.imported \in Nat /\ q.failed \in Nat /\ q.passed \in Nat
 BY DEF Pay!Confirms
<1>5. m \in Nat /\ f \in Nat /\ p \in Nat BY <1>1, <1>2, <1>3, <1>4
<1>6. PICK r : r = [pc |-> "row", batch |-> q.batch, i |-> q.i + 1, rows |-> q.rows, imported |-> m, failed |-> f, passed |-> p]
 OBVIOUS
<1>7. PayNext(q, st, both) = r
 <2>1. PayNext(q, st, both) = [q EXCEPT !.pc = "row", !.i = q.i + 1, !.imported = m, !.failed = f, !.passed = p]
  BY <1>1, <1>2, <1>3 DEF PayNext
 <2>2. QED BY <1>6, <2>1 DEF Pay!Confirms
<1>8. r \in Pay!Confirms
 <2>1. q.i + 1 \in Nat \ {0} BY <1>4
 <2>2. QED BY <1>4, <1>5, <1>6, <2>1 DEF Pay!Confirms
<1>9. /\ r.pc = "row" /\ r.batch = q.batch /\ r.rows = q.rows /\ r.i = q.i + 1
      /\ r.imported = m /\ r.failed = f /\ r.passed = p
 BY <1>6
<1>10. QED BY <1>1, <1>2, <1>3, <1>7, <1>8, <1>9

\* A row of a confirm gets its status.
LEMMA PayMarkStep ==
  ASSUME PayShape, NEW h \in Handlers, PayConfirms(h), payReqs[h].i \in DOMAIN payReqs[h].rows,
         NEW st \in {"imported", "failed", "skipped", "unmatched"}, NEW both \in BOOLEAN, st = "imported" => payReqs[h].pc = "participant",
         Pay!Mark(h, st, both), UNCHANGED <<sponsors, ledger, halted>>, payCalm' \in BOOLEAN
  PROVE  PayShape'
<1> DEFINE q == payReqs[h]
           b == q.batch
           r == PayNext(q, st, both)
<1>1. /\ Pay!PimTypeOK /\ payReqs \in [Handlers -> PayReqs] /\ q \in Pay!Confirms
      /\ b \in DOMAIN payBatches /\ PayAgrees(q.rows, payBatches[b].rows) /\ q.i \in DOMAIN payBatches[b].rows
 <2>1. Pay!PimTypeOK /\ payReqs \in [Handlers -> PayReqs] /\ q \in Pay!Confirms
  BY PayTypes DEF PayShape
 <2>2. b \in DOMAIN payBatches /\ PayAgrees(q.rows, payBatches[b].rows)
  BY DEF PayShape, PayAsks, PayConfirms
 <2>3. QED BY <2>1, <2>2 DEF PayAgrees
<1>2. /\ payBatches' = [payBatches EXCEPT ![b].rows[q.i].status = st]
      /\ payReqs' = [payReqs EXCEPT ![h] = r]
 BY DEF Pay!Mark, Pay!Goto, PayNext
<1>3. /\ payBatches' \in Seq(PayBatch) /\ Len(payBatches') = Len(payBatches) /\ DOMAIN payBatches' = DOMAIN payBatches
      /\ \A c \in DOMAIN payBatches :
           /\ DOMAIN payBatches'[c].rows = DOMAIN payBatches[c].rows
           /\ \A j \in DOMAIN payBatches[c].rows :
                /\ payBatches'[c].rows[j].row = payBatches[c].rows[j].row
                /\ payBatches'[c].rows[j].sponsor = payBatches[c].rows[j].sponsor
                /\ payBatches'[c].rows[j].status = IF c = b /\ j = q.i THEN st ELSE payBatches[c].rows[j].status
 <2>1. PayWrites(b, q.i, st) BY <1>2 DEF PayWrites
 <2>2. b \in DOMAIN payBatches /\ q.i \in DOMAIN payBatches[b].rows /\ Pay!PimTypeOK
  BY <1>1
 <2> HIDE DEF b, q
 <2>3. QED BY <2>1, <2>2, PayMarks
<1>4. r \in PayReqs /\ r.pc = "row" /\ r.batch = b /\ r.rows = q.rows
 BY <1>1, PayMarked DEF PayReqs
<1>5. payReqs'[h] = r BY <1>1, <1>2
<1>6. PayAsks(h)'
 <2>1. PayAgrees(q.rows, payBatches'[b].rows) BY <1>1, <1>3 DEF PayAgrees
 <2> HIDE DEF r
 <2>2. QED BY <1>1, <1>3, <1>4, <1>5, <2>1 DEF PayAsks, PayConfirms
<1>7. PayGrows BY <1>3 DEF PayGrows
<1>8. \A k \in Handlers \ {h} : payReqs[k].pc = "store" =>
          payBatches'[payReqs[k].batch].rows = payBatches[payReqs[k].batch].rows
 <2> SUFFICES ASSUME NEW k \in Handlers \ {h}, payReqs[k].pc = "store"
              PROVE  payBatches'[payReqs[k].batch].rows = payBatches[payReqs[k].batch].rows
  OBVIOUS
 <2>1. payReqs[k].batch \in DOMAIN payBatches /\ payBatches[payReqs[k].batch].rows = <<>>
  BY DEF PayShape, PayAsks
 <2>2. payBatches'[payReqs[k].batch] = payBatches[payReqs[k].batch]
  <3>1. payReqs[k].batch # b BY <1>1, <2>1, EmptySeq
  <3>2. QED BY <1>2, <2>1, <3>1
 <2>3. QED BY <2>2
<1>9. /\ payReqs' \in [Handlers -> PayReqs] /\ \A k \in Handlers : PayAsks(k)'
      /\ \A k, l \in Handlers : k # l /\ payReqs'[k].pc = "store" /\ payReqs'[l].pc = "store" =>
           payReqs'[k].batch # payReqs'[l].batch
 <2> HIDE DEF r
 <2>1. QED BY <1>2, <1>4, <1>6, <1>7, <1>8, PayOthers
<1>10. Pay!PimTypeOK'
 BY <1>1, <1>3, <1>9 DEF Pay!PimTypeOK, PayBatch, PayReqs
<1>11. \A c \in DOMAIN payBatches' : \A i \in DOMAIN payBatches'[c].rows :
            payBatches'[c].rows[i].sponsor \in {None, payBatches'[c].rows[i].row.company}
 BY <1>3 DEF PayShape
<1>12. Pay!ImportedIsRecorded'
 <2> SUFFICES ASSUME NEW c \in DOMAIN payBatches, NEW i \in DOMAIN payBatches[c].rows,
                     payBatches'[c].rows[i].status = "imported"
              PROVE  \E k \in Pay!Entries(c, i) : ledger[k].company \in {payBatches[c].rows[i].row.company} \cup PayNamed
  <3>1. \A c, i : Pay!Entries(c, i)' = Pay!Entries(c, i)
   BY DEF Pay!Entries
  <3>2. QED BY <1>3, <3>1 DEF Pay!ImportedIsRecorded, PayNamed
 <2>1. CASE c = b /\ i = q.i
  <3>1. q.pc = "participant" BY <1>3, <2>1
  <3>2. \E k \in Pay!Entries(b, q.i) : ledger[k].company = q.rows[q.i].sponsor
   BY <3>1 DEF PayShape, PayAsks
  <3>3. q.rows[q.i].sponsor # None BY <3>1 DEF PayShape, PayAsks
  <3>4. q.rows[q.i].sponsor \in {payBatches[b].rows[q.i].row.company} \cup PayNamed
   <4>1. q.i \in DOMAIN q.rows BY <3>1 DEF PayShape, PayAsks
   <4>2. QED BY <1>1, <3>3, <4>1 DEF PayAgrees
  <3>5. QED BY <2>1, <3>2, <3>4
 <2>2. CASE ~(c = b /\ i = q.i)
  <3>1. payBatches[c].rows[i].status = "imported" BY <1>3, <2>2
  <3>2. QED BY <3>1 DEF PayShape, Pay!ImportedIsRecorded, PayNamed
 <2>3. QED BY <2>1, <2>2
<1>13. \A k \in DOMAIN ledger' : ledger'[k].batch \in DOMAIN payBatches'
 BY <1>3 DEF PayShape
<1>14. QED BY <1>9, <1>10, <1>11, <1>12, <1>13 DEF PayShape

LEMMA PayRecordStep ==
  ASSUME PayShape, NEW h \in Handlers, Pay!Record(h), payCalm' \in BOOLEAN
  PROVE  PayShape'
<1> DEFINE q == payReqs[h]
           r == [q EXCEPT !.pc = "participant"]
           e == [company |-> q.rows[q.i].sponsor, batch |-> q.batch, row |-> q.i]
           Entry == [company : Companies, batch : 1 .. MaxBatches, row : Nat \ {0}]
<1>1. /\ Pay!PimTypeOK /\ payReqs \in [Handlers -> PayReqs] /\ q.pc = "pay" /\ q \in Pay!Confirms
      /\ q.batch \in DOMAIN payBatches /\ q.i \in DOMAIN q.rows /\ q.rows[q.i].sponsor # None
      /\ PayAgrees(q.rows, payBatches[q.batch].rows) /\ q.batch \in 1 .. MaxBatches
 <2>1. q.pc = "pay" BY DEF Pay!Record, Pay!At
 <2>2. q.batch \in DOMAIN payBatches /\ q.i \in DOMAIN q.rows /\ q.rows[q.i].sponsor # None
       /\ PayAgrees(q.rows, payBatches[q.batch].rows)
  BY <2>1 DEF PayShape, PayAsks, PayConfirms
 <2>3. QED BY <2>1, <2>2, PayTypes DEF PayShape, PayConfirms
<1>2. /\ ledger' = Append(ledger, e) /\ payReqs' = [payReqs EXCEPT ![h] = r] /\ UNCHANGED <<sponsors, payBatches, halted>>
 BY DEF Pay!Record, Pay!Goto, Pay!Row
<1>3. e \in Entry
 <2>1. q.rows \in Seq(Pay!DecidedRows) /\ q.i \in Nat \ {0}
  BY <1>1 DEF Pay!Confirms
 <2>2. q.rows[q.i] \in Pay!DecidedRows BY <1>1, <2>1, SeqShape
 <2>3. QED BY <1>1, <2>1, <2>2 DEF Pay!DecidedRows
<1>4. /\ ledger' \in Seq(Entry) /\ DOMAIN ledger = 1 .. Len(ledger) /\ DOMAIN ledger' = 1 .. Len(ledger) + 1
      /\ Len(ledger) \in Nat /\ \A k \in DOMAIN ledger : ledger'[k] = ledger[k]
      /\ ledger'[Len(ledger) + 1] = e
 <2>1. ledger \in Seq(Entry) BY <1>1 DEF Pay!PimTypeOK
 <2> HIDE DEF e, Entry
 <2>2. QED BY <1>2, <1>3, <2>1, SeqAppends, SeqShape
<1>5. r \in PayReqs /\ r.pc = "participant" /\ r.batch = q.batch /\ r.rows = q.rows /\ r.i = q.i
 BY <1>1 DEF PayReqs, Pay!Confirms
<1>6. payReqs'[h] = r BY <1>1, <1>2
<1>7. PayAsks(h)'
 <2>0. e.batch = q.batch /\ e.row = q.i /\ e.company = q.rows[q.i].sponsor
  OBVIOUS
 <2>1. Len(ledger) + 1 \in DOMAIN ledger' /\ ledger'[Len(ledger) + 1] = e
  BY <1>4
 <2> HIDE DEF e
 <2>2. q.batch = payReqs'[h].batch /\ q.i = payReqs'[h].i /\ q.rows = payReqs'[h].rows
  BY <1>5, <1>6
 <2>3. Len(ledger) + 1 \in Pay!Entries(q.batch, q.i)'
  BY <2>0, <2>1, <2>2 DEF Pay!Entries
 <2> HIDE DEF r
 <2>4. \E k \in Pay!Entries(q.batch, q.i)' : ledger'[k].company = q.rows[q.i].sponsor
  BY <2>0, <2>1, <2>3
 <2>5. payBatches' = payBatches BY <1>2
 <2>6. QED BY <1>1, <1>5, <1>6, <2>2, <2>4, <2>5 DEF PayAsks, PayConfirms
<1>8. PayGrows BY <1>2, <1>4 DEF PayGrows
<1>9. /\ payReqs' \in [Handlers -> PayReqs] /\ \A k \in Handlers : PayAsks(k)'
      /\ \A k, l \in Handlers : k # l /\ payReqs'[k].pc = "store" /\ payReqs'[l].pc = "store" =>
           payReqs'[k].batch # payReqs'[l].batch
 <2> HIDE DEF r
 <2>1. QED BY <1>2, <1>5, <1>7, <1>8, PayOthers
<1>10. Pay!PimTypeOK' BY <1>1, <1>2, <1>4, <1>9 DEF Pay!PimTypeOK, PayReqs
<1>11. Pay!ImportedIsRecorded'
 <2>1. \A c, i : Pay!Entries(c, i) \subseteq Pay!Entries(c, i)'
  BY <1>4 DEF Pay!Entries
 <2>2. \A c, i : \A k \in Pay!Entries(c, i) : ledger'[k] = ledger[k]
  BY <1>4 DEF Pay!Entries
 <2>3. payBatches' = payBatches BY <1>2
 <2>4. Pay!ImportedIsRecorded BY DEF PayShape
 <2>5. \A c \in DOMAIN payBatches : \A i \in DOMAIN payBatches[c].rows :
         payBatches[c].rows[i].status = "imported" =>
           \E k \in Pay!Entries(c, i)' : ledger'[k].company \in {payBatches[c].rows[i].row.company} \cup PayNamed
  BY <2>1, <2>2, <2>4 DEF Pay!ImportedIsRecorded, PayNamed
 <2>6. QED BY <2>3, <2>5 DEF Pay!ImportedIsRecorded, Pay!Entries, PayNamed
<1>12. \A k \in DOMAIN ledger' : ledger'[k].batch \in DOMAIN payBatches'
 BY <1>1, <1>2, <1>4 DEF PayShape
<1>13. QED BY <1>2, <1>9, <1>10, <1>11, <1>12 DEF PayShape


LEMMA PayPreviewEndStep ==
  ASSUME PayShape, NEW h \in Handlers, Pay!PreviewStatus(h), payCalm' \in BOOLEAN
  PROVE  PayShape'
<1>1. PICK st \in Pay!Awaiting : payBatches' = [payBatches EXCEPT ![payReqs[h].batch].status = st]
 BY DEF Pay!PreviewStatus, Pay!Awaiting
<1>2. payReqs[h].pc # "idle" /\ Pay!Finish(h) /\ UNCHANGED <<sponsors, ledger, halted>>
 BY DEF Pay!PreviewStatus, Pay!At
<1>3. QED BY <1>1, <1>2, PayStatusStep

LEMMA PayConfirmEndStep ==
  ASSUME PayShape, NEW h \in Handlers, Pay!ConfirmEnd(h), payCalm' \in BOOLEAN
  PROVE  PayShape'
<1>1. PICK st \in Pay!Over : payBatches' = [payBatches EXCEPT ![payReqs[h].batch].status = st]
 BY DEF Pay!ConfirmEnd, Pay!Over, Pay!Verdict
<1>2. payReqs[h].pc # "idle" /\ Pay!Finish(h) /\ UNCHANGED <<sponsors, ledger, halted>>
 BY DEF Pay!ConfirmEnd, Pay!At
<1>3. QED BY <1>1, <1>2, PayStatusStep

\* A confirm goes on with the same row.
LEMMA PayGoesOn ==
  ASSUME PayShape, NEW h \in Handlers, PayConfirms(h), payReqs[h].i \in DOMAIN payReqs[h].rows,
         payReqs[h].rows[payReqs[h].i].sponsor # None, NEW pc \in {"apply", "pay"},
         Pay!Goto(h, [payReqs[h] EXCEPT !.pc = pc]), UNCHANGED <<sponsors, ledger, payBatches, halted>>, payCalm' \in BOOLEAN
  PROVE  PayShape'
<1> DEFINE q == payReqs[h]
           r == [q EXCEPT !.pc = pc]
<1>1. Pay!PimTypeOK /\ payReqs \in [Handlers -> PayReqs] /\ q \in Pay!Confirms
 BY PayTypes DEF PayShape
<1>2. r \in PayReqs /\ r.pc = pc /\ r.batch = q.batch /\ r.rows = q.rows /\ r.i = q.i
 BY <1>1 DEF PayReqs, Pay!Confirms
<1>3. payReqs'[h] = r BY <1>1 DEF Pay!Goto
<1>4. q.batch \in DOMAIN payBatches /\ PayAgrees(q.rows, payBatches[q.batch].rows)
 BY DEF PayShape, PayAsks, PayConfirms
<1>5. PayAsks(h)'
 <2> HIDE DEF r
 <2>1. QED BY <1>2, <1>3, <1>4 DEF PayAsks, PayConfirms
<1>6. Pay!Goto(h, r) OBVIOUS
<1>7. QED
 <2>1. halted' \subseteq 1 .. MaxBatches BY DEF PayShape, Pay!PimTypeOK
 <2> HIDE DEF r
 <2>2. QED BY <1>2, <1>5, <1>6, <2>1, PayGotoStep

LEMMA PayRowStartStep ==
  ASSUME PayShape, NEW h \in Handlers, Pay!RowStart(h), payCalm' \in BOOLEAN
  PROVE  PayShape'
<1>1. /\ payReqs[h].pc = "row" /\ payReqs[h].i <= Len(payReqs[h].rows) /\ UNCHANGED <<sponsors, ledger, halted>>
      /\ \/ \E st \in {"failed", "skipped", "unmatched"} : Pay!Mark(h, st, FALSE)
         \/ /\ payReqs[h].rows[payReqs[h].i].sponsor # None
            /\ Pay!Goto(h, [payReqs[h] EXCEPT !.pc = "apply"]) /\ UNCHANGED payBatches
 BY DEF Pay!RowStart, Pay!At, Pay!Row
<1>2. PayConfirms(h) /\ payReqs[h].i \in DOMAIN payReqs[h].rows
 <2>1. PayConfirms(h) /\ payReqs[h] \in Pay!Confirms
  BY <1>1, PayTypes DEF PayConfirms, PayShape
 <2>2. payReqs[h].rows \in Seq(Pay!DecidedRows) /\ payReqs[h].i \in Nat \ {0}
  BY <2>1 DEF Pay!Confirms
 <2>3. QED BY <1>1, <2>1, <2>2, SeqShape
<1>3. CASE \E st \in {"failed", "skipped", "unmatched"} : Pay!Mark(h, st, FALSE)
 BY <1>1, <1>2, <1>3, PayMarkStep
<1>4. CASE /\ payReqs[h].rows[payReqs[h].i].sponsor # None
           /\ Pay!Goto(h, [payReqs[h] EXCEPT !.pc = "apply"]) /\ UNCHANGED payBatches
 BY <1>1, <1>2, <1>4, PayGoesOn
<1>5. QED BY <1>1, <1>3, <1>4

LEMMA PayUpdateStep ==
  ASSUME PayShape, NEW h \in Handlers, Pay!UpdateSponsor(h), payCalm' \in BOOLEAN
  PROVE  PayShape'
<1>1. /\ payReqs[h].pc = "apply" /\ UNCHANGED <<sponsors, ledger, halted>>
      /\ \/ Pay!Mark(h, "failed", FALSE)
         \/ Pay!Goto(h, [payReqs[h] EXCEPT !.pc = "pay"]) /\ UNCHANGED payBatches
 BY DEF Pay!UpdateSponsor, Pay!At
<1>2. PayConfirms(h) /\ payReqs[h].i \in DOMAIN payReqs[h].rows /\ payReqs[h].rows[payReqs[h].i].sponsor # None
 BY <1>1 DEF PayConfirms, PayShape, PayAsks
<1>3. CASE Pay!Mark(h, "failed", FALSE) BY <1>1, <1>2, <1>3, PayMarkStep
<1>4. CASE Pay!Goto(h, [payReqs[h] EXCEPT !.pc = "pay"]) /\ UNCHANGED payBatches
 BY <1>1, <1>2, <1>4, PayGoesOn
<1>5. QED BY <1>1, <1>3, <1>4

LEMMA PayConfirmStep ==
  ASSUME PayShape, NEW h \in Handlers, NEW st \in {"imported", "failed"}, NEW both \in BOOLEAN,
         Pay!Confirm(h, st, both), payCalm' \in BOOLEAN
  PROVE  PayShape'
<1>1. payReqs[h].pc = "participant" /\ UNCHANGED <<sponsors, ledger, halted>> /\ Pay!Mark(h, st, both)
 BY DEF Pay!Confirm, Pay!At
<1>2. PayConfirms(h) /\ payReqs[h].i \in DOMAIN payReqs[h].rows
 BY <1>1 DEF PayConfirms, PayShape, PayAsks
<1>3. QED BY <1>1, <1>2, PayMarkStep

LEMMA PayThrowStep ==
  ASSUME PayShape, NEW h \in Handlers, Pay!RowThrows(h), payCalm' \in BOOLEAN
  PROVE  PayShape'
<1>1. payReqs[h].pc \in {"apply", "pay"} /\ UNCHANGED <<sponsors, ledger, halted>> /\ Pay!Mark(h, "failed", FALSE)
 BY DEF Pay!RowThrows
<1>2. PayConfirms(h) /\ payReqs[h].i \in DOMAIN payReqs[h].rows
 BY <1>1 DEF PayConfirms, PayShape, PayAsks
<1>3. QED BY <1>1, <1>2, PayMarkStep

LEMMA PayStopStep ==
  ASSUME PayShape, NEW h \in Handlers, Pay!Stops(h), payCalm' \in BOOLEAN
  PROVE  PayShape'
<1>1. /\ Pay!Goto(h, Pay!PimIdle) /\ UNCHANGED <<sponsors, ledger, payBatches>> /\ payReqs[h].pc # "idle"
      /\ halted' \subseteq halted \cup {payReqs[h].batch}
 BY DEF Pay!Stops, Pay!Finish
<1>2. /\ Pay!PimIdle \in PayReqs /\ Pay!PimIdle.pc = "idle" /\ payReqs \in [Handlers -> PayReqs]
      /\ payReqs[h].batch \in 1 .. MaxBatches /\ halted \subseteq 1 .. MaxBatches
 <2>1. payReqs[h].batch \in DOMAIN payBatches
  BY <1>1 DEF PayShape, PayAsks
 <2>2. QED BY <2>1, PayTypes DEF PayShape, Pay!PimTypeOK, PayReqs, Pay!PimIdle
<1>3. PayAsks(h)' BY <1>1, <1>2 DEF PayAsks, PayConfirms, Pay!Goto
<1>4. QED BY <1>1, <1>2, <1>3, PayGotoStep

LEMMA PayShapeInit == ASSUME Pay!PimInit PROVE PayShape
<1>1. \A h \in Handlers : payReqs[h].pc = "idle" /\ payReqs[h] = Pay!PimIdle
 BY DEF Pay!PimInit, Pay!PimIdle
<1>2. payBatches = <<>> /\ ledger = <<>> /\ MaxBatches \in Nat
 BY EventureAssumption DEF Pay!PimInit, Pay!FilesAssumption
<1>3. Pay!PimTypeOK
 <2>1. payReqs \in [Handlers -> {Pay!PimIdle} \cup Pay!Previews \cup Pay!Confirms]
  BY DEF Pay!PimInit
 <2>2. QED BY <1>2, <2>1, EmptySeq DEF Pay!PimInit, Pay!PimTypeOK
<1>4. \A h \in Handlers : PayAsks(h) BY <1>1 DEF PayAsks, PayConfirms
<1>5. QED BY <1>1, <1>2, <1>3, <1>4, EmptySeq DEF PayShape, Pay!ImportedIsRecorded

LEMMA PayShapeStep == ASSUME PayShape, Pay!PimNext PROVE PayShape'
<1>1. PICK h \in Handlers : Pay!PimStep(h) /\ payCalm' = (payCalm /\ Pay!Alone(h))
 BY DEF Pay!PimNext
<1>2. payCalm' \in BOOLEAN BY <1>1 DEF PayShape, Pay!PimTypeOK
<1>3. CASE \E s \in Companies : Pay!SetSponsor(h, s) BY <1>2, <1>3, PaySponsorStep
<1>4. CASE \E f \in PayFiles : Pay!PreviewBatch(h, f) BY <1>2, <1>4, PayPreviewStep
<1>5. CASE \E b \in DOMAIN payBatches : \E choice \in [DOMAIN payBatches[b].rows -> Choices] : Pay!ConfirmRead(h, b, choice)
 BY <1>2, <1>5, PayConfirmReadStep
<1>6. CASE \E status \in {"imported", "failed"}, both \in BOOLEAN : Pay!Confirm(h, status, both)
 BY <1>2, <1>6, PayConfirmStep
<1>7. CASE Pay!StoreRows(h) \/ Pay!PreviewStatus(h) \/ Pay!RowStart(h)
 BY <1>2, <1>7, PayStoreStep, PayPreviewEndStep, PayRowStartStep
<1>8. CASE Pay!UpdateSponsor(h) \/ Pay!RowThrows(h) \/ Pay!Record(h) \/ Pay!ConfirmEnd(h) \/ Pay!Stops(h)
 BY <1>2, <1>8, PayUpdateStep, PayThrowStep, PayRecordStep, PayConfirmEndStep, PayStopStep
<1>9. QED BY <1>1, <1>3, <1>4, <1>5, <1>6, <1>7, <1>8 DEF Pay!PimStep

-----------------------------------------------------------------------------
\* What holds while no two requests overlap: a confirm has marked and counted the
\* rows before its own and nothing else of its batch is in the ledger, unless
\* another confirm of the batch ended half-way.
PayMarked4 == {"imported", "failed", "skipped", "unmatched"}
PaySeen(rows, i, S) == \E j \in DOMAIN rows : j < i /\ rows[j].status \in S
PayCounted(q, rows) ==
  /\ q.i \in 1 .. Len(q.rows) + 1
  /\ \A j \in DOMAIN rows : j < q.i => rows[j].status \in PayMarked4
  /\ PaySeen(rows, q.i, {"imported"}) => q.imported > 0
  /\ q.failed > 0 <=> PaySeen(rows, q.i, {"failed"})
  /\ q.passed > 0 <=> PaySeen(rows, q.i, {"skipped", "unmatched"})
PayAhead(q) ==
  /\ payBatches[q.batch].status \in Pay!Awaiting
  /\ DOMAIN q.rows = DOMAIN payBatches[q.batch].rows
  /\ PayCounted(q, payBatches[q.batch].rows)
  /\ \A k \in DOMAIN ledger : ledger[k].batch = q.batch =>
       q.batch \in halted \/ ledger[k].row < q.i \/ (q.pc = "participant" /\ ledger[k].row = q.i)
PayVerdict(b) ==
  /\ payBatches[b].status = "confirmed" => Pay!StatusOf(b) \subseteq {"imported"}
  /\ payBatches[b].status = "failed" => "failed" \in Pay!StatusOf(b) /\ "imported" \notin Pay!StatusOf(b)
  /\ payBatches[b].status = "confirmed_with_warnings" => Pay!StatusOf(b) \cap {"failed", "skipped", "unmatched"} # {}
PayFresh(b) == payBatches[b].status \in Pay!Awaiting /\ b \notin halted => \A k \in DOMAIN ledger : ledger[k].batch # b
PayOnce ==
  \A j, k \in DOMAIN ledger : ledger[j].batch \notin halted /\ ledger[j].batch = ledger[k].batch /\ ledger[j].row = ledger[k].row => j = k

PayOrder ==
  /\ \A h, k \in Handlers : payReqs[h].pc # "idle" /\ payReqs[k].pc # "idle" => h = k
  /\ \A h \in Handlers : PayConfirms(h) => PayAhead(payReqs[h])
  /\ \A h \in Handlers : payReqs[h].pc \in {"store", "summary"} => payBatches[payReqs[h].batch].status = "previewing"
  /\ \A b \in DOMAIN payBatches :
       /\ PayVerdict(b)
       /\ PayFresh(b) \/ \E h \in Handlers : PayConfirms(h) /\ payReqs[h].batch = b
  /\ PayOnce

\* After a step of one request alone, the others are idle.
LEMMA PayLone ==
  ASSUME PayShape, NEW h \in Handlers, Pay!Alone(h), NEW r, Pay!Goto(h, r)
  PROVE  /\ payReqs'[h] = r
         /\ \A k \in Handlers \ {h} : payReqs'[k].pc = "idle" /\ payReqs[k].pc = "idle" /\ ~PayConfirms(k) /\ ~PayConfirms(k)'
         /\ \A k, l \in Handlers : payReqs'[k].pc # "idle" /\ payReqs'[l].pc # "idle" => k = l
<1>1. payReqs \in [Handlers -> PayReqs] BY PayTypes DEF PayShape
<1>2. payReqs'[h] = r /\ \A k \in Handlers \ {h} : payReqs'[k] = payReqs[k] /\ payReqs[k].pc = "idle"
 BY <1>1 DEF Pay!Goto, Pay!Alone
<1>3. QED BY <1>2 DEF PayConfirms

\* A batch whose rows and status stay keeps its verdict.
LEMMA PayVerdictStays ==
  ASSUME NEW b, payBatches'[b].status = payBatches[b].status, payBatches'[b].rows = payBatches[b].rows, PayVerdict(b)
  PROVE  PayVerdict(b)'
BY DEF PayVerdict, Pay!StatusOf

LEMMA PayVerdictsStay == ASSUME payBatches' = payBatches PROVE \A c : PayVerdict(c) => PayVerdict(c)'
BY DEF PayVerdict, Pay!StatusOf

LEMMA PayOrderSponsor ==
  ASSUME PayOrder, NEW h \in Handlers, NEW s \in Companies, Pay!SetSponsor(h, s)
  PROVE  PayOrder'
<1>1. payReqs' = payReqs /\ payBatches' = payBatches /\ ledger' = ledger /\ halted' = halted
 BY DEF Pay!SetSponsor
<1>2. \A q : PayAhead(q) => PayAhead(q)' BY <1>1 DEF PayAhead
<1>3. \A b : (PayVerdict(b) => PayVerdict(b)') /\ (PayFresh(b) => PayFresh(b)')
 BY <1>1 DEF PayVerdict, Pay!StatusOf, PayFresh
<1>4. \A k : PayConfirms(k)' <=> PayConfirms(k) BY <1>1 DEF PayConfirms
<1>5. PayOnce' BY <1>1 DEF PayOrder, PayOnce
<1>6. \A k \in Handlers : PayConfirms(k)' => PayAhead(payReqs[k])'
 BY <1>1, <1>2, <1>4 DEF PayOrder
<1>7. QED BY <1>1, <1>3, <1>4, <1>5, <1>6 DEF PayOrder

LEMMA PayOrderPreview ==
  ASSUME PayShape, PayOrder, NEW h \in Handlers, Pay!Alone(h), NEW f \in PayFiles, Pay!PreviewBatch(h, f)
  PROVE  PayOrder'
<1> DEFINE n == Len(payBatches) + 1
           rows == [i \in DOMAIN f |-> [row |-> f[i], sponsor |-> Pay!Match(f[i], sponsors), status |-> Pay!Noted(f[i])]]
           r == [pc |-> "store", batch |-> n, rows |-> rows]
           new == [status |-> "previewing", rows |-> <<>>]
<1>1. /\ payBatches \in Seq(PayBatch) /\ payReqs \in [Handlers -> PayReqs]
      /\ Len(payBatches) \in Nat /\ DOMAIN payBatches = 1 .. Len(payBatches)
 BY PayTypes DEF PayShape
<1>2. payBatches' = Append(payBatches, new) /\ UNCHANGED <<sponsors, ledger, halted>> /\ Pay!Goto(h, r)
 BY DEF Pay!PreviewBatch
<1>3. /\ DOMAIN payBatches' = 1 .. n /\ payBatches'[n] = new
      /\ \A b \in DOMAIN payBatches : payBatches'[b] = payBatches[b]
 <2>1. new \in PayBatch BY EmptySeq DEF PayBatch, Pay!Awaiting
 <2>2. QED BY <1>1, <1>2, <2>1, SeqAppends
<1>4. r.pc = "store" /\ r.batch = n /\ payBatches'[n].status = "previewing"
 BY <1>3
<1>5. /\ payReqs'[h] = r
      /\ \A k \in Handlers \ {h} : payReqs'[k].pc = "idle" /\ payReqs[k].pc = "idle" /\ ~PayConfirms(k) /\ ~PayConfirms(k)'
      /\ \A k, l \in Handlers : payReqs'[k].pc # "idle" /\ payReqs'[l].pc # "idle" => k = l
 <2> HIDE DEF r
 <2>1. QED BY <1>2, PayLone
<1>6. payReqs[h].pc = "idle" /\ ~PayConfirms(h) /\ ~PayConfirms(h)'
 BY <1>4, <1>5 DEF Pay!PreviewBatch, Pay!Calls, PayConfirms
<1>7. \A b \in DOMAIN payBatches' : PayVerdict(b)'
 <2>1. \A b \in DOMAIN payBatches : PayVerdict(b)'
  BY <1>3, PayVerdictStays DEF PayOrder
 <2>2. \A b : payBatches'[b].status = "previewing" => PayVerdict(b)'
  BY DEF PayVerdict
 <2>3. \A b \in DOMAIN payBatches' : b \in DOMAIN payBatches \/ payBatches'[b].status = "previewing"
  BY <1>1, <1>3, <1>4
 <2>4. QED BY <2>1, <2>2, <2>3
<1>8. \A b \in DOMAIN payBatches' : PayFresh(b)'
 <2>1. \A b \in DOMAIN payBatches : PayFresh(b) BY <1>5, <1>6 DEF PayOrder
 <2>2. \A k \in DOMAIN ledger : ledger[k].batch # n BY <1>1 DEF PayShape
 <2>3. QED BY <1>1, <1>2, <1>3, <2>1, <2>2 DEF PayFresh
<1>9. PayOnce' BY <1>2 DEF PayOnce, PayOrder
<1>10. QED
 <2> HIDE DEF r
 <2>1. QED BY <1>4, <1>5, <1>6, <1>7, <1>8, <1>9 DEF PayOrder

LEMMA PayOrderStore ==
  ASSUME PayShape, PayOrder, NEW h \in Handlers, Pay!Alone(h), Pay!StoreRows(h)
  PROVE  PayOrder'
<1> DEFINE q == payReqs[h]
           b == q.batch
           r == [q EXCEPT !.pc = "summary"]
           new == [payBatches[b] EXCEPT !.rows = q.rows]
<1>1. /\ payBatches \in Seq(PayBatch) /\ q.pc = "store" /\ q \in Pay!Previews /\ UNCHANGED <<sponsors, ledger, halted>>
      /\ payBatches' = [payBatches EXCEPT ![b] = new]
 BY PayTypes DEF PayShape, Pay!StoreRows, Pay!At
<1>2. Pay!Goto(h, r) /\ r.pc = "summary" /\ r.batch = b
 BY <1>1 DEF Pay!StoreRows, Pay!Previews
<1>3. b \in DOMAIN payBatches /\ payBatches[b] \in PayBatch /\ payBatches[b].status = "previewing"
 BY <1>1, PayTypes DEF PayShape, PayAsks, PayOrder
<1>4. DOMAIN payBatches' = DOMAIN payBatches /\ \A c \in DOMAIN payBatches : payBatches'[c] = IF c = b THEN new ELSE payBatches[c]
 BY <1>1, <1>3
<1>5. payBatches'[b].status = "previewing" BY <1>3, <1>4 DEF PayBatch
<1>6. /\ payReqs'[h] = r
      /\ \A k \in Handlers \ {h} : payReqs'[k].pc = "idle" /\ payReqs[k].pc = "idle" /\ ~PayConfirms(k) /\ ~PayConfirms(k)'
      /\ \A k, l \in Handlers : payReqs'[k].pc # "idle" /\ payReqs'[l].pc # "idle" => k = l
 <2> HIDE DEF r
 <2>1. QED BY <1>2, PayLone
<1>7. ~PayConfirms(h) /\ ~PayConfirms(h)'
 <2> HIDE DEF r
 <2>1. QED BY <1>1, <1>2, <1>6 DEF PayConfirms
<1>8. \A c \in DOMAIN payBatches' : PayVerdict(c)'
 <2>1. \A c \in DOMAIN payBatches : c # b => PayVerdict(c)'
  BY <1>4, PayVerdictStays DEF PayOrder
 <2>2. \A c : payBatches'[c].status = "previewing" => PayVerdict(c)'
  BY DEF PayVerdict
 <2>3. QED BY <1>4, <1>5, <2>1, <2>2
<1>9. \A c \in DOMAIN payBatches' : PayFresh(c)'
 <2>1. \A c \in DOMAIN payBatches : PayFresh(c) BY <1>6, <1>7 DEF PayOrder
 <2>2. QED BY <1>1, <1>3, <1>4, <2>1 DEF PayFresh, Pay!Awaiting
<1>10. PayOnce' BY <1>1 DEF PayOnce, PayOrder
<1>11. QED
 <2> HIDE DEF r
 <2>1. QED BY <1>2, <1>5, <1>6, <1>7, <1>8, <1>9, <1>10 DEF PayOrder

LEMMA PayOrderPreviewEnd ==
  ASSUME PayShape, PayOrder, NEW h \in Handlers, Pay!Alone(h), Pay!PreviewStatus(h)
  PROVE  PayOrder'
<1> DEFINE b == payReqs[h].batch
<1>1. PICK st \in Pay!Awaiting : payBatches' = [payBatches EXCEPT ![b].status = st]
 BY DEF Pay!PreviewStatus, Pay!Awaiting
<1>2. /\ payReqs[h].pc = "summary" /\ Pay!Goto(h, Pay!PimIdle) /\ UNCHANGED <<sponsors, ledger, halted>>
      /\ Pay!PimIdle.pc = "idle" /\ Pay!PimTypeOK
 BY DEF Pay!PreviewStatus, Pay!At, Pay!Finish, Pay!PimIdle, PayShape
<1>3. b \in DOMAIN payBatches /\ payBatches[b].status = "previewing"
 BY <1>2 DEF PayShape, PayAsks, PayOrder
<1>4. DOMAIN payBatches' = DOMAIN payBatches
      /\ \A c \in DOMAIN payBatches : /\ payBatches'[c].status = IF c = b THEN st ELSE payBatches[c].status
                                      /\ payBatches'[c].rows = payBatches[c].rows
 BY <1>1, <1>2, <1>3, PayStatus
<1>5. /\ \A k \in Handlers : payReqs'[k].pc = "idle" /\ ~PayConfirms(k)'
      /\ \A k \in Handlers : ~PayConfirms(k)
 BY <1>2, PayLone DEF PayConfirms
<1>6. \A c \in DOMAIN payBatches' : PayVerdict(c)'
 <2>1. \A c \in DOMAIN payBatches : c # b => PayVerdict(c)'
  BY <1>4, PayVerdictStays DEF PayOrder
 <2>2. \A c : payBatches'[c].status \in Pay!Awaiting => PayVerdict(c)'
  BY DEF PayVerdict, Pay!Awaiting
 <2>3. payBatches'[b].status \in Pay!Awaiting BY <1>3, <1>4
 <2>4. QED BY <1>4, <2>1, <2>2, <2>3
<1>7. \A c \in DOMAIN payBatches' : PayFresh(c)'
 <2>1. \A c \in DOMAIN payBatches : PayFresh(c) BY <1>5 DEF PayOrder
 <2>2. QED BY <1>2, <1>3, <1>4, <2>1 DEF PayFresh, Pay!Awaiting
<1>8. PayOnce' BY <1>2 DEF PayOnce, PayOrder
<1>9. QED BY <1>5, <1>6, <1>7, <1>8 DEF PayOrder


LEMMA PayOrderConfirmRead ==
  ASSUME PayShape, PayOrder, NEW h \in Handlers, Pay!Alone(h), NEW b \in DOMAIN payBatches,
         NEW choice \in [DOMAIN payBatches[b].rows -> Choices], Pay!ConfirmRead(h, b, choice)
  PROVE  PayOrder'
<1> DEFINE stored == payBatches[b].rows
           edits == [i \in DOMAIN stored |-> Pay!Edited(stored[i].row, choice[i])]
           sponsor == [i \in DOMAIN stored |->
             IF Pay!Match(edits[i], sponsors) # None THEN Pay!Match(edits[i], sponsors) ELSE stored[i].sponsor]
           decided == [i \in DOMAIN stored |->
             IF choice[i].does # "none" THEN choice[i].does ELSE IF sponsor[i] # None THEN "approve" ELSE "skip"]
           rows == [i \in DOMAIN stored |-> [row |-> edits[i], sponsor |-> sponsor[i], decided |-> decided[i]]]
           r == [pc |-> "row", batch |-> b, i |-> 1, rows |-> rows, imported |-> 0, failed |-> 0, passed |-> 0]
<1>1. /\ Pay!Goto(h, r) /\ UNCHANGED <<sponsors, ledger, payBatches, halted>> /\ payReqs[h].pc = "idle"
      /\ payBatches[b].status \in Pay!Awaiting
 BY DEF Pay!ConfirmRead, Pay!Calls
<1>2. /\ r.pc = "row" /\ r.batch = b /\ r.i = 1 /\ DOMAIN r.rows = DOMAIN stored
      /\ r.imported = 0 /\ r.failed = 0 /\ r.passed = 0
 OBVIOUS
<1>3. Len(rows) \in Nat /\ DOMAIN stored \subseteq Nat \ {0}
 <2>1. Len(stored) \in Nat /\ DOMAIN stored = 1 .. Len(stored)
  BY PayTypes, SeqShape DEF PayShape
 <2>2. PICK F : F = [i \in DOMAIN stored |-> TRUE] OBVIOUS
 <2>3. PICK n : n = Len(stored) OBVIOUS
 <2>4. PICK w : w = rows OBVIOUS
 <2>5. DOMAIN w = 1 .. n /\ n \in Nat BY <2>1, <2>3, <2>4
 <2>6. w \in [1 .. n -> {w[i] : i \in 1 .. n}]
  <3>1. w = [i \in 1 .. n |-> w[i]] BY <2>1, <2>3, <2>4
  <3>2. QED BY <3>1
 <2>7. Len(w) = n BY <2>5, <2>6, SeqMaps
 <2>8. QED BY <2>1, <2>4, <2>5, <2>7
<1>4. /\ payReqs'[h] = r
      /\ \A k \in Handlers \ {h} : payReqs'[k].pc = "idle" /\ payReqs[k].pc = "idle" /\ ~PayConfirms(k) /\ ~PayConfirms(k)'
      /\ \A k, l \in Handlers : payReqs'[k].pc # "idle" /\ payReqs'[l].pc # "idle" => k = l
 <2> HIDE DEF r
 <2>1. QED BY <1>1, <1>2, PayLone, PayShape
<1>5. \A c \in DOMAIN payBatches : PayFresh(c)
 BY <1>1, <1>4 DEF PayOrder, PayConfirms
<1>6. PayCounted(r, stored)
 <2>1. Len(r.rows) \in Nat BY <1>3
 <2> HIDE DEF r, stored
 <2>2. \A j \in DOMAIN stored : ~(j < r.i) BY <1>2, <1>3
 <2>3. r.i \in 1 .. Len(r.rows) + 1 BY <1>2, <2>1
 <2>4. QED BY <1>2, <2>2, <2>3 DEF PayCounted, PaySeen
<1>7. PayConfirms(h)' /\ PayAhead(payReqs[h])'
 <2> HIDE DEF r
 <2>1. PayConfirms(h)' BY <1>2, <1>4 DEF PayConfirms
 <2>2. b \in halted \/ \A k \in DOMAIN ledger : ledger[k].batch # b
  BY <1>1, <1>5 DEF PayFresh
 <2>3. payReqs'[h].batch = b BY <1>2, <1>4
 <2>4. PayAhead(payReqs[h])'
  BY <1>1, <1>2, <1>4, <1>6, <2>2, <2>3 DEF PayAhead
 <2>5. QED BY <2>1, <2>4
<1>8. \A c \in DOMAIN payBatches' : PayVerdict(c)' /\ PayFresh(c)'
 BY <1>1, <1>5, PayVerdictStays DEF PayOrder, PayFresh
<1>9. PayOnce' BY <1>1 DEF PayOnce, PayOrder
<1>10. QED
 <2> HIDE DEF r
 <2>1. QED BY <1>2, <1>4, <1>7, <1>8, <1>9 DEF PayOrder

\* A confirm's next state when neither the batches nor the ledger change.
LEMMA PayOrderGoesOn ==
  ASSUME PayShape, PayOrder, NEW h \in Handlers, Pay!Alone(h), PayConfirms(h), payReqs[h].pc # "participant",
         NEW pc \in {"apply", "pay"}, Pay!Goto(h, [payReqs[h] EXCEPT !.pc = pc]),
         UNCHANGED <<sponsors, ledger, payBatches, halted>>
  PROVE  PayOrder'
<1> DEFINE q == payReqs[h]
           r == [q EXCEPT !.pc = pc]
<1>1. q \in Pay!Confirms BY PayTypes DEF PayShape
<1>2. /\ Pay!Goto(h, r) /\ r.pc = pc /\ r.batch = q.batch /\ r.rows = q.rows /\ r.i = q.i
      /\ r.imported = q.imported /\ r.failed = q.failed /\ r.passed = q.passed
 BY <1>1 DEF Pay!Confirms
<1>3. /\ payReqs'[h] = r
      /\ \A k \in Handlers \ {h} : payReqs'[k].pc = "idle" /\ payReqs[k].pc = "idle" /\ ~PayConfirms(k) /\ ~PayConfirms(k)'
      /\ \A k, l \in Handlers : payReqs'[k].pc # "idle" /\ payReqs'[l].pc # "idle" => k = l
 <2> HIDE DEF r
 <2>1. QED BY <1>2, PayLone
<1>4. PayConfirms(h)' /\ PayAhead(payReqs[h])'
 <2> HIDE DEF r
 <2>1. PayAhead(q) BY DEF PayOrder
 <2>2. PayCounted(r, payBatches[q.batch].rows)
  BY <1>2, <2>1 DEF PayAhead, PayCounted
 <2>3. PayAhead(payReqs[h])' BY <1>2, <1>3, <2>1, <2>2 DEF PayAhead
 <2>4. QED BY <1>2, <1>3, <2>3 DEF PayConfirms
<1>5. payReqs'[h].batch = q.batch BY <1>2, <1>3
<1>6. \A c \in DOMAIN payBatches' : PayVerdict(c)' /\ (PayFresh(c)' \/ (PayConfirms(h)' /\ payReqs'[h].batch = c))
 <2>1. \A c \in DOMAIN payBatches : PayVerdict(c) /\ (PayFresh(c) \/ q.batch = c)
  BY <1>3 DEF PayOrder
 <2>2. \A c : PayFresh(c) => PayFresh(c)' BY DEF PayFresh
 <2>3. DOMAIN payBatches' = DOMAIN payBatches /\ \A c : PayVerdict(c) => PayVerdict(c)'
  BY PayVerdictsStay
 <2>4. \A c \in DOMAIN payBatches' : PayVerdict(c)' BY <2>1, <2>3
 <2>5. \A c \in DOMAIN payBatches' : PayFresh(c)' \/ payReqs'[h].batch = c
  BY <1>5, <2>1, <2>2, <2>3
 <2>6. QED BY <1>4, <2>4, <2>5
<1>7. PayOnce' BY DEF PayOnce, PayOrder
<1>8. QED
 <2> HIDE DEF r, q
 <2>1. QED BY <1>2, <1>3, <1>4, <1>6, <1>7 DEF PayOrder

LEMMA PayOrderRecord ==
  ASSUME PayShape, PayOrder, NEW h \in Handlers, Pay!Alone(h), Pay!Record(h)
  PROVE  PayOrder'
<1> DEFINE q == payReqs[h]
           r == [q EXCEPT !.pc = "participant"]
           e == [company |-> q.rows[q.i].sponsor, batch |-> q.batch, row |-> q.i]
           Entry == [company : Companies, batch : 1 .. MaxBatches, row : Nat \ {0}]
<1>1. /\ q.pc = "pay" /\ PayConfirms(h) /\ q \in Pay!Confirms /\ q.batch \in DOMAIN payBatches
      /\ q.rows[q.i].sponsor # None /\ q.i \in DOMAIN q.rows /\ q.batch \in 1 .. MaxBatches
 <2>1. q.pc = "pay" BY DEF Pay!Record, Pay!At
 <2>2. q.batch \in DOMAIN payBatches /\ q.rows[q.i].sponsor # None /\ q.i \in DOMAIN q.rows
  BY <2>1 DEF PayShape, PayAsks
 <2>3. QED BY <2>1, <2>2, PayTypes DEF PayShape, PayConfirms
<1>2. /\ ledger' = Append(ledger, e) /\ UNCHANGED <<sponsors, payBatches, halted>>
      /\ Pay!Goto(h, r) /\ r.pc = "participant" /\ r.batch = q.batch /\ r.rows = q.rows /\ r.i = q.i
      /\ r.imported = q.imported /\ r.failed = q.failed /\ r.passed = q.passed
 BY <1>1 DEF Pay!Record, Pay!Row, Pay!Confirms
<1>3. q.i \in Nat /\ ledger \in Seq(Entry) /\ e \in Entry /\ e.batch = q.batch /\ e.row = q.i
 <2>1. q.rows \in Seq(Pay!DecidedRows) /\ q.i \in Nat \ {0}
  BY <1>1 DEF Pay!Confirms
 <2>2. q.rows[q.i] \in Pay!DecidedRows BY <1>1, <2>1, SeqShape
 <2>3. ledger \in Seq(Entry) BY DEF PayShape, Pay!PimTypeOK
 <2>4. QED BY <1>1, <2>1, <2>2, <2>3 DEF Pay!DecidedRows
<1>4. /\ DOMAIN ledger = 1 .. Len(ledger) /\ DOMAIN ledger' = 1 .. Len(ledger) + 1
      /\ Len(ledger) \in Nat /\ \A k \in DOMAIN ledger : ledger'[k] = ledger[k] /\ ledger[k].row \in Nat
      /\ ledger'[Len(ledger) + 1] = e
 <2>1. \A k \in DOMAIN ledger : ledger[k] \in Entry BY <1>3, SeqShape
 <2>2. \A k \in DOMAIN ledger : ledger[k].row \in Nat BY <2>1
 <2> HIDE DEF e, Entry
 <2>3. QED BY <1>2, <1>3, <2>2, SeqAppends, SeqShape
<1>5. /\ payReqs'[h] = r
      /\ \A k \in Handlers \ {h} : payReqs'[k].pc = "idle" /\ payReqs[k].pc = "idle" /\ ~PayConfirms(k) /\ ~PayConfirms(k)'
      /\ \A k, l \in Handlers : payReqs'[k].pc # "idle" /\ payReqs'[l].pc # "idle" => k = l
 <2> HIDE DEF r
 <2>1. QED BY <1>2, PayLone
<1>6. PayAhead(q) /\ payReqs'[h].batch = q.batch
 BY <1>1, <1>2, <1>5 DEF PayOrder
<1>7. q.batch \in halted \/ \A k \in DOMAIN ledger : ledger[k].batch = q.batch => ledger[k].row < q.i
 BY <1>1, <1>6 DEF PayAhead
<1>8. \A k \in DOMAIN ledger' : k \in DOMAIN ledger \/ k = Len(ledger) + 1
 BY <1>4
<1>9. PayOnce'
 <2> HIDE DEF e
 <2>1. \A j, k \in DOMAIN ledger : ledger[j].batch \notin halted /\ ledger[j].batch = ledger[k].batch /\ ledger[j].row = ledger[k].row => j = k
  BY DEF PayOrder, PayOnce
 <2>2. \A j \in DOMAIN ledger : ~(ledger[j].batch \notin halted /\ ledger[j].batch = e.batch /\ ledger[j].row = e.row)
  <3> SUFFICES ASSUME NEW j \in DOMAIN ledger, ledger[j].batch \notin halted, ledger[j].batch = e.batch
               PROVE  ledger[j].row # e.row
   OBVIOUS
  <3>1. ledger[j].row < q.i BY <1>3, <1>7
  <3>2. QED BY <1>3, <1>4, <3>1
 <2>3. SUFFICES ASSUME NEW j \in DOMAIN ledger', NEW k \in DOMAIN ledger',
                       ledger'[j].batch \notin halted,
                       ledger'[j].batch = ledger'[k].batch, ledger'[j].row = ledger'[k].row
                PROVE  j = k
  BY <1>2 DEF PayOnce
 <2>4. CASE j \in DOMAIN ledger /\ k \in DOMAIN ledger BY <1>4, <2>1, <2>3, <2>4
 <2>5. CASE j \in DOMAIN ledger /\ k = Len(ledger) + 1 BY <1>4, <2>2, <2>3, <2>5
 <2>6. CASE j = Len(ledger) + 1 /\ k \in DOMAIN ledger BY <1>4, <2>2, <2>3, <2>6
 <2>7. QED BY <1>8, <2>4, <2>5, <2>6
<1>10. PayConfirms(h)' /\ PayAhead(payReqs[h])'
 <2> HIDE DEF r, e
 <2>1. PayCounted(r, payBatches[q.batch].rows)
  BY <1>2, <1>6 DEF PayAhead, PayCounted
 <2>2. \A k \in DOMAIN ledger' : ledger'[k].batch = q.batch => q.batch \in halted \/ ledger'[k].row < q.i \/ ledger'[k].row = q.i
  BY <1>3, <1>4, <1>7, <1>8
 <2>3. PayAhead(payReqs[h])' BY <1>2, <1>5, <1>6, <2>1, <2>2 DEF PayAhead
 <2>4. QED BY <1>2, <1>5, <2>3 DEF PayConfirms
<1>11. \A c \in DOMAIN payBatches' : PayVerdict(c)' /\ (PayFresh(c)' \/ (PayConfirms(h)' /\ payReqs'[h].batch = c))
 <2> HIDE DEF r, e
 <2>1. \A c \in DOMAIN payBatches : PayVerdict(c) /\ (PayFresh(c) \/ q.batch = c)
  BY <1>5 DEF PayOrder
 <2>2. \A c : PayFresh(c) /\ c # q.batch => PayFresh(c)'
  BY <1>2, <1>3, <1>4, <1>8 DEF PayFresh
 <2>3. DOMAIN payBatches' = DOMAIN payBatches /\ \A c : PayVerdict(c) => PayVerdict(c)'
  BY <1>2, PayVerdictsStay
 <2>4. \A c \in DOMAIN payBatches' : PayVerdict(c)' BY <2>1, <2>3
 <2>5. \A c \in DOMAIN payBatches' : PayFresh(c)' \/ payReqs'[h].batch = c
  BY <1>6, <2>1, <2>2, <2>3
 <2>6. QED BY <1>10, <2>4, <2>5
<1>12. QED
 <2> HIDE DEF r, q, e
 <2>1. QED BY <1>2, <1>5, <1>9, <1>10, <1>11 DEF PayOrder


\* One row more has been marked.
LEMMA PayCountsOn ==
  ASSUME NEW q \in Pay!Confirms, NEW st \in PayMarked4, NEW both, NEW old, NEW new, NEW r,
         q.i \in DOMAIN old, DOMAIN q.rows = DOMAIN old, DOMAIN old \subseteq Nat, q.i <= Len(q.rows),
         DOMAIN new = DOMAIN old,
         \A j \in DOMAIN old : new[j].status = IF j = q.i THEN st ELSE old[j].status,
         r = PayNext(q, st, both), PayCounted(q, old)
  PROVE  PayCounted(r, new)
<1>1. /\ r.rows = q.rows /\ r.i = q.i + 1
      /\ r.imported = IF st = "imported" \/ both THEN q.imported + 1 ELSE q.imported
      /\ r.failed = IF st = "failed" THEN q.failed + 1 ELSE q.failed
      /\ r.passed = IF st \in {"skipped", "unmatched"} THEN q.passed + 1 ELSE q.passed
 BY PayMarked
<1>2. q.i \in Nat \ {0} /\ q.imported \in Nat /\ q.failed \in Nat /\ q.passed \in Nat /\ Len(q.rows) \in Nat
 <2>1. q.rows \in Seq(Pay!DecidedRows) /\ q.i \in Nat \ {0} /\ q.imported \in Nat /\ q.failed \in Nat /\ q.passed \in Nat
  BY DEF Pay!Confirms
 <2>2. QED BY <2>1, SeqShape
<1>3. \A j \in DOMAIN old : j < q.i + 1 <=> j < q.i \/ j = q.i BY <1>2
<1>4. r.i \in 1 .. Len(r.rows) + 1 BY <1>1, <1>2
<1>5. \A S : PaySeen(new, q.i + 1, S) <=> PaySeen(old, q.i, S) \/ st \in S
 <2> SUFFICES ASSUME NEW S PROVE PaySeen(new, q.i + 1, S) <=> PaySeen(old, q.i, S) \/ st \in S
  OBVIOUS
 <2>1. PaySeen(new, q.i + 1, S) => PaySeen(old, q.i, S) \/ st \in S
  BY <1>3 DEF PaySeen
 <2>2. PaySeen(old, q.i, S) => PaySeen(new, q.i + 1, S)
  <3>1. \A j \in DOMAIN old : j < q.i => j # q.i BY <1>2
  <3>2. QED BY <1>3, <3>1 DEF PaySeen
 <2>3. st \in S => PaySeen(new, q.i + 1, S) BY <1>3 DEF PaySeen
 <2>4. QED BY <2>1, <2>2, <2>3
<1>6. \A j \in DOMAIN new : j < r.i => new[j].status \in PayMarked4
 BY <1>1, <1>3 DEF PayCounted
<1>7. /\ PaySeen(old, q.i, {"imported"}) => q.imported > 0
      /\ q.failed > 0 <=> PaySeen(old, q.i, {"failed"})
      /\ q.passed > 0 <=> PaySeen(old, q.i, {"skipped", "unmatched"})
 BY DEF PayCounted
<1>8. PaySeen(new, r.i, {"imported"}) => r.imported > 0
 <2>1. q.imported > 0 \/ st \in {"imported"} => r.imported > 0
  BY <1>1, <1>2
 <2>2. QED BY <1>1, <1>5, <1>7, <2>1
<1>9. r.failed > 0 <=> PaySeen(new, r.i, {"failed"})
 <2>1. r.failed > 0 <=> q.failed > 0 \/ st \in {"failed"} BY <1>1, <1>2
 <2>2. QED BY <1>1, <1>5, <1>7, <2>1
<1>10. r.passed > 0 <=> PaySeen(new, r.i, {"skipped", "unmatched"})
 <2>1. r.passed > 0 <=> q.passed > 0 \/ st \in {"skipped", "unmatched"}
  BY <1>1, <1>2
 <2>2. QED BY <1>1, <1>5, <1>7, <2>1
<1>11. QED BY <1>4, <1>6, <1>8, <1>9, <1>10 DEF PayCounted

LEMMA PayOrderMark ==
  ASSUME PayShape, PayOrder, NEW h \in Handlers, Pay!Alone(h), PayConfirms(h), payReqs[h].i <= Len(payReqs[h].rows),
         NEW st \in PayMarked4, NEW both \in BOOLEAN, Pay!Mark(h, st, both), UNCHANGED <<sponsors, ledger, halted>>
  PROVE  PayOrder'
<1> DEFINE q == payReqs[h]
           b == q.batch
           r == PayNext(q, st, both)
<1>1. /\ Pay!PimTypeOK /\ q \in Pay!Confirms /\ PayAhead(q) /\ b \in DOMAIN payBatches
      /\ payBatches[b].rows \in Seq(Pay!StoredRows)
 <2>1. b \in DOMAIN payBatches BY DEF PayShape, PayAsks, PayConfirms
 <2>2. QED BY <2>1, PayTypes DEF PayShape, PayOrder
<1>2. /\ q.i \in DOMAIN q.rows /\ DOMAIN q.rows = DOMAIN payBatches[b].rows /\ DOMAIN q.rows \subseteq Nat
      /\ q.i \in Nat
 <2>1. q.rows \in Seq(Pay!DecidedRows) /\ q.i \in Nat \ {0}
  BY <1>1 DEF Pay!Confirms
 <2>2. QED BY <1>1, <2>1, SeqShape DEF PayAhead
<1>3. /\ payBatches' = [payBatches EXCEPT ![b].rows[q.i].status = st]
      /\ Pay!Goto(h, r)
 BY DEF Pay!Mark, Pay!Goto, PayNext
<1>4. /\ DOMAIN payBatches' = DOMAIN payBatches
      /\ \A c \in DOMAIN payBatches :
           /\ payBatches'[c].status = payBatches[c].status
           /\ DOMAIN payBatches'[c].rows = DOMAIN payBatches[c].rows
           /\ \A j \in DOMAIN payBatches[c].rows :
                payBatches'[c].rows[j].status = IF c = b /\ j = q.i THEN st ELSE payBatches[c].rows[j].status
 <2>1. PayWrites(b, q.i, st) /\ q.i \in DOMAIN payBatches[b].rows
  BY <1>2, <1>3 DEF PayWrites
 <2> HIDE DEF b, q
 <2>2. QED BY <1>1, <2>1, PayMarks DEF PayMarked4
<1>5. /\ r \in Pay!Confirms /\ r.pc = "row" /\ r.batch = b /\ r.rows = q.rows /\ r.i = q.i + 1
 BY <1>1, PayMarked
<1>6. /\ payReqs'[h] = r
      /\ \A k \in Handlers \ {h} : payReqs'[k].pc = "idle" /\ payReqs[k].pc = "idle" /\ ~PayConfirms(k) /\ ~PayConfirms(k)'
      /\ \A k, l \in Handlers : payReqs'[k].pc # "idle" /\ payReqs'[l].pc # "idle" => k = l
 <2> HIDE DEF r
 <2>1. QED BY <1>3, PayLone
<1>7. PayCounted(r, payBatches'[b].rows)
 <2>1. PICK new : new = payBatches'[b].rows OBVIOUS
 <2>2. PICK old : old = payBatches[b].rows OBVIOUS
 <2>3. DOMAIN new = DOMAIN old /\ \A j \in DOMAIN old : new[j].status = IF j = q.i THEN st ELSE old[j].status
  BY <1>1, <1>4, <2>1, <2>2
 <2>4. PayCounted(q, old) BY <1>1, <2>2 DEF PayAhead
 <2>5. q.i \in DOMAIN old /\ DOMAIN q.rows = DOMAIN old /\ DOMAIN old \subseteq Nat
  BY <1>2, <2>2
 <2>6. PayCounted(r, new)
  <3> HIDE DEF q
  <3>1. q.i <= Len(q.rows) BY DEF q
  <3>2. QED BY <1>1, <2>3, <2>4, <2>5, <3>1, PayCountsOn
 <2>7. QED BY <2>1, <2>6
<1>8. payReqs'[h].batch = b BY <1>5, <1>6
<1>9. PayConfirms(h)' /\ PayAhead(payReqs[h])'
 <2> HIDE DEF r
 <2>1. PayConfirms(h)' BY <1>5, <1>6 DEF PayConfirms
 <2>2. payBatches'[b].status \in Pay!Awaiting /\ DOMAIN r.rows = DOMAIN payBatches'[b].rows
  BY <1>1, <1>2, <1>4, <1>5 DEF PayAhead
 <2>3. \A k \in DOMAIN ledger' : ledger'[k].batch = b => b \in halted' \/ ledger'[k].row < r.i
  <3>1. \A k \in DOMAIN ledger : ledger[k].batch = b => b \in halted \/ ledger[k].row < q.i \/ ledger[k].row = q.i
   BY <1>1 DEF PayAhead
  <3>2. \A k \in DOMAIN ledger : ledger[k].row \in Nat
   <4>1. ledger \in Seq([company : Companies, batch : 1 .. MaxBatches, row : Nat \ {0}])
    BY <1>1 DEF Pay!PimTypeOK
   <4>2. \A k \in DOMAIN ledger : ledger[k] \in [company : Companies, batch : 1 .. MaxBatches, row : Nat \ {0}]
    BY <4>1, SeqShape
   <4>3. QED BY <4>2
  <3>3. QED BY <1>2, <1>5, <3>1, <3>2
 <2>4. PayAhead(payReqs[h])'
  BY <1>5, <1>6, <1>7, <1>8, <2>2, <2>3 DEF PayAhead
 <2>5. QED BY <2>1, <2>4
<1>10. \A c \in DOMAIN payBatches' : PayVerdict(c)'
 <2>1. \A c \in DOMAIN payBatches : c # b => PayVerdict(c)'
  <3>1. \A c \in DOMAIN payBatches : c # b => payBatches'[c] = payBatches[c]
   BY <1>3
  <3>2. QED BY <3>1, PayVerdictStays DEF PayOrder
 <2>2. \A c : payBatches'[c].status \in Pay!Awaiting => PayVerdict(c)'
  BY DEF PayVerdict, Pay!Awaiting
 <2>3. payBatches'[b].status \in Pay!Awaiting BY <1>1, <1>4 DEF PayAhead
 <2>4. QED BY <1>4, <2>1, <2>2, <2>3
<1>11. \A c \in DOMAIN payBatches' : PayFresh(c)' \/ payReqs'[h].batch = c
 <2>1. \A c \in DOMAIN payBatches : PayFresh(c) \/ b = c
  BY <1>6 DEF PayOrder
 <2>2. QED BY <1>4, <1>8, <2>1 DEF PayFresh
<1>12. PayOnce' BY DEF PayOnce, PayOrder
<1>13. QED
 <2> HIDE DEF r, q
 <2>1. QED BY <1>5, <1>6, <1>9, <1>10, <1>11, <1>12 DEF PayOrder

LEMMA PayOrderEnd ==
  ASSUME PayShape, PayOrder, NEW h \in Handlers, Pay!Alone(h), Pay!ConfirmEnd(h)
  PROVE  PayOrder'
<1> DEFINE q == payReqs[h]
           b == q.batch
           st == Pay!Verdict(q)
<1>1. /\ q.pc = "row" /\ q.i > Len(q.rows) /\ payBatches' = [payBatches EXCEPT ![b].status = st]
      /\ Pay!Goto(h, Pay!PimIdle) /\ UNCHANGED <<sponsors, ledger, halted>> /\ Pay!PimIdle.pc = "idle"
 BY DEF Pay!ConfirmEnd, Pay!At, Pay!Finish, Pay!PimIdle
<1>2. PayConfirms(h) /\ b \in DOMAIN payBatches /\ PayAhead(q) /\ q \in Pay!Confirms /\ Pay!PimTypeOK
 <2>1. PayConfirms(h) BY <1>1 DEF PayConfirms
 <2>2. QED BY <1>1, <2>1, PayTypes DEF PayShape, PayAsks, PayOrder
<1>3. st \in Pay!Over BY DEF Pay!Over, Pay!Verdict
<1>4. DOMAIN payBatches' = DOMAIN payBatches
      /\ \A c \in DOMAIN payBatches : /\ payBatches'[c].status = IF c = b THEN st ELSE payBatches[c].status
                                      /\ payBatches'[c].rows = payBatches[c].rows
 <2> HIDE DEF st, b
 <2>1. QED BY <1>1, <1>2, <1>3, PayStatus
<1>5. \A k \in Handlers : payReqs'[k].pc = "idle" /\ ~PayConfirms(k)'
 BY <1>1, PayLone DEF PayConfirms
<1>6. \A k \in Handlers \ {h} : ~PayConfirms(k) BY <1>1, PayLone
<1>7. \A c : c = b => PayVerdict(c)'
 <2>1. PICK rows : rows = payBatches[b].rows OBVIOUS
 <2>2. PayCounted(q, rows) /\ DOMAIN rows = DOMAIN q.rows
  BY <1>2, <2>1 DEF PayAhead
 <2>3. q.imported \in Nat /\ q.failed \in Nat /\ q.passed \in Nat /\ q.i \in Nat
       /\ \A j \in DOMAIN rows : j < q.i
  <3>1. q.rows \in Seq(Pay!DecidedRows) /\ q.i \in Nat \ {0} /\ q.imported \in Nat /\ q.failed \in Nat /\ q.passed \in Nat
   BY <1>2 DEF Pay!Confirms
  <3>2. Len(q.rows) \in Nat /\ DOMAIN q.rows = 1 .. Len(q.rows)
   BY <3>1, SeqShape
  <3>3. QED BY <1>1, <2>2, <3>1, <3>2
 <2>4. PICK T : T = {rows[i].status : i \in DOMAIN rows} OBVIOUS
 <2>5. /\ T \subseteq PayMarked4 /\ \A S : PaySeen(rows, q.i, S) <=> T \cap S # {}
  BY <2>2, <2>3, <2>4 DEF PayCounted, PaySeen
 <2>6. /\ T \cap {"imported"} # {} => q.imported > 0
       /\ q.failed > 0 <=> T \cap {"failed"} # {}
       /\ q.passed > 0 <=> T \cap {"skipped", "unmatched"} # {}
  BY <2>2, <2>5 DEF PayCounted
 <2>7. /\ st = "confirmed" => T \subseteq {"imported"}
       /\ st = "failed" => "failed" \in T /\ "imported" \notin T
       /\ st = "confirmed_with_warnings" => T \cap {"failed", "skipped", "unmatched"} # {}
  BY <2>3, <2>5, <2>6 DEF Pay!Verdict, PayMarked4
 <2>8. payBatches'[b].status = st /\ payBatches'[b].rows = rows
  BY <1>2, <1>4, <2>1
 <2>9. QED
  <3> HIDE DEF b, st
  <3>1. QED BY <2>4, <2>7, <2>8 DEF PayVerdict, Pay!StatusOf
<1>8. \A c \in DOMAIN payBatches' : PayVerdict(c)' /\ PayFresh(c)'
 <2>1. \A c \in DOMAIN payBatches : c # b => PayVerdict(c)'
  BY <1>4, PayVerdictStays DEF PayOrder
 <2>2. \A c \in DOMAIN payBatches : c # b => PayFresh(c)'
  BY <1>1, <1>4, <1>6 DEF PayOrder, PayFresh
 <2>3. \A c : payBatches'[c].status \in Pay!Over => PayFresh(c)'
  BY DEF PayFresh, Pay!Awaiting, Pay!Over
 <2>4. payBatches'[b].status \in Pay!Over BY <1>2, <1>3, <1>4
 <2>5. QED BY <1>4, <1>7, <2>1, <2>2, <2>3, <2>4
<1>9. PayOnce' BY <1>1 DEF PayOnce, PayOrder
<1>10. QED BY <1>5, <1>8, <1>9 DEF PayOrder


LEMMA PayOrderStop ==
  ASSUME PayShape, PayOrder, NEW h \in Handlers, Pay!Alone(h), Pay!Stops(h)
  PROVE  PayOrder'
<1>1. /\ Pay!Goto(h, Pay!PimIdle) /\ Pay!PimIdle.pc = "idle" /\ UNCHANGED <<sponsors, ledger, payBatches>>
      /\ halted \subseteq halted' /\ (PayConfirms(h) => payReqs[h].batch \in halted')
 BY DEF Pay!Stops, Pay!Finish, Pay!PimIdle, PayConfirms
<1>2. \A k \in Handlers : payReqs'[k].pc = "idle" /\ ~PayConfirms(k)' /\ (k # h => ~PayConfirms(k))
 BY <1>1, PayLone DEF PayConfirms
<1>3. \A b \in DOMAIN payBatches' : PayVerdict(b)'
 BY <1>1, PayVerdictsStay DEF PayOrder
<1>4. \A b \in DOMAIN payBatches' : PayFresh(b)'
 <2>1. \A b \in DOMAIN payBatches : PayFresh(b) \/ (PayConfirms(h) /\ payReqs[h].batch = b)
  BY <1>2 DEF PayOrder
 <2>2. QED BY <1>1, <2>1 DEF PayFresh
<1>5. PayOnce' BY <1>1 DEF PayOrder, PayOnce
<1>6. QED BY <1>2, <1>3, <1>4, <1>5 DEF PayOrder

LEMMA PayOrderStep ==
  ASSUME PayShape, PayOrder, NEW h \in Handlers, Pay!Alone(h), Pay!PimStep(h)
  PROVE  PayOrder'
<1>1. CASE \E s \in Companies : Pay!SetSponsor(h, s) BY <1>1, PayOrderSponsor
<1>2. CASE \E f \in PayFiles : Pay!PreviewBatch(h, f) BY <1>2, PayOrderPreview
<1>3. CASE \E b \in DOMAIN payBatches : \E choice \in [DOMAIN payBatches[b].rows -> Choices] : Pay!ConfirmRead(h, b, choice)
 BY <1>3, PayOrderConfirmRead
<1>4. \A k \in Handlers : PayConfirms(k) => Len(payReqs[k].rows) \in Nat /\ DOMAIN payReqs[k].rows = 1 .. Len(payReqs[k].rows)
 <2> SUFFICES ASSUME NEW k \in Handlers, PayConfirms(k)
              PROVE  Len(payReqs[k].rows) \in Nat /\ DOMAIN payReqs[k].rows = 1 .. Len(payReqs[k].rows)
  OBVIOUS
 <2>1. payReqs[k].rows \in Seq(Pay!DecidedRows)
  BY PayTypes DEF PayShape, Pay!Confirms
 <2>2. QED BY <2>1, SeqShape
<1>5. payReqs[h].pc \in {"apply", "pay", "participant"} => PayConfirms(h) /\ payReqs[h].i <= Len(payReqs[h].rows)
 BY <1>4 DEF PayShape, PayAsks, PayConfirms
<1>6. CASE \/ \E status \in {"imported", "failed"}, both \in BOOLEAN : Pay!Confirm(h, status, both)
           \/ Pay!RowThrows(h)
 <2>1. PICK status \in {"imported", "failed"}, both \in BOOLEAN :
            /\ payReqs[h].pc \in {"apply", "pay", "participant"} /\ UNCHANGED <<sponsors, ledger, halted>>
            /\ Pay!Mark(h, status, both)
  BY <1>6 DEF Pay!Confirm, Pay!At, Pay!RowThrows
 <2>2. QED BY <1>5, <2>1, PayOrderMark DEF PayMarked4
<1>7. CASE Pay!StoreRows(h) \/ Pay!PreviewStatus(h)
 BY <1>7, PayOrderStore, PayOrderPreviewEnd
<1>8. CASE Pay!RowStart(h)
 <2>1. /\ payReqs[h].pc = "row" /\ payReqs[h].i <= Len(payReqs[h].rows) /\ UNCHANGED <<sponsors, ledger, halted>>
       /\ \/ \E st \in {"failed", "skipped", "unmatched"} : Pay!Mark(h, st, FALSE)
          \/ Pay!Goto(h, [payReqs[h] EXCEPT !.pc = "apply"]) /\ UNCHANGED payBatches
  BY <1>8 DEF Pay!RowStart, Pay!At, Pay!Row
 <2>2. PayConfirms(h) /\ payReqs[h].pc # "participant"
  BY <2>1 DEF PayConfirms
 <2>3. CASE \E st \in {"failed", "skipped", "unmatched"} : Pay!Mark(h, st, FALSE)
  BY <2>1, <2>2, <2>3, PayOrderMark DEF PayMarked4
 <2>4. CASE Pay!Goto(h, [payReqs[h] EXCEPT !.pc = "apply"]) /\ UNCHANGED payBatches
  BY <2>1, <2>2, <2>4, PayOrderGoesOn
 <2>5. QED BY <2>1, <2>3, <2>4
<1>9. CASE Pay!UpdateSponsor(h)
 <2>1. /\ payReqs[h].pc = "apply" /\ UNCHANGED <<sponsors, ledger, halted>>
       /\ \/ Pay!Mark(h, "failed", FALSE)
          \/ Pay!Goto(h, [payReqs[h] EXCEPT !.pc = "pay"]) /\ UNCHANGED payBatches
  BY <1>9 DEF Pay!UpdateSponsor, Pay!At
 <2>2. CASE Pay!Mark(h, "failed", FALSE)
  BY <1>5, <2>1, <2>2, PayOrderMark DEF PayMarked4
 <2>3. CASE Pay!Goto(h, [payReqs[h] EXCEPT !.pc = "pay"]) /\ UNCHANGED payBatches
  BY <1>5, <2>1, <2>3, PayOrderGoesOn
 <2>4. QED BY <2>1, <2>2, <2>3
<1>10. CASE Pay!Record(h) \/ Pay!ConfirmEnd(h) \/ Pay!Stops(h)
 BY <1>10, PayOrderRecord, PayOrderEnd, PayOrderStop
<1>11. QED BY <1>1, <1>2, <1>3, <1>6, <1>7, <1>8, <1>9, <1>10 DEF Pay!PimStep

\* A row with unique entries has at most one.
LEMMA PayCount == \A S : Pay!Cardinality(S) = Cardinality(S)
BY DEF Pay!Cardinality, Cardinality

PayInv == PayShape /\ (payCalm => PayOrder)

LEMMA PayRecordedOnce ==
  ASSUME PayInv
  PROVE  Pay!RecordedOnce
<1>1. ASSUME PayOrder, NEW b, b \notin halted, NEW i
      PROVE  Pay!Cardinality(Pay!Entries(b, i)) <= 1
 <2>1. \A j, k \in Pay!Entries(b, i) : j = k
  BY <1>1 DEF PayOrder, PayOnce, Pay!Entries
 <2>2. CASE Pay!Entries(b, i) = {} BY <2>2, FS_EmptySet, PayCount
 <2>3. CASE \E k : Pay!Entries(b, i) = {k}
  <3>1. PICK k : Pay!Entries(b, i) = {k} BY <2>3
  <3>2. Cardinality({k}) = 1 BY FS_Singleton
  <3>3. QED BY <3>1, <3>2, PayCount
 <2>4. ASSUME Pay!Entries(b, i) # {} PROVE \E k : Pay!Entries(b, i) = {k}
  <3>1. PICK k : k \in Pay!Entries(b, i) BY <2>4
  <3>2. Pay!Entries(b, i) = {k} BY <2>1, <3>1
  <3>3. QED BY <3>2
 <2>5. QED BY <2>2, <2>3, <2>4
<1>2. QED BY <1>1 DEF PayInv, Pay!RecordedOnce

LEMMA PayResults ==
  ASSUME PayInv
  PROVE  Pay!PimTypeOK /\ Pay!ImportedIsRecorded /\ Pay!RecordedOnce /\ Pay!VerdictTrue
<1>1. Pay!VerdictTrue BY DEF PayInv, PayOrder, PayVerdict, Pay!VerdictTrue
<1>2. QED BY <1>1, PayRecordedOnce DEF PayInv, PayShape

LEMMA PayInvInit == ASSUME Pay!PimInit PROVE PayInv
<1>1. PayShape BY PayShapeInit
<1>2. \A h \in Handlers : payReqs[h].pc = "idle"
 BY DEF Pay!PimInit, Pay!PimIdle
<1>3. payBatches = <<>> /\ ledger = <<>> BY DEF Pay!PimInit
<1>4. PayOrder BY <1>2, <1>3, EmptySeq DEF PayOrder, PayConfirms, PayOnce
<1>5. QED BY <1>1, <1>4 DEF PayInv

LEMMA PayInvStep == ASSUME PayInv, Pay!PimNext PROVE PayInv'
<1>1. PICK h \in Handlers : Pay!PimStep(h) /\ payCalm' = (payCalm /\ Pay!Alone(h))
 BY DEF Pay!PimNext
<1>2. PayShape' BY PayShapeStep DEF PayInv
<1>3. payCalm' => PayOrder' BY <1>1, PayOrderStep DEF PayInv
<1>4. QED BY <1>2, <1>3 DEF PayInv

LEMMA PayInvStays == ASSUME PayInv, UNCHANGED pimVars PROVE PayInv'
<1>1. UNCHANGED <<sponsors, ledger, payBatches, payReqs, halted, payCalm>>
 BY DEF pimVars
<1>2. PayShape'
 <2>1. Pay!PimTypeOK' BY <1>1 DEF PayInv, PayShape, Pay!PimTypeOK
 <2>2. \A h \in Handlers : PayAsks(h)'
  BY <1>1 DEF PayInv, PayShape, PayAsks, PayConfirms, Pay!Entries
 <2>3. QED BY <1>1, <2>1, <2>2 DEF PayInv, PayShape, Pay!ImportedIsRecorded, Pay!Entries
<1>3. PayOrder => PayOrder'
 <2>1. \A q : PayAhead(q) => PayAhead(q)' BY <1>1 DEF PayAhead
 <2>2. \A b : (PayVerdict(b) => PayVerdict(b)') /\ (PayFresh(b) => PayFresh(b)')
  BY <1>1 DEF PayVerdict, Pay!StatusOf, PayFresh
 <2>3. \A k : PayConfirms(k)' <=> PayConfirms(k) BY <1>1 DEF PayConfirms
 <2>4. PayOrder => PayOnce' BY <1>1 DEF PayOrder, PayOnce
 <2>5. PayOrder => \A k \in Handlers : PayConfirms(k)' => PayAhead(payReqs[k])'
  BY <1>1, <2>1, <2>3 DEF PayOrder
 <2>6. QED BY <1>1, <2>2, <2>3, <2>4, <2>5 DEF PayOrder
<1>4. QED BY <1>1, <1>2, <1>3 DEF PayInv

-----------------------------------------------------------------------------
(* The workspace.  Whatever requests overlap: ids and slot numbers are unique, *)
(* every slot has a participant, the newest row of a company is its own, and   *)
(* what is marked as paid, or is about to be, was paid.                        *)

WsParts(p, once) ==
  /\ p \in [Companies -> Work!Parts]
  /\ \A c \in Companies : (p[c].id = 0 => p[c] = Work!NoPart) /\ (p[c].confirmed => c \in once)
  /\ \A c, d \in Companies : p[c].id = p[d].id /\ p[c].id # 0 => c = d
WsSlots(p, s) ==
  /\ s \in [SlotIds -> Work!SlotRows]
  /\ \A i \in SlotIds : s[i] = Work!NoSlot \/ (s[i].pid # 0 /\ s[i].n > 0)
  /\ \A i, j \in SlotIds : s[i].pid = s[j].pid /\ s[i].n = s[j].n /\ s[i].pid # 0 => i = j
  /\ \A i \in SlotIds : s[i].pid # 0 => \E c \in Companies : p[c].id = s[i].pid
WsPays(pay, w, once) ==
  /\ pay \in [PayIds -> Work!Payments] /\ w \in [Companies -> PayIds \cup {0}]
  /\ \A i \in PayIds : /\ pay[i].company = None => pay[i] = Work!NoPay
                       /\ pay[i].paid => pay[i].company \in once
  /\ \A c \in Companies : w[c] # 0 => pay[w[c]].company = c
WsRegs(g) ==
  /\ g \in [Regs -> Work!Registrations]
  /\ \A r \in Regs : g[r].state = "new" => g[r].company = None

WsReconciles == {"recRead", "recDrop", "recSurvivors", "recFill"}
WsAsks(q, once) ==
  /\ q \in Work!Requests
  /\ q.pc \notin {"idle", "syncLink", "slot", "cleanNext"} => q.company \in Companies
  /\ q.pc \in WsReconciles \cup {"syncMark", "syncRead", "createSlots", "repair", "archive", "merge", "assignWrite"} =>
       q.pid # 0
  /\ q.pc = "merge" => q.to \in Companies /\ q.to # q.company
  /\ \/ q.pc \in {"create", "repair"} \/ (q.pc = "merge" /\ q.flag)
     \/ (q.pc = "importFlag" /\ Work!Eligible(q.body))
     => q.company \in once
  /\ q.pc \in {"assign", "assignWrite"} => q.reg \in Regs
  /\ q.pc = "assignWrite" => q.count > 0
  /\ q.pc = "syncLink" => q.pairs # {}

WsShape ==
  /\ WsParts(parts, paidOnce) /\ WsSlots(parts, slots) /\ WsPays(pays, newest, paidOnce) /\ WsRegs(regs)
  /\ reqs \in [Handlers -> Work!Requests]
  /\ \A h \in Handlers : WsAsks(reqs[h], paidOnce)
  /\ paidOnce \subseteq Companies /\ moved \subseteq Regs /\ refused \subseteq Companies
  /\ merged \in BOOLEAN /\ wsCalm \in BOOLEAN

(* As long as requests did not overlap, at most one is in flight and knows the  *)
(* rows it has read.                                                            *)

WsTurn(h) == \A k \in Handlers \ {h} : reqs[k].pc = "idle"
WsLone == \A h, k \in Handlers : h = k \/ reqs[h].pc = "idle" \/ reqs[k].pc = "idle"

\* The slots of pid are numbered 1 .. k.
WsNumbered(s, pid, k) ==
  /\ k \in Nat
  /\ \A i \in SlotIds : s[i].pid = pid => s[i].n \in 1 .. k
  /\ \A n \in 1 .. k : \E i \in SlotIds : s[i].pid = pid /\ s[i].n = n
WsCounted(p, s, no, c) ==
  \E k \in Nat : /\ WsNumbered(s, p[c].id, k)
                 /\ p[c].count = k \/ (c \in no /\ p[c].count < k)
WsCounts(q) == q.pc \in WsReconciles \cup {"createSlots"}
WsPlan(q, p, s) ==
  /\ WsCounts(q) \/ q.pc \in {"repair", "archive"} => p[q.company].id = q.pid /\ p[q.company].count = q.count
  /\ q.pc # "idle" => \A e \in q.left : p[e.company].id = e.pid /\ p[e.company].count = e.count
  /\ q.pc = "recDrop" => /\ q.held = {i \in SlotIds : s[i].pid = q.pid /\ s[i].n > q.count}
                         /\ ~q.rm => (\A i \in q.held : ~s[i].named)
  /\ q.pc \in {"recSurvivors", "recFill"} => \A i \in SlotIds : s[i].pid = q.pid => s[i].n <= q.count
  /\ q.pc \in {"recDrop", "recSurvivors", "recFill", "create", "createSlots"} => q.count >= 0
  /\ q.pc = "recFill" => q.held = {i \in SlotIds : s[i].pid = q.pid}
  /\ q.pc = "createSlots" => \A i \in SlotIds : s[i].pid # q.pid
  /\ q.pc = "assignWrite" => /\ p[q.company].id = q.pid
                             /\ q.held = {} => WsNumbered(s, q.pid, q.count - 1)
WsGapless(p, s) == \A c \in Companies : p[c].id # 0 => \E k \in Nat : WsNumbered(s, p[c].id, k)
WsTallied(p, s, no, q) ==
  \A c \in Companies : p[c].id # 0 => (WsCounts(q) /\ q.company = c) \/ WsCounted(p, s, no, c)

\* Until participants are merged a company has one payment row, which the flag follows.
WsPaid(pay, i) == i # 0 /\ pay[i].paid
WsOneRow(pay, w) == \A i \in PayIds, c \in Companies : pay[i].company = c => w[c] = i
WsFlagged(p, pay, w, q) ==
  \A c \in Companies : p[c].id # 0 =>
    (q.pc = "importFlag" /\ q.company = c) \/ (p[c].confirmed <=> WsPaid(pay, w[c]))
WsBill(q, p, pay, w) ==
  /\ q.pc \in {"payLedger", "payWrite"} => q.pid = p[q.company].id
  /\ q.pc \in {"payWrite", "importPay", "create"} => q.pay = w[q.company]
  /\ q.pc = "importFlag" => (WsPaid(pay, w[q.company]) <=> Work!Eligible(q.body))
  /\ q.pc \in {"create", "repair"} => WsPaid(pay, w[q.company])

\* A registration whose company stayed has its slot with its company's participant.
WsSeated(p, s, g, mv) ==
  \A i \in SlotIds : s[i].reg # None /\ s[i].reg \notin mv =>
    g[s[i].reg].company # None /\ p[g[s[i].reg].company].id = s[i].pid
WsOnce(s, mv) == \A i, j \in SlotIds : s[i].reg = s[j].reg /\ s[i].reg # None /\ s[i].reg \notin mv => i = j
WsLink(q, p, s, g, mv) ==
  /\ (q.pc \in WsReconciles /\ q.then = "syncMark") \/ q.pc \in {"syncMark", "syncRead"} => p[q.company].id = q.pid
  /\ q.pc = "syncLink" =>
       /\ \A a \in q.pairs : /\ a.reg \in Regs /\ a.slot \in SlotIds
                             /\ g[a.reg].company # None /\ p[g[a.reg].company].id = s[a.slot].pid
                             /\ s[a.slot].pid # 0 /\ (a.reg \in mv \/ \A i \in SlotIds : s[i].reg # a.reg)
       /\ \A a, b \in q.pairs : a.reg = b.reg <=> a.slot = b.slot
  /\ q.pc \in {"assign", "assignWrite"} => g[q.reg].company = q.company
  /\ q.pc = "assignWrite" =>
       /\ p[q.company].id = q.pid /\ \A i \in SlotIds : s[i].reg # q.reg
       /\ \A i \in q.held : s[i].pid = q.pid
       /\ \A i, j \in q.held : i = j

WsAlone ==
  /\ WsLone /\ WsGapless(parts, slots)
  /\ \A h \in Handlers : WsTurn(h) => WsPlan(reqs[h], parts, slots) /\ WsTallied(parts, slots, refused, reqs[h])
WsBooks ==
  /\ WsOneRow(pays, newest)
  /\ \A h \in Handlers : WsTurn(h) => WsBill(reqs[h], parts, pays, newest) /\ WsFlagged(parts, pays, newest, reqs[h])
WsLinks ==
  /\ WsSeated(parts, slots, regs, moved) /\ WsOnce(slots, moved)
  /\ \A h \in Handlers : WsTurn(h) => WsLink(reqs[h], parts, slots, regs, moved)

WsInv ==
  /\ WsShape
  /\ wsCalm => WsAlone /\ (~merged => WsBooks /\ WsLinks)
  /\ Handlers = {} => \A c \in Companies : parts[c].id = 0


LEMMA WsIds ==
  /\ None \notin Companies \cup Regs /\ Regs \subseteq Nat /\ Counts \subseteq Int /\ Options \subseteq Nat
  /\ Bodies \subseteq {"all", "part", "forced"} /\ PartIds \subseteq Nat \ {0} /\ PayIds \subseteq Nat \ {0}
BY EventureAssumption DEF Work!IdsAssumption

LEMMA WsCardinality == \A S : Work!Cardinality(S) = Cardinality(S)
BY DEF Work!Cardinality, Cardinality

LEMMA WsFinite == \A S \in SUBSET SlotIds : IsFiniteSet(S) /\ Cardinality(S) \in Nat
<1>1. IsFiniteSet(SlotIds)
 BY EventureAssumption DEF Work!IdsAssumption, Work!IsFiniteSet, IsFiniteSet
<1>2. QED BY <1>1, FS_Subset, FS_CardinalityType

\* As many slots as the numbers 1 .. k.
LEMMA WsHowMany ==
  ASSUME NEW p, NEW s, WsSlots(p, s), NEW pid, pid # 0, NEW k, WsNumbered(s, pid, k)
  PROVE  Work!Cardinality({i \in SlotIds : s[i].pid = pid}) = k
<1> DEFINE own == {i \in SlotIds : s[i].pid = pid}
           f == [n \in 1 .. k |-> CHOOSE i \in own : s[i].n = n]
<1>1. k \in Nat /\ (\A i \in own : s[i].n \in 1 .. k) /\ (\A n \in 1 .. k : \E i \in own : s[i].n = n)
 BY DEF WsNumbered
<1>2. \A n \in 1 .. k : f[n] \in own /\ s[f[n]].n = n BY <1>1
<1>3. \A i, j \in own : s[i].n = s[j].n => i = j BY DEF WsSlots
<1>4. f \in [1 .. k -> own] /\ (\A m, n \in 1 .. k : f[m] = f[n] => m = n) /\ (\A i \in own : \E n \in 1 .. k : f[n] = i)
 <2>1. f \in [1 .. k -> own] BY <1>2
 <2>2. \A m, n \in 1 .. k : f[m] = f[n] => m = n BY <1>2
 <2>3. ASSUME NEW i \in own PROVE \E n \in 1 .. k : f[n] = i
  <3>1. s[i].n \in 1 .. k BY <1>1
  <3>2. f[s[i].n] \in own /\ s[f[s[i].n]].n = s[i].n BY <1>2, <3>1
  <3>3. QED BY <1>3, <3>1, <3>2
 <2>4. QED BY <2>1, <2>2, <2>3
<1>5. ExistsBijection(1 .. k, own)
 <2> HIDE DEF f, own
 <2>1. QED BY <1>4 DEF ExistsBijection, Bijection, Injection, Surjection, IsInjective
<1>6. Cardinality(own) = k BY <1>1, <1>5, FS_CountingElements
<1>7. QED BY <1>6, WsCardinality

\* The slots new to t, of the participant pid, have the numbers ns.
WsAdds(t, pid, ns, reg) ==
  /\ \A i \in SlotIds :
       \/ t[i] = slots[i]
       \/ slots[i] = Work!NoSlot /\ t[i] = [pid |-> pid, n |-> t[i].n, named |-> reg # None, reg |-> reg] /\ t[i].n \in ns
  /\ \A n \in ns : \E i \in SlotIds : slots[i] = Work!NoSlot /\ t[i].pid = pid /\ t[i].n = n
  /\ \A i, j \in SlotIds : t[i] # slots[i] /\ t[j] # slots[j] /\ t[i].n = t[j].n => i = j
  /\ DOMAIN t = SlotIds /\ t = [i \in SlotIds |-> t[i]]

LEMMA WsNewSlots ==
  ASSUME NEW pid, NEW ns, NEW reg, Work!Numberings(ns) # {}
  PROVE  WsAdds(Work!NewSlots(pid, ns, reg), pid, ns, reg)
<1>1. PICK f \in Work!Numberings(ns) : f = CHOOSE g \in Work!Numberings(ns) : TRUE
 OBVIOUS
<1>2. f \in [ns -> Work!FreeSlots] /\ \A m, n \in ns : f[m] = f[n] => m = n
 BY DEF Work!Numberings
<1>3. \A n \in ns : f[n] \in SlotIds /\ slots[f[n]] = Work!NoSlot
 BY <1>2 DEF Work!FreeSlots
<1>4. PICK t : t = Work!NewSlots(pid, ns, reg) OBVIOUS
<1>5. t = [i \in SlotIds |-> IF \E n \in ns : f[n] = i
                             THEN [pid |-> pid, n |-> CHOOSE n \in ns : f[n] = i, named |-> reg # None, reg |-> reg]
                             ELSE slots[i]]
 BY <1>1, <1>4 DEF Work!NewSlots
<1>6. ASSUME NEW n \in ns
      PROVE  t[f[n]] = [pid |-> pid, n |-> n, named |-> reg # None, reg |-> reg]
 <2>1. PICK m : m = CHOOSE l \in ns : f[l] = f[n] OBVIOUS
 <2>2. m = n BY <1>2, <2>1
 <2>3. t[f[n]] = [pid |-> pid, n |-> m, named |-> reg # None, reg |-> reg]
  BY <1>3, <1>5, <2>1
 <2>4. QED BY <2>2, <2>3
<1>7. \A i \in SlotIds : t[i] = slots[i] \/ \E n \in ns : f[n] = i BY <1>5
<1>8. ASSUME NEW i \in SlotIds
      PROVE  \/ t[i] = slots[i]
             \/ slots[i] = Work!NoSlot /\ t[i] = [pid |-> pid, n |-> t[i].n, named |-> reg # None, reg |-> reg] /\ t[i].n \in ns
 <2>1. CASE t[i] = slots[i] BY <2>1
 <2>2. CASE \E n \in ns : f[n] = i
  <3>1. PICK n \in ns : f[n] = i BY <2>2
  <3>2. t[i] = [pid |-> pid, n |-> n, named |-> reg # None, reg |-> reg]
   BY <1>6, <3>1
  <3>3. t[i].n = n /\ slots[i] = Work!NoSlot BY <1>3, <3>1, <3>2
  <3>4. QED BY <3>1, <3>2, <3>3
 <2>3. QED BY <1>7, <2>1, <2>2
<1>9. \A n \in ns : \E i \in SlotIds : slots[i] = Work!NoSlot /\ t[i].pid = pid /\ t[i].n = n
 <2>1. ASSUME NEW n \in ns PROVE f[n] \in SlotIds /\ slots[f[n]] = Work!NoSlot /\ t[f[n]].pid = pid /\ t[f[n]].n = n
  <3>1. t[f[n]] = [pid |-> pid, n |-> n, named |-> reg # None, reg |-> reg]
   BY <1>6
  <3>2. t[f[n]].pid = pid /\ t[f[n]].n = n BY <3>1
  <3>3. QED BY <1>3, <3>2
 <2>2. QED BY <2>1
<1>10. \A i, j \in SlotIds : t[i] # slots[i] /\ t[j] # slots[j] /\ t[i].n = t[j].n => i = j
 <2>1. ASSUME NEW i \in SlotIds, t[i] # slots[i] PROVE t[i].n \in ns /\ f[t[i].n] = i
  <3>1. PICK n \in ns : f[n] = i BY <1>7, <2>1
  <3>2. t[i] = [pid |-> pid, n |-> n, named |-> reg # None, reg |-> reg]
   BY <1>6, <3>1
  <3>3. t[i].n = n BY <3>2
  <3>4. QED BY <3>1, <3>3
 <2>2. QED BY <2>1
<1>11. DOMAIN t = SlotIds /\ t = [i \in SlotIds |-> t[i]] BY <1>5
<1>12. QED BY <1>4, <1>8, <1>9, <1>10, <1>11 DEF WsAdds


WsGoes(h, r) == reqs' = [reqs EXCEPT ![h] = r]
WsGoesOn(h) == \E r : WsGoes(h, r) /\ WsAsks(r, paidOnce')

LEMMA WsTypes ==
  ASSUME WsShape
  PROVE  /\ \A c \in Companies : /\ parts[c] \in Work!Parts /\ newest[c] \in PayIds \cup {0}
                                 /\ parts[c].id \in PartIds \cup {0} /\ parts[c].count \in Int
                                 /\ parts[c].confirmed \in BOOLEAN /\ parts[c].active \in BOOLEAN
                                 /\ parts[c] = Work!NoPart <=> parts[c].id = 0
         /\ \A s \in SlotIds : /\ slots[s] \in Work!SlotRows /\ slots[s].pid \in PartIds \cup {0} /\ slots[s].n \in Nat
                               /\ slots[s].named \in BOOLEAN /\ slots[s].reg \in Regs \cup {None}
         /\ \A i \in PayIds : pays[i] \in Work!Payments /\ pays[i].company \in Companies \cup {None}
         /\ \A h \in Handlers : reqs[h] \in Work!Requests /\ WsAsks(reqs[h], paidOnce)
<1>1. ASSUME NEW c \in Companies
      PROVE  /\ parts[c] \in Work!Parts /\ newest[c] \in PayIds \cup {0}
             /\ parts[c].id \in PartIds \cup {0} /\ parts[c].count \in Int
             /\ parts[c].confirmed \in BOOLEAN /\ parts[c].active \in BOOLEAN
             /\ parts[c] = Work!NoPart <=> parts[c].id = 0
 <2>1. parts[c] \in Work!Parts /\ newest[c] \in PayIds \cup {0} /\ (parts[c].id = 0 => parts[c] = Work!NoPart)
  BY DEF WsShape, WsParts, WsPays
 <2>2. Work!NoPart.id = 0 BY DEF Work!NoPart
 <2>3. QED BY <2>1, <2>2 DEF Work!Parts
<1>2. ASSUME NEW s \in SlotIds
      PROVE  /\ slots[s] \in Work!SlotRows /\ slots[s].pid \in PartIds \cup {0} /\ slots[s].n \in Nat
             /\ slots[s].named \in BOOLEAN /\ slots[s].reg \in Regs \cup {None}
 BY DEF WsShape, WsSlots, Work!SlotRows
<1>3. \A i \in PayIds : pays[i] \in Work!Payments /\ pays[i].company \in Companies \cup {None}
 BY DEF WsShape, WsPays, Work!Payments
<1>4. QED BY <1>1, <1>2, <1>3 DEF WsShape

LEMMA WsFlags ==
  ASSUME NEW q \in Work!Requests, NEW flag \in BOOLEAN
  PROVE  [q EXCEPT !.flag = flag] \in Work!Requests
<1>1. CASE flag = TRUE BY <1>1 DEF Work!Requests
<1>2. CASE flag = FALSE BY <1>2 DEF Work!Requests
<1>3. QED BY <1>1, <1>2

LEMMA WsIdleAsks == ASSUME NEW once PROVE WsAsks(Work!Idle, once)
BY DEF WsAsks, Work!Idle, Work!Requests, Work!Pcs, WsReconciles

LEMMA WsFinishes == ASSUME NEW h \in Handlers, Work!Finish(h) PROVE WsGoesOn(h)
BY WsIdleAsks DEF Work!Finish, Work!Goto, WsGoesOn, WsGoes

LEMMA WsConfirmReads ==
  ASSUME WsShape, NEW h \in Handlers, NEW c \in Companies, NEW n \in Counts, NEW b \in Bodies \cup {"kept"},
         NEW opt \in Options, NEW rm \in BOOLEAN, Work!ConfirmRead(h, c, n, b, opt, rm)
  PROVE  WsGoesOn(h)
<1>1. PICK due : due = (IF b # "kept" THEN b ELSE IF newest[c] # 0 /\ ~pays[newest[c]].full THEN "part" ELSE "all")
 OBVIOUS
<1>2. PICK count : count = (IF opt = 0 THEN n ELSE opt + parts[c].count)
 OBVIOUS
<1>3. due \in {"all", "part", "forced"} /\ count \in Int /\ parts[c].id \in PartIds \cup {0}
 BY <1>1, <1>2, WsIds, WsTypes
<1>4. PICK r : r = [Work!Idle EXCEPT !.pc = "confirm", !.company = c, !.pid = parts[c].id, !.count = count, !.body = due, !.rm = rm]
 OBVIOUS
<1>5. WsGoes(h, r)
 BY <1>1, <1>2, <1>4 DEF Work!ConfirmRead, Work!Goto, WsGoes
<1>6. WsAsks(r, paidOnce')
 BY <1>3, <1>4 DEF WsAsks, Work!Idle, Work!Requests, Work!Pcs, WsReconciles
<1>7. QED BY <1>5, <1>6 DEF WsGoesOn

LEMMA WsCreateReads ==
  ASSUME WsShape, NEW h \in Handlers, NEW c \in Companies, NEW n \in Counts, Work!CreateRead(h, c, n)
  PROVE  WsGoesOn(h)
<1>1. PICK r : r = [Work!Idle EXCEPT !.pc = "create", !.company = c, !.pay = newest[c], !.count = n]
 OBVIOUS
<1>2. WsGoes(h, r) BY <1>1 DEF Work!CreateRead, Work!Goto, WsGoes
<1>3. newest[c] \in PayIds \cup {0} /\ n \in Int BY WsTypes, WsIds
<1>4. c \in paidOnce'
 BY <1>3 DEF Work!CreateRead, Work!Paid, WsShape, WsPays
<1>5. WsAsks(r, paidOnce')
 <2>1. r \in Work!Requests
  BY 0 \in Int, <1>1, <1>3 DEF Work!Idle, Work!Requests, Work!Pcs
 <2>2. r.pc = "create" /\ r.company = c BY <1>1 DEF Work!Idle
 <2>3. QED BY <1>4, <2>1, <2>2 DEF WsAsks, WsReconciles
<1>6. QED BY <1>2, <1>5 DEF WsGoesOn

LEMMA WsPayReads ==
  ASSUME WsShape, NEW h \in Handlers, NEW c \in Companies, NEW b \in Bodies, Work!PayRead(h, c, b) \/ Work!ImportRead(h, c, b)
  PROVE  WsGoesOn(h)
<1>1. PICK r : /\ WsGoes(h, r)
               /\ \/ r = [Work!Idle EXCEPT !.pc = "payLedger", !.company = c, !.pid = parts[c].id, !.body = b]
                  \/ r = [Work!Idle EXCEPT !.pc = "importPay", !.company = c, !.pay = newest[c], !.body = b]
 BY DEF Work!PayRead, Work!ImportRead, Work!Goto, WsGoes
<1>2. newest[c] \in PayIds \cup {0} /\ parts[c].id \in PartIds \cup {0} /\ b \in {"all", "part", "forced"}
 BY WsTypes, WsIds
<1>3. WsAsks(r, paidOnce')
 <2>1. r \in Work!Requests
  <3>1. CASE r = [Work!Idle EXCEPT !.pc = "payLedger", !.company = c, !.pid = parts[c].id, !.body = b]
   BY 0 \in Int, <1>2, <3>1 DEF Work!Idle, Work!Requests, Work!Pcs
  <3>2. CASE r = [Work!Idle EXCEPT !.pc = "importPay", !.company = c, !.pay = newest[c], !.body = b]
   BY 0 \in Int, <1>2, <3>2 DEF Work!Idle, Work!Requests, Work!Pcs
  <3>3. QED BY <1>1, <3>1, <3>2
 <2>2. r.pc \in {"payLedger", "importPay"} /\ r.company = c
  BY <1>1 DEF Work!Idle
 <2>3. QED BY <1>2, <2>1, <2>2 DEF WsAsks, WsReconciles
<1>4. QED BY <1>1, <1>3 DEF WsGoesOn

LEMMA WsCountWrites ==
  ASSUME WsShape, NEW h \in Handlers, NEW c \in Companies, NEW n \in Counts, NEW rm \in BOOLEAN, Work!CountWrite(h, c, n, rm)
  PROVE  WsGoesOn(h)
<1>1. PICK r : r = Work!Reconcile(parts[c].id, c, n, rm, "done") OBVIOUS
<1>2. WsGoes(h, r) BY <1>1 DEF Work!CountWrite, Work!Goto, WsGoes
<1>3. parts[c].id \in PartIds \cup {0} /\ parts[c].id # 0 /\ n \in Int
 BY WsTypes, WsIds DEF Work!CountWrite
<1>4. WsAsks(r, paidOnce')
 <2>1. r \in Work!Requests
  BY 0 \in Int, <1>1, <1>3 DEF Work!Idle, Work!Requests, Work!Pcs, Work!Reconcile
 <2>2. r.pc = "recRead" /\ r.company = c /\ r.pid = parts[c].id
  BY <1>1 DEF Work!Idle, Work!Reconcile
 <2>3. QED BY <1>3, <2>1, <2>2 DEF WsAsks, WsReconciles
<1>5. QED BY <1>2, <1>4 DEF WsGoesOn

LEMMA WsSlotReads ==
  ASSUME WsShape, NEW h \in Handlers, NEW s \in SlotIds, NEW name \in {"keep", "name", "clear"}, Work!SlotRead(h, s, name)
  PROVE  WsGoesOn(h)
<1>1. PICK named \in BOOLEAN : named = (IF name = "keep" THEN slots[s].named ELSE name = "name")
 BY WsTypes
<1>2. PICK r : r = [Work!Idle EXCEPT !.pc = "slot", !.held = {s}, !.flag = named]
 OBVIOUS
<1>3. WsGoes(h, r) BY <1>1, <1>2 DEF Work!SlotRead, Work!Goto, WsGoes
<1>4. WsAsks(r, paidOnce')
 <2>1. PICK q : q = [Work!Idle EXCEPT !.pc = "slot", !.held = {s}] OBVIOUS
 <2>4. q \in Work!Requests
  BY 0 \in Int, <2>1 DEF Work!Idle, Work!Requests, Work!Pcs
 <2>5. r = [q EXCEPT !.flag = named] BY <1>2, <2>1 DEF Work!Idle
 <2>6. r \in Work!Requests BY <1>1, <2>4, <2>5, WsFlags
 <2>2. r.pc = "slot" BY <1>2 DEF Work!Idle
 <2>3. QED BY <2>2, <2>6 DEF WsAsks, WsReconciles
<1>5. QED BY <1>3, <1>4 DEF WsGoesOn

LEMMA WsMergeReads ==
  ASSUME WsShape, NEW h \in Handlers, NEW c \in Companies, NEW d \in Companies, Work!MergeRead(h, c, d)
  PROVE  WsGoesOn(h)
<1>1. PICK r : r = [Work!Idle EXCEPT !.pc = "merge", !.company = c, !.to = d, !.pid = parts[c].id, !.flag = parts[c].confirmed]
 OBVIOUS
<1>2. WsGoes(h, r) BY <1>1 DEF Work!MergeRead, Work!Goto, WsGoes
<1>3. /\ parts[c].id \in PartIds \cup {0} /\ parts[c].id # 0 /\ parts[c].confirmed \in BOOLEAN /\ c # d
      /\ parts[c].confirmed => c \in paidOnce'
 BY WsTypes DEF Work!MergeRead, WsShape, WsParts
<1>4. WsAsks(r, paidOnce')
 <2>1. r \in Work!Requests
  <3>1. PICK q : q = [Work!Idle EXCEPT !.pc = "merge", !.company = c, !.to = d, !.pid = parts[c].id]
   OBVIOUS
  <3>2. q \in Work!Requests
   BY 0 \in Int, <1>3, <3>1 DEF Work!Idle, Work!Requests, Work!Pcs
  <3>3. r = [q EXCEPT !.flag = parts[c].confirmed]
   BY <1>1, <3>1 DEF Work!Idle
  <3>4. QED BY <1>3, <3>2, <3>3, WsFlags
 <2>2. r.pc = "merge" /\ r.company = c /\ r.to = d /\ r.pid = parts[c].id /\ r.flag = parts[c].confirmed
  BY <1>1 DEF Work!Idle
 <2>3. QED BY <1>3, <2>1, <2>2 DEF WsAsks, WsReconciles
<1>5. QED BY <1>2, <1>4 DEF WsGoesOn


LEMMA WsReconcileAsks ==
  ASSUME WsShape, NEW h \in Handlers,
         Work!RecRead(h) \/ Work!RecDrop(h) \/ Work!RecSurvivors(h) \/ Work!RecFill(h)
  PROVE  WsGoesOn(h)
<1> DEFINE q == reqs[h]
<1>1. q \in Work!Requests /\ WsAsks(q, paidOnce) /\ q.pc \in WsReconciles
 BY WsTypes DEF Work!RecRead, Work!RecDrop, Work!RecSurvivors, Work!RecFill, Work!At, WsReconciles
<1>2. q.company \in Companies /\ q.pid # 0 /\ q.then \in {"done", "syncMark", "cleanNext"}
 BY <1>1 DEF WsAsks, WsReconciles, Work!Requests
<1>3. Work!Finish(h) \/ \E pc \in WsReconciles \cup {"syncMark", "cleanNext"}, held \in SUBSET SlotIds :
         WsGoes(h, [q EXCEPT !.pc = pc, !.held = held])
 <2>1. CASE Work!RecRead(h)
  <3>1. PICK drop : drop = {s \in Work!SlotsOf(q.pid) : slots[s].n > q.count}
   OBVIOUS
  <3>2. drop \in SUBSET SlotIds BY <3>1 DEF Work!SlotsOf
  <3>3. \/ Work!Finish(h) \/ WsGoes(h, [q EXCEPT !.pc = "recDrop", !.held = drop])
        \/ WsGoes(h, [q EXCEPT !.pc = "recSurvivors"])
   BY <2>1, <3>1 DEF Work!RecRead, Work!Goto, WsGoes
  <3>4. [q EXCEPT !.pc = "recSurvivors"] = [q EXCEPT !.pc = "recSurvivors", !.held = q.held] /\ q.held \in SUBSET SlotIds
   BY <1>1 DEF Work!Requests
  <3>5. QED BY <3>2, <3>3, <3>4 DEF WsReconciles
 <2>2. CASE Work!RecDrop(h)
  <3>1. WsGoes(h, [q EXCEPT !.pc = "recSurvivors", !.held = {}])
   BY <2>2 DEF Work!RecDrop, Work!Goto, WsGoes
  <3>2. QED BY <3>1 DEF WsReconciles
 <2>3. CASE Work!RecSurvivors(h)
  <3>1. PICK held : held = Work!SlotsOf(q.pid) OBVIOUS
  <3>2. WsGoes(h, [q EXCEPT !.pc = "recFill", !.held = held]) /\ held \in SUBSET SlotIds
   BY <2>3, <3>1 DEF Work!RecSurvivors, Work!Goto, WsGoes, Work!SlotsOf
  <3>3. QED BY <3>2 DEF WsReconciles
 <2>4. CASE Work!RecFill(h)
  <3>1. Work!Finish(h) \/ (q.then # "done" /\ WsGoes(h, [q EXCEPT !.pc = q.then, !.held = {}]))
   BY <2>4 DEF Work!RecFill, Work!Goto, WsGoes
  <3>2. QED BY <1>2, <3>1
 <2>5. QED BY <2>1, <2>2, <2>3, <2>4
<1>4. ASSUME NEW pc \in WsReconciles \cup {"syncMark", "cleanNext"}, NEW held \in SUBSET SlotIds,
             WsGoes(h, [q EXCEPT !.pc = pc, !.held = held])
      PROVE  WsGoesOn(h)
 <2>1. PICK r : r = [q EXCEPT !.pc = pc, !.held = held] OBVIOUS
 <2>2. r \in Work!Requests
  BY <1>1, <2>1 DEF Work!Requests, Work!Pcs, WsReconciles
 <2>3. r.pc = pc /\ r.company = q.company /\ r.pid = q.pid
  BY <1>1, <2>1 DEF Work!Requests
 <2>4. WsAsks(r, paidOnce') BY <1>2, <2>2, <2>3 DEF WsAsks, WsReconciles
 <2>5. QED BY <1>4, <2>1, <2>4 DEF WsGoesOn
<1>5. QED BY <1>3, <1>4, WsFinishes

\* What syncRead pairs.
WsOpen(pid) == {s \in Work!SlotsOf(pid) : slots[s].reg = None}
WsTodo(pid, c) ==
  {r \in Regs : /\ regs[r].state = "here" /\ regs[r].paid
                /\ regs[r].company = c
                /\ \A s \in Work!SlotsOf(pid) : slots[s].reg # r}
WsPairs(pid, c) ==
  {p \in [reg : WsTodo(pid, c), slot : WsOpen(pid)] :
     Work!Cardinality({q \in WsTodo(pid, c) : q <= p.reg}) =
     Work!Cardinality({s \in WsOpen(pid) : slots[s].n <= slots[p.slot].n})}

LEMMA WsFirstPair ==
  ASSUME NEW pairs \in SUBSET [reg : Regs, slot : SlotIds], pairs # {}
  PROVE  \E p \in pairs : \A q \in pairs : p.reg <= q.reg
<1>1. PICK T : T = {p.reg : p \in pairs} OBVIOUS
<1>2. T \in SUBSET Nat /\ T # {} BY <1>1, WsIds
<1>3. PICK m \in T : \A l \in T : ~(<<l, m>> \in OpToRel(<, Nat))
 BY <1>2, NatLessThanWellFounded, WFMin
<1>4. PICK p \in pairs : m = p.reg BY <1>1
<1>5. ASSUME NEW q \in pairs PROVE p.reg <= q.reg
 <2>1. PICK l : l = q.reg OBVIOUS
 <2>2. l \in T /\ l \in Nat /\ m \in Nat BY <1>1, <1>2, <2>1
 <2>3. ~(l < m)
  <3>1. l < m => <<l, m>> \in OpToRel(<, Nat) BY <2>2 DEF OpToRel
  <3>2. QED BY <1>3, <2>2, <3>1
 <2>4. m <= l BY <2>2, <2>3
 <2>5. QED BY <1>4, <2>1, <2>4
<1>6. QED BY <1>5

LEMMA WsSyncAsks ==
  ASSUME WsShape, NEW h \in Handlers, Work!SyncMark(h) \/ Work!SyncRead(h) \/ Work!SyncLink(h)
  PROVE  WsGoesOn(h)
<1> DEFINE q == reqs[h]
<1>1. q \in Work!Requests /\ WsAsks(q, paidOnce) BY WsTypes
<1>2. CASE Work!SyncMark(h)
 <2>1. PICK r : r = [q EXCEPT !.pc = "syncRead"] OBVIOUS
 <2>2. r \in Work!Requests /\ r.pc = "syncRead" /\ r.company = q.company /\ r.pid = q.pid
  BY <1>1, <2>1 DEF Work!Requests, Work!Pcs
 <2>3. WsGoes(h, r) /\ q.pc = "syncMark"
  BY <1>2, <2>1 DEF Work!SyncMark, Work!Goto, Work!At, WsGoes
 <2>4. q.company \in Companies /\ q.pid # 0 BY <1>1, <2>3 DEF WsAsks
 <2>5. WsAsks(r, paidOnce') BY <2>2, <2>4 DEF WsAsks, WsReconciles
 <2>6. QED BY <2>3, <2>5 DEF WsGoesOn
<1>3. CASE Work!SyncRead(h)
 <2>1. Work!Finish(h) \/ \E pairs \in SUBSET [reg : Regs, slot : SlotIds] :
          pairs # {} /\ WsGoes(h, [Work!Idle EXCEPT !.pc = "syncLink", !.pid = q.pid, !.pairs = pairs])
  <3>5. WsPairs(q.pid, q.company) \in SUBSET [reg : Regs, slot : SlotIds]
   BY DEF WsPairs, WsTodo, WsOpen, Work!SlotsOf
  <3>6. Work!Finish(h) \/ (WsPairs(q.pid, q.company) # {} /\ WsGoes(h, [Work!Idle EXCEPT !.pc = "syncLink", !.pid = q.pid, !.pairs = WsPairs(q.pid, q.company)]))
   BY <1>3, Zenon DEF Work!SyncRead, Work!Goto, WsGoes, WsPairs, WsTodo, WsOpen
  <3>7. QED BY <3>5, <3>6
 <2>2. ASSUME NEW pairs \in SUBSET [reg : Regs, slot : SlotIds], pairs # {},
              WsGoes(h, [Work!Idle EXCEPT !.pc = "syncLink", !.pid = q.pid, !.pairs = pairs])
       PROVE  WsGoesOn(h)
  <3>1. PICK r : r = [Work!Idle EXCEPT !.pc = "syncLink", !.pid = q.pid, !.pairs = pairs]
   OBVIOUS
  <3>2. q.pid \in PartIds \cup {0} BY <1>1 DEF Work!Requests
  <3>3. r \in Work!Requests
   BY 0 \in Int, <3>1, <3>2 DEF Work!Idle, Work!Requests, Work!Pcs
  <3>4. r.pc = "syncLink" /\ r.pairs = pairs BY <3>1 DEF Work!Idle
  <3>5. QED BY <2>2, <3>1, <3>3, <3>4 DEF WsGoesOn, WsAsks, WsReconciles
 <2>3. QED BY <2>1, <2>2, WsFinishes
<1>4. CASE Work!SyncLink(h)
 <2>1. q.pc = "syncLink" /\ q.pairs # {} /\ q.pairs \in SUBSET [reg : Regs, slot : SlotIds]
  BY <1>1, <1>4 DEF Work!SyncLink, Work!At, WsAsks, Work!Requests
 <2>2. PICK a : a = CHOOSE p \in q.pairs : \A b \in q.pairs : p.reg <= b.reg
  OBVIOUS
 <2>3. a \in q.pairs BY <2>1, <2>2, WsFirstPair
 <2>4. Work!Finish(h) \/ (q.pairs # {a} /\ WsGoes(h, [q EXCEPT !.pairs = q.pairs \ {a}]))
  BY <1>4, <2>2 DEF Work!SyncLink, Work!Goto, WsGoes
 <2>5. ASSUME q.pairs # {a}, WsGoes(h, [q EXCEPT !.pairs = q.pairs \ {a}]) PROVE WsGoesOn(h)
  <3>1. PICK r : r = [q EXCEPT !.pairs = q.pairs \ {a}] OBVIOUS
  <3>2. r \in Work!Requests /\ r.pc = q.pc /\ r.pairs = q.pairs \ {a}
   BY <1>1, <3>1 DEF Work!Requests
  <3>3. r.pairs # {} BY <2>3, <2>5, <3>2
  <3>4. QED BY <2>1, <2>5, <3>1, <3>2, <3>3 DEF WsGoesOn, WsAsks, WsReconciles
 <2>6. QED BY <2>4, <2>5, WsFinishes
<1>5. QED BY <1>2, <1>3, <1>4


LEMMA WsConfirmAsks ==
  ASSUME WsShape, NEW h \in Handlers, Work!ConfirmWrite(h) \/ Work!CreateWrite(h) \/ Work!CreateSlots(h)
  PROVE  WsGoesOn(h)
<1> DEFINE q == reqs[h]
<1>1. q \in Work!Requests /\ WsAsks(q, paidOnce) BY WsTypes
<1>2. CASE Work!ConfirmWrite(h)
 <2>1. q.pc = "confirm" BY <1>2 DEF Work!ConfirmWrite, Work!At
 <2>2. PICK pid : pid = (IF q.pid = 0 THEN Work!NewPartId ELSE q.pid)
  OBVIOUS
 <2>3. PICK then : then = (IF Work!Eligible(q.body) THEN "syncMark" ELSE "done")
  OBVIOUS
 <2>4. \/ Work!Finish(h)
       \/ /\ q.pid = 0 => Work!NewParts # {}
          /\ WsGoes(h, Work!Reconcile(pid, q.company, q.count, q.rm, then))
  BY <1>2, <2>2, <2>3 DEF Work!ConfirmWrite, Work!Goto, WsGoes
 <2>5. ASSUME q.pid = 0 => Work!NewParts # {}, WsGoes(h, Work!Reconcile(pid, q.company, q.count, q.rm, then))
       PROVE  WsGoesOn(h)
  <3>1. PICK r : r = Work!Reconcile(pid, q.company, q.count, q.rm, then)
   OBVIOUS
  <3>2. pid \in PartIds
   <4>1. CASE q.pid = 0 BY <2>2, <2>5, <4>1 DEF Work!NewPartId, Work!NewParts
   <4>2. CASE q.pid # 0 BY <1>1, <2>2, <4>2 DEF Work!Requests
   <4>3. QED BY <4>1, <4>2
  <3>3. q.company \in Companies /\ q.count \in Int /\ q.rm \in BOOLEAN /\ then \in {"done", "syncMark"} /\ pid # 0
   BY <1>1, <2>1, <2>3, <3>2, WsIds DEF WsAsks, Work!Requests
  <3>4. r \in Work!Requests
   BY 0 \in Int, <3>1, <3>2, <3>3 DEF Work!Reconcile, Work!Idle, Work!Requests, Work!Pcs
  <3>5. r.pc = "recRead" /\ r.company = q.company /\ r.pid = pid
   BY <3>1 DEF Work!Reconcile, Work!Idle
  <3>6. QED BY <2>5, <3>1, <3>3, <3>4, <3>5 DEF WsGoesOn, WsAsks, WsReconciles
 <2>6. QED BY <2>4, <2>5, WsFinishes
<1>3. CASE Work!CreateWrite(h)
 <2>1. PICK pid : pid = Work!NewPartId OBVIOUS
 <2>2. q.pc = "create" /\ (Work!Finish(h) \/ (Work!NewParts # {} /\ WsGoes(h, [q EXCEPT !.pc = "createSlots", !.pid = pid])))
  BY <1>3, <2>1 DEF Work!CreateWrite, Work!At, Work!Goto, WsGoes
 <2>3. ASSUME Work!NewParts # {}, WsGoes(h, [q EXCEPT !.pc = "createSlots", !.pid = pid]) PROVE WsGoesOn(h)
  <3>1. PICK r : r = [q EXCEPT !.pc = "createSlots", !.pid = pid] OBVIOUS
  <3>2. pid \in PartIds /\ pid # 0
   BY <2>1, <2>3, WsIds DEF Work!NewPartId, Work!NewParts
  <3>3. r \in Work!Requests /\ r.pc = "createSlots" /\ r.pid = pid /\ r.company = q.company
   BY <1>1, <3>1, <3>2 DEF Work!Requests, Work!Pcs
  <3>4. q.company \in Companies BY <1>1, <2>2 DEF WsAsks
  <3>5. QED BY <2>3, <3>1, <3>2, <3>3, <3>4 DEF WsGoesOn, WsAsks, WsReconciles
 <2>4. QED BY <2>2, <2>3, WsFinishes
<1>4. CASE Work!CreateSlots(h) BY <1>4, WsFinishes DEF Work!CreateSlots
<1>5. QED BY <1>2, <1>3, <1>4

LEMMA WsPayAsks ==
  ASSUME WsShape, NEW h \in Handlers,
         \/ Work!PayLedger(h) \/ Work!PayWrite(h) \/ Work!ImportPay(h) \/ Work!ImportFlag(h)
         \/ Work!SlotWrite(h) \/ Work!MergeWrite(h)
  PROVE  WsGoesOn(h)
<1> DEFINE q == reqs[h]
<1>1. q \in Work!Requests /\ WsAsks(q, paidOnce) BY WsTypes
<1>2. CASE Work!PayLedger(h)
 <2>1. PICK pay : pay = newest[q.company] OBVIOUS
 <2>2. q.pc = "payLedger" /\ WsGoes(h, [q EXCEPT !.pc = "payWrite", !.pay = pay])
  BY <1>2, <2>1 DEF Work!PayLedger, Work!Goto, Work!At, WsGoes
 <2>3. q.company \in Companies BY <1>1, <2>2 DEF WsAsks
 <2>4. pay \in PayIds \cup {0} BY <2>1, <2>3, WsTypes
 <2>5. PICK r : r = [q EXCEPT !.pc = "payWrite", !.pay = pay] OBVIOUS
 <2>6. r \in Work!Requests /\ r.pc = "payWrite" /\ r.company = q.company
  BY <1>1, <2>4, <2>5 DEF Work!Requests, Work!Pcs
 <2>7. QED BY <2>2, <2>3, <2>5, <2>6 DEF WsGoesOn, WsAsks, WsReconciles
<1>3. CASE Work!ImportPay(h)
 <2>1. \/ Work!Finish(h)
       \/ /\ q.pc = "importPay" /\ WsGoes(h, [q EXCEPT !.pc = "importFlag", !.pay = 0])
          /\ Work!Eligible(q.body) => q.company \in paidOnce'
  BY <1>3 DEF Work!ImportPay, Work!Goto, Work!At, WsGoes, Work!RecordPayment
 <2>2. ASSUME q.pc = "importPay", WsGoes(h, [q EXCEPT !.pc = "importFlag", !.pay = 0]), Work!Eligible(q.body) => q.company \in paidOnce'
       PROVE  WsGoesOn(h)
  <3>1. PICK r : r = [q EXCEPT !.pc = "importFlag", !.pay = 0] OBVIOUS
  <3>2. r \in Work!Requests /\ r.pc = "importFlag" /\ r.company = q.company /\ r.body = q.body
   BY <1>1, <3>1 DEF Work!Requests, Work!Pcs
  <3>3. q.company \in Companies BY <1>1, <2>2 DEF WsAsks
  <3>4. QED BY <2>2, <3>1, <3>2, <3>3 DEF WsGoesOn, WsAsks, WsReconciles
 <2>3. QED BY <2>1, <2>2, WsFinishes
<1>4. CASE Work!ImportFlag(h)
 <2>1. q.pc = "importFlag" /\ q.company \in Companies
  BY <1>1, <1>4 DEF Work!ImportFlag, Work!At, WsAsks
 <2>2. PICK pid : pid = parts[q.company].id OBVIOUS
 <2>3. PICK count : count = parts[q.company].count OBVIOUS
 <2>4. \/ Work!Finish(h)
       \/ parts[q.company] # Work!NoPart /\ WsGoes(h, Work!Reconcile(pid, q.company, count, FALSE, "done"))
  BY <1>4, <2>2, <2>3 DEF Work!ImportFlag, Work!Goto, WsGoes
 <2>5. ASSUME parts[q.company] # Work!NoPart, WsGoes(h, Work!Reconcile(pid, q.company, count, FALSE, "done"))
       PROVE  WsGoesOn(h)
  <3>1. PICK r : r = Work!Reconcile(pid, q.company, count, FALSE, "done")
   OBVIOUS
  <3>2. pid \in PartIds \cup {0} /\ pid # 0 /\ count \in Int
   BY <2>1, <2>2, <2>3, <2>5, WsTypes
  <3>3. r \in Work!Requests
   BY 0 \in Int, <2>1, <3>1, <3>2 DEF Work!Reconcile, Work!Idle, Work!Requests, Work!Pcs
  <3>4. r.pc = "recRead" /\ r.company = q.company /\ r.pid = pid
   BY <3>1 DEF Work!Reconcile, Work!Idle
  <3>5. QED BY <2>1, <2>5, <3>1, <3>2, <3>3, <3>4 DEF WsGoesOn, WsAsks, WsReconciles
 <2>6. QED BY <2>4, <2>5, WsFinishes
<1>5. QED
 BY <1>2, <1>3, <1>4, WsFinishes DEF Work!PayWrite, Work!SlotWrite, Work!MergeWrite

LEMMA WsCleanAsks ==
  ASSUME WsShape, NEW h \in Handlers, Work!CleanRead(h) \/ Work!CleanNext(h) \/ Work!CleanWrite(h)
  PROVE  WsGoesOn(h)
<1> DEFINE q == reqs[h]
<1>1. q \in Work!Requests /\ WsAsks(q, paidOnce) BY WsTypes
<1>2. CASE Work!CleanRead(h)
 <2>1. PICK some : some = {c \in Companies : parts[c] # Work!NoPart /\ ~parts[c].confirmed /\ parts[c].active}
  OBVIOUS
 <2>2. PICK left : left = {[pid |-> parts[c].id, company |-> c, count |-> parts[c].count] : c \in some}
  OBVIOUS
 <2>3. WsGoes(h, [Work!Idle EXCEPT !.pc = "cleanNext", !.then = "cleanNext", !.left = left])
  BY <1>2, <2>1, <2>2 DEF Work!CleanRead, Work!Goto, WsGoes
 <2>4. \A c \in some : c \in Companies /\ parts[c].id \in PartIds /\ parts[c].count \in Int
  BY <2>1, WsTypes
 <2>5. left \in SUBSET Work!Entries BY <2>2, <2>4 DEF Work!Entries
 <2>6. PICK r : r = [Work!Idle EXCEPT !.pc = "cleanNext", !.then = "cleanNext", !.left = left]
  OBVIOUS
 <2>7. r \in Work!Requests
  BY 0 \in Int, <2>5, <2>6 DEF Work!Idle, Work!Requests, Work!Pcs
 <2>8. r.pc = "cleanNext" BY <2>6 DEF Work!Idle
 <2>9. QED BY <2>3, <2>6, <2>7, <2>8 DEF WsGoesOn, WsAsks, WsReconciles
<1>3. CASE Work!CleanNext(h)
 <2>1. \/ Work!Finish(h)
       \/ \E e \in q.left, pc \in {"repair", "archive"} :
            /\ WsGoes(h, [q EXCEPT !.left = q.left \ {e}, !.pid = e.pid, !.company = e.company, !.count = e.count, !.pc = pc])
            /\ pc = "repair" => \E p \in PayIds : pays[p].company = e.company /\ pays[p].paid
  BY <1>3 DEF Work!CleanNext, Work!Goto, WsGoes
 <2>2. ASSUME NEW e \in q.left, NEW pc \in {"repair", "archive"},
              WsGoes(h, [q EXCEPT !.left = q.left \ {e}, !.pid = e.pid, !.company = e.company, !.count = e.count, !.pc = pc]),
              pc = "repair" => \E p \in PayIds : pays[p].company = e.company /\ pays[p].paid
       PROVE  WsGoesOn(h)
  <3>1. e \in Work!Entries /\ q.left \in SUBSET Work!Entries
   BY <1>1 DEF Work!Requests
  <3>2. e.pid \in PartIds /\ e.pid # 0 /\ e.company \in Companies /\ e.count \in Int
   BY <3>1, WsIds DEF Work!Entries
  <3>3. PICK r : r = [q EXCEPT !.left = q.left \ {e}, !.pid = e.pid, !.company = e.company, !.count = e.count, !.pc = pc]
   OBVIOUS
  <3>4. r \in Work!Requests /\ r.pc = pc /\ r.company = e.company /\ r.pid = e.pid
   BY <1>1, <3>1, <3>2, <3>3 DEF Work!Requests, Work!Pcs
  <3>5. pc = "repair" => e.company \in paidOnce'
   BY <1>3, <2>2 DEF Work!CleanNext, WsShape, WsPays
  <3>6. QED BY <2>2, <3>2, <3>3, <3>4, <3>5 DEF WsGoesOn, WsAsks, WsReconciles
 <2>3. QED BY <2>1, <2>2, WsFinishes
<1>4. CASE Work!CleanWrite(h)
 <2>1. q.pc \in {"repair", "archive"} /\ (Work!Finish(h) \/ \E pc \in {"recRead", "cleanNext"} : WsGoes(h, [q EXCEPT !.pc = pc]))
  BY <1>4 DEF Work!CleanWrite, Work!Goto, WsGoes
 <2>2. ASSUME NEW pc \in {"recRead", "cleanNext"}, WsGoes(h, [q EXCEPT !.pc = pc]) PROVE WsGoesOn(h)
  <3>1. PICK r : r = [q EXCEPT !.pc = pc] OBVIOUS
  <3>2. r \in Work!Requests /\ r.pc = pc /\ r.company = q.company /\ r.pid = q.pid
   BY <1>1, <3>1 DEF Work!Requests, Work!Pcs
  <3>3. q.company \in Companies /\ q.pid # 0 BY <1>1, <2>1 DEF WsAsks
  <3>4. QED BY <2>2, <3>1, <3>2, <3>3 DEF WsGoesOn, WsAsks, WsReconciles
 <2>3. QED BY <2>1, <2>2, WsFinishes
<1>5. QED BY <1>2, <1>3, <1>4

LEMMA WsAssignAsks ==
  ASSUME WsShape, NEW h \in Handlers,
         \/ \E r \in Regs, c \in Companies \cup {None}, paid \in BOOLEAN : Work!PayRegistration(h, r, c, paid)
         \/ Work!AssignRead(h) \/ Work!AssignWrite(h)
  PROVE  WsGoesOn(h)
<1> DEFINE q == reqs[h]
<1>1. q \in Work!Requests /\ WsAsks(q, paidOnce) /\ reqs = [reqs EXCEPT ![h] = q]
 BY WsTypes DEF WsShape
<1>2. ASSUME NEW r \in Regs, NEW c \in Companies \cup {None}, NEW paid \in BOOLEAN, Work!PayRegistration(h, r, c, paid)
      PROVE  WsGoesOn(h)
 <2>1. reqs' = reqs \/ (c # None /\ WsGoes(h, [Work!Idle EXCEPT !.pc = "assign", !.reg = r, !.company = c]))
  BY <1>2 DEF Work!PayRegistration, Work!Goto, WsGoes
 <2>2. CASE reqs' = reqs BY <1>1, <1>2, <2>2 DEF WsGoesOn, WsGoes, Work!PayRegistration
 <2>3. ASSUME c # None, WsGoes(h, [Work!Idle EXCEPT !.pc = "assign", !.reg = r, !.company = c]) PROVE WsGoesOn(h)
  <3>1. PICK x : x = [Work!Idle EXCEPT !.pc = "assign", !.reg = r, !.company = c]
   OBVIOUS
  <3>2. x \in Work!Requests
   BY 0 \in Int, <3>1 DEF Work!Idle, Work!Requests, Work!Pcs
  <3>3. x.pc = "assign" /\ x.reg = r /\ x.company = c
   BY <3>1 DEF Work!Idle
  <3>4. QED BY <2>3, <3>1, <3>2, <3>3 DEF WsGoesOn, WsAsks, WsReconciles
 <2>4. QED BY <2>1, <2>2, <2>3
<1>3. CASE Work!AssignRead(h)
 <2>1. q.pc = "assign" /\ q.company \in Companies /\ q.reg \in Regs
  BY <1>1, <1>3 DEF Work!AssignRead, Work!At, WsAsks
 <2>2. PICK pid : pid = parts[q.company].id OBVIOUS
 <2>3. PICK open : open = {s \in Work!SlotsOf(pid) : slots[s].reg = None}
  OBVIOUS
 <2>4. PICK last : last = {s \in Work!SlotsOf(pid) : \A t \in Work!SlotsOf(pid) : slots[t].n <= slots[s].n}
  OBVIOUS
 <2>5. PICK held : held = {s \in open : \A t \in open : slots[s].n <= slots[t].n}
  OBVIOUS
 <2>6. PICK count : count = (IF last = {} THEN 1 ELSE slots[CHOOSE s \in last : TRUE].n + 1)
  OBVIOUS
 <2>7. \/ Work!Finish(h)
       \/ /\ parts[q.company] # Work!NoPart
          /\ WsGoes(h, [q EXCEPT !.pc = "assignWrite", !.pid = pid, !.held = held, !.count = count])
  BY <1>3, <2>2, <2>3, <2>4, <2>5, <2>6 DEF Work!AssignRead, Work!Goto, WsGoes
 <2>8. ASSUME parts[q.company] # Work!NoPart,
              WsGoes(h, [q EXCEPT !.pc = "assignWrite", !.pid = pid, !.held = held, !.count = count])
       PROVE  WsGoesOn(h)
  <3>1. pid \in PartIds \cup {0} /\ pid # 0 BY <2>1, <2>2, <2>8, WsTypes
  <3>2. held \in SUBSET SlotIds BY <2>3, <2>5 DEF Work!SlotsOf
  <3>3. count \in Int /\ count > 0
   <4>1. CASE last = {} BY <2>6, <4>1
   <4>2. CASE last # {}
    <5>1. PICK s \in last : s = CHOOSE u \in last : TRUE BY <4>2
    <5>2. slots[s].n \in Nat BY <2>4, WsTypes DEF Work!SlotsOf
    <5>3. count = slots[s].n + 1 BY <2>6, <4>2, <5>1
    <5>4. QED BY <5>2, <5>3
   <4>3. QED BY <4>1, <4>2
  <3>4. PICK r : r = [q EXCEPT !.pc = "assignWrite", !.pid = pid, !.held = held, !.count = count]
   OBVIOUS
  <3>5. r \in Work!Requests /\ r.pc = "assignWrite" /\ r.company = q.company /\ r.pid = pid /\ r.reg = q.reg /\ r.count = count
   BY <1>1, <3>1, <3>2, <3>3, <3>4 DEF Work!Requests, Work!Pcs
  <3>6. QED BY <2>1, <2>8, <3>1, <3>3, <3>4, <3>5 DEF WsGoesOn, WsAsks, WsReconciles
 <2>9. QED BY <2>7, <2>8, WsFinishes
<1>4. CASE Work!AssignWrite(h) BY <1>4, WsFinishes DEF Work!AssignWrite
<1>5. QED BY <1>2, <1>3, <1>4


LEMMA WsCounting ==
  ASSUME NEW S, IsFiniteSet(S), NEW f \in [S -> Int], NEW s \in S, NEW t \in S, f[s] < f[t]
  PROVE  /\ Cardinality({u \in S : f[u] <= f[s]}) < Cardinality({u \in S : f[u] <= f[t]})
         /\ Cardinality({u \in S : f[u] <= f[t]}) \in Nat /\ Cardinality({u \in S : f[u] <= f[t]}) <= Cardinality(S)
<1>1. PICK A : A = {u \in S : f[u] <= f[s]} OBVIOUS
<1>2. PICK B : B = {u \in S : f[u] <= f[t]} OBVIOUS
<1>3. A \in SUBSET B /\ A # B /\ B \in SUBSET S
 <2>1. \A u \in S : f[u] \in Int OBVIOUS
 <2>2. t \in B /\ t \notin A BY <1>1, <1>2, <2>1
 <2>3. A \in SUBSET B BY <1>1, <1>2, <2>1
 <2>4. QED BY <1>2, <2>2, <2>3
<1>4. IsFiniteSet(B) /\ Cardinality(B) <= Cardinality(S)
 BY <1>3, FS_Subset
<1>5. Cardinality(A) <= Cardinality(B) /\ (Cardinality(B) = Cardinality(A) => B = A) /\ IsFiniteSet(A)
 BY <1>3, <1>4, FS_Subset
<1>6. Cardinality(A) \in Nat /\ Cardinality(B) \in Nat
 BY <1>4, <1>5, FS_CardinalityType
<1>7. QED BY <1>1, <1>2, <1>3, <1>4, <1>5, <1>6

\* The rank of a slot among some slots.
WsRank(own, i) == Work!Cardinality({u \in own : slots[u].n <= slots[i].n})

LEMMA WsRanks ==
  ASSUME WsShape, NEW own \in SUBSET SlotIds
  PROVE  /\ \A i, j \in own : slots[i].n < slots[j].n => WsRank(own, i) < WsRank(own, j)
         /\ \A i \in own : WsRank(own, i) \in Nat /\ WsRank(own, i) > 0 /\ WsRank(own, i) <= Work!Cardinality(own)
<1>1. IsFiniteSet(own) /\ Cardinality(own) \in Nat BY WsFinite
<1>2. PICK f : f = [u \in own |-> slots[u].n] OBVIOUS
<1>3. f \in [own -> Int] /\ \A i \in own : f[i] = slots[i].n /\ slots[i].n \in Nat
 BY <1>2, WsTypes
<1>4. \A i \in own : WsRank(own, i) = Cardinality({u \in own : f[u] <= f[i]})
 <2>1. ASSUME NEW i \in own PROVE WsRank(own, i) = Cardinality({u \in own : f[u] <= f[i]})
  <3>1. {u \in own : f[u] <= f[i]} = {u \in own : slots[u].n <= slots[i].n}
   BY <1>3
  <3>2. QED BY <3>1, WsCardinality DEF WsRank
 <2>2. QED BY <2>1
<1>5. ASSUME NEW i \in own, NEW j \in own, slots[i].n < slots[j].n PROVE WsRank(own, i) < WsRank(own, j)
 <2>1. f[i] < f[j] BY <1>3, <1>5
 <2>2. Cardinality({u \in own : f[u] <= f[i]}) < Cardinality({u \in own : f[u] <= f[j]})
  BY <1>1, <1>3, <2>1, WsCounting
 <2>3. QED BY <1>4, <2>2
<1>6. ASSUME NEW i \in own PROVE WsRank(own, i) \in Nat /\ WsRank(own, i) > 0 /\ WsRank(own, i) <= Work!Cardinality(own)
 <2>1. PICK A : A = {u \in own : f[u] <= f[i]} OBVIOUS
 <2>2. A \in SUBSET own /\ i \in A BY <1>3, <2>1
 <2>3. IsFiniteSet(A) /\ Cardinality(A) \in Nat /\ Cardinality(A) <= Cardinality(own)
  BY <1>1, <2>2, FS_Subset, FS_CardinalityType
 <2>4. Cardinality(A) # 0 BY <2>2, <2>3, FS_EmptySet
 <2>5. WsRank(own, i) = Cardinality(A) BY <1>4, <2>1
 <2>6. QED BY <2>3, <2>4, <2>5, WsCardinality
<1>7. QED BY <1>5, <1>6

\* Some slot has the highest number.
LEMMA WsHighest ==
  ASSUME WsShape, NEW own \in SUBSET SlotIds, own # {}
  PROVE  \E i \in own : \A u \in own : slots[u].n <= slots[i].n
<1>1. PICK k : k = Work!Cardinality(own) OBVIOUS
<1>2. k \in Nat BY <1>1, WsFinite, WsCardinality
<1>3. PICK T : T = {k - WsRank(own, i) : i \in own} OBVIOUS
<1>4. T \in SUBSET Nat /\ T # {}
 <2>1. \A i \in own : k - WsRank(own, i) \in Nat BY <1>1, <1>2, WsRanks
 <2>2. QED BY <1>3, <2>1
<1>5. PICK m \in T : \A l \in T : ~(<<l, m>> \in OpToRel(<, Nat))
 BY <1>4, NatLessThanWellFounded, WFMin
<1>6. PICK i \in own : m = k - WsRank(own, i) BY <1>3
<1>7. ASSUME NEW u \in own PROVE slots[u].n <= slots[i].n
 <2>1. SUFFICES ASSUME slots[i].n < slots[u].n PROVE FALSE BY WsTypes
 <2>2. WsRank(own, i) < WsRank(own, u) /\ WsRank(own, i) \in Nat /\ WsRank(own, u) \in Nat
  BY <2>1, WsRanks
 <2>3. PICK l : l = k - WsRank(own, u) OBVIOUS
 <2>4. l \in T /\ l < m /\ l \in Nat /\ m \in Nat
  <3>1. l \in T BY <1>3, <2>3
  <3>2. l < m BY <1>2, <1>6, <2>2, <2>3
  <3>3. QED BY <1>4, <3>1, <3>2
 <2>5. <<l, m>> \in OpToRel(<, Nat) BY <2>4 DEF OpToRel
 <2>6. QED BY <1>5, <2>4, <2>5
<1>8. QED BY <1>7


\* Slots that stay with their participant, and one more participant or none less.
LEMMA WsSlotsStay ==
  ASSUME NEW p, NEW s, WsSlots(p, s), NEW q, NEW t, t \in [SlotIds -> Work!SlotRows],
         \A c \in Companies : p[c].id # 0 => q[c].id = p[c].id,
         \A i \in SlotIds : t[i] = s[i] \/ (s[i].pid # 0 /\ t[i].pid = s[i].pid /\ t[i].n = s[i].n)
  PROVE  WsSlots(q, t)
<1>1. \A i \in SlotIds : t[i].pid = s[i].pid /\ t[i].n = s[i].n OBVIOUS
<1>2. \A i \in SlotIds : t[i] = Work!NoSlot \/ (t[i].pid # 0 /\ t[i].n > 0)
 <2>1. ASSUME NEW i \in SlotIds PROVE t[i] = Work!NoSlot \/ (t[i].pid # 0 /\ t[i].n > 0)
  <3>1. CASE t[i] = s[i] BY <3>1 DEF WsSlots
  <3>2. CASE s[i].pid # 0 /\ t[i].pid = s[i].pid /\ t[i].n = s[i].n
   BY <3>2 DEF WsSlots, Work!NoSlot
  <3>3. QED BY <3>1, <3>2
 <2>2. QED BY <2>1
<1>3. \A i, j \in SlotIds : t[i].pid = t[j].pid /\ t[i].n = t[j].n /\ t[i].pid # 0 => i = j
 BY <1>1 DEF WsSlots
<1>4. \A i \in SlotIds : t[i].pid # 0 => \E c \in Companies : q[c].id = t[i].pid
 BY <1>1 DEF WsSlots
<1>5. QED BY <1>2, <1>3, <1>4 DEF WsSlots

LEMMA WsSlotsGo ==
  ASSUME NEW p, NEW s, WsSlots(p, s), NEW q, NEW t,
         t = [i \in SlotIds |-> t[i]],
         \A i \in SlotIds : t[i] = s[i] \/ t[i] = Work!NoSlot,
         \A i \in SlotIds : t[i].pid # 0 => \E c \in Companies : q[c].id = t[i].pid
  PROVE  WsSlots(q, t)
<1>1. Work!NoSlot \in Work!SlotRows /\ Work!NoSlot.pid = 0
 BY 0 \in Nat DEF Work!NoSlot, Work!SlotRows
<1>2. t \in [SlotIds -> Work!SlotRows] BY <1>1 DEF WsSlots
<1>3. QED BY <1>1, <1>2 DEF WsSlots

LEMMA WsSlotsCome ==
  ASSUME WsShape, NEW t, NEW pid \in PartIds, NEW ns, NEW reg \in Regs \cup {None}, WsAdds(t, pid, ns, reg),
         ns \in SUBSET (Nat \ {0}), \A i \in SlotIds : slots[i].pid = pid => slots[i].n \notin ns,
         NEW c \in Companies, parts[c].id = pid,
         NEW q, \A d \in Companies : q[d].id = parts[d].id
  PROVE  WsSlots(q, t)
<1>1. pid # 0 /\ Work!NoSlot.pid = 0 BY WsIds DEF Work!NoSlot
<1>2. ASSUME NEW i \in SlotIds, t[i] # slots[i]
      PROVE  /\ slots[i] = Work!NoSlot /\ t[i] \in Work!SlotRows
             /\ t[i].pid = pid /\ t[i].n \in ns /\ t[i].n > 0
 <2>1. slots[i] = Work!NoSlot /\ t[i] = [pid |-> pid, n |-> t[i].n, named |-> reg # None, reg |-> reg] /\ t[i].n \in ns
  BY <1>2 DEF WsAdds
 <2>2. PICK n : n = t[i].n OBVIOUS
 <2>8. n \in Nat /\ n > 0
  <3>1. n \in Nat \ {0} BY <2>1, <2>2
  <3>2. QED BY <3>1
 <2>3. PICK named \in BOOLEAN : named = (reg # None) OBVIOUS
 <2>4. t[i] = [pid |-> pid, n |-> n, named |-> named, reg |-> reg]
  BY <2>1, <2>2, <2>3
 <2>9. [pid |-> pid, n |-> n, named |-> TRUE, reg |-> reg] \in Work!SlotRows
       /\ [pid |-> pid, n |-> n, named |-> FALSE, reg |-> reg] \in Work!SlotRows
  BY <2>8 DEF Work!SlotRows
 <2>5. t[i] \in Work!SlotRows
  <3>1. CASE named = TRUE BY <2>4, <2>9, <3>1
  <3>2. CASE named = FALSE BY <2>4, <2>9, <3>2
  <3>3. QED BY <3>1, <3>2
 <2>6. t[i].pid = pid BY <2>4
 <2>7. QED BY <2>1, <2>2, <2>5, <2>6, <2>8
<1>3. t \in [SlotIds -> Work!SlotRows]
 <2>1. \A i \in SlotIds : t[i] \in Work!SlotRows BY <1>2, WsTypes
 <2>2. QED BY <2>1 DEF WsAdds
<1>4. WsSlots(parts, slots) BY DEF WsShape
<1>5. ASSUME NEW i \in SlotIds, NEW j \in SlotIds, t[i].pid = t[j].pid, t[i].n = t[j].n, t[i].pid # 0 PROVE i = j
 <2>1. CASE t[i] = slots[i] /\ t[j] = slots[j] BY <1>4, <1>5, <2>1 DEF WsSlots
 <2>2. CASE t[i] # slots[i] /\ t[j] # slots[j] BY <1>5, <2>2 DEF WsAdds
 <2>3. CASE t[i] = slots[i] /\ t[j] # slots[j] BY <1>2, <1>5, <2>3
 <2>4. CASE t[i] # slots[i] /\ t[j] = slots[j] BY <1>2, <1>5, <2>4
 <2>5. QED BY <2>1, <2>2, <2>3, <2>4
<1>6. \A i \in SlotIds : t[i] = Work!NoSlot \/ (t[i].pid # 0 /\ t[i].n > 0)
 BY <1>1, <1>2, <1>4 DEF WsSlots
<1>7. \A i \in SlotIds : t[i].pid # 0 => \E d \in Companies : q[d].id = t[i].pid
 BY <1>2, <1>4 DEF WsSlots
<1>8. QED BY <1>3, <1>5, <1>6, <1>7 DEF WsSlots

\* A payment is recorded in row id, of the company owner.
WsRecorded(id, owner, pay, c, body) ==
  /\ id \in PayIds /\ owner \in Companies
  /\ \/ pay = 0 /\ owner = c /\ pays[id] = Work!NoPay
     \/ pay = id /\ owner = pays[id].company
  /\ pays' = [pays EXCEPT ![id] = [company |-> owner, full |-> body = "all", paid |-> Work!Eligible(body)]]
  /\ newest' = [newest EXCEPT ![owner] = id]
  /\ paidOnce' = IF Work!Eligible(body) THEN paidOnce \cup {c, owner} ELSE paidOnce

LEMMA WsRecords ==
  ASSUME WsShape, NEW pay \in PayIds \cup {0}, NEW c \in Companies, NEW body, ~Work!Stale(pay),
         Work!RecordPayment(pay, c, body)
  PROVE  \E id, owner : WsRecorded(id, owner, pay, c, body)
<1>1. PICK id : id = (IF pay = 0 THEN Work!NewPayId ELSE pay) OBVIOUS
<1>2. PICK owner : owner = (IF pay = 0 THEN c ELSE pays[pay].company)
 OBVIOUS
<1>3. /\ pay = 0 => Work!NewPays # {}
      /\ pays' = [pays EXCEPT ![id] = [company |-> owner, full |-> body = "all", paid |-> Work!Eligible(body)]]
      /\ newest' = [newest EXCEPT ![owner] = id]
      /\ paidOnce' = IF Work!Eligible(body) THEN paidOnce \cup {c, owner} ELSE paidOnce
 BY <1>1, <1>2 DEF Work!RecordPayment
<1>4. CASE pay = 0
 <2>1. id \in Work!NewPays BY <1>1, <1>3, <1>4 DEF Work!NewPayId
 <2>2. id \in PayIds /\ pays[id] = Work!NoPay /\ owner = c
  BY <1>2, <1>4, <2>1 DEF Work!NewPays
 <2>3. QED BY <1>3, <1>4, <2>2 DEF WsRecorded
<1>5. CASE pay # 0
 <2>1. pay \in PayIds /\ id = pay /\ owner = pays[id].company
  BY <1>1, <1>2, <1>5
 <2>2. pays[id] # Work!NoPay BY <1>5, <2>1 DEF Work!Stale
 <2>3. owner \in Companies BY <2>1, <2>2, WsTypes DEF WsShape, WsPays
 <2>4. QED BY <1>3, <2>1, <2>3 DEF WsRecorded
<1>6. QED BY <1>4, <1>5

LEMMA WsRecordsShape ==
  ASSUME WsShape, NEW pay, NEW c \in Companies, NEW body, NEW id, NEW owner, WsRecorded(id, owner, pay, c, body)
  PROVE  /\ WsPays(pays', newest', paidOnce')
         /\ paidOnce \subseteq paidOnce' /\ paidOnce' \subseteq Companies /\ (Work!Eligible(body) => c \in paidOnce')
         /\ \A i \in PayIds : i # id => pays'[i] = pays[i]
         /\ pays'[id].company = owner /\ (pays'[id].paid <=> Work!Eligible(body)) /\ newest'[owner] = id
         /\ \A d \in Companies : d # owner => newest'[d] = newest[d] /\ newest[d] # id
<1>1. WsPays(pays, newest, paidOnce) /\ paidOnce \subseteq Companies
 BY DEF WsShape
<1>2. PICK full \in BOOLEAN : full = (body = "all") OBVIOUS
<1>3. PICK paid \in BOOLEAN : paid = Work!Eligible(body)
 <2>1. Work!Eligible(body) \in BOOLEAN BY DEF Work!Eligible
 <2>2. QED BY <2>1
<1>4. PICK x : x = [company |-> owner, full |-> full, paid |-> paid]
 OBVIOUS
<1>5. /\ pays' = [pays EXCEPT ![id] = x] /\ newest' = [newest EXCEPT ![owner] = id] /\ id \in PayIds /\ owner \in Companies
      /\ pays \in [PayIds -> Work!Payments] /\ newest \in [Companies -> PayIds \cup {0}]
 BY <1>1, <1>2, <1>3, <1>4 DEF WsRecorded, WsPays
<1>6. x \in Work!Payments /\ x.company = owner /\ (x.paid <=> paid)
 <2>1. [company |-> owner, full |-> TRUE, paid |-> TRUE] \in Work!Payments /\ [company |-> owner, full |-> TRUE, paid |-> FALSE] \in Work!Payments
       /\ [company |-> owner, full |-> FALSE, paid |-> TRUE] \in Work!Payments /\ [company |-> owner, full |-> FALSE, paid |-> FALSE] \in Work!Payments
  BY <1>5 DEF Work!Payments
 <2>2. x \in Work!Payments BY <1>4, <2>1
 <2>3. QED BY <1>4, <2>2
<1>7. pays' \in [PayIds -> Work!Payments] /\ newest' \in [Companies -> PayIds \cup {0}]
 BY <1>5, <1>6
<1>8. /\ pays'[id] = x /\ newest'[owner] = id
      /\ \A i \in PayIds : i # id => pays'[i] = pays[i]
      /\ \A d \in Companies : d # owner => newest'[d] = newest[d]
 BY <1>5
<1>9. /\ paidOnce \subseteq paidOnce' /\ paidOnce' \subseteq Companies
      /\ paid => c \in paidOnce' /\ owner \in paidOnce'
 BY <1>1, <1>3, <1>5 DEF WsRecorded
<1>10. \A d \in Companies : d # owner => newest[d] # id
 <2>1. \A d \in Companies : newest[d] = id => pays[id].company = d
  BY <1>1, <1>5, WsIds DEF WsPays
 <2>2. pays[id].company \in {None, owner} BY DEF WsRecorded, Work!NoPay
 <2>3. QED BY <2>1, <2>2, WsIds
<1>11. WsPays(pays', newest', paidOnce')
 <2>1. ASSUME NEW i \in PayIds
       PROVE  (pays'[i].company = None => pays'[i] = Work!NoPay) /\ (pays'[i].paid => pays'[i].company \in paidOnce')
  <3>1. CASE i = id BY <1>5, <1>6, <1>8, <1>9, <3>1, WsIds
  <3>2. CASE i # id BY <1>1, <1>8, <1>9, <3>2 DEF WsPays
  <3>3. QED BY <3>1, <3>2
 <2>2. ASSUME NEW d \in Companies, newest'[d] # 0 PROVE pays'[newest'[d]].company = d
  <3>1. CASE d = owner BY <1>6, <1>8, <3>1
  <3>2. CASE d # owner BY <1>1, <1>5, <1>8, <1>10, <2>2, <3>2 DEF WsPays
  <3>3. QED BY <3>1, <3>2
 <2>3. QED BY <1>7, <2>1, <2>2 DEF WsPays
<1>12. QED BY <1>3, <1>6, <1>8, <1>9, <1>10, <1>11


\* What a step makes of the tables.
WsAfter ==
  /\ paidOnce \subseteq paidOnce' /\ paidOnce' \subseteq Companies
  /\ WsParts(parts', paidOnce') /\ WsSlots(parts', slots') /\ WsPays(pays', newest', paidOnce') /\ WsRegs(regs')
  /\ moved' \subseteq Regs /\ refused' \subseteq Companies /\ merged' \in BOOLEAN

LEMMA WsOnward ==
  ASSUME WsShape, NEW h \in Handlers, WsGoesOn(h), WsAfter, wsCalm' \in BOOLEAN
  PROVE  WsShape'
<1>1. PICK r : WsGoes(h, r) /\ WsAsks(r, paidOnce') BY DEF WsGoesOn
<1>2. r \in Work!Requests BY <1>1 DEF WsAsks
<1>3. /\ reqs' \in [Handlers -> Work!Requests] /\ reqs'[h] = r
      /\ \A k \in Handlers : k # h => reqs'[k] = reqs[k]
 BY <1>1, <1>2 DEF WsGoes, WsShape
<1>4. ASSUME NEW k \in Handlers PROVE WsAsks(reqs'[k], paidOnce')
 <2>1. CASE k = h BY <1>1, <1>3, <2>1
 <2>2. CASE k # h
  <3>1. WsAsks(reqs[k], paidOnce) /\ paidOnce \subseteq paidOnce' /\ reqs'[k] = reqs[k]
   BY <1>3, <2>2 DEF WsShape, WsAfter
  <3>2. QED BY <3>1 DEF WsAsks
 <2>3. QED BY <2>1, <2>2
<1>5. QED BY <1>3, <1>4 DEF WsShape, WsAfter

LEMMA WsMonotone ==
  ASSUME WsShape, paidOnce \subseteq paidOnce'
  PROVE  WsParts(parts, paidOnce') /\ WsPays(pays, newest, paidOnce')
BY DEF WsShape, WsParts, WsPays

\* The participant of one company is written, or a new one.
WsWritten(c, x) ==
  /\ c \in Companies /\ x \in Work!Parts /\ x.id # 0
  /\ x.id = parts[c].id \/ (parts[c].id = 0 /\ \A d \in Companies : parts[d].id # x.id)
  /\ x.confirmed => c \in paidOnce'
  /\ parts' = [parts EXCEPT ![c] = x]

LEMMA WsWrittenShape ==
  ASSUME WsShape, paidOnce \subseteq paidOnce', NEW c, NEW x, WsWritten(c, x)
  PROVE  /\ WsParts(parts', paidOnce') /\ WsSlots(parts', slots)
         /\ parts'[c] = x /\ \A d \in Companies : d # c => parts'[d] = parts[d]
         /\ \A d \in Companies : parts[d].id # 0 => parts'[d].id = parts[d].id
<1>1. WsParts(parts, paidOnce') /\ WsSlots(parts, slots)
 BY WsMonotone DEF WsShape
<1>2. parts'[c] = x /\ (\A d \in Companies : d # c => parts'[d] = parts[d]) /\ parts' \in [Companies -> Work!Parts]
 BY <1>1 DEF WsWritten, WsParts
<1>3. \A d \in Companies : parts[d].id # 0 => parts'[d].id = parts[d].id
 BY <1>2 DEF WsWritten
<1>4. \A d, e \in Companies : parts'[d].id = parts'[e].id /\ parts'[d].id # 0 => d = e
 <2>1. \A d \in Companies : parts'[d].id = x.id => d = c
  BY <1>1, <1>2 DEF WsWritten, WsParts
 <2>2. QED BY <1>1, <1>2, <2>1 DEF WsParts
<1>5. \A d \in Companies : (parts'[d].id = 0 => parts'[d] = Work!NoPart) /\ (parts'[d].confirmed => d \in paidOnce')
 BY <1>1, <1>2 DEF WsWritten, WsParts
<1>6. WsSlots(parts', slots) BY <1>1, <1>3, WsSlotsStay DEF WsSlots
<1>7. QED BY <1>2, <1>3, <1>4, <1>5, <1>6 DEF WsParts

WsTablesStay ==
  /\ parts' = parts /\ slots' = slots /\ pays' = pays /\ newest' = newest /\ regs' = regs
  /\ paidOnce' = paidOnce /\ moved' = moved /\ merged' = merged

LEMMA WsTablesStayShape ==
  ASSUME WsShape, WsTablesStay, refused' \subseteq Companies PROVE WsAfter
BY DEF WsShape, WsTablesStay, WsAfter

WsLooks(h) ==
  \/ \E c \in Companies, n \in Counts, b \in Bodies \cup {"kept"}, opt \in Options, rm \in BOOLEAN :
       Work!ConfirmRead(h, c, n, b, opt, rm)
  \/ \E c \in Companies, n \in Counts : Work!CreateRead(h, c, n)
  \/ \E c \in Companies, b \in Bodies \ {"forced"} : Work!PayRead(h, c, b) \/ Work!ImportRead(h, c, b)
  \/ \E s \in SlotIds, name \in {"keep", "name", "clear"} : Work!SlotRead(h, s, name)
  \/ \E c, d \in Companies : Work!MergeRead(h, c, d)
  \/ Work!RecRead(h) \/ Work!RecSurvivors(h) \/ Work!SyncRead(h) \/ Work!PayLedger(h)
  \/ Work!CleanRead(h) \/ Work!CleanNext(h) \/ Work!AssignRead(h)

LEMMA WsLooking ==
  ASSUME WsShape, NEW h \in Handlers, WsLooks(h)
  PROVE  WsTablesStay /\ refused' \subseteq Companies /\ (refused' = refused \/ Work!RecRead(h)) /\ WsGoesOn(h)
<1>1. ASSUME NEW c \in Companies, NEW n \in Counts, NEW b \in Bodies \cup {"kept"}, NEW opt \in Options, NEW rm \in BOOLEAN,
             Work!ConfirmRead(h, c, n, b, opt, rm)
      PROVE  WsTablesStay /\ refused' = refused /\ WsGoesOn(h)
 BY <1>1, WsConfirmReads, Zenon DEF Work!ConfirmRead, WsTablesStay
<1>2. ASSUME NEW c \in Companies, NEW n \in Counts, Work!CreateRead(h, c, n)
      PROVE  WsTablesStay /\ refused' = refused /\ WsGoesOn(h)
 BY <1>2, WsCreateReads, Zenon DEF Work!CreateRead, WsTablesStay
<1>3. ASSUME NEW c \in Companies, NEW b \in Bodies, Work!PayRead(h, c, b) \/ Work!ImportRead(h, c, b)
      PROVE  WsTablesStay /\ refused' = refused /\ WsGoesOn(h)
 BY <1>3, WsPayReads, Zenon DEF Work!PayRead, Work!ImportRead, WsTablesStay
<1>4. ASSUME NEW s \in SlotIds, NEW name \in {"keep", "name", "clear"}, Work!SlotRead(h, s, name)
      PROVE  WsTablesStay /\ refused' = refused /\ WsGoesOn(h)
 BY <1>4, WsSlotReads, Zenon DEF Work!SlotRead, WsTablesStay
<1>5. ASSUME NEW c \in Companies, NEW d \in Companies, Work!MergeRead(h, c, d)
      PROVE  WsTablesStay /\ refused' = refused /\ WsGoesOn(h)
 BY <1>5, WsMergeReads, Zenon DEF Work!MergeRead, WsTablesStay
<1>6. CASE Work!RecRead(h)
 <2>1. reqs[h].company \in Companies /\ refused \subseteq Companies
  BY <1>6, WsTypes DEF Work!RecRead, Work!At, WsAsks, WsShape
 <2>2. refused' \subseteq Companies BY <1>6, <2>1 DEF Work!RecRead
 <2>3. QED BY <1>6, <2>2, WsReconcileAsks, Zenon DEF Work!RecRead, WsTablesStay
<1>7. CASE Work!RecSurvivors(h)
 BY <1>7, WsReconcileAsks, Zenon DEF Work!RecSurvivors, WsTablesStay, WsShape
<1>8. CASE Work!SyncRead(h)
 BY <1>8, WsSyncAsks, Zenon DEF Work!SyncRead, WsTablesStay, WsShape
<1>9. CASE Work!PayLedger(h)
 BY <1>9, WsPayAsks, Zenon DEF Work!PayLedger, WsTablesStay, WsShape
<1>10. CASE Work!CleanRead(h)
 BY <1>10, WsCleanAsks, Zenon DEF Work!CleanRead, WsTablesStay, WsShape
<1>11. CASE Work!CleanNext(h)
 BY <1>11, WsCleanAsks, Zenon DEF Work!CleanNext, WsTablesStay, WsShape
<1>12. CASE Work!AssignRead(h)
 BY <1>12, WsAssignAsks, Zenon DEF Work!AssignRead, WsTablesStay, WsShape
<1>13. refused \subseteq Companies BY DEF WsShape
<1>14. QED
 BY <1>1, <1>2, <1>3, <1>4, <1>5, <1>6, <1>7, <1>8, <1>9, <1>10, <1>11, <1>12, <1>13 DEF WsLooks


\* Slots, registrations and what is known of them stay.
WsOthersStay == /\ slots' = slots /\ regs' = regs /\ moved' = moved /\ merged' = merged /\ refused' = refused
WsBooksStay == pays' = pays /\ newest' = newest /\ paidOnce' = paidOnce

LEMMA WsWrittenAfter ==
  ASSUME WsShape, paidOnce \subseteq paidOnce', paidOnce' \subseteq Companies, WsPays(pays', newest', paidOnce'),
         NEW c, NEW x, WsWritten(c, x), WsOthersStay
  PROVE  WsAfter
BY WsWrittenShape DEF WsAfter, WsShape, WsOthersStay

WsConfirmed(h, q, c, pid, id) ==
  /\ q = reqs[h] /\ q.pc = "confirm" /\ c = q.company
  /\ WsRecorded(id, c, newest[c], c, q.body) /\ WsOthersStay
  /\ WsWritten(c, [id |-> pid, confirmed |-> Work!Eligible(q.body), count |-> q.count, active |-> TRUE])
  /\ WsGoes(h, Work!Reconcile(pid, c, q.count, q.rm, IF Work!Eligible(q.body) THEN "syncMark" ELSE "done"))

LEMMA WsPart ==
  ASSUME NEW id \in PartIds, NEW flag \in BOOLEAN, NEW n \in Int, NEW active \in BOOLEAN
  PROVE  [id |-> id, confirmed |-> flag, count |-> n, active |-> active] \in Work!Parts
<1>1. ASSUME NEW a \in {TRUE, FALSE}, NEW b \in {TRUE, FALSE} PROVE [id |-> id, confirmed |-> a, count |-> n, active |-> b] \in Work!Parts
 BY <1>1 DEF Work!Parts
<1>2. QED BY <1>1

LEMMA WsConfirmDoes ==
  ASSUME WsShape, NEW h \in Handlers, Work!ConfirmWrite(h)
  PROVE  WsAfter /\ ((WsTablesStay /\ Work!Finish(h)) \/ \E q, c, pid, id : WsConfirmed(h, q, c, pid, id))
<1>1. PICK q : q = reqs[h] OBVIOUS
<1>2. PICK c : c = q.company OBVIOUS
<1>3. q.pc = "confirm" /\ q \in Work!Requests /\ c \in Companies
 BY <1>1, <1>2, WsTypes DEF Work!ConfirmWrite, Work!At, WsAsks
<1>4. CASE parts[c].id # q.pid
 <2>1. WsTablesStay /\ Work!Finish(h) /\ refused' = refused
  BY <1>1, <1>2, <1>4, Zenon DEF Work!ConfirmWrite, WsTablesStay
 <2>2. QED BY <2>1, WsTablesStayShape DEF WsShape
<1>5. CASE parts[c].id = q.pid
 <2>1. PICK pid : pid = (IF q.pid = 0 THEN Work!NewPartId ELSE q.pid)
  OBVIOUS
 <2>2. PICK flag : flag = Work!Eligible(q.body) OBVIOUS
 <2>3. PICK then : then = (IF flag THEN "syncMark" ELSE "done") OBVIOUS
 <2>4. /\ q.pid = 0 => Work!NewParts # {}
       /\ Work!RecordPayment(newest[c], c, q.body)
       /\ parts' = [parts EXCEPT ![c] = [id |-> pid, confirmed |-> flag, count |-> q.count, active |-> TRUE]]
       /\ WsGoes(h, Work!Reconcile(pid, c, q.count, q.rm, then))
  BY <1>1, <1>2, <1>5, <2>1, <2>2, <2>3 DEF Work!ConfirmWrite, Work!Goto, WsGoes
 <2>5. WsOthersStay BY DEF Work!ConfirmWrite, WsOthersStay
 <2>6. newest[c] \in PayIds \cup {0} /\ ~Work!Stale(newest[c]) /\ (newest[c] # 0 => pays[newest[c]].company = c)
  BY <1>3, WsTypes, WsIds DEF Work!Stale, WsShape, WsPays, Work!NoPay
 <2>7. PICK id, owner : WsRecorded(id, owner, newest[c], c, q.body)
  BY <1>3, <2>4, <2>6, WsRecords
 <2>8. owner = c BY <2>6, <2>7, WsIds DEF WsRecorded
 <2>9. /\ WsPays(pays', newest', paidOnce') /\ paidOnce \subseteq paidOnce' /\ paidOnce' \subseteq Companies
       /\ flag => c \in paidOnce'
  BY <1>3, <2>2, <2>7, WsRecordsShape
 <2>10. pid \in PartIds /\ pid # 0 /\ (pid = parts[c].id \/ (parts[c].id = 0 /\ \A d \in Companies : parts[d].id # pid))
  <3>1. CASE q.pid = 0
   <4>1. pid \in Work!NewParts BY <2>1, <2>4, <3>1 DEF Work!NewPartId
   <4>2. QED BY <1>5, <3>1, <4>1, WsIds DEF Work!NewParts
  <3>2. CASE q.pid # 0 BY <1>3, <1>5, <2>1, <3>2 DEF Work!Requests
  <3>3. QED BY <3>1, <3>2
 <2>11. PICK x : x = [id |-> pid, confirmed |-> flag, count |-> q.count, active |-> TRUE]
  OBVIOUS
 <2>12. flag \in BOOLEAN /\ q.count \in Int
  <3>1. Work!Eligible(q.body) \in BOOLEAN BY DEF Work!Eligible
  <3>2. QED BY <1>3, <2>2, <3>1 DEF Work!Requests
 <2>13. x \in Work!Parts /\ x.id = pid /\ (x.confirmed <=> flag)
  <3>1. x \in Work!Parts BY <2>10, <2>11, <2>12, WsPart
  <3>2. QED BY <2>11, <3>1
 <2>14. WsWritten(c, x)
  BY <1>3, <2>4, <2>9, <2>10, <2>11, <2>13 DEF WsWritten
 <2>15. WsAfter BY <2>5, <2>9, <2>14, WsWrittenAfter
 <2>16. WsConfirmed(h, q, c, pid, id)
  BY <1>1, <1>2, <1>3, <2>2, <2>3, <2>4, <2>5, <2>7, <2>8, <2>11, <2>14 DEF WsConfirmed
 <2>17. QED BY <2>15, <2>16
<1>6. QED BY <1>4, <1>5

WsCreated(h, q, c, pid) ==
  /\ q = reqs[h] /\ q.pc = "create" /\ c = q.company /\ parts[c].id = 0 /\ q.count \in Int
  /\ WsOthersStay /\ WsBooksStay /\ \A d \in Companies : parts[d].id # pid
  /\ WsWritten(c, [id |-> pid, confirmed |-> TRUE, count |-> q.count, active |-> TRUE])
  /\ IF q.count > 0 THEN WsGoes(h, [q EXCEPT !.pc = "createSlots", !.pid = pid]) ELSE Work!Finish(h)

LEMMA WsCreateDoes ==
  ASSUME WsShape, NEW h \in Handlers, Work!CreateWrite(h)
  PROVE  WsAfter /\ ((WsTablesStay /\ Work!Finish(h)) \/ \E q, c, pid : WsCreated(h, q, c, pid))
<1>1. PICK q : q = reqs[h] OBVIOUS
<1>2. PICK c : c = q.company OBVIOUS
<1>3. q.pc = "create" /\ q \in Work!Requests /\ c \in Companies /\ c \in paidOnce /\ q.count \in Int
 BY <1>1, <1>2, WsTypes DEF Work!CreateWrite, Work!At, WsAsks, Work!Requests
<1>4. WsOthersStay /\ WsBooksStay
 BY DEF Work!CreateWrite, WsOthersStay, WsBooksStay
<1>5. CASE ~(parts[c] = Work!NoPart /\ ~Work!Stale(q.pay))
 <2>1. parts' = parts /\ Work!Finish(h)
  BY <1>1, <1>2, <1>5 DEF Work!CreateWrite
 <2>2. WsTablesStay /\ refused' = refused
  BY <1>4, <2>1 DEF WsOthersStay, WsBooksStay, WsTablesStay
 <2>3. QED BY <2>1, <2>2, WsTablesStayShape DEF WsShape
<1>6. CASE parts[c] = Work!NoPart /\ ~Work!Stale(q.pay)
 <2>1. PICK pid : pid = Work!NewPartId OBVIOUS
 <2>2. PICK x : x = [id |-> pid, confirmed |-> TRUE, count |-> q.count, active |-> TRUE]
  OBVIOUS
 <2>3. /\ Work!NewParts # {}
       /\ parts' = [parts EXCEPT ![c] = x]
       /\ IF q.count > 0 THEN WsGoes(h, [q EXCEPT !.pc = "createSlots", !.pid = pid]) ELSE Work!Finish(h)
  BY <1>1, <1>2, <1>6, <2>1, <2>2 DEF Work!CreateWrite, Work!Goto, WsGoes
 <2>4. pid \in PartIds /\ pid # 0 /\ \A d \in Companies : parts[d].id # pid
  <3>1. pid \in Work!NewParts BY <2>1, <2>3 DEF Work!NewPartId
  <3>2. QED BY <3>1, WsIds DEF Work!NewParts
 <2>5. x \in Work!Parts /\ x.id = pid
  <3>1. x \in Work!Parts BY <1>3, <2>2, <2>4, WsPart
  <3>2. QED BY <2>2, <3>1
 <2>6. parts[c].id = 0 BY <1>6 DEF Work!NoPart
 <2>7. WsWritten(c, x)
  BY <1>3, <1>4, <2>3, <2>4, <2>5, <2>6 DEF WsWritten, WsBooksStay
 <2>8. WsAfter BY <1>4, <2>7, WsWrittenAfter DEF WsBooksStay, WsShape
 <2>9. WsCreated(h, q, c, pid)
  BY <1>1, <1>2, <1>3, <1>4, <2>2, <2>3, <2>4, <2>6, <2>7 DEF WsCreated
 <2>10. QED BY <2>8, <2>9
<1>7. QED BY <1>5, <1>6


LEMMA WsFlagField ==
  ASSUME NEW c, NEW flag \in BOOLEAN, NEW x, x = [parts[c] EXCEPT !.confirmed = flag], parts[c] \in Work!Parts
  PROVE  x \in Work!Parts /\ x.id = parts[c].id /\ x.count = parts[c].count /\ (x.confirmed <=> flag)
<1>1. CASE flag = TRUE BY <1>1 DEF Work!Parts
<1>2. CASE flag = FALSE BY <1>2 DEF Work!Parts
<1>3. QED BY <1>1, <1>2

LEMMA WsOtherFields ==
  ASSUME NEW c, NEW n \in Int, NEW x, parts[c] \in Work!Parts
  PROVE  /\ x = [parts[c] EXCEPT !.count = n] =>
              x \in Work!Parts /\ x.id = parts[c].id /\ x.count = n /\ (x.confirmed <=> parts[c].confirmed)
         /\ x = [parts[c] EXCEPT !.active = FALSE] =>
              x \in Work!Parts /\ x.id = parts[c].id /\ x.count = parts[c].count /\ (x.confirmed <=> parts[c].confirmed)
<1>1. SUFFICES ASSUME NEW p \in Work!Parts, p = parts[c]
      PROVE  /\ x = [p EXCEPT !.count = n] => x \in Work!Parts /\ x.id = p.id /\ x.count = n /\ (x.confirmed <=> p.confirmed)
             /\ x = [p EXCEPT !.active = FALSE] => x \in Work!Parts /\ x.id = p.id /\ x.count = p.count /\ (x.confirmed <=> p.confirmed)
 OBVIOUS
<1>2. QED BY DEF Work!Parts

LEMMA WsEligible == ASSUME NEW body PROVE Work!Eligible(body) \in BOOLEAN
BY DEF Work!Eligible

WsPaidRow(h, q, c, id, owner) ==
  /\ q = reqs[h] /\ q.pc = "payWrite" /\ c = q.company /\ c \in Companies
  /\ WsRecorded(id, owner, q.pay, c, q.body) /\ WsOthersStay /\ Work!Finish(h)
  /\ \/ q.pid = 0 /\ parts' = parts
     \/ q.pid = parts[c].id /\ WsWritten(c, [parts[c] EXCEPT !.confirmed = Work!Eligible(q.body)])

LEMMA WsPayDoes ==
  ASSUME WsShape, NEW h \in Handlers, Work!PayWrite(h)
  PROVE  WsAfter /\ ((WsTablesStay /\ Work!Finish(h)) \/ \E q, c, id, owner : WsPaidRow(h, q, c, id, owner))
<1>1. PICK q : q = reqs[h] OBVIOUS
<1>2. PICK c : c = q.company OBVIOUS
<1>3. q.pc = "payWrite" /\ q \in Work!Requests /\ c \in Companies /\ q.pay \in PayIds \cup {0}
 BY <1>1, <1>2, WsTypes DEF Work!PayWrite, Work!At, WsAsks, Work!Requests
<1>4. WsOthersStay /\ Work!Finish(h) BY DEF Work!PayWrite, WsOthersStay
<1>5. CASE Work!Stale(q.pay) \/ (q.pid # 0 /\ parts[c].id # q.pid)
 <2>1. WsTablesStay /\ refused' = refused
  BY <1>1, <1>2, <1>4, <1>5, Zenon DEF Work!PayWrite, WsTablesStay, WsOthersStay
 <2>2. QED BY <1>4, <2>1, WsTablesStayShape DEF WsShape
<1>6. CASE ~(Work!Stale(q.pay) \/ (q.pid # 0 /\ parts[c].id # q.pid))
 <2>1. PICK flag \in BOOLEAN : flag = Work!Eligible(q.body) BY WsEligible
 <2>2. /\ Work!RecordPayment(q.pay, c, q.body)
       /\ parts' = IF q.pid = 0 THEN parts ELSE [parts EXCEPT ![c].confirmed = flag]
  BY <1>1, <1>2, <1>6, <2>1 DEF Work!PayWrite
 <2>3. PICK id, owner : WsRecorded(id, owner, q.pay, c, q.body)
  BY <1>3, <1>6, <2>2, WsRecords
 <2>4. /\ WsPays(pays', newest', paidOnce') /\ paidOnce \subseteq paidOnce' /\ paidOnce' \subseteq Companies
       /\ flag => c \in paidOnce'
  BY <1>3, <2>1, <2>3, WsRecordsShape
 <2>5. CASE q.pid = 0
  <3>1. parts' = parts /\ WsSlots(parts', slots') /\ WsParts(parts', paidOnce')
   BY <1>4, <2>2, <2>4, <2>5, WsMonotone DEF WsOthersStay, WsShape
  <3>2. WsAfter BY <1>4, <2>4, <3>1 DEF WsAfter, WsShape, WsOthersStay
  <3>3. WsPaidRow(h, q, c, id, owner)
   BY <1>1, <1>2, <1>3, <1>4, <2>3, <2>5, <3>1 DEF WsPaidRow
  <3>4. QED BY <3>2, <3>3
 <2>6. CASE q.pid # 0
  <3>1. PICK x : x = [parts[c] EXCEPT !.confirmed = flag] OBVIOUS
  <3>2. parts' = [parts EXCEPT ![c] = x] BY <2>2, <2>6, <3>1
  <3>3. x \in Work!Parts /\ x.id = parts[c].id /\ (x.confirmed <=> flag) /\ parts[c].id # 0
   BY <1>3, <1>6, <2>6, <3>1, WsFlagField, WsTypes
  <3>4. WsWritten(c, x) BY <1>3, <2>4, <3>2, <3>3 DEF WsWritten
  <3>5. WsAfter BY <1>4, <2>4, <3>4, WsWrittenAfter
  <3>6. WsPaidRow(h, q, c, id, owner)
   BY <1>1, <1>2, <1>3, <1>4, <1>6, <2>1, <2>3, <2>6, <3>1, <3>4 DEF WsPaidRow
  <3>7. QED BY <3>5, <3>6
 <2>7. QED BY <2>5, <2>6
<1>7. QED BY <1>5, <1>6

WsImported(h, q, c, id, owner) ==
  /\ q = reqs[h] /\ q.pc = "importPay" /\ c = q.company /\ c \in Companies
  /\ WsRecorded(id, owner, q.pay, c, q.body) /\ WsOthersStay /\ parts' = parts
  /\ WsGoes(h, [q EXCEPT !.pc = "importFlag", !.pay = 0])

LEMMA WsImportDoes ==
  ASSUME WsShape, NEW h \in Handlers, Work!ImportPay(h)
  PROVE  WsAfter /\ ((WsTablesStay /\ Work!Finish(h)) \/ \E q, c, id, owner : WsImported(h, q, c, id, owner))
<1>1. PICK q : q = reqs[h] OBVIOUS
<1>2. PICK c : c = q.company OBVIOUS
<1>3. q.pc = "importPay" /\ q \in Work!Requests /\ c \in Companies /\ q.pay \in PayIds \cup {0}
 BY <1>1, <1>2, WsTypes DEF Work!ImportPay, Work!At, WsAsks, Work!Requests
<1>4. WsOthersStay /\ parts' = parts BY DEF Work!ImportPay, WsOthersStay
<1>5. CASE Work!Stale(q.pay)
 <2>1. WsTablesStay /\ refused' = refused /\ Work!Finish(h)
  BY <1>1, <1>2, <1>4, <1>5, Zenon DEF Work!ImportPay, WsTablesStay, WsOthersStay
 <2>2. QED BY <2>1, WsTablesStayShape DEF WsShape
<1>6. CASE ~Work!Stale(q.pay)
 <2>1. /\ Work!RecordPayment(q.pay, c, q.body)
       /\ WsGoes(h, [q EXCEPT !.pc = "importFlag", !.pay = 0])
  BY <1>1, <1>2, <1>6 DEF Work!ImportPay, Work!Goto, WsGoes
 <2>2. PICK id, owner : WsRecorded(id, owner, q.pay, c, q.body)
  BY <1>3, <1>6, <2>1, WsRecords
 <2>3. WsPays(pays', newest', paidOnce') /\ paidOnce \subseteq paidOnce' /\ paidOnce' \subseteq Companies
  BY <1>3, <2>2, WsRecordsShape
 <2>4. WsSlots(parts', slots') /\ WsParts(parts', paidOnce')
  BY <1>4, <2>3, WsMonotone DEF WsOthersStay, WsShape
 <2>5. WsAfter BY <1>4, <2>3, <2>4 DEF WsAfter, WsShape, WsOthersStay
 <2>6. WsImported(h, q, c, id, owner)
  BY <1>1, <1>2, <1>3, <1>4, <2>1, <2>2 DEF WsImported
 <2>7. QED BY <2>5, <2>6
<1>7. QED BY <1>5, <1>6

\* A participant's row is written, nothing else: ImportFlag, CountWrite, CleanWrite.
WsRowSet(h, q, c, x) ==
  /\ c \in Companies /\ parts[c].id # 0 /\ x.id = parts[c].id /\ WsWritten(c, x) /\ WsOthersStay /\ WsBooksStay
  /\ \/ /\ q = reqs[h] /\ q.pc = "importFlag" /\ c = q.company
        /\ x = [parts[c] EXCEPT !.confirmed = Work!Eligible(q.body)] /\ x.count = parts[c].count
        /\ \/ WsGoes(h, Work!Reconcile(x.id, c, x.count, FALSE, "done"))
           \/ Work!Finish(h)
     \/ /\ (x.confirmed <=> parts[c].confirmed) /\ x.count \in Int /\ \E rm \in BOOLEAN : WsGoes(h, Work!Reconcile(x.id, c, x.count, rm, "done"))
     \/ /\ q = reqs[h] /\ q.pc \in {"repair", "archive"} /\ c = q.company /\ q.pid = x.id /\ x.count = parts[c].count
        /\ \/ q.pc = "repair" /\ x.confirmed /\ \E pc \in {"recRead", "cleanNext"} : WsGoes(h, [q EXCEPT !.pc = pc])
           \/ q.pc = "archive" /\ (x.confirmed <=> parts[c].confirmed) /\ WsGoes(h, [q EXCEPT !.pc = "cleanNext"])

LEMMA WsRowSetAfter ==
  ASSUME WsShape, NEW h \in Handlers, NEW q, NEW c, NEW x, WsRowSet(h, q, c, x) PROVE WsAfter
BY WsWrittenAfter DEF WsRowSet, WsBooksStay, WsShape

LEMMA WsFlagDoes ==
  ASSUME WsShape, NEW h \in Handlers, Work!ImportFlag(h)
  PROVE  (WsTablesStay /\ refused' = refused /\ Work!Finish(h)) \/ \E q, c, x : WsRowSet(h, q, c, x)
<1>1. PICK q : q = reqs[h] OBVIOUS
<1>2. PICK c : c = q.company OBVIOUS
<1>3. q.pc = "importFlag" /\ q \in Work!Requests /\ c \in Companies /\ (Work!Eligible(q.body) => c \in paidOnce)
 BY <1>1, <1>2, WsTypes DEF Work!ImportFlag, Work!At, WsAsks
<1>4. WsOthersStay /\ WsBooksStay
 BY DEF Work!ImportFlag, WsOthersStay, WsBooksStay
<1>5. CASE parts[c] = Work!NoPart
 BY <1>1, <1>2, <1>4, <1>5, Zenon DEF Work!ImportFlag, WsTablesStay, WsOthersStay, WsBooksStay
<1>6. CASE parts[c] # Work!NoPart
 <2>1. PICK flag \in BOOLEAN : flag = Work!Eligible(q.body) BY WsEligible
 <2>2. PICK x : x = [parts[c] EXCEPT !.confirmed = flag] OBVIOUS
 <2>3. x \in Work!Parts /\ x.id = parts[c].id /\ x.count = parts[c].count /\ (x.confirmed <=> flag) /\ parts[c].id # 0
  BY <1>3, <1>6, <2>2, WsFlagField, WsTypes
 <2>4. parts' = [parts EXCEPT ![c] = x]
  BY <1>1, <1>2, <1>6, <2>1, <2>2 DEF Work!ImportFlag
 <2>5. WsWritten(c, x)
  BY <1>3, <1>4, <2>1, <2>3, <2>4 DEF WsWritten, WsBooksStay
 <2>6. Work!Finish(h) \/ WsGoes(h, Work!Reconcile(x.id, c, x.count, FALSE, "done"))
  BY <1>1, <1>2, <1>6, <2>3 DEF Work!ImportFlag, Work!Goto, WsGoes
 <2>7. WsRowSet(h, q, c, x)
  BY <1>1, <1>2, <1>3, <1>4, <2>1, <2>2, <2>3, <2>5, <2>6 DEF WsRowSet
 <2>8. QED BY <2>7
<1>7. QED BY <1>5, <1>6

LEMMA WsCountDoes ==
  ASSUME WsShape, NEW h \in Handlers, NEW c \in Companies, NEW n \in Counts, NEW rm \in BOOLEAN, Work!CountWrite(h, c, n, rm)
  PROVE  \E q, x : WsRowSet(h, q, c, x)
<1>1. n \in Int /\ parts[c] # Work!NoPart BY WsIds DEF Work!CountWrite
<1>2. WsOthersStay /\ WsBooksStay
 BY DEF Work!CountWrite, WsOthersStay, WsBooksStay
<1>3. PICK x : x = [parts[c] EXCEPT !.count = n] OBVIOUS
<1>4. x \in Work!Parts /\ x.id = parts[c].id /\ x.count = n /\ (x.confirmed <=> parts[c].confirmed) /\ parts[c].id # 0
 BY <1>1, <1>3, WsOtherFields, WsTypes
<1>5. parts' = [parts EXCEPT ![c] = x] BY <1>3 DEF Work!CountWrite
<1>6. WsWritten(c, x)
 <2>1. parts[c].confirmed => c \in paidOnce'
  BY <1>2 DEF WsShape, WsParts, WsBooksStay
 <2>2. QED BY <1>4, <1>5, <2>1 DEF WsWritten
<1>7. WsGoes(h, Work!Reconcile(x.id, c, x.count, rm, "done"))
 BY <1>4 DEF Work!CountWrite, Work!Goto, WsGoes
<1>8. WsRowSet(h, reqs[h], c, x)
 BY <1>1, <1>2, <1>4, <1>6, <1>7 DEF WsRowSet
<1>9. QED BY <1>8

LEMMA WsCleanDoes ==
  ASSUME WsShape, NEW h \in Handlers, Work!CleanWrite(h)
  PROVE  (WsTablesStay /\ refused' = refused /\ Work!Finish(h)) \/ \E q, c, x : WsRowSet(h, q, c, x)
<1>1. PICK q : q = reqs[h] OBVIOUS
<1>2. PICK c : c = q.company OBVIOUS
<1>3. /\ q.pc \in {"repair", "archive"} /\ q \in Work!Requests /\ c \in Companies /\ q.pid # 0
      /\ q.pc = "repair" => c \in paidOnce
 BY <1>1, <1>2, WsTypes DEF Work!CleanWrite, WsAsks
<1>4. WsOthersStay /\ WsBooksStay
 BY DEF Work!CleanWrite, WsOthersStay, WsBooksStay
<1>5. CASE parts[c].id # q.pid
 BY <1>1, <1>2, <1>4, <1>5, Zenon DEF Work!CleanWrite, WsTablesStay, WsOthersStay, WsBooksStay
<1>6. CASE parts[c].id = q.pid /\ q.pc = "repair"
 <2>1. PICK x : x = [parts[c] EXCEPT !.confirmed = TRUE] OBVIOUS
 <2>2. x \in Work!Parts /\ x.id = parts[c].id /\ x.count = parts[c].count /\ x.confirmed /\ parts[c].id # 0
  BY <1>3, <1>6, <2>1, WsFlagField, WsTypes
 <2>3. parts' = [parts EXCEPT ![c] = x]
  BY <1>1, <1>2, <1>6, <2>1 DEF Work!CleanWrite
 <2>4. WsWritten(c, x)
  BY <1>3, <1>4, <1>6, <2>2, <2>3 DEF WsWritten, WsBooksStay
 <2>5. \E pc \in {"recRead", "cleanNext"} : WsGoes(h, [q EXCEPT !.pc = pc])
  BY <1>1, <1>2, <1>6 DEF Work!CleanWrite, Work!Goto, WsGoes
 <2>6. WsRowSet(h, q, c, x)
  BY <1>1, <1>2, <1>3, <1>4, <1>6, <2>2, <2>4, <2>5 DEF WsRowSet
 <2>7. QED BY <2>6
<1>7. CASE parts[c].id = q.pid /\ q.pc = "archive"
 <2>1. PICK x : x = [parts[c] EXCEPT !.active = FALSE] OBVIOUS
 <2>2. x \in Work!Parts /\ x.id = parts[c].id /\ x.count = parts[c].count /\ (x.confirmed <=> parts[c].confirmed) /\ parts[c].id # 0
  BY 0 \in Int, <1>3, <1>7, <2>1, WsOtherFields, WsTypes
 <2>3. parts' = [parts EXCEPT ![c] = x]
  BY <1>1, <1>2, <1>7, <2>1 DEF Work!CleanWrite
 <2>4. parts[c].confirmed => c \in paidOnce'
  BY <1>3, <1>4 DEF WsShape, WsParts, WsBooksStay
 <2>5. WsWritten(c, x) BY <1>3, <2>2, <2>3, <2>4 DEF WsWritten
 <2>6. WsGoes(h, [q EXCEPT !.pc = "cleanNext"])
  BY <1>1, <1>2, <1>7 DEF Work!CleanWrite, Work!Goto, WsGoes
 <2>7. WsRowSet(h, q, c, x)
  BY <1>1, <1>2, <1>3, <1>4, <1>7, <2>2, <2>5, <2>6 DEF WsRowSet
 <2>8. QED BY <2>7
<1>8. QED BY <1>3, <1>5, <1>6, <1>7


\* Participants, payments and registrations stay.
WsRestStay == /\ pays' = pays /\ newest' = newest /\ paidOnce' = paidOnce /\ merged' = merged

WsDropped(h, q) ==
  /\ q = reqs[h] /\ q.pc = "recDrop" /\ WsRestStay /\ parts' = parts /\ regs' = regs /\ moved' = moved /\ refused' = refused
  /\ slots' = [i \in SlotIds |-> IF i \in q.held THEN Work!NoSlot ELSE slots[i]]
  /\ WsGoes(h, [q EXCEPT !.pc = "recSurvivors", !.held = {}])

LEMMA WsDropDoes ==
  ASSUME WsShape, NEW h \in Handlers, Work!RecDrop(h)
  PROVE  WsAfter /\ \E q : WsDropped(h, q)
<1>1. PICK q : q = reqs[h] OBVIOUS
<1>2. WsDropped(h, q)
 BY <1>1, Zenon DEF Work!RecDrop, Work!At, Work!Goto, WsGoes, WsDropped, WsRestStay
<1>3. PICK t : t = slots' OBVIOUS
<1>4. t = [i \in SlotIds |-> IF i \in q.held THEN Work!NoSlot ELSE slots[i]]
 BY <1>2, <1>3 DEF WsDropped
<1>5. WsSlots(parts, slots) BY DEF WsShape
<1>6. /\ t = [i \in SlotIds |-> t[i]] /\ (\A i \in SlotIds : t[i] = slots[i] \/ t[i] = Work!NoSlot)
      /\ \A i \in SlotIds : t[i].pid # 0 => \E c \in Companies : parts[c].id = t[i].pid
 BY <1>4, <1>5 DEF WsSlots, Work!NoSlot
<1>7. WsSlots(parts, t) BY <1>5, <1>6, WsSlotsGo
<1>8. WsAfter
 BY <1>2, <1>3, <1>7 DEF WsAfter, WsShape, WsDropped, WsRestStay
<1>9. QED BY <1>2, <1>8

\* Slots with the numbers ns are added to the participant of company c.
WsGrown(h, q, c, ns, reg) ==
  /\ q = reqs[h] /\ c \in Companies /\ parts[c].id = q.pid /\ ns \in SUBSET (Nat \ {0})
  /\ \A i \in SlotIds : slots[i].pid = q.pid => slots[i].n \notin ns
  /\ WsAdds(slots', q.pid, ns, reg) /\ WsRestStay /\ regs' = regs /\ moved' = moved

LEMMA WsGrownAfter ==
  ASSUME WsShape, NEW h \in Handlers, NEW q, NEW c, NEW ns, NEW reg \in Regs \cup {None}, WsGrown(h, q, c, ns, reg),
         q.pid # 0, refused' \subseteq Companies, WsParts(parts', paidOnce'), \A d \in Companies : parts'[d].id = parts[d].id
  PROVE  WsAfter
<1>1. q.pid \in PartIds /\ c \in Companies /\ parts[c].id = q.pid
 BY WsTypes DEF WsGrown
<1>2. WsSlots(parts', slots')
 <2>1. PICK t : t = slots' OBVIOUS
 <2>2. PICK p : p = parts' OBVIOUS
 <2>3. WsSlots(p, t) BY <1>1, <2>1, <2>2, WsSlotsCome DEF WsGrown
 <2>4. QED BY <2>1, <2>2, <2>3
<1>3. QED BY <1>2 DEF WsAfter, WsShape, WsGrown, WsRestStay

WsFillFails(q, ns) ==
  \/ \E s \in q.held : slots[s] = Work!NoSlot
  \/ ns # {} /\ ((\A c \in Companies : parts[c].id # q.pid) \/ \E i \in SlotIds : slots[i].pid = q.pid /\ slots[i].n \in ns)
WsFilled(h, q, ns) ==
  /\ q = reqs[h] /\ q.pc = "recFill" /\ ns = Work!Cardinality(q.held) + 1 .. q.count
  /\ parts' = parts /\ WsRestStay /\ regs' = regs /\ moved' = moved
  /\ \/ WsFillFails(q, ns) /\ slots' = slots /\ refused' = refused /\ Work!Finish(h)
     \/ /\ ~WsFillFails(q, ns) /\ refused' = refused \ {q.company} /\ WsAdds(slots', q.pid, ns, None)
        /\ IF q.then = "done" THEN Work!Finish(h) ELSE WsGoes(h, [q EXCEPT !.pc = q.then, !.held = {}])

LEMMA WsFillDoes ==
  ASSUME WsShape, NEW h \in Handlers, Work!RecFill(h)
  PROVE  WsAfter /\ \E q, ns : WsFilled(h, q, ns)
<1>1. PICK q : q = reqs[h] OBVIOUS
<1>2. PICK ns : ns = Work!Cardinality(q.held) + 1 .. q.count OBVIOUS
<1>3. PICK fails : fails = WsFillFails(q, ns) OBVIOUS
<1>4. /\ q.pc = "recFill" /\ (fails \/ Work!Numberings(ns) # {}) /\ fails \in BOOLEAN
      /\ slots' = (IF fails THEN slots ELSE Work!NewSlots(q.pid, ns, None))
      /\ refused' = (IF fails THEN refused ELSE refused \ {q.company})
      /\ IF fails \/ q.then = "done" THEN Work!Finish(h) ELSE WsGoes(h, [q EXCEPT !.pc = q.then, !.held = {}])
 <2>1. PICK gone \in BOOLEAN : gone = ((\E s \in q.held : slots[s] = Work!NoSlot)
                \/ (ns # {} /\ (Work!PartOf(q.pid) = {} \/ Work!NumbersOf(q.pid) \cap ns # {})))
  OBVIOUS
 <2>2. gone <=> WsFillFails(q, ns)
  BY <2>1 DEF WsFillFails, Work!PartOf, Work!NumbersOf, Work!SlotsOf
 <2>3. WsFillFails(q, ns) \in BOOLEAN BY DEF WsFillFails
 <2>4. /\ q.pc = "recFill" /\ (gone \/ Work!Numberings(ns) # {})
       /\ slots' = (IF gone THEN slots ELSE Work!NewSlots(q.pid, ns, None))
       /\ refused' = (IF gone THEN refused ELSE refused \ {q.company})
       /\ IF gone \/ q.then = "done" THEN Work!Finish(h) ELSE WsGoes(h, [q EXCEPT !.pc = q.then, !.held = {}])
  BY <1>1, <1>2, <2>1 DEF Work!RecFill, Work!At, Work!Goto, WsGoes
 <2>5. QED BY <1>3, <2>2, <2>3, <2>4
<1>5. fails <=> WsFillFails(q, ns) BY <1>3
<1>6. parts' = parts /\ WsRestStay /\ regs' = regs /\ moved' = moved
 BY DEF Work!RecFill, WsRestStay
<1>7. q \in Work!Requests /\ q.company \in Companies /\ q.pid # 0
 BY <1>1, <1>4, WsTypes DEF WsAsks, WsReconciles
<1>8. WsFilled(h, q, ns)
 <2>1. CASE fails BY <1>1, <1>2, <1>4, <1>5, <1>6, <2>1 DEF WsFilled
 <2>2. CASE ~fails
  <3>1. WsAdds(slots', q.pid, ns, None) BY <1>4, <2>2, WsNewSlots
  <3>2. QED BY <1>1, <1>2, <1>4, <1>5, <1>6, <2>2, <3>1 DEF WsFilled
 <2>3. QED BY <2>1, <2>2
<1>9. refused' \subseteq Companies /\ WsParts(parts', paidOnce')
 BY <1>4, <1>6 DEF WsShape, WsRestStay
<1>10. WsAfter
 <2>1. CASE slots' = slots BY <1>6, <1>9, <2>1 DEF WsAfter, WsShape, WsRestStay
 <2>2. CASE slots' # slots
  <3>1. ~fails BY <1>4, <2>2
  <3>2. WsAdds(slots', q.pid, ns, None) BY <1>4, <3>1, WsNewSlots
  <3>3. ns # {}
   <4>1. ASSUME ns = {} PROVE FALSE
    <5>1. \A i \in SlotIds : slots'[i] = slots[i] BY <3>2, <4>1 DEF WsAdds
    <5>2. slots' = [i \in SlotIds |-> slots'[i]] /\ slots = [i \in SlotIds |-> slots[i]]
     BY <3>2 DEF WsAdds, WsShape, WsSlots
    <5>3. QED BY <2>2, <5>1, <5>2
   <4>2. QED BY <4>1
  <3>4. PICK c \in Companies : parts[c].id = q.pid
   BY <1>5, <3>1, <3>3 DEF WsFillFails
  <3>5. \A i \in SlotIds : slots[i].pid = q.pid => slots[i].n \notin ns
   BY <1>5, <3>1, <3>3 DEF WsFillFails
  <3>6. ns \in SUBSET (Nat \ {0})
   <4>1. Work!Cardinality(q.held) \in Nat /\ q.count \in Int
    BY <1>7, WsFinite, WsCardinality DEF Work!Requests
   <4>2. QED BY <1>2, <4>1
  <3>7. WsGrown(h, q, c, ns, None)
   BY <1>1, <1>6, <3>2, <3>4, <3>5, <3>6 DEF WsGrown
  <3>8. QED BY <1>6, <1>7, <1>9, <3>7, WsGrownAfter
 <2>3. QED BY <2>1, <2>2
<1>11. QED BY <1>8, <1>10

WsMade(h, q, c) ==
  /\ q.pc = "createSlots" /\ WsGrown(h, q, c, 1 .. q.count, None)
  /\ parts' = parts /\ refused' = refused /\ Work!Finish(h)

LEMMA WsMakeDoes ==
  ASSUME WsShape, NEW h \in Handlers, Work!CreateSlots(h)
  PROVE  /\ WsAfter
         /\ \/ /\ WsTablesStay /\ refused' = refused /\ Work!Finish(h)
               /\ LET q == reqs[h] IN
                  \/ \A c \in Companies : parts[c].id # q.pid
                  \/ \E i \in SlotIds : slots[i].pid = q.pid /\ slots[i].n \in 1 .. q.count
            \/ \E q, c : WsMade(h, q, c)
<1>1. PICK q : q = reqs[h] OBVIOUS
<1>2. PICK ns : ns = 1 .. q.count OBVIOUS
<1>3. PICK ok \in BOOLEAN : ok = (Work!PartOf(q.pid) # {} /\ Work!NumbersOf(q.pid) \cap ns = {})
 OBVIOUS
<1>4. /\ q.pc = "createSlots" /\ (ok => Work!Numberings(ns) # {}) /\ Work!Finish(h)
      /\ slots' = (IF ok THEN Work!NewSlots(q.pid, ns, None) ELSE slots)
 BY <1>1, <1>2, <1>3 DEF Work!CreateSlots, Work!At
<1>5. parts' = parts /\ WsRestStay /\ regs' = regs /\ moved' = moved /\ refused' = refused
 BY DEF Work!CreateSlots, WsRestStay
<1>6. q \in Work!Requests /\ q.pid # 0 BY <1>1, <1>4, WsTypes DEF WsAsks
<1>7. CASE ~ok
 <2>1. WsTablesStay /\ refused' = refused
  BY <1>4, <1>5, <1>7 DEF WsTablesStay, WsRestStay
 <2>2. (\A c \in Companies : parts[c].id # q.pid) \/ \E i \in SlotIds : slots[i].pid = q.pid /\ slots[i].n \in ns
  BY <1>3, <1>7 DEF Work!PartOf, Work!NumbersOf, Work!SlotsOf
 <2>3. QED BY <1>1, <1>2, <1>4, <2>1, <2>2, WsTablesStayShape DEF WsShape
<1>8. CASE ok
 <2>1. WsAdds(slots', q.pid, ns, None) BY <1>4, <1>8, WsNewSlots
 <2>2. PICK c \in Companies : parts[c].id = q.pid
  BY <1>3, <1>8 DEF Work!PartOf
 <2>3. \A i \in SlotIds : slots[i].pid = q.pid => slots[i].n \notin ns
  BY <1>3, <1>8 DEF Work!NumbersOf, Work!SlotsOf
 <2>4. ns \in SUBSET (Nat \ {0})
  <3>1. q.count \in Int BY <1>6 DEF Work!Requests
  <3>2. QED BY <1>2, <3>1
 <2>5. WsGrown(h, q, c, ns, None)
  BY <1>1, <1>5, <2>1, <2>2, <2>3, <2>4 DEF WsGrown
 <2>6. WsAfter BY <1>5, <1>6, <2>5, WsGrownAfter DEF WsShape, WsRestStay
 <2>7. WsMade(h, q, c) BY <1>2, <1>4, <1>5, <2>5 DEF WsMade
 <2>8. QED BY <2>6, <2>7
<1>9. QED BY <1>7, <1>8


\* A slot of which only the link or the name is written.
WsTouched(t) ==
  /\ t = [i \in SlotIds |-> t[i]]
  /\ \A i \in SlotIds : \/ t[i] = slots[i]
                        \/ /\ slots[i].pid # 0 /\ t[i].pid = slots[i].pid /\ t[i].n = slots[i].n
                           /\ t[i] \in Work!SlotRows

LEMMA WsTouchedShape ==
  ASSUME WsShape, NEW t, WsTouched(t) PROVE WsSlots(parts, t)
<1>1. WsSlots(parts, slots) BY DEF WsShape
<1>2. t \in [SlotIds -> Work!SlotRows] BY WsTypes DEF WsTouched
<1>3. \A i \in SlotIds : t[i] = slots[i] \/ (slots[i].pid # 0 /\ t[i].pid = slots[i].pid /\ t[i].n = slots[i].n)
 BY DEF WsTouched
<1>4. QED BY <1>1, <1>2, <1>3, WsSlotsStay

LEMMA WsSlotLinked ==
  ASSUME WsShape, NEW i \in SlotIds, NEW r \in Regs, NEW x, x = [slots[i] EXCEPT !.reg = r, !.named = TRUE]
  PROVE  x \in Work!SlotRows /\ x.pid = slots[i].pid /\ x.n = slots[i].n /\ x.reg = r /\ x.named = TRUE
<1>1. slots[i] \in Work!SlotRows BY WsTypes
<1>2. QED BY <1>1 DEF Work!SlotRows

LEMMA WsSlotFreed ==
  ASSUME WsShape, NEW i \in SlotIds, NEW x, x = [slots[i] EXCEPT !.reg = None]
  PROVE  x \in Work!SlotRows /\ x.pid = slots[i].pid /\ x.n = slots[i].n /\ x.reg = None /\ x.named = slots[i].named
<1>1. slots[i] \in Work!SlotRows BY WsTypes
<1>2. QED BY <1>1 DEF Work!SlotRows

LEMMA WsSlotNamed ==
  ASSUME WsShape, NEW i \in SlotIds, NEW flag \in BOOLEAN, NEW x, x = [slots[i] EXCEPT !.named = flag]
  PROVE  x \in Work!SlotRows /\ x.pid = slots[i].pid /\ x.n = slots[i].n /\ x.reg = slots[i].reg
<1>1. slots[i] \in Work!SlotRows BY WsTypes
<1>2. QED BY <1>1 DEF Work!SlotRows

LEMMA WsSlotOwned == WsShape => \A i \in SlotIds : slots[i] # Work!NoSlot <=> slots[i].pid # 0
BY DEF WsShape, WsSlots, Work!NoSlot

WsSynced(h, q, a, t) ==
  /\ q = reqs[h] /\ q.pc = "syncLink" /\ a \in q.pairs /\ t = slots' /\ WsRestStay /\ parts' = parts
  /\ regs' = regs /\ moved' = moved /\ refused' = refused
  /\ slots[a.slot] # Work!NoSlot /\ regs[a.reg].state = "here"
  /\ t = [i \in SlotIds |-> IF i = a.slot THEN [slots[i] EXCEPT !.reg = a.reg, !.named = TRUE] ELSE slots[i]]
  /\ WsTouched(t)
  /\ Work!Finish(h) \/ WsGoes(h, [q EXCEPT !.pairs = q.pairs \ {a}])

LEMMA WsSyncDoes ==
  ASSUME WsShape, NEW h \in Handlers, Work!SyncLink(h)
  PROVE  WsAfter /\ ((WsTablesStay /\ refused' = refused /\ Work!Finish(h)) \/ \E q, a, t : WsSynced(h, q, a, t))
<1>1. PICK q : q = reqs[h] OBVIOUS
<1>2. PICK a : a = CHOOSE p \in q.pairs : \A b \in q.pairs : p.reg <= b.reg
 OBVIOUS
<1>3. q.pc = "syncLink" /\ q.pairs # {} /\ q.pairs \in SUBSET [reg : Regs, slot : SlotIds]
 BY <1>1, WsTypes DEF Work!SyncLink, Work!At, WsAsks, Work!Requests
<1>4. a \in q.pairs /\ a.reg \in Regs /\ a.slot \in SlotIds
 BY <1>2, <1>3, WsFirstPair
<1>5. WsRestStay /\ parts' = parts /\ regs' = regs /\ moved' = moved /\ refused' = refused
 BY DEF Work!SyncLink, WsRestStay
<1>6. CASE ~(slots[a.slot] # Work!NoSlot /\ regs[a.reg].state = "here")
 <2>1. slots' = slots /\ Work!Finish(h)
  BY <1>1, <1>2, <1>6 DEF Work!SyncLink
 <2>2. QED BY <1>5, <2>1, WsTablesStayShape DEF WsTablesStay, WsRestStay, WsShape
<1>7. CASE slots[a.slot] # Work!NoSlot /\ regs[a.reg].state = "here"
 <2>1. slots' = [slots EXCEPT ![a.slot].reg = a.reg, ![a.slot].named = TRUE]
  BY <1>1, <1>2, <1>7 DEF Work!SyncLink
 <2>2. Work!Finish(h) \/ WsGoes(h, [q EXCEPT !.pairs = q.pairs \ {a}])
  BY <1>1, <1>2, <1>7 DEF Work!SyncLink, Work!Goto, WsGoes
 <2>3. slots \in [SlotIds -> Work!SlotRows] BY DEF WsShape, WsSlots
 <2>4. PICK t : t = slots' OBVIOUS
 <2>5. t = [i \in SlotIds |-> IF i = a.slot THEN [slots[i] EXCEPT !.reg = a.reg, !.named = TRUE] ELSE slots[i]]
  BY <1>4, <2>1, <2>3, <2>4
 <2>6. WsTouched(t)
  <3>1. ASSUME NEW i \in SlotIds
        PROVE  t[i] = slots[i] \/ (slots[i].pid # 0 /\ t[i].pid = slots[i].pid /\ t[i].n = slots[i].n /\ t[i] \in Work!SlotRows)
   <4>1. CASE i = a.slot
    <5>1. t[i] = [slots[i] EXCEPT !.reg = a.reg, !.named = TRUE]
     BY <2>5, <4>1
    <5>2. PICK x : x = t[i] OBVIOUS
    <5>6. PICK r : r = a.reg OBVIOUS
    <5>7. r \in Regs /\ x = [slots[i] EXCEPT !.reg = r, !.named = TRUE]
     BY <1>4, <5>1, <5>2, <5>6
    <5>8. x \in Work!SlotRows BY <5>7, WsSlotLinked
    <5>9. slots[i] \in Work!SlotRows BY WsTypes
    <5>3. x \in Work!SlotRows /\ x.pid = slots[i].pid /\ x.n = slots[i].n
     BY <5>7, <5>8, <5>9 DEF Work!SlotRows
    <5>4. slots[i].pid # 0 BY <1>7, <4>1, WsSlotOwned
    <5>5. QED BY <5>2, <5>3, <5>4
   <4>2. CASE i # a.slot BY <2>5, <4>2
   <4>3. QED BY <4>1, <4>2
  <3>2. QED BY <2>5, <3>1 DEF WsTouched
 <2>7. WsSlots(parts, t) BY <2>6, WsTouchedShape
 <2>8. WsAfter BY <1>5, <2>4, <2>7 DEF WsAfter, WsShape, WsRestStay
 <2>9. WsSynced(h, q, a, t)
  BY <1>1, <1>3, <1>4, <1>5, <1>7, <2>2, <2>4, <2>5, <2>6 DEF WsSynced
 <2>10. QED BY <2>8, <2>9
<1>8. QED BY <1>6, <1>7

\* A slot is named or cleared.
WsNamed(h, q, t) ==
  /\ q = reqs[h] /\ q.pc = "slot" /\ t = slots' /\ WsRestStay /\ parts' = parts /\ regs' = regs /\ moved' = moved
  /\ refused' = refused /\ WsTouched(t) /\ Work!Finish(h)
  /\ \A i \in SlotIds : t[i].reg = slots[i].reg

LEMMA WsNameDoes ==
  ASSUME WsShape, NEW h \in Handlers, Work!SlotWrite(h)
  PROVE  WsAfter /\ \E q, t : WsNamed(h, q, t)
<1>1. PICK q : q = reqs[h] OBVIOUS
<1>2. PICK t : t = slots' OBVIOUS
<1>3. q.pc = "slot" /\ Work!Finish(h) /\ q.flag \in BOOLEAN
 BY <1>1, WsTypes DEF Work!SlotWrite, Work!At, Work!Requests
<1>4. t = [s \in SlotIds |-> IF s \in q.held /\ slots[s] # Work!NoSlot THEN [slots[s] EXCEPT !.named = q.flag] ELSE slots[s]]
 BY <1>1, <1>2 DEF Work!SlotWrite
<1>5. WsRestStay /\ parts' = parts /\ regs' = regs /\ moved' = moved /\ refused' = refused
 BY DEF Work!SlotWrite, WsRestStay
<1>6. ASSUME NEW i \in SlotIds
      PROVE  /\ t[i] = slots[i] \/ (slots[i].pid # 0 /\ t[i].pid = slots[i].pid /\ t[i].n = slots[i].n /\ t[i] \in Work!SlotRows)
             /\ t[i].reg = slots[i].reg
 <2>1. CASE i \in q.held /\ slots[i] # Work!NoSlot
  <3>1. t[i] = [slots[i] EXCEPT !.named = q.flag] BY <1>4, <2>1
  <3>2. QED BY <1>3, <2>1, <3>1, WsSlotNamed, WsSlotOwned
 <2>2. CASE ~(i \in q.held /\ slots[i] # Work!NoSlot) BY <1>4, <2>2
 <2>3. QED BY <2>1, <2>2
<1>7. WsTouched(t) BY <1>4, <1>6 DEF WsTouched
<1>8. WsSlots(parts, t) BY <1>7, WsTouchedShape
<1>9. WsAfter BY <1>2, <1>5, <1>8 DEF WsAfter, WsShape, WsRestStay
<1>10. WsNamed(h, q, t) BY <1>1, <1>2, <1>3, <1>5, <1>6, <1>7 DEF WsNamed
<1>11. QED BY <1>9, <1>10


\* assignRegistrationToSlot links the lowest open slot it read ...
WsSeatTaken(h, q, t) ==
  /\ q = reqs[h] /\ q.pc = "assignWrite" /\ q.held # {} /\ t = slots' /\ WsRestStay /\ parts' = parts
  /\ regs' = regs /\ moved' = moved /\ refused' = refused /\ regs[q.reg].state = "here"
  /\ t = [i \in SlotIds |-> IF i \in q.held /\ slots[i] # Work!NoSlot
                            THEN [slots[i] EXCEPT !.reg = q.reg, !.named = TRUE] ELSE slots[i]]
  /\ WsTouched(t) /\ Work!Finish(h)
\* ... or adds one.
WsSeatAdded(h, q, c, x) ==
  /\ q.pc = "assignWrite" /\ q.held = {} /\ c = q.company /\ WsGrown(h, q, c, {q.count}, q.reg)
  /\ regs[q.reg].state = "here" /\ refused' = refused
  /\ WsWritten(c, x) /\ x.id = parts[c].id /\ x.count = parts[c].count + 1 /\ (x.confirmed <=> parts[c].confirmed)
  /\ Work!Finish(h)

LEMMA WsAssignDoes ==
  ASSUME WsShape, NEW h \in Handlers, Work!AssignWrite(h)
  PROVE  /\ WsAfter
         /\ \/ WsTablesStay /\ refused' = refused /\ Work!Finish(h)
            \/ \E q, t : WsSeatTaken(h, q, t)
            \/ \E q, c, x : WsSeatAdded(h, q, c, x)
<1>1. PICK q : q = reqs[h] OBVIOUS
<1>2. PICK here \in BOOLEAN : here = (regs[q.reg].state = "here") OBVIOUS
<1>3. q.pc = "assignWrite" /\ q \in Work!Requests /\ q.company \in Companies /\ q.pid # 0 /\ q.reg \in Regs /\ q.count > 0
 BY <1>1, WsTypes DEF Work!AssignWrite, Work!At, WsAsks
<1>4. WsRestStay /\ regs' = regs /\ moved' = moved /\ refused' = refused /\ Work!Finish(h)
 BY DEF Work!AssignWrite, WsRestStay
<1>5. ASSUME parts' = parts, slots' = slots PROVE WsTablesStay /\ refused' = refused /\ Work!Finish(h) /\ WsAfter
 BY <1>4, <1>5, WsTablesStayShape DEF WsTablesStay, WsRestStay, WsShape
<1>6. CASE q.held # {}
 <2>1. parts' = parts BY <1>1, <1>6 DEF Work!AssignWrite
 <2>2. PICK t : t = slots' OBVIOUS
 <2>3. t = [s \in SlotIds |-> IF here /\ s \in q.held /\ slots[s] # Work!NoSlot
                              THEN [slots[s] EXCEPT !.reg = q.reg, !.named = TRUE] ELSE slots[s]]
  BY <1>1, <1>2, <1>6, <2>2 DEF Work!AssignWrite
 <2>4. CASE ~here
  <3>1. slots = [i \in SlotIds |-> slots[i]] BY DEF WsShape, WsSlots
  <3>2. t = slots BY <2>3, <2>4, <3>1
  <3>3. QED BY <1>5, <2>1, <2>2, <3>2
 <2>5. CASE here
  <3>1. t = [i \in SlotIds |-> IF i \in q.held /\ slots[i] # Work!NoSlot
                               THEN [slots[i] EXCEPT !.reg = q.reg, !.named = TRUE] ELSE slots[i]]
   BY <2>3, <2>5
  <3>2. ASSUME NEW i \in SlotIds
        PROVE  t[i] = slots[i] \/ (slots[i].pid # 0 /\ t[i].pid = slots[i].pid /\ t[i].n = slots[i].n /\ t[i] \in Work!SlotRows)
   <4>1. CASE i \in q.held /\ slots[i] # Work!NoSlot
    <5>1. PICK x : x = t[i] OBVIOUS
    <5>2. PICK r : r = q.reg OBVIOUS
    <5>3. r \in Regs /\ x = [slots[i] EXCEPT !.reg = r, !.named = TRUE]
     BY <1>3, <3>1, <4>1, <5>1, <5>2
    <5>4. x \in Work!SlotRows BY <5>3, WsSlotLinked
    <5>5. slots[i] \in Work!SlotRows BY WsTypes
    <5>6. x \in Work!SlotRows /\ x.pid = slots[i].pid /\ x.n = slots[i].n
     BY <5>3, <5>4, <5>5 DEF Work!SlotRows
    <5>7. slots[i].pid # 0 BY <4>1, WsSlotOwned
    <5>8. QED BY <5>1, <5>6, <5>7
   <4>2. CASE ~(i \in q.held /\ slots[i] # Work!NoSlot) BY <3>1, <4>2
   <4>3. QED BY <4>1, <4>2
  <3>3. WsTouched(t) BY <3>1, <3>2 DEF WsTouched
  <3>4. WsSlots(parts, t) BY <3>3, WsTouchedShape
  <3>5. WsAfter BY <1>4, <2>1, <2>2, <3>4 DEF WsAfter, WsShape, WsRestStay
  <3>6. WsSeatTaken(h, q, t)
   BY <1>1, <1>2, <1>3, <1>4, <1>6, <2>1, <2>2, <2>5, <3>1, <3>3 DEF WsSeatTaken
  <3>7. QED BY <3>5, <3>6
 <2>6. QED BY <2>4, <2>5
<1>7. CASE q.held = {}
 <2>1. PICK ok \in BOOLEAN : ok = (here /\ q.count \notin Work!NumbersOf(q.pid) /\ parts[q.company].id = q.pid)
  OBVIOUS
 <2>2. PICK c : c = q.company OBVIOUS
 <2>3. /\ ok => Work!Numberings({q.count}) # {}
       /\ slots' = (IF ok THEN Work!NewSlots(q.pid, {q.count}, q.reg) ELSE slots)
       /\ parts' = (IF ok THEN [parts EXCEPT ![c].count = @ + 1] ELSE parts)
  BY <1>1, <1>2, <1>7, <2>1, <2>2 DEF Work!AssignWrite
 <2>4. CASE ~ok BY <1>5, <2>3, <2>4
 <2>5. CASE ok
  <3>1. c \in Companies /\ parts[c].id = q.pid /\ here
   BY <1>3, <2>1, <2>2, <2>5
  <3>2. \A i \in SlotIds : slots[i].pid = q.pid => slots[i].n \notin {q.count}
   BY <2>1, <2>5 DEF Work!NumbersOf, Work!SlotsOf
  <3>3. WsAdds(slots', q.pid, {q.count}, q.reg) BY <2>3, <2>5, WsNewSlots
  <3>4. {q.count} \in SUBSET (Nat \ {0}) BY <1>3 DEF Work!Requests
  <3>5. WsGrown(h, q, c, {q.count}, q.reg)
   BY <1>1, <1>4, <3>1, <3>2, <3>3, <3>4 DEF WsGrown
  <3>6. PICK n : n = parts[c].count + 1 OBVIOUS
  <3>7. PICK x : x = [parts[c] EXCEPT !.count = n] OBVIOUS
  <3>8. parts[c] \in Work!Parts /\ n \in Int /\ parts[c].id # 0
   BY <1>3, <3>1, <3>6, WsTypes
  <3>9. x \in Work!Parts /\ x.id = parts[c].id /\ x.count = n /\ (x.confirmed <=> parts[c].confirmed)
   BY <3>7, <3>8, WsOtherFields
  <3>10. parts' = [parts EXCEPT ![c] = x] BY <2>3, <2>5, <3>6, <3>7
  <3>11. paidOnce' = paidOnce /\ (parts[c].confirmed => c \in paidOnce)
   BY <1>4, <3>1 DEF WsRestStay, WsShape, WsParts
  <3>12. WsWritten(c, x) BY <3>1, <3>8, <3>9, <3>10, <3>11 DEF WsWritten
  <3>13. WsParts(parts', paidOnce') /\ \A d \in Companies : parts'[d].id = parts[d].id
   BY <3>9, <3>11, <3>12, WsWrittenShape
  <3>14. WsAfter BY <1>3, <1>4, <3>5, <3>13, WsGrownAfter DEF WsShape
  <3>15. WsSeatAdded(h, q, c, x)
   BY <1>2, <1>3, <1>4, <1>7, <2>2, <3>1, <3>5, <3>6, <3>9, <3>12 DEF WsSeatAdded
  <3>16. QED BY <3>14, <3>15
 <2>6. QED BY <2>4, <2>5
<1>8. QED BY <1>6, <1>7


\* One registration is written; it is no longer new.
WsSigned(r, x) ==
  /\ r \in Regs /\ x \in Work!Registrations /\ x.state # "new" /\ regs' = [regs EXCEPT ![r] = x]

LEMMA WsSignedShape ==
  ASSUME WsShape, NEW r, NEW x, WsSigned(r, x)
  PROVE  WsRegs(regs') /\ regs'[r] = x /\ \A d \in Regs : d # r => regs'[d] = regs[d]
<1>1. regs' \in [Regs -> Work!Registrations] /\ regs'[r] = x /\ \A d \in Regs : d # r => regs'[d] = regs[d]
 BY DEF WsSigned, WsShape, WsRegs
<1>2. QED BY <1>1 DEF WsSigned, WsShape, WsRegs

WsPartsStay == /\ parts' = parts /\ WsRestStay /\ refused' = refused

\* Register and PATCH payment-status.
WsRegistered(h, r, x) ==
  /\ WsPartsStay /\ slots' = slots /\ moved' = moved /\ reqs' = reqs
  /\ regs[r].state = "new" /\ WsSigned(r, x) /\ x.company = None

LEMMA WsRegisterDoes ==
  ASSUME WsShape, NEW h \in Handlers, NEW r \in Regs, NEW paid \in BOOLEAN, Work!Register(h, r, paid)
  PROVE  WsAfter /\ \E x : WsRegistered(h, r, x)
<1>1. PICK x : x = [state |-> "here", company |-> None, paid |-> paid]
 OBVIOUS
<1>2. x \in Work!Registrations /\ x.state # "new" /\ x.company = None
 BY <1>1 DEF Work!Registrations
<1>3. regs[r].state = "new" /\ regs' = [regs EXCEPT ![r] = x]
 BY <1>1 DEF Work!Register
<1>4. WsPartsStay /\ slots' = slots /\ moved' = moved /\ reqs' = reqs
 BY DEF Work!Register, WsPartsStay, WsRestStay
<1>5. WsSigned(r, x) BY <1>2, <1>3 DEF WsSigned
<1>6. WsRegs(regs') BY <1>5, WsSignedShape
<1>7. WsAfter BY <1>4, <1>6 DEF WsAfter, WsShape, WsPartsStay, WsRestStay
<1>8. WsRegistered(h, r, x) BY <1>2, <1>3, <1>4, <1>5 DEF WsRegistered
<1>9. QED BY <1>7, <1>8

WsPaidReg(h, r, x, c) ==
  /\ WsPartsStay /\ slots' = slots /\ regs[r].state = "here" /\ WsSigned(r, x) /\ x.company = c /\ c \in Companies \cup {None}
  /\ moved' = (IF regs[r].company \in {None, c} THEN moved ELSE moved \cup {r})
  /\ \/ reqs' = reqs
     \/ c \in Companies /\ WsGoes(h, [Work!Idle EXCEPT !.pc = "assign", !.reg = r, !.company = c])

LEMMA WsPayRegDoes ==
  ASSUME WsShape, NEW h \in Handlers, NEW r \in Regs, NEW c \in Companies \cup {None}, NEW paid \in BOOLEAN,
         Work!PayRegistration(h, r, c, paid)
  PROVE  WsAfter /\ \E x : WsPaidReg(h, r, x, c)
<1>1. PICK x : x = [regs[r] EXCEPT !.company = c, !.paid = paid] OBVIOUS
<1>2. regs[r].state = "here" /\ regs[r] \in Work!Registrations
 BY DEF Work!PayRegistration, WsShape, WsRegs
<1>3. x \in Work!Registrations /\ x.state # "new" /\ x.company = c
 BY <1>1, <1>2 DEF Work!Registrations
<1>4. regs' = [regs EXCEPT ![r] = x] BY <1>1 DEF Work!PayRegistration
<1>5. /\ moved' = (IF regs[r].company \in {None, c} THEN moved ELSE moved \cup {r})
      /\ reqs' = reqs \/ (c # None /\ WsGoes(h, [Work!Idle EXCEPT !.pc = "assign", !.reg = r, !.company = c]))
 BY DEF Work!PayRegistration, Work!Goto, WsGoes
<1>6. WsPartsStay /\ slots' = slots
 BY DEF Work!PayRegistration, WsPartsStay, WsRestStay
<1>7. WsSigned(r, x) BY <1>3, <1>4 DEF WsSigned
<1>8. WsRegs(regs') BY <1>7, WsSignedShape
<1>9. moved' \subseteq Regs BY <1>5 DEF WsShape
<1>10. WsAfter
 BY <1>6, <1>8, <1>9 DEF WsAfter, WsShape, WsPartsStay, WsRestStay
<1>11. WsPaidReg(h, r, x, c) BY <1>2, <1>3, <1>5, <1>6, <1>7 DEF WsPaidReg
<1>12. QED BY <1>10, <1>11

WsMarked(h, q) ==
  /\ q = reqs[h] /\ q.pc = "syncMark" /\ WsPartsStay /\ slots' = slots /\ moved' = moved
  /\ \A r \in Regs : regs'[r].company = regs[r].company
  /\ WsGoes(h, [q EXCEPT !.pc = "syncRead"])

LEMMA WsMarkDoes ==
  ASSUME WsShape, NEW h \in Handlers, Work!SyncMark(h)
  PROVE  WsAfter /\ \E q : WsMarked(h, q)
<1>1. PICK q : q = reqs[h] OBVIOUS
<1>2. PICK g : g = [r \in Regs |-> IF regs[r].state = "here" /\ regs[r].company = q.company
                                   THEN [regs[r] EXCEPT !.paid = TRUE] ELSE regs[r]]
 OBVIOUS
<1>3. regs' = g /\ q.pc = "syncMark" /\ WsGoes(h, [q EXCEPT !.pc = "syncRead"])
 BY <1>1, <1>2 DEF Work!SyncMark, Work!At, Work!Goto, WsGoes
<1>4. WsPartsStay /\ slots' = slots /\ moved' = moved
 BY DEF Work!SyncMark, WsPartsStay, WsRestStay
<1>5. ASSUME NEW r \in Regs
      PROVE  g[r] \in Work!Registrations /\ g[r].company = regs[r].company /\ g[r].state = regs[r].state
 <2>1. regs[r] \in Work!Registrations BY DEF WsShape, WsRegs
 <2>2. g[r] = regs[r] \/ g[r] = [regs[r] EXCEPT !.paid = TRUE] BY <1>2
 <2>3. QED BY <2>1, <2>2 DEF Work!Registrations
<1>6. WsRegs(regs')
 <2>1. g \in [Regs -> Work!Registrations] BY <1>2, <1>5
 <2>2. WsRegs(g) BY <1>5, <2>1 DEF WsShape, WsRegs
 <2>3. QED BY <1>3, <2>2
<1>7. WsAfter BY <1>4, <1>6 DEF WsAfter, WsShape, WsPartsStay, WsRestStay
<1>8. WsMarked(h, q) BY <1>1, <1>3, <1>4, <1>5 DEF WsMarked
<1>9. QED BY <1>7, <1>8

\* A registration is deleted and its slots are open again.
WsUnsigned(h, r, t) ==
  /\ WsPartsStay /\ moved' = moved /\ reqs' = reqs /\ t = slots' /\ WsTouched(t)
  /\ \A i \in SlotIds : t[i].reg = (IF slots[i].reg = r THEN None ELSE slots[i].reg)
  /\ r \in Regs /\ \A d \in Regs : regs'[d].company = regs[d].company

LEMMA WsUnregisterDoes ==
  ASSUME WsShape, NEW h \in Handlers, NEW r \in Regs, Work!DeleteRegistration(h, r)
  PROVE  WsAfter /\ \E t : WsUnsigned(h, r, t)
<1>1. PICK t : t = slots' OBVIOUS
<1>2. PICK x : x = [regs[r] EXCEPT !.state = "gone"] OBVIOUS
<1>3. /\ t = [s \in SlotIds |-> IF slots[s].reg = r THEN [slots[s] EXCEPT !.reg = None] ELSE slots[s]]
      /\ regs[r].state = "here" /\ regs' = [regs EXCEPT ![r] = x]
 BY <1>1, <1>2 DEF Work!DeleteRegistration
<1>4. WsPartsStay /\ moved' = moved /\ reqs' = reqs
 BY DEF Work!DeleteRegistration, WsPartsStay, WsRestStay
<1>5. regs[r] \in Work!Registrations BY DEF WsShape, WsRegs
<1>6. x \in Work!Registrations /\ x.state # "new" /\ x.company = regs[r].company
 BY <1>2, <1>5 DEF Work!Registrations
<1>7. WsSigned(r, x) BY <1>3, <1>6 DEF WsSigned
<1>8. WsRegs(regs') /\ \A d \in Regs : regs'[d].company = regs[d].company
 BY <1>6, <1>7, WsSignedShape
<1>9. ASSUME NEW i \in SlotIds
      PROVE  /\ t[i] = slots[i] \/ (slots[i].pid # 0 /\ t[i].pid = slots[i].pid /\ t[i].n = slots[i].n /\ t[i] \in Work!SlotRows)
             /\ t[i].reg = (IF slots[i].reg = r THEN None ELSE slots[i].reg)
 <2>1. CASE slots[i].reg = r
  <3>1. PICK y : y = [slots[i] EXCEPT !.reg = None] OBVIOUS
  <3>2. y \in Work!SlotRows /\ y.pid = slots[i].pid /\ y.n = slots[i].n /\ y.reg = None
   BY <3>1, WsSlotFreed
  <3>3. t[i] = y BY <1>3, <2>1, <3>1
  <3>4. slots[i] # Work!NoSlot BY <2>1, WsIds DEF Work!NoSlot
  <3>5. QED BY <2>1, <3>2, <3>3, <3>4, WsSlotOwned
 <2>2. CASE slots[i].reg # r BY <1>3, <2>2
 <2>3. QED BY <2>1, <2>2
<1>10. WsTouched(t) BY <1>3, <1>9 DEF WsTouched
<1>11. WsSlots(parts, t) BY <1>10, WsTouchedShape
<1>12. WsAfter
 BY <1>1, <1>4, <1>8, <1>11 DEF WsAfter, WsShape, WsPartsStay, WsRestStay
<1>13. WsUnsigned(h, r, t) BY <1>1, <1>4, <1>8, <1>9, <1>10 DEF WsUnsigned
<1>14. QED BY <1>12, <1>13


LEMMA WsNoPart == Work!NoPart \in Work!Parts /\ Work!NoPart.id = 0 /\ Work!NoPart.confirmed = FALSE
BY 0 \in Int DEF Work!NoPart, Work!Parts

\* A participant is removed with its slots, and its payments if asked.
WsRemoved(c, pid, t, rows) ==
  /\ c \in Companies /\ pid = parts[c].id /\ pid # 0 /\ parts' = [parts EXCEPT ![c] = Work!NoPart]
  /\ t = slots' /\ t = [i \in SlotIds |-> IF slots[i].pid = pid THEN Work!NoSlot ELSE slots[i]]
  /\ regs' = regs /\ reqs' = reqs /\ paidOnce' = paidOnce /\ moved' = moved /\ merged' = merged
  /\ refused' = refused \ {c} /\ rows = pays'
  /\ \/ rows = pays /\ newest' = newest
     \/ /\ rows = [p \in PayIds |-> IF pays[p].company = c THEN Work!NoPay ELSE pays[p]]
        /\ newest' = [newest EXCEPT ![c] = 0]

LEMMA WsRemoveDoes ==
  ASSUME WsShape, NEW h \in Handlers, NEW c \in Companies, NEW with \in BOOLEAN, Work!RemoveParticipant(h, c, with)
  PROVE  WsAfter /\ \E pid, t, rows : WsRemoved(c, pid, t, rows)
<1>1. PICK pid : pid = parts[c].id OBVIOUS
<1>2. PICK t : t = slots' OBVIOUS
<1>3. PICK rows : rows = pays' OBVIOUS
<1>4. pid # 0 BY <1>1, WsTypes DEF Work!RemoveParticipant
<1>5. /\ parts' = [parts EXCEPT ![c] = Work!NoPart]
      /\ regs' = regs /\ reqs' = reqs /\ paidOnce' = paidOnce /\ moved' = moved /\ merged' = merged
      /\ refused' = refused \ {c}
      /\ \/ rows = pays /\ newest' = newest
         \/ /\ rows = [p \in PayIds |-> IF pays[p].company = c THEN Work!NoPay ELSE pays[p]]
            /\ newest' = [newest EXCEPT ![c] = 0]
 BY <1>3 DEF Work!RemoveParticipant
<1>6. t = [i \in SlotIds |-> IF slots[i].pid = pid THEN Work!NoSlot ELSE slots[i]]
 <2>1. t = [s \in SlotIds |-> IF s \in Work!SlotsOf(pid) THEN Work!NoSlot ELSE slots[s]]
  BY <1>1, <1>2 DEF Work!RemoveParticipant
 <2>2. QED BY <2>1 DEF Work!SlotsOf
<1>7. WsRemoved(c, pid, t, rows)
 BY <1>1, <1>2, <1>3, <1>4, <1>5, <1>6 DEF WsRemoved
<1>8. /\ parts' \in [Companies -> Work!Parts] /\ parts'[c] = Work!NoPart
      /\ \A d \in Companies : d # c => parts'[d] = parts[d]
 BY <1>5, WsNoPart DEF WsShape, WsParts
<1>9. WsParts(parts', paidOnce')
 BY <1>5, <1>8, WsNoPart DEF WsShape, WsParts
<1>10. WsSlots(parts', slots')
 <2>1. WsSlots(parts, slots) BY DEF WsShape
 <2>2. t = [i \in SlotIds |-> t[i]] /\ (\A i \in SlotIds : t[i] = slots[i] \/ t[i] = Work!NoSlot)
  BY <1>6
 <2>3. PICK p : p = parts' OBVIOUS
 <2>4. ASSUME NEW i \in SlotIds, t[i].pid # 0 PROVE \E d \in Companies : p[d].id = t[i].pid
  <3>1. slots[i].pid # pid /\ t[i] = slots[i]
   BY <1>6, <2>4 DEF Work!NoSlot
  <3>2. PICK d \in Companies : parts[d].id = slots[i].pid
   BY <2>1, <2>4, <3>1 DEF WsSlots
  <3>3. QED BY <1>1, <1>8, <2>3, <3>1, <3>2
 <2>5. WsSlots(p, t) BY <2>1, <2>2, <2>4, WsSlotsGo
 <2>6. QED BY <1>2, <2>3, <2>5
<1>11. WsPays(pays', newest', paidOnce')
 <2>1. WsPays(pays, newest, paidOnce) BY DEF WsShape
 <2>2. CASE rows = pays /\ newest' = newest BY <1>3, <1>5, <2>1, <2>2
 <2>3. CASE /\ rows = [p \in PayIds |-> IF pays[p].company = c THEN Work!NoPay ELSE pays[p]]
            /\ newest' = [newest EXCEPT ![c] = 0]
  <3>1. rows \in [PayIds -> Work!Payments]
   BY <2>1, <2>3 DEF WsPays, Work!NoPay, Work!Payments
  <3>2. PICK w : w = newest' OBVIOUS
  <3>3. w \in [Companies -> PayIds \cup {0}] /\ w[c] = 0 /\ \A d \in Companies : d # c => w[d] = newest[d]
   BY <2>1, <2>3, <3>2 DEF WsPays
  <3>4. \A i \in PayIds : (rows[i].company = None => rows[i] = Work!NoPay) /\ (rows[i].paid => rows[i].company \in paidOnce)
   BY <2>1, <2>3, WsIds DEF WsPays, Work!NoPay
  <3>5. ASSUME NEW d \in Companies, w[d] # 0 PROVE rows[w[d]].company = d
   <4>1. d # c /\ w[d] = newest[d] /\ w[d] \in PayIds BY <3>3, <3>5
   <4>2. pays[w[d]].company = d BY <2>1, <3>5, <4>1 DEF WsPays
   <4>3. QED BY <2>3, <4>1, <4>2
  <3>6. WsPays(rows, w, paidOnce) BY <3>1, <3>3, <3>4, <3>5 DEF WsPays
  <3>7. QED BY <1>3, <1>5, <3>2, <3>6
 <2>4. QED BY <1>5, <2>2, <2>3
<1>12. WsAfter BY <1>5, <1>9, <1>10, <1>11 DEF WsAfter, WsShape
<1>13. QED BY <1>7, <1>12

WsTop(own, top) ==
  /\ own = {} => top = 0
  /\ own # {} => \E u \in own : top = slots[u].n
  /\ \A u \in own : slots[u].n <= top
  /\ top \in Nat
WsMergedTo(q, t) ==
  /\ t \in Work!Parts /\ t.id # 0 /\ t.id \in PartIds
  /\ \/ parts[q.to].id # 0 /\ t = parts[q.to]
     \/ parts[q.to].id = 0 /\ (\A c \in Companies : parts[c].id # t.id) /\ (t.confirmed <=> q.flag)
WsMerged(h, q, t, own, mine, top, p, rows, s, x) ==
  /\ q = reqs[h] /\ q.pc = "merge" /\ WsMergedTo(q, t) /\ q.company \in Companies /\ q.to \in Companies /\ q.to # q.company
  /\ parts[q.company].id = q.pid /\ q.pid # 0
  /\ own = {i \in SlotIds : slots[i].pid = t.id} /\ mine = {i \in SlotIds : slots[i].pid = q.pid}
  /\ WsTop(own, top)
  /\ s = slots' /\ s = [i \in SlotIds |-> IF i \notin mine THEN slots[i]
                                          ELSE [slots[i] EXCEPT !.pid = t.id, !.n = top + WsRank(mine, i)]]
  /\ rows = pays' /\ rows = [i \in PayIds |-> IF pays[i].company = q.company THEN [pays[i] EXCEPT !.company = q.to] ELSE pays[i]]
  /\ \/ p = newest[q.to] /\ \A i \in PayIds : pays[i].company # q.company
     \/ p \in PayIds /\ pays[p].company = q.company
  /\ newest' = [newest EXCEPT ![q.company] = 0, ![q.to] = p]
  /\ x = [t EXCEPT !.count = Work!Cardinality(own) + Work!Cardinality(mine),
                   !.confirmed = @ \/ q.flag \/ Work!Paid(p)]
  /\ parts' = [parts EXCEPT ![q.company] = Work!NoPart, ![q.to] = x]
  /\ paidOnce' = (IF q.company \in paidOnce THEN paidOnce \cup {q.to} ELSE paidOnce)
  /\ merged' = TRUE /\ refused' = refused \ {q.company, q.to} /\ regs' = regs /\ moved' = moved /\ Work!Finish(h)

\* The rows mergeParticipants writes.
WsMergeTarget(q) ==
  IF parts[q.to] # Work!NoPart THEN parts[q.to]
  ELSE [id |-> Work!NewPartId, confirmed |-> q.flag, count |-> 0, active |-> TRUE]
WsLast(own) == {s \in own : \A u \in own : slots[u].n <= slots[s].n}
WsLastNumber(own) == IF WsLast(own) = {} THEN 0 ELSE slots[CHOOSE s \in WsLast(own) : TRUE].n
WsMoving(q) == {p \in PayIds : pays[p].company = q.company}
WsMergeRows(q, t, own, mine, top, moving) ==
  /\ parts[q.to] = Work!NoPart => Work!NewParts # {}
  /\ slots' = [s \in SlotIds |->
         IF s \notin mine THEN slots[s]
         ELSE [slots[s] EXCEPT !.pid = t.id,
                 !.n = top + Work!Cardinality({u \in mine : slots[u].n <= slots[s].n})]]
  /\ pays' = [p \in PayIds |-> IF p \in moving THEN [pays[p] EXCEPT !.company = q.to] ELSE pays[p]]
  /\ \E p \in (IF moving = {} THEN {newest[q.to]} ELSE moving) :
       /\ newest' = [newest EXCEPT ![q.company] = 0, ![q.to] = p]
       /\ parts' = [parts EXCEPT ![q.company] = Work!NoPart,
              ![q.to] = [t EXCEPT !.count = Work!Cardinality(own) + Work!Cardinality(mine),
                                  !.confirmed = @ \/ q.flag \/ Work!Paid(p)]]
  /\ paidOnce' = IF q.company \in paidOnce THEN paidOnce \cup {q.to} ELSE paidOnce
  /\ merged' = TRUE
  /\ refused' = refused \ {q.company, q.to}

LEMMA WsMergeWrites ==
  ASSUME NEW h, NEW q, q = reqs[h], Work!MergeWrite(h), parts[q.company].id = q.pid, NEW t, t = WsMergeTarget(q),
         NEW own, own = Work!SlotsOf(t.id), NEW mine, mine = Work!SlotsOf(q.pid)
  PROVE  WsMergeRows(q, t, own, mine, WsLastNumber(own), WsMoving(q))
<1>1. parts[reqs[h].company].id = reqs[h].pid OBVIOUS
<1>2. WsMergeRows(reqs[h], WsMergeTarget(reqs[h]), Work!SlotsOf(WsMergeTarget(reqs[h]).id), Work!SlotsOf(reqs[h].pid),
                  WsLastNumber(Work!SlotsOf(WsMergeTarget(reqs[h]).id)), WsMoving(reqs[h]))
 BY <1>1, Zenon DEF Work!MergeWrite, WsMergeTarget, WsLast, WsLastNumber, WsMoving, WsMergeRows
<1>3. QED BY <1>2, Zenon

LEMMA WsMergeDoes ==
  ASSUME WsShape, NEW h \in Handlers, Work!MergeWrite(h)
  PROVE  (WsTablesStay /\ refused' = refused /\ Work!Finish(h))
         \/ \E q, t, own, mine, top, p, rows, s, x : WsMerged(h, q, t, own, mine, top, p, rows, s, x)
<1>1. PICK q : q = reqs[h] OBVIOUS
<1>2. /\ q.pc = "merge" /\ q \in Work!Requests /\ q.company \in Companies /\ q.pid # 0 /\ q.to \in Companies
      /\ q.to # q.company /\ q.flag \in BOOLEAN
 BY <1>1, WsTypes DEF Work!MergeWrite, Work!At, WsAsks, Work!Requests
<1>3. Work!Finish(h) /\ regs' = regs /\ moved' = moved
 BY DEF Work!MergeWrite
<1>4. CASE parts[q.company].id # q.pid
 BY <1>1, <1>3, <1>4 DEF Work!MergeWrite, WsTablesStay
<1>5. CASE parts[q.company].id = q.pid
 <2>1. PICK t : t = WsMergeTarget(q) OBVIOUS
 <2>2. PICK own : own = Work!SlotsOf(t.id) OBVIOUS
 <2>3. PICK mine : mine = Work!SlotsOf(q.pid) OBVIOUS
 <2>4. PICK last : last = WsLast(own) OBVIOUS
 <2>5. PICK top : top = WsLastNumber(own) OBVIOUS
 <2>6. PICK moving : moving = WsMoving(q) OBVIOUS
 <2>7. PICK s : s = slots' OBVIOUS
 <2>8. PICK rows : rows = pays' OBVIOUS
 <2>9. /\ parts[q.to] = Work!NoPart => Work!NewParts # {}
       /\ s = [i \in SlotIds |->
                 IF i \notin mine THEN slots[i]
                 ELSE [slots[i] EXCEPT !.pid = t.id,
                         !.n = top + Work!Cardinality({u \in mine : slots[u].n <= slots[i].n})]]
       /\ rows = [p \in PayIds |-> IF p \in moving THEN [pays[p] EXCEPT !.company = q.to] ELSE pays[p]]
       /\ \E p \in (IF moving = {} THEN {newest[q.to]} ELSE moving) :
            /\ newest' = [newest EXCEPT ![q.company] = 0, ![q.to] = p]
            /\ parts' = [parts EXCEPT ![q.company] = Work!NoPart,
                   ![q.to] = [t EXCEPT !.count = Work!Cardinality(own) + Work!Cardinality(mine),
                                       !.confirmed = @ \/ q.flag \/ Work!Paid(p)]]
       /\ paidOnce' = (IF q.company \in paidOnce THEN paidOnce \cup {q.to} ELSE paidOnce)
       /\ merged' = TRUE
       /\ refused' = refused \ {q.company, q.to}
  <3>1. WsMergeRows(q, t, own, mine, top, moving)
   BY <1>1, <1>5, <2>1, <2>2, <2>3, <2>5, <2>6, WsMergeWrites
  <3>2. QED BY <2>7, <2>8, <3>1 DEF WsMergeRows
 <2>10. WsMergedTo(q, t)
  <3>1. CASE parts[q.to] # Work!NoPart
   BY <1>2, <2>1, <3>1, WsTypes, WsIds DEF WsMergedTo, WsMergeTarget
  <3>2. CASE parts[q.to] = Work!NoPart
   <4>1. PICK n : n = Work!NewPartId OBVIOUS
   <4>2. n \in Work!NewParts BY <2>9, <3>2, <4>1 DEF Work!NewPartId
   <4>3. n \in PartIds /\ n # 0 /\ \A c \in Companies : parts[c].id # n
    BY <4>2, WsIds DEF Work!NewParts
   <4>4. PICK flag \in BOOLEAN : flag = q.flag BY <1>2
   <4>5. t = [id |-> n, confirmed |-> flag, count |-> 0, active |-> TRUE]
    BY <2>1, <3>2, <4>1, <4>4 DEF WsMergeTarget
   <4>6. t \in Work!Parts /\ t.id = n /\ (t.confirmed <=> flag)
    <5>1. t \in Work!Parts BY 0 \in Int, <4>3, <4>5, WsPart
    <5>2. QED BY <4>5, <5>1
   <4>7. parts[q.to].id = 0 BY <3>2 DEF Work!NoPart
   <4>8. QED BY <4>3, <4>4, <4>6, <4>7 DEF WsMergedTo
  <3>3. QED BY <3>1, <3>2
 <2>11. own \in SUBSET SlotIds /\ own = {i \in SlotIds : slots[i].pid = t.id} /\ mine = {i \in SlotIds : slots[i].pid = q.pid}
  BY <2>2, <2>3 DEF Work!SlotsOf
 <2>12. WsTop(own, top)
  <3>1. CASE own = {} BY <2>5, <3>1 DEF WsTop, WsLast, WsLastNumber
  <3>2. CASE own # {}
   <4>1. last # {} BY <2>4, <2>11, <3>2, WsHighest DEF WsLast
   <4>2. PICK u : u = CHOOSE i \in last : TRUE OBVIOUS
   <4>3. u \in last /\ top = slots[u].n
    BY <2>4, <2>5, <4>1, <4>2 DEF WsLastNumber
   <4>4. u \in own /\ u \in SlotIds /\ \A i \in own : slots[i].n <= slots[u].n
    BY <2>4, <2>11, <4>3 DEF WsLast
   <4>5. QED BY <3>2, <4>3, <4>4, WsTypes DEF WsTop
  <3>3. QED BY <3>1, <3>2
 <2>13. PICK p : /\ p \in (IF moving = {} THEN {newest[q.to]} ELSE moving)
                 /\ newest' = [newest EXCEPT ![q.company] = 0, ![q.to] = p]
                 /\ parts' = [parts EXCEPT ![q.company] = Work!NoPart,
                        ![q.to] = [t EXCEPT !.count = Work!Cardinality(own) + Work!Cardinality(mine),
                                            !.confirmed = @ \/ q.flag \/ Work!Paid(p)]]
  BY <2>9, Zenon
 <2>14. PICK x : x = [t EXCEPT !.count = Work!Cardinality(own) + Work!Cardinality(mine),
                              !.confirmed = @ \/ q.flag \/ Work!Paid(p)]
  OBVIOUS
 <2>15. (p = newest[q.to] /\ \A i \in PayIds : pays[i].company # q.company) \/ (p \in PayIds /\ pays[p].company = q.company)
  BY <2>6, <2>13 DEF WsMoving
 <2>16. rows = [i \in PayIds |-> IF pays[i].company = q.company THEN [pays[i] EXCEPT !.company = q.to] ELSE pays[i]]
  BY <2>6, <2>9 DEF WsMoving
 <2>17. s = [i \in SlotIds |-> IF i \notin mine THEN slots[i]
                               ELSE [slots[i] EXCEPT !.pid = t.id, !.n = top + WsRank(mine, i)]]
  BY <2>9, Zenon DEF WsRank
 <2>18. parts' = [parts EXCEPT ![q.company] = Work!NoPart, ![q.to] = x]
  BY <2>13, <2>14, Zenon
 <2>19. WsMerged(h, q, t, own, mine, top, p, rows, s, x)
  BY <1>1, <1>2, <1>3, <1>5, <2>7, <2>8, <2>9, <2>10, <2>11, <2>12, <2>13, <2>14, <2>15, <2>16, <2>17, <2>18, Zenon DEF WsMerged
 <2>20. QED BY <2>19
<1>6. QED BY <1>4, <1>5


LEMMA WsMergedTables ==
  ASSUME WsShape, NEW h \in Handlers, NEW q, NEW t, NEW own, NEW mine, NEW top, NEW p, NEW rows, NEW s, NEW x,
         WsMerged(h, q, t, own, mine, top, p, rows, s, x)
  PROVE  /\ x \in Work!Parts /\ x.id = t.id /\ x.count = Work!Cardinality(own) + Work!Cardinality(mine)
         /\ (x.confirmed => q.to \in paidOnce') /\ paidOnce \subseteq paidOnce' /\ paidOnce' \subseteq Companies
         /\ parts' \in [Companies -> Work!Parts] /\ parts'[q.company] = Work!NoPart /\ parts'[q.to] = x
         /\ \A d \in Companies : d # q.company /\ d # q.to => parts'[d] = parts[d]
<1>1. q.pc = "merge" /\ q \in Work!Requests /\ WsAsks(q, paidOnce) /\ q.flag \in BOOLEAN
 BY WsTypes DEF WsMerged, Work!Requests
<1>2. paidOnce \subseteq paidOnce' /\ paidOnce' \subseteq Companies /\ (q.company \in paidOnce => q.to \in paidOnce')
 BY DEF WsMerged, WsShape
<1>3. t \in Work!Parts /\ WsMergedTo(q, t) BY DEF WsMerged, WsMergedTo
<1>4. PICK n : n = Work!Cardinality(own) + Work!Cardinality(mine) OBVIOUS
<1>5. n \in Int
 <2>1. own \in SUBSET SlotIds /\ mine \in SUBSET SlotIds BY DEF WsMerged
 <2>2. Cardinality(own) \in Nat /\ Cardinality(mine) \in Nat
  BY <2>1, WsFinite
 <2>3. Work!Cardinality(own) \in Nat /\ Work!Cardinality(mine) \in Nat
  BY <2>2, WsCardinality
 <2>4. QED BY <1>4, <2>3
<1>6. PICK flag \in BOOLEAN : flag = (t.confirmed \/ q.flag \/ Work!Paid(p))
 OBVIOUS
<1>7. x = [t EXCEPT !.count = n, !.confirmed = flag]
 BY <1>4, <1>6 DEF WsMerged
<1>8. x \in Work!Parts /\ x.id = t.id /\ x.count = n /\ (x.confirmed <=> flag)
 BY <1>3, <1>5, <1>7 DEF Work!Parts
<1>9. x.confirmed => q.to \in paidOnce'
 <2>1. t.confirmed => q.to \in paidOnce \/ q.flag
  BY <1>3 DEF WsMergedTo, WsShape, WsParts, WsMerged
 <2>2. q.flag => q.company \in paidOnce BY <1>1 DEF WsAsks
 <2>3. Work!Paid(p) => q.company \in paidOnce \/ q.to \in paidOnce
  <3>1. ASSUME Work!Paid(p) PROVE q.company \in paidOnce \/ q.to \in paidOnce
   <4>1. p # 0 /\ pays[p].paid BY <3>1 DEF Work!Paid
   <4>2. p \in PayIds /\ pays[p].company \in {q.company, q.to}
    <5>1. /\ q.company \in Companies /\ q.to \in Companies
          /\ (p = newest[q.to] \/ (p \in PayIds /\ pays[p].company = q.company))
     BY DEF WsMerged
    <5>2. newest[q.to] \in PayIds \cup {0} /\ (newest[q.to] # 0 => pays[newest[q.to]].company = q.to)
     BY <5>1 DEF WsShape, WsPays
    <5>3. QED BY <4>1, <5>1, <5>2
   <4>3. pays[p].company \in paidOnce BY <4>1, <4>2 DEF WsShape, WsPays
   <4>4. QED BY <4>2, <4>3
  <3>2. QED BY <3>1
 <2>4. QED BY <1>2, <1>6, <1>8, <2>1, <2>2, <2>3
<1>10. /\ parts' \in [Companies -> Work!Parts] /\ parts'[q.company] = Work!NoPart /\ parts'[q.to] = x
       /\ \A d \in Companies : d # q.company /\ d # q.to => parts'[d] = parts[d]
 <2>1. /\ parts' = [parts EXCEPT ![q.company] = Work!NoPart, ![q.to] = x]
       /\ q.company \in Companies /\ q.to \in Companies /\ q.to # q.company
  BY DEF WsMerged
 <2>2. parts \in [Companies -> Work!Parts] BY DEF WsShape, WsParts
 <2>3. QED BY <1>8, <2>1, <2>2, WsNoPart
<1>11. QED BY <1>2, <1>4, <1>8, <1>9, <1>10

LEMMA WsMergedSlots ==
  ASSUME WsShape, NEW h \in Handlers, NEW q, NEW t, NEW own, NEW mine, NEW top, NEW p, NEW rows, NEW s, NEW x,
         WsMerged(h, q, t, own, mine, top, p, rows, s, x)
  PROVE  /\ \A i \in SlotIds : i \notin mine => s[i] = slots[i]
         /\ \A i \in mine : /\ i \in SlotIds /\ s[i] \in Work!SlotRows /\ s[i].pid = t.id /\ s[i].n = top + WsRank(mine, i)
                            /\ s[i].reg = slots[i].reg /\ s[i].named = slots[i].named
         /\ t.id # q.pid /\ s = [i \in SlotIds |-> s[i]] /\ top \in Nat
         /\ mine \in SUBSET SlotIds /\ own \in SUBSET SlotIds
<1>1. /\ mine = {i \in SlotIds : slots[i].pid = q.pid} /\ top \in Nat /\ t.id \in PartIds /\ own \in SUBSET SlotIds
      /\ s = [i \in SlotIds |-> IF i \notin mine THEN slots[i]
                                ELSE [slots[i] EXCEPT !.pid = t.id, !.n = top + WsRank(mine, i)]]
 BY DEF WsMerged, WsTop, WsMergedTo
<1>2. ASSUME NEW i \in mine
      PROVE  /\ i \in SlotIds /\ s[i] \in Work!SlotRows /\ s[i].pid = t.id /\ s[i].n = top + WsRank(mine, i)
             /\ s[i].reg = slots[i].reg /\ s[i].named = slots[i].named
 <2>1. i \in SlotIds /\ mine \in SUBSET SlotIds BY <1>1
 <2>2. PICK n : n = top + WsRank(mine, i) OBVIOUS
 <2>3. n \in Nat
  <3>1. WsRank(mine, i) \in Nat BY <2>1, WsRanks
  <3>2. top \in Nat BY <1>1
  <3>3. QED BY <2>2, <3>1, <3>2
 <2>4. slots[i] \in Work!SlotRows BY <2>1, WsTypes
 <2>5. PICK y : y = s[i] OBVIOUS
 <2>6. y = [slots[i] EXCEPT !.pid = t.id, !.n = n]
  BY <1>1, <2>1, <2>2, <2>5
 <2>7. y \in Work!SlotRows /\ y.pid = t.id /\ y.n = n /\ y.reg = slots[i].reg /\ y.named = slots[i].named
  BY <1>1, <2>3, <2>4, <2>6 DEF Work!SlotRows
 <2>8. QED BY <2>1, <2>2, <2>5, <2>7
<1>3. t.id # q.pid
 <2>1. CASE parts[q.to].id # 0 /\ t = parts[q.to] BY <2>1 DEF WsMerged, WsShape, WsParts
 <2>2. CASE \A c \in Companies : parts[c].id # t.id BY <2>2 DEF WsMerged
 <2>3. QED BY <2>1, <2>2 DEF WsMerged, WsMergedTo
<1>4. QED BY <1>1, <1>2, <1>3

LEMMA WsMergedAfter ==
  ASSUME WsShape, NEW h \in Handlers, NEW q, NEW t, NEW own, NEW mine, NEW top, NEW p, NEW rows, NEW s, NEW x,
         WsMerged(h, q, t, own, mine, top, p, rows, s, x)
  PROVE  WsAfter
<1>1. PICK pp : pp = parts' OBVIOUS
<1>2. /\ x \in Work!Parts /\ x.id = t.id /\ (x.confirmed => q.to \in paidOnce') /\ paidOnce \subseteq paidOnce'
      /\ pp \in [Companies -> Work!Parts] /\ pp[q.company] = Work!NoPart /\ pp[q.to] = x
      /\ \A d \in Companies : d # q.company /\ d # q.to => pp[d] = parts[d]
 BY <1>1, WsMergedTables
<1>3. q.company \in Companies /\ q.to \in Companies /\ q.to # q.company /\ t.id # 0 /\ parts[q.company].id = q.pid /\ q.pid # 0
 BY DEF WsMerged, WsMergedTo
<1>4. \A d \in Companies : d # q.to => parts[d].id # t.id
 BY <1>3 DEF WsMerged, WsMergedTo, WsShape, WsParts
<1>5. WsParts(pp, paidOnce')
 <2>1. \A d \in Companies : (pp[d].id = 0 => pp[d] = Work!NoPart) /\ (pp[d].confirmed => d \in paidOnce')
  BY <1>2, <1>3, WsNoPart DEF WsShape, WsParts
 <2>2. ASSUME NEW d \in Companies, NEW e \in Companies, pp[d].id = pp[e].id, pp[d].id # 0 PROVE d = e
  <3>1. d # q.company /\ e # q.company BY <1>2, <2>2, WsNoPart
  <3>2. d = q.to \/ e = q.to => d = e BY <1>2, <1>4, <2>2, <3>1
  <3>3. QED BY <1>2, <2>2, <3>1, <3>2 DEF WsShape, WsParts
 <2>3. QED BY <1>2, <2>1, <2>2 DEF WsParts
<1>6. WsSlots(pp, s)
 <2>1. /\ \A i \in SlotIds : i \notin mine => s[i] = slots[i]
       /\ \A i \in mine : /\ i \in SlotIds /\ s[i] \in Work!SlotRows /\ s[i].pid = t.id /\ s[i].n = top + WsRank(mine, i)
       /\ t.id # q.pid /\ s = [i \in SlotIds |-> s[i]] /\ top \in Nat
       /\ mine \in SUBSET SlotIds /\ own \in SUBSET SlotIds
  BY WsMergedSlots
 <2>2. mine = {i \in SlotIds : slots[i].pid = q.pid} /\ own = {i \in SlotIds : slots[i].pid = t.id} /\ WsTop(own, top)
  BY DEF WsMerged
 <2>3. \A i \in mine : WsRank(mine, i) \in Nat /\ WsRank(mine, i) > 0
  BY <2>1, WsRanks
 <2>4. s \in [SlotIds -> Work!SlotRows] BY <2>1, WsTypes
 <2>5. ASSUME NEW i \in SlotIds PROVE s[i] = Work!NoSlot \/ (s[i].pid # 0 /\ s[i].n > 0)
  <3>1. CASE i \in mine BY <1>3, <2>1, <2>3, <3>1
  <3>2. CASE i \notin mine BY <2>1, <3>2 DEF WsShape, WsSlots
  <3>3. QED BY <3>1, <3>2
 <2>6. ASSUME NEW i \in SlotIds, NEW j \in SlotIds, s[i].pid = s[j].pid, s[i].n = s[j].n, s[i].pid # 0 PROVE i = j
  <3>1. CASE i \in mine /\ j \in mine
   <4>1. WsRank(mine, i) = WsRank(mine, j) BY <2>1, <2>3, <2>6, <3>1
   <4>2. slots[i].n \in Nat /\ slots[j].n \in Nat BY WsTypes
   <4>3. ~(slots[i].n < slots[j].n) /\ ~(slots[j].n < slots[i].n)
    <5>1. \A a, b \in mine : slots[a].n < slots[b].n => WsRank(mine, a) < WsRank(mine, b)
     BY <2>1, WsRanks
    <5>2. WsRank(mine, i) \in Nat BY <2>3, <3>1
    <5>3. ~(WsRank(mine, i) < WsRank(mine, j)) /\ ~(WsRank(mine, j) < WsRank(mine, i))
     BY <4>1, <5>2
    <5>4. QED BY <3>1, <5>1, <5>3
   <4>4. slots[i].n = slots[j].n BY <4>2, <4>3
   <4>5. QED BY <1>3, <2>2, <3>1, <4>4 DEF WsShape, WsSlots
  <3>2. CASE i \notin mine /\ j \notin mine BY <2>1, <2>6, <3>2 DEF WsShape, WsSlots
  <3>3. ASSUME NEW a \in SlotIds, NEW b \in SlotIds, a \in mine, b \notin mine, s[a].pid = s[b].pid, s[a].n = s[b].n PROVE FALSE
   <4>1. b \in own /\ s[b].n = slots[b].n BY <2>1, <2>2, <3>3
   <4>2. slots[b].n <= top /\ slots[b].n \in Nat
    BY <2>2, <4>1, WsTypes DEF WsTop
   <4>3. s[a].n > top BY <2>1, <2>3, <3>3
   <4>4. QED BY <2>1, <3>3, <4>1, <4>2, <4>3
  <3>4. QED BY <2>6, <3>1, <3>2, <3>3
 <2>7. ASSUME NEW i \in SlotIds, s[i].pid # 0 PROVE \E d \in Companies : pp[d].id = s[i].pid
  <3>1. CASE i \in mine BY <1>2, <1>3, <2>1, <3>1
  <3>2. CASE i \notin mine
   <4>1. slots[i].pid # 0 /\ s[i] = slots[i] BY <2>1, <2>7, <3>2
   <4>2. PICK d \in Companies : parts[d].id = slots[i].pid
    BY <4>1 DEF WsShape, WsSlots
   <4>3. d # q.company BY <1>3, <2>2, <3>2, <4>2
   <4>4. CASE d = q.to
    <5>1. t.id = parts[q.to].id
     BY <4>1, <4>2, <4>4 DEF WsMerged, WsMergedTo
    <5>2. QED BY <1>2, <1>3, <4>1, <4>2, <4>4, <5>1
   <4>5. QED BY <1>2, <4>1, <4>2, <4>3, <4>4
  <3>3. QED BY <3>1, <3>2
 <2>8. QED BY <2>4, <2>5, <2>6, <2>7 DEF WsSlots
<1>7. WsPays(pays', newest', paidOnce')
 <2>1. WsPays(pays, newest, paidOnce) BY DEF WsShape
 <2>2. /\ rows = [i \in PayIds |-> IF pays[i].company = q.company THEN [pays[i] EXCEPT !.company = q.to] ELSE pays[i]]
       /\ newest' = [newest EXCEPT ![q.company] = 0, ![q.to] = p] /\ rows = pays'
       /\ \/ p = newest[q.to] /\ \A i \in PayIds : pays[i].company # q.company
          \/ p \in PayIds /\ pays[p].company = q.company
  BY DEF WsMerged
 <2>3. q.company \in paidOnce => q.to \in paidOnce' BY DEF WsMerged
 <2>4. None \notin Companies BY WsIds
 <2>5. ASSUME NEW i \in PayIds
       PROVE  /\ rows[i] \in Work!Payments /\ (rows[i].company = None => rows[i] = Work!NoPay)
              /\ rows[i].paid => rows[i].company \in paidOnce'
              /\ rows[i].company = (IF pays[i].company = q.company THEN q.to ELSE pays[i].company)
              /\ rows[i].paid = pays[i].paid
  <3>1. pays[i] \in Work!Payments BY WsTypes
  <3>2. CASE pays[i].company = q.company
   <4>1. rows[i] = [pays[i] EXCEPT !.company = q.to] BY <2>2, <3>2
   <4>2. rows[i] \in Work!Payments /\ rows[i].company = q.to /\ rows[i].paid = pays[i].paid
    BY <1>3, <3>1, <4>1 DEF Work!Payments
   <4>3. rows[i].paid => q.to \in paidOnce'
    BY <2>1, <2>3, <3>2, <4>2 DEF WsPays
   <4>4. QED BY <1>3, <2>4, <3>2, <4>2, <4>3
  <3>3. CASE pays[i].company # q.company
   <4>1. rows[i] = pays[i] BY <2>2, <3>3
   <4>2. QED BY <1>2, <2>1, <3>1, <3>3, <4>1 DEF WsPays
  <3>4. QED BY <3>2, <3>3
 <2>6. rows \in [PayIds -> Work!Payments] BY <2>2, <2>5
 <2>7. p \in PayIds \cup {0} BY <1>3, <2>2, WsTypes
 <2>8. PICK w : w = newest' OBVIOUS
 <2>9. /\ w \in [Companies -> PayIds \cup {0}] /\ w[q.company] = 0 /\ w[q.to] = p
       /\ \A d \in Companies : d # q.company /\ d # q.to => w[d] = newest[d]
  BY <1>3, <2>1, <2>2, <2>7, <2>8 DEF WsPays
 <2>10. ASSUME NEW d \in Companies, w[d] # 0 PROVE rows[w[d]].company = d
  <3>1. w[d] \in PayIds /\ d # q.company BY <2>9, <2>10
  <3>2. CASE d = q.to
   <4>1. w[d] = p /\ pays[p].company \in {q.company, q.to}
    BY <1>3, <2>1, <2>2, <2>9, <2>10, <3>2 DEF WsPays
   <4>2. QED BY <2>5, <3>1, <3>2, <4>1
  <3>3. CASE d # q.to
   <4>1. pays[w[d]].company = d
    BY <2>1, <2>9, <2>10, <3>1, <3>3 DEF WsPays
   <4>2. QED BY <2>5, <3>1, <4>1
  <3>4. QED BY <3>2, <3>3
 <2>11. WsPays(rows, w, paidOnce') BY <2>5, <2>6, <2>9, <2>10 DEF WsPays
 <2>12. QED BY <2>2, <2>8, <2>11
<1>8. paidOnce' \subseteq Companies BY WsMergedTables
<1>9. regs' = regs /\ moved' = moved /\ refused' = refused \ {q.company, q.to} /\ merged' = TRUE /\ s = slots'
 BY DEF WsMerged
<1>10. QED BY <1>1, <1>2, <1>5, <1>6, <1>7, <1>8, <1>9 DEF WsAfter, WsShape


\* A client's call changes the tables without a request of its own.
LEMMA WsStandsStill ==
  ASSUME WsShape, NEW h \in Handlers, reqs' = reqs, paidOnce' = paidOnce
  PROVE  WsGoesOn(h)
<1>1. reqs' = [reqs EXCEPT ![h] = reqs[h]] BY DEF WsShape
<1>2. WsAsks(reqs[h], paidOnce') BY WsTypes
<1>3. QED BY <1>1, <1>2 DEF WsGoesOn, WsGoes

WsWrites(h) ==
  \/ \E c \in Companies, n \in Counts, rm \in BOOLEAN : Work!CountWrite(h, c, n, rm)
  \/ \E c \in Companies, with \in BOOLEAN : Work!RemoveParticipant(h, c, with)
  \/ \E r \in Regs, paid \in BOOLEAN : Work!Register(h, r, paid)
  \/ \E r \in Regs : Work!DeleteRegistration(h, r)
  \/ \E r \in Regs, c \in Companies \cup {None}, paid \in BOOLEAN : Work!PayRegistration(h, r, c, paid)
  \/ Work!RecDrop(h) \/ Work!RecFill(h) \/ Work!ConfirmWrite(h) \/ Work!SyncMark(h)
  \/ Work!SyncLink(h) \/ Work!CreateWrite(h) \/ Work!CreateSlots(h) \/ Work!PayWrite(h)
  \/ Work!ImportPay(h) \/ Work!ImportFlag(h) \/ Work!SlotWrite(h) \/ Work!MergeWrite(h)
  \/ Work!CleanWrite(h) \/ Work!AssignWrite(h)

LEMMA WsStepKinds == \A h : Work!WsStep(h) => WsLooks(h) \/ WsWrites(h)
BY Zenon DEF Work!WsStep, WsLooks, WsWrites

LEMMA WsWriting ==
  ASSUME WsShape, NEW h \in Handlers, WsWrites(h)
  PROVE  WsAfter /\ WsGoesOn(h)
<1>0. ASSUME WsTablesStay, refused' = refused PROVE WsAfter
 BY <1>0, WsTablesStayShape DEF WsShape
<1>1. ASSUME NEW c \in Companies, NEW n \in Counts, NEW rm \in BOOLEAN, Work!CountWrite(h, c, n, rm)
      PROVE  WsAfter /\ WsGoesOn(h)
 <2>1. PICK q, x : WsRowSet(h, q, c, x) BY <1>1, WsCountDoes
 <2>2. QED BY <1>1, <2>1, WsRowSetAfter, WsCountWrites
<1>2. ASSUME NEW c \in Companies, NEW with \in BOOLEAN, Work!RemoveParticipant(h, c, with)
      PROVE  WsAfter /\ WsGoesOn(h)
 <2>1. WsAfter /\ \E pid, t, rows : WsRemoved(c, pid, t, rows)
  BY <1>2, WsRemoveDoes
 <2>2. reqs' = reqs /\ paidOnce' = paidOnce BY <2>1 DEF WsRemoved
 <2>3. QED BY <2>1, <2>2, WsStandsStill
<1>3. ASSUME NEW r \in Regs, NEW paid \in BOOLEAN, Work!Register(h, r, paid)
      PROVE  WsAfter /\ WsGoesOn(h)
 <2>1. WsAfter /\ \E x : WsRegistered(h, r, x) BY <1>3, WsRegisterDoes
 <2>2. reqs' = reqs /\ paidOnce' = paidOnce
  BY <2>1 DEF WsRegistered, WsPartsStay, WsRestStay
 <2>3. QED BY <2>1, <2>2, WsStandsStill
<1>4. ASSUME NEW r \in Regs, Work!DeleteRegistration(h, r)
      PROVE  WsAfter /\ WsGoesOn(h)
 <2>1. WsAfter /\ \E t : WsUnsigned(h, r, t) BY <1>4, WsUnregisterDoes
 <2>2. reqs' = reqs /\ paidOnce' = paidOnce
  BY <2>1 DEF WsUnsigned, WsPartsStay, WsRestStay
 <2>3. QED BY <2>1, <2>2, WsStandsStill
<1>5. ASSUME NEW r \in Regs, NEW c \in Companies \cup {None}, NEW paid \in BOOLEAN, Work!PayRegistration(h, r, c, paid)
      PROVE  WsAfter /\ WsGoesOn(h)
 BY <1>5, WsPayRegDoes, WsAssignAsks
<1>6. CASE Work!RecDrop(h) BY <1>6, WsDropDoes, WsReconcileAsks
<1>7. CASE Work!RecFill(h) BY <1>7, WsFillDoes, WsReconcileAsks
<1>8. CASE Work!ConfirmWrite(h) BY <1>8, WsConfirmDoes, WsConfirmAsks
<1>9. CASE Work!SyncMark(h) BY <1>9, WsMarkDoes, WsSyncAsks
<1>10. CASE Work!SyncLink(h) BY <1>10, WsSyncDoes, WsSyncAsks
<1>11. CASE Work!CreateWrite(h) BY <1>11, WsCreateDoes, WsConfirmAsks
<1>12. CASE Work!CreateSlots(h) BY <1>12, WsMakeDoes, WsConfirmAsks
<1>13. CASE Work!PayWrite(h) BY <1>13, WsPayDoes, WsPayAsks
<1>14. CASE Work!ImportPay(h) BY <1>14, WsImportDoes, WsPayAsks
<1>15. CASE Work!ImportFlag(h) BY <1>0, <1>15, WsFlagDoes, WsRowSetAfter, WsPayAsks
<1>16. CASE Work!SlotWrite(h) BY <1>16, WsNameDoes, WsPayAsks
<1>17. CASE Work!MergeWrite(h)
 <2>1. WsGoesOn(h) BY <1>17, WsPayAsks
 <2>2. WsAfter BY <1>0, <1>17, WsMergeDoes, WsMergedAfter
 <2>3. QED BY <2>1, <2>2
<1>18. CASE Work!CleanWrite(h) BY <1>0, <1>18, WsCleanDoes, WsRowSetAfter, WsCleanAsks
<1>19. CASE Work!AssignWrite(h) BY <1>19, WsAssignDoes, WsAssignAsks
<1>20. QED
 BY <1>1, <1>2, <1>3, <1>4, <1>5, <1>6, <1>7, <1>8, <1>9, <1>10, <1>11, <1>12, <1>13, <1>14, <1>15, <1>16, <1>17, <1>18,
    <1>19, Zenon DEF WsWrites

LEMMA WsShapeStep ==
  ASSUME WsShape, NEW h \in Handlers, Work!WsStep(h), wsCalm' \in BOOLEAN
  PROVE  WsShape' /\ WsAfter
<1>1. CASE WsLooks(h) BY <1>1, WsLooking, WsTablesStayShape, WsOnward
<1>2. CASE WsWrites(h) BY <1>2, WsWriting, WsOnward
<1>3. QED BY <1>1, <1>2, WsStepKinds

LEMMA WsShapeInit == Work!WsInit => WsShape
<1> SUFFICES ASSUME Work!WsInit PROVE WsShape
 OBVIOUS
<1>1. WsParts(parts, paidOnce)
 <2>1. parts = [c \in Companies |-> Work!NoPart] BY DEF Work!WsInit
 <2>2. QED BY <2>1, WsNoPart DEF WsParts
<1>2. WsSlots(parts, slots)
 <2>1. slots = [s \in SlotIds |-> Work!NoSlot] BY DEF Work!WsInit
 <2>2. Work!NoSlot \in Work!SlotRows /\ Work!NoSlot.pid = 0
  BY 0 \in Nat DEF Work!NoSlot, Work!SlotRows
 <2>3. QED BY <2>1, <2>2 DEF WsSlots
<1>3. WsPays(pays, newest, paidOnce)
 BY DEF Work!WsInit, WsPays, Work!NoPay, Work!Payments
<1>4. WsRegs(regs) BY DEF Work!WsInit, WsRegs, Work!Registrations
<1>5. Work!Idle \in Work!Requests BY WsIdleAsks DEF WsAsks
<1>6. reqs \in [Handlers -> Work!Requests] /\ \A h \in Handlers : reqs[h] = Work!Idle
 BY <1>5 DEF Work!WsInit
<1>7. \A h \in Handlers : WsAsks(reqs[h], paidOnce) BY <1>6, WsIdleAsks
<1>8. paidOnce \subseteq Companies /\ moved \subseteq Regs /\ refused \subseteq Companies /\ merged \in BOOLEAN /\ wsCalm \in BOOLEAN
 BY DEF Work!WsInit
<1>9. QED BY <1>1, <1>2, <1>3, <1>4, <1>6, <1>7, <1>8 DEF WsShape

LEMMA WsShapeTypes ==
  WsShape => Work!WsTypeOK /\ Work!ConfirmedWasPaid
BY DEF WsShape, WsParts, WsSlots, WsPays, WsRegs, Work!WsTypeOK, Work!ConfirmedWasPaid


\* The slots of pid are the same, up to names and links.
WsSame(s, t, pid) ==
  \A i \in SlotIds : (t[i].pid = pid <=> s[i].pid = pid) /\ (s[i].pid = pid => t[i].n = s[i].n)
WsKept(p, s, no, p2, t, no2, c) ==
  /\ p2[c].id = p[c].id /\ p2[c].count = p[c].count /\ WsSame(s, t, p[c].id) /\ (c \in no => c \in no2)

LEMMA WsSameNumbers ==
  ASSUME NEW s, NEW t, NEW pid, WsSame(s, t, pid), NEW k, WsNumbered(s, pid, k) PROVE WsNumbered(t, pid, k)
<1>1. k \in Nat /\ \A i \in SlotIds : t[i].pid = pid => t[i].n \in 1 .. k
 BY DEF WsSame, WsNumbered
<1>2. ASSUME NEW n \in 1 .. k PROVE \E i \in SlotIds : t[i].pid = pid /\ t[i].n = n
 <2>1. PICK i \in SlotIds : s[i].pid = pid /\ s[i].n = n BY DEF WsNumbered
 <2>2. t[i].pid = pid /\ t[i].n = n BY <2>1 DEF WsSame
 <2>3. QED BY <2>2
<1>3. QED BY <1>1, <1>2 DEF WsNumbered

LEMMA WsCarries ==
  ASSUME NEW p, NEW s, NEW no, NEW q, NEW p2, NEW t, NEW no2, NEW r, NEW c,
         WsGapless(p, s), WsTallied(p, s, no, q), WsCounts(q) => q.company = c,
         \A d \in Companies : d # c => p2[d].id = 0 \/ WsKept(p, s, no, p2, t, no2, d),
         p2[c].id # 0 => (\E k \in Nat : WsNumbered(t, p2[c].id, k)),
         p2[c].id # 0 => (WsCounts(r) /\ r.company = c) \/ WsCounted(p2, t, no2, c)
  PROVE  WsGapless(p2, t) /\ WsTallied(p2, t, no2, r)
<1>1. ASSUME NEW d \in Companies, d # c, p2[d].id # 0
      PROVE  (\E k \in Nat : WsNumbered(t, p2[d].id, k)) /\ WsCounted(p2, t, no2, d)
 <2>1. p2[d].id = p[d].id /\ p2[d].count = p[d].count /\ WsSame(s, t, p[d].id) /\ (d \in no => d \in no2)
  BY <1>1 DEF WsKept
 <2>2. WsCounted(p, s, no, d) BY <1>1, <2>1 DEF WsTallied
 <2>3. PICK k \in Nat : WsNumbered(s, p[d].id, k) /\ (p[d].count = k \/ (d \in no /\ p[d].count < k))
  BY <2>2 DEF WsCounted
 <2>4. WsNumbered(t, p2[d].id, k) BY <2>1, <2>3, WsSameNumbers
 <2>5. p2[d].count = k \/ (d \in no2 /\ p2[d].count < k) BY <2>1, <2>3
 <2>6. QED BY <2>4, <2>5 DEF WsCounted
<1>2. WsGapless(p2, t) BY <1>1 DEF WsGapless
<1>3. WsTallied(p2, t, no2, r) BY <1>1 DEF WsTallied
<1>4. QED BY <1>2, <1>3

\* Nothing changes but what the request knows.
LEMMA WsCarriesAll ==
  ASSUME NEW p, NEW s, NEW no, NEW q, NEW p2, NEW t, NEW no2, NEW r,
         WsGapless(p, s), WsTallied(p, s, no, q),
         WsCounts(q) => WsCounts(r) /\ r.company = q.company,
         \A d \in Companies : p2[d].id # 0 => WsKept(p, s, no, p2, t, no2, d)
  PROVE  WsGapless(p2, t) /\ WsTallied(p2, t, no2, r)
<1>1. ASSUME NEW d \in Companies, p2[d].id # 0
      PROVE  /\ \E k \in Nat : WsNumbered(t, p2[d].id, k)
             /\ (WsCounts(r) /\ r.company = d) \/ WsCounted(p2, t, no2, d)
 <2>1. p2[d].id = p[d].id /\ p2[d].count = p[d].count /\ WsSame(s, t, p[d].id) /\ (d \in no => d \in no2) /\ p[d].id # 0
  BY <1>1 DEF WsKept
 <2>2. PICK k \in Nat : WsNumbered(s, p[d].id, k) BY <2>1 DEF WsGapless
 <2>3. WsNumbered(t, p2[d].id, k) BY <2>1, <2>2, WsSameNumbers
 <2>4. CASE WsCounts(q) /\ q.company = d BY <2>3, <2>4
 <2>5. CASE WsCounted(p, s, no, d)
  <3>1. PICK l \in Nat : WsNumbered(s, p[d].id, l) /\ (p[d].count = l \/ (d \in no /\ p[d].count < l))
   BY <2>5 DEF WsCounted
  <3>2. WsNumbered(t, p2[d].id, l) BY <2>1, <3>1, WsSameNumbers
  <3>3. p2[d].count = l \/ (d \in no2 /\ p2[d].count < l) BY <2>1, <3>1
  <3>4. WsCounted(p2, t, no2, d) BY <3>2, <3>3 DEF WsCounted
  <3>5. QED BY <2>3, <3>4
 <2>6. QED BY <2>1, <2>4, <2>5 DEF WsTallied
<1>2. WsGapless(p2, t) BY <1>1 DEF WsGapless
<1>3. WsTallied(p2, t, no2, r) BY <1>1 DEF WsTallied
<1>4. QED BY <1>2, <1>3

\* What the acting request knows of the rows, and the rows themselves.
WsAloneAt(q, p, s, no) == WsGapless(p, s) /\ WsPlan(q, p, s) /\ WsTallied(p, s, no, q)
WsPlain(q) == /\ ~WsCounts(q) /\ q.pc \notin {"repair", "archive", "create", "assignWrite"}
LEMMA WsPlainPlan ==
  ASSUME NEW q, WsPlain(q), NEW p, NEW s, q.pc # "idle" => \A e \in q.left : p[e.company].id = e.pid /\ p[e.company].count = e.count
  PROVE  WsPlan(q, p, s)
BY DEF WsPlain, WsPlan, WsCounts, WsReconciles

LEMMA WsAloneAfter ==
  ASSUME WsShape, NEW h \in Handlers, WsTurn(h), NEW r, WsGoes(h, r), WsAloneAt(r, parts', slots', refused')
  PROVE  WsAlone'
<1>1. reqs'[h] = r /\ \A k \in Handlers : k # h => reqs'[k] = reqs[k] /\ reqs[k].pc = "idle"
 BY DEF WsShape, WsGoes, WsTurn
<1>2. WsLone' BY <1>1 DEF WsLone
<1>3. ASSUME NEW k \in Handlers, WsTurn(k)' PROVE WsPlan(reqs'[k], parts', slots') /\ WsTallied(parts', slots', refused', reqs'[k])
 <2>1. CASE k = h BY <1>1, <2>1 DEF WsAloneAt
 <2>2. CASE k # h
  <3>1. r.pc = "idle" /\ reqs'[k].pc = "idle"
   BY <1>1, <1>3, <2>2 DEF WsTurn
  <3>2. WsPlain(reqs'[k]) BY <3>1 DEF WsPlain, WsCounts, WsReconciles
  <3>3. WsPlan(reqs'[k], parts', slots') BY <3>1, <3>2, WsPlainPlan
  <3>4. ~WsCounts(r) /\ ~WsCounts(reqs'[k])
   BY <3>1 DEF WsCounts, WsReconciles
  <3>5. WsTallied(parts', slots', refused', reqs'[k])
   BY <3>4 DEF WsAloneAt, WsTallied
  <3>6. QED BY <3>3, <3>5
 <2>3. QED BY <2>1, <2>2
<1>4. QED BY <1>2, <1>3 DEF WsAlone, WsAloneAt


WsAloneOn(h) == \E r : WsGoes(h, r) /\ WsAloneAt(r, parts', slots', refused')
WsEvenKept == \A c \in Companies : parts'[c].id # 0 => WsKept(parts, slots, refused, parts', slots', refused', c)

LEMMA WsStaysKept ==
  ASSUME parts' = parts, slots' = slots, refused \subseteq refused' PROVE WsEvenKept
<1>1. ASSUME NEW c \in Companies PROVE WsKept(parts, slots, refused, parts', slots', refused', c)
 BY DEF WsKept, WsSame
<1>2. QED BY <1>1 DEF WsEvenKept

LEMMA WsPlainOn ==
  ASSUME NEW h \in Handlers, WsAloneAt(reqs[h], parts, slots, refused), ~WsCounts(reqs[h]), WsEvenKept,
         NEW r, WsGoes(h, r), WsPlain(r), r.pc = "idle" \/ r.left = {}
  PROVE  WsAloneOn(h)
<1>1. WsPlan(r, parts', slots') BY WsPlainPlan
<1>2. WsGapless(parts', slots') /\ WsTallied(parts', slots', refused', r)
 <2>1. PICK q : q = reqs[h] OBVIOUS
 <2>2. PICK p2, t, no2 : p2 = parts' /\ t = slots' /\ no2 = refused'
  OBVIOUS
 <2>3. \A c \in Companies : p2[c].id # 0 => WsKept(parts, slots, refused, p2, t, no2, c)
  BY <2>2 DEF WsEvenKept
 <2>4. WsGapless(parts, slots) /\ WsTallied(parts, slots, refused, q) /\ ~WsCounts(q)
  BY <2>1 DEF WsAloneAt
 <2>5. WsGapless(p2, t) /\ WsTallied(p2, t, no2, r)
  BY <2>3, <2>4, WsCarriesAll
 <2>6. QED BY <2>2, <2>5
<1>3. QED BY <1>1, <1>2 DEF WsAloneOn, WsAloneAt

LEMMA WsIdlePlain == WsPlain(Work!Idle) /\ Work!Idle.left = {}
BY DEF WsPlain, WsCounts, WsReconciles, Work!Idle

LEMMA WsFinishOn ==
  ASSUME NEW h \in Handlers, WsAloneAt(reqs[h], parts, slots, refused), ~WsCounts(reqs[h]), WsEvenKept, Work!Finish(h)
  PROVE  WsAloneOn(h)
<1>1. WsGoes(h, Work!Idle) BY DEF Work!Finish, Work!Goto, WsGoes
<1>2. QED BY <1>1, WsIdlePlain, WsPlainOn

LEMMA WsReadsAlone ==
  ASSUME WsShape, NEW h \in Handlers, WsAloneAt(reqs[h], parts, slots, refused),
         \/ \E c \in Companies, n \in Counts, b \in Bodies \cup {"kept"}, opt \in Options, rm \in BOOLEAN :
              Work!ConfirmRead(h, c, n, b, opt, rm)
         \/ \E c \in Companies, b \in Bodies \ {"forced"} : Work!PayRead(h, c, b) \/ Work!ImportRead(h, c, b)
         \/ \E s \in SlotIds, name \in {"keep", "name", "clear"} : Work!SlotRead(h, s, name)
         \/ \E c, d \in Companies : Work!MergeRead(h, c, d)
  PROVE  WsAloneOn(h)
<1>1. parts' = parts /\ slots' = slots /\ refused' = refused /\ reqs[h].pc = "idle"
 BY Zenon DEF Work!ConfirmRead, Work!PayRead, Work!ImportRead, Work!SlotRead, Work!MergeRead, Work!Calls
<1>2. WsEvenKept /\ ~WsCounts(reqs[h])
 BY <1>1, WsStaysKept DEF WsCounts, WsReconciles
<1>3. ASSUME NEW c \in Companies, NEW n \in Counts, NEW b \in Bodies \cup {"kept"}, NEW opt \in Options, NEW rm \in BOOLEAN,
             Work!ConfirmRead(h, c, n, b, opt, rm)
      PROVE  \E r : WsGoes(h, r) /\ r.pc = "confirm" /\ r.left = {}
 <2>1. PICK due, count : WsGoes(h, [Work!Idle EXCEPT !.pc = "confirm", !.company = c, !.pid = parts[c].id,
                              !.count = count, !.body = due, !.rm = rm])
  BY <1>3, Zenon DEF Work!ConfirmRead, Work!Goto, WsGoes
 <2>2. PICK r : r = [Work!Idle EXCEPT !.pc = "confirm", !.company = c, !.pid = parts[c].id,
                              !.count = count, !.body = due, !.rm = rm]
  OBVIOUS
 <2>3. r.pc = "confirm" /\ r.left = {} BY <2>2 DEF Work!Idle
 <2>4. QED BY <2>1, <2>2, <2>3
<1>4. ASSUME NEW c \in Companies, NEW b, Work!PayRead(h, c, b)
      PROVE  \E r : WsGoes(h, r) /\ r.pc = "payLedger" /\ r.left = {}
 <2>1. PICK r : r = [Work!Idle EXCEPT !.pc = "payLedger", !.company = c, !.pid = parts[c].id, !.body = b]
  OBVIOUS
 <2>2. r.pc = "payLedger" /\ r.left = {} /\ WsGoes(h, r)
  BY <1>4, <2>1 DEF Work!Idle, Work!PayRead, Work!Goto, WsGoes
 <2>3. QED BY <2>2
<1>5. ASSUME NEW c \in Companies, NEW b, Work!ImportRead(h, c, b)
      PROVE  \E r : WsGoes(h, r) /\ r.pc = "importPay" /\ r.left = {}
 <2>1. PICK r : r = [Work!Idle EXCEPT !.pc = "importPay", !.company = c, !.pay = newest[c], !.body = b]
  OBVIOUS
 <2>2. r.pc = "importPay" /\ r.left = {} /\ WsGoes(h, r)
  BY <1>5, <2>1 DEF Work!Idle, Work!ImportRead, Work!Goto, WsGoes
 <2>3. QED BY <2>2
<1>6. ASSUME NEW s \in SlotIds, NEW name \in {"keep", "name", "clear"}, Work!SlotRead(h, s, name)
      PROVE  \E r : WsGoes(h, r) /\ r.pc = "slot" /\ r.left = {}
 <2>1. PICK flag : flag = (IF name = "keep" THEN slots[s].named ELSE name = "name")
  OBVIOUS
 <2>2. PICK r : r = [Work!Idle EXCEPT !.pc = "slot", !.held = {s}, !.flag = flag]
  OBVIOUS
 <2>3. r.pc = "slot" /\ r.left = {} BY <2>2 DEF Work!Idle
 <2>4. WsGoes(h, r)
  BY <1>6, <2>1, <2>2, Zenon DEF Work!SlotRead, Work!Goto, WsGoes
 <2>5. QED BY <2>3, <2>4
<1>7. ASSUME NEW c \in Companies, NEW d \in Companies, Work!MergeRead(h, c, d)
      PROVE  \E r : WsGoes(h, r) /\ r.pc = "merge" /\ r.left = {}
 <2>1. PICK flag : flag = parts[c].confirmed OBVIOUS
 <2>2. PICK r : r = [Work!Idle EXCEPT !.pc = "merge", !.company = c, !.to = d, !.pid = parts[c].id, !.flag = flag]
  OBVIOUS
 <2>3. r.pc = "merge" /\ r.left = {} BY <2>2 DEF Work!Idle
 <2>4. WsGoes(h, r)
  BY <1>7, <2>1, <2>2, Zenon DEF Work!MergeRead, Work!Goto, WsGoes
 <2>5. QED BY <2>3, <2>4
<1>8. PICK r : WsGoes(h, r) /\ r.pc \in {"confirm", "payLedger", "importPay", "slot", "merge"} /\ r.left = {}
 BY <1>3, <1>4, <1>5, <1>6, <1>7
<1>9. WsPlain(r) BY <1>8 DEF WsPlain, WsCounts, WsReconciles
<1>10. QED BY <1>2, <1>8, <1>9, WsPlainOn


\* Tables and refusals stay; the request counts the same participant or has none to count.
LEMMA WsLookOn ==
  ASSUME NEW h \in Handlers, NEW q, q = reqs[h], WsAloneAt(q, parts, slots, refused), parts' = parts, slots' = slots, refused' = refused,
         NEW r, WsGoes(h, r), WsCounts(q) => WsCounts(r) /\ r.company = q.company, WsPlan(r, parts, slots)
  PROVE  WsAloneOn(h)
<1>1. WsEvenKept BY WsStaysKept
<1>2. PICK p2, t, no2 : p2 = parts' /\ t = slots' /\ no2 = refused'
 OBVIOUS
<1>3. \A c \in Companies : p2[c].id # 0 => WsKept(parts, slots, refused, p2, t, no2, c)
 BY <1>1, <1>2 DEF WsEvenKept
<1>4. WsGapless(parts, slots) /\ WsTallied(parts, slots, refused, q)
 BY DEF WsAloneAt
<1>5. WsGapless(p2, t) /\ WsTallied(p2, t, no2, r)
 BY <1>3, <1>4, WsCarriesAll
<1>6. QED BY <1>2, <1>5 DEF WsAloneOn, WsAloneAt

\* The participant the request reconciles has gapless numbers.
LEMMA WsItsNumbers ==
  ASSUME WsShape, NEW h \in Handlers, NEW q, q = reqs[h], WsAloneAt(q, parts, slots, refused), WsCounts(q)
  PROVE  /\ q.company \in Companies /\ q.pid # 0 /\ parts[q.company].id = q.pid /\ parts[q.company].count = q.count
         /\ q.count \in Int /\ \E k \in Nat : WsNumbered(slots, q.pid, k)
<1>1. q.company \in Companies /\ q.pid # 0 /\ q.count \in Int
 BY WsTypes DEF WsAsks, WsCounts, WsReconciles, Work!Requests
<1>2. parts[q.company].id = q.pid /\ parts[q.company].count = q.count
 BY DEF WsAloneAt, WsPlan
<1>3. QED BY <1>1, <1>2 DEF WsAloneAt, WsGapless

LEMMA WsOwnSlots ==
  ASSUME WsShape, NEW pid, pid # 0, NEW k, WsNumbered(slots, pid, k)
  PROVE  k \in Nat /\ Work!Cardinality(Work!SlotsOf(pid)) = k
<1>1. WsSlots(parts, slots) BY DEF WsShape
<1>2. Work!Cardinality({i \in SlotIds : slots[i].pid = pid}) = k
 BY <1>1, WsHowMany
<1>3. QED BY <1>2 DEF Work!SlotsOf, WsNumbered

LEMMA WsRecReadAlone ==
  ASSUME WsShape, NEW h \in Handlers, WsAloneAt(reqs[h], parts, slots, refused), Work!RecRead(h)
  PROVE  WsAloneOn(h)
<1>1. PICK q : q = reqs[h] OBVIOUS
<1>2. q.pc = "recRead" /\ WsCounts(q) /\ q \in Work!Requests /\ parts' = parts /\ slots' = slots
 BY <1>1, WsTypes DEF Work!RecRead, Work!At, WsCounts, WsReconciles
<1>3. PICK c : c = q.company OBVIOUS
<1>4. c \in Companies /\ q.pid # 0 /\ parts[c].id = q.pid /\ parts[c].count = q.count /\ q.count \in Int
 BY <1>1, <1>2, <1>3, WsItsNumbers
<1>5. PICK k \in Nat : WsNumbered(slots, q.pid, k)
 BY <1>1, <1>2, WsItsNumbers
<1>6. Work!Cardinality(Work!SlotsOf(q.pid)) = k BY <1>4, <1>5, WsOwnSlots
<1>7. PICK drop : drop = {s \in Work!SlotsOf(q.pid) : slots[s].n > q.count}
 OBVIOUS
<1>8. PICK fewer \in BOOLEAN : fewer = (q.count < Work!Cardinality(Work!SlotsOf(q.pid)))
 <2>1. (q.count < Work!Cardinality(Work!SlotsOf(q.pid))) \in BOOLEAN
  BY <1>4, <1>6
 <2>2. QED BY <2>1, Zenon
<1>9. PICK no \in BOOLEAN : no = (q.count < 0 \/ (fewer /\ ~q.rm /\ \E s \in drop : slots[s].named))
 OBVIOUS
<1>15. fewer <=> q.count < k BY <1>4, <1>6, <1>8
<1>16. no <=> q.count < 0 \/ (fewer /\ ~q.rm /\ \E s \in drop : slots[s].named)
 BY <1>9
<1>10. /\ refused' = (IF no THEN refused \cup {c} ELSE refused)
       /\ IF no THEN Work!Finish(h)
          ELSE WsGoes(h, IF fewer THEN [q EXCEPT !.pc = "recDrop", !.held = drop] ELSE [q EXCEPT !.pc = "recSurvivors"])
 BY <1>1, <1>3, <1>7, <1>8, <1>9, Zenon DEF Work!RecRead, Work!Goto, WsGoes
<1>11. CASE no
 <2>1. WsGoes(h, Work!Idle) /\ c \in refused' /\ refused \subseteq refused'
  BY <1>10, <1>11 DEF Work!Finish, Work!Goto, WsGoes
 <2>2. q.count < k BY <1>4, <1>5, <1>11, <1>15, <1>16
 <2>3. WsCounted(parts, slots, refused', c)
  BY <1>4, <1>5, <2>1, <2>2 DEF WsCounted
 <2>4. \A d \in Companies : d # c => WsKept(parts, slots, refused, parts, slots, refused', d)
  BY <2>1 DEF WsKept, WsSame
 <2>5. WsGapless(parts, slots) /\ WsTallied(parts, slots, refused, q)
  BY <1>1 DEF WsAloneAt
 <2>6. PICK no2 : no2 = refused' OBVIOUS
 <2>7. WsGapless(parts, slots) /\ WsTallied(parts, slots, no2, Work!Idle)
  BY <1>3, <1>4, <1>5, <2>3, <2>4, <2>5, <2>6, WsCarries
 <2>8. WsPlan(Work!Idle, parts, slots) BY WsIdlePlain, WsPlainPlan
 <2>9. WsAloneAt(Work!Idle, parts', slots', refused')
  BY <1>2, <2>6, <2>7, <2>8 DEF WsAloneAt
 <2>10. QED BY <2>1, <2>9 DEF WsAloneOn
<1>12. CASE ~no /\ fewer
 <2>1. PICK r : r = [q EXCEPT !.pc = "recDrop", !.held = drop] OBVIOUS
 <2>2. WsGoes(h, r) /\ refused' = refused BY <1>10, <1>12, <2>1
 <2>3. /\ r.pc = "recDrop" /\ r.held = drop /\ r.company = c /\ r.pid = q.pid /\ r.count = q.count /\ r.left = q.left
       /\ r.rm = q.rm
  BY <1>2, <1>3, <2>1 DEF Work!Requests
 <2>4. q.count >= 0 /\ (~q.rm => \A i \in drop : ~slots[i].named)
  BY <1>4, <1>12, <1>16
 <2>5. drop = {i \in SlotIds : slots[i].pid = q.pid /\ slots[i].n > q.count}
  BY <1>7 DEF Work!SlotsOf
 <2>6. \A e \in q.left : parts[e.company].id = e.pid /\ parts[e.company].count = e.count
  BY <1>1, <1>2 DEF WsAloneAt, WsPlan
 <2>7. WsPlan(r, parts, slots) BY <1>4, <2>3, <2>4, <2>5, <2>6 DEF WsPlan
 <2>8. WsCounts(r) /\ r.company = q.company
  BY <1>3, <2>3 DEF WsCounts, WsReconciles
 <2>9. QED BY <1>1, <1>2, <2>2, <2>7, <2>8, WsLookOn
<1>13. CASE ~no /\ ~fewer
 <2>1. PICK r : r = [q EXCEPT !.pc = "recSurvivors"] OBVIOUS
 <2>2. WsGoes(h, r) /\ refused' = refused BY <1>10, <1>13, <2>1
 <2>3. r.pc = "recSurvivors" /\ r.company = c /\ r.pid = q.pid /\ r.count = q.count /\ r.left = q.left
  BY <1>2, <1>3, <2>1 DEF Work!Requests
 <2>4. q.count >= 0 /\ k <= q.count BY <1>4, <1>13, <1>15, <1>16
 <2>5. \A i \in SlotIds : slots[i].pid = q.pid => slots[i].n <= q.count
  BY <1>4, <1>5, <2>4 DEF WsNumbered
 <2>6. \A e \in q.left : parts[e.company].id = e.pid /\ parts[e.company].count = e.count
  BY <1>1, <1>2 DEF WsAloneAt, WsPlan
 <2>7. WsPlan(r, parts, slots) BY <1>4, <2>3, <2>4, <2>5, <2>6 DEF WsPlan
 <2>8. WsCounts(r) /\ r.company = q.company
  BY <1>3, <2>3 DEF WsCounts, WsReconciles
 <2>9. QED BY <1>1, <1>2, <2>2, <2>7, <2>8, WsLookOn
<1>14. QED BY <1>11, <1>12, <1>13


LEMMA WsSurvivorsAlone ==
  ASSUME WsShape, NEW h \in Handlers, WsAloneAt(reqs[h], parts, slots, refused), Work!RecSurvivors(h)
  PROVE  WsAloneOn(h)
<1>1. PICK q : q = reqs[h] OBVIOUS
<1>2. q.pc = "recSurvivors" /\ WsCounts(q) /\ q \in Work!Requests
 BY <1>1, WsTypes DEF Work!RecSurvivors, Work!At, WsCounts, WsReconciles
<1>3. PICK held : held = Work!SlotsOf(q.pid) OBVIOUS
<1>4. PICK r : r = [q EXCEPT !.pc = "recFill", !.held = held] OBVIOUS
<1>5. WsGoes(h, r) /\ parts' = parts /\ slots' = slots /\ refused' = refused
 BY <1>1, <1>3, <1>4 DEF Work!RecSurvivors, Work!Goto, WsGoes
<1>6. r.pc = "recFill" /\ r.held = held /\ r.company = q.company /\ r.pid = q.pid /\ r.count = q.count /\ r.left = q.left
 BY <1>2, <1>4 DEF Work!Requests
<1>7. /\ parts[q.company].id = q.pid /\ parts[q.company].count = q.count /\ q.count >= 0
      /\ \A i \in SlotIds : slots[i].pid = q.pid => slots[i].n <= q.count
      /\ \A e \in q.left : parts[e.company].id = e.pid /\ parts[e.company].count = e.count
 BY <1>1, <1>2 DEF WsAloneAt, WsPlan
<1>8. held = {i \in SlotIds : slots[i].pid = q.pid}
 BY <1>3 DEF Work!SlotsOf
<1>9. WsPlan(r, parts, slots) BY <1>6, <1>7, <1>8 DEF WsPlan
<1>10. WsCounts(r) /\ r.company = q.company
 BY <1>6 DEF WsCounts, WsReconciles
<1>11. QED BY <1>1, <1>5, <1>9, <1>10, WsLookOn

LEMMA WsCreateReadAlone ==
  ASSUME WsShape, NEW h \in Handlers, WsAloneAt(reqs[h], parts, slots, refused),
         NEW c \in Companies, NEW n \in Counts, Work!CreateRead(h, c, n)
  PROVE  WsAloneOn(h)
<1>1. PICK q : q = reqs[h] OBVIOUS
<1>2. PICK r : r = [Work!Idle EXCEPT !.pc = "create", !.company = c, !.pay = newest[c], !.count = n]
 OBVIOUS
<1>3. WsGoes(h, r) /\ parts' = parts /\ slots' = slots /\ refused' = refused /\ q.pc = "idle" /\ n >= 0
 BY <1>1, <1>2 DEF Work!CreateRead, Work!Calls, Work!Goto, WsGoes
<1>4. r.pc = "create" /\ r.count = n /\ r.left = {} BY <1>2 DEF Work!Idle
<1>5. WsPlan(r, parts, slots)
 BY <1>3, <1>4 DEF WsPlan, WsCounts, WsReconciles
<1>6. ~WsCounts(q) BY <1>3 DEF WsCounts, WsReconciles
<1>7. QED BY <1>1, <1>3, <1>5, <1>6, WsLookOn

LEMMA WsSyncReadAlone ==
  ASSUME WsShape, NEW h \in Handlers, WsAloneAt(reqs[h], parts, slots, refused), Work!SyncRead(h)
  PROVE  WsAloneOn(h)
<1>1. parts' = parts /\ slots' = slots /\ refused' = refused /\ ~WsCounts(reqs[h])
 BY DEF Work!SyncRead, Work!At, WsCounts, WsReconciles
<1>2. WsEvenKept BY <1>1, WsStaysKept
<1>3. Work!Finish(h) \/ \E pid, pairs : WsGoes(h, [Work!Idle EXCEPT !.pc = "syncLink", !.pid = pid, !.pairs = pairs])
 BY Zenon DEF Work!SyncRead, Work!Goto, WsGoes
<1>4. ASSUME NEW pid, NEW pairs, WsGoes(h, [Work!Idle EXCEPT !.pc = "syncLink", !.pid = pid, !.pairs = pairs])
      PROVE  WsAloneOn(h)
 <2>1. PICK r : r = [Work!Idle EXCEPT !.pc = "syncLink", !.pid = pid, !.pairs = pairs]
  OBVIOUS
 <2>2. r.pc = "syncLink" /\ r.left = {} BY <2>1 DEF Work!Idle
 <2>3. WsPlain(r) BY <2>2 DEF WsPlain, WsCounts, WsReconciles
 <2>4. QED BY <1>1, <1>2, <1>4, <2>1, <2>2, <2>3, WsPlainOn
<1>5. QED BY <1>1, <1>2, <1>3, <1>4, WsFinishOn

\* A step within a request that counts nothing before and after it.
LEMMA WsOnAlone ==
  ASSUME WsShape, NEW h \in Handlers, NEW q, q = reqs[h], WsAloneAt(q, parts, slots, refused), WsEvenKept,
         ~WsCounts(q), q.pc # "idle", \A c \in Companies : parts[c].id # 0 => parts'[c].id # 0,
         NEW r, WsGoes(h, r), WsPlain(r), r.left \in SUBSET q.left
  PROVE  WsAloneOn(h)
<1>1. \A e \in q.left : e.company \in Companies /\ e.pid # 0
 BY WsTypes, WsIds DEF Work!Requests, Work!Entries
<1>2. \A e \in q.left : parts[e.company].id = e.pid /\ parts[e.company].count = e.count
 BY DEF WsAloneAt, WsPlan
<1>3. \A e \in q.left : parts'[e.company].id = e.pid /\ parts'[e.company].count = e.count
 BY <1>1, <1>2 DEF WsEvenKept, WsKept
<1>4. WsPlan(r, parts', slots') BY <1>3, WsPlainPlan
<1>5. PICK p2, t, no2 : p2 = parts' /\ t = slots' /\ no2 = refused'
 OBVIOUS
<1>6. \A c \in Companies : p2[c].id # 0 => WsKept(parts, slots, refused, p2, t, no2, c)
 BY <1>5 DEF WsEvenKept
<1>7. WsGapless(parts, slots) /\ WsTallied(parts, slots, refused, q)
 BY DEF WsAloneAt
<1>8. WsGapless(p2, t) /\ WsTallied(p2, t, no2, r)
 BY <1>6, <1>7, WsCarriesAll
<1>9. QED BY <1>4, <1>5, <1>8 DEF WsAloneOn, WsAloneAt

LEMMA WsLedgerAlone ==
  ASSUME WsShape, NEW h \in Handlers, WsAloneAt(reqs[h], parts, slots, refused), Work!PayLedger(h)
  PROVE  WsAloneOn(h)
<1>1. PICK q : q = reqs[h] OBVIOUS
<1>2. PICK r : r = [q EXCEPT !.pc = "payWrite", !.pay = newest[q.company]]
 OBVIOUS
<1>3. /\ q.pc = "payLedger" /\ WsGoes(h, r) /\ parts' = parts /\ slots' = slots /\ refused' = refused
      /\ q \in Work!Requests
 BY <1>1, <1>2, WsTypes DEF Work!PayLedger, Work!At, Work!Goto, WsGoes
<1>4. r.pc = "payWrite" /\ r.left = q.left BY <1>2, <1>3 DEF Work!Requests
<1>5. ~WsCounts(q) /\ WsPlain(r) /\ q.pc # "idle"
 BY <1>3, <1>4 DEF WsPlain, WsCounts, WsReconciles
<1>6. WsEvenKept BY <1>3, WsStaysKept
<1>7. QED BY <1>1, <1>3, <1>4, <1>5, <1>6, WsOnAlone

LEMMA WsCleanReadAlone ==
  ASSUME WsShape, NEW h \in Handlers, WsAloneAt(reqs[h], parts, slots, refused), Work!CleanRead(h)
  PROVE  WsAloneOn(h)
<1>1. PICK q : q = reqs[h] OBVIOUS
<1>2. PICK some : some = {c \in Companies : parts[c] # Work!NoPart /\ ~parts[c].confirmed /\ parts[c].active}
 OBVIOUS
<1>3. PICK left : left = {[pid |-> parts[c].id, company |-> c, count |-> parts[c].count] : c \in some}
 OBVIOUS
<1>4. PICK r : r = [Work!Idle EXCEPT !.pc = "cleanNext", !.then = "cleanNext", !.left = left]
 OBVIOUS
<1>5. WsGoes(h, r) /\ parts' = parts /\ slots' = slots /\ refused' = refused /\ q.pc = "idle"
 BY <1>1, <1>2, <1>3, <1>4, Zenon DEF Work!CleanRead, Work!Calls, Work!Goto, WsGoes
<1>6. r.pc = "cleanNext" /\ r.left = left BY <1>4 DEF Work!Idle
<1>7. \A e \in left : parts[e.company].id = e.pid /\ parts[e.company].count = e.count
 BY <1>3
<1>8. WsPlan(r, parts, slots)
 BY <1>6, <1>7 DEF WsPlan, WsCounts, WsReconciles
<1>9. ~WsCounts(q) BY <1>5 DEF WsCounts, WsReconciles
<1>10. QED BY <1>1, <1>5, <1>8, <1>9, WsLookOn

LEMMA WsCleanNextAlone ==
  ASSUME WsShape, NEW h \in Handlers, WsAloneAt(reqs[h], parts, slots, refused), Work!CleanNext(h)
  PROVE  WsAloneOn(h)
<1>1. PICK q : q = reqs[h] OBVIOUS
<1>2. q.pc = "cleanNext" /\ q \in Work!Requests /\ parts' = parts /\ slots' = slots /\ refused' = refused
 BY <1>1, WsTypes DEF Work!CleanNext, Work!At
<1>3. ~WsCounts(q) BY <1>2 DEF WsCounts, WsReconciles
<1>4. CASE q.left = {}
 <2>1. Work!Finish(h) BY <1>1, <1>4 DEF Work!CleanNext
 <2>2. QED BY <1>1, <1>2, <1>3, <2>1, WsStaysKept, WsFinishOn
<1>5. CASE q.left # {}
 <2>1. PICK e \in q.left, pc \in {"repair", "archive"} :
          WsGoes(h, [q EXCEPT !.left = @ \ {e}, !.pid = e.pid, !.company = e.company, !.count = e.count, !.pc = pc])
  BY <1>1, <1>5 DEF Work!CleanNext, Work!Goto, WsGoes
 <2>2. PICK left : left = q.left \ {e} OBVIOUS
 <2>3. PICK r : r = [q EXCEPT !.left = left, !.pid = e.pid, !.company = e.company, !.count = e.count, !.pc = pc]
  OBVIOUS
 <2>4. r.left = left /\ r.pid = e.pid /\ r.company = e.company /\ r.count = e.count /\ r.pc = pc
  BY <1>2, <2>3 DEF Work!Requests
 <2>5. \A f \in q.left : parts[f.company].id = f.pid /\ parts[f.company].count = f.count
  BY <1>1, <1>2 DEF WsAloneAt, WsPlan
 <2>6. WsPlan(r, parts, slots)
  BY <2>1, <2>2, <2>4, <2>5 DEF WsPlan, WsCounts, WsReconciles
 <2>7. WsGoes(h, r) BY <2>1, <2>2, <2>3
 <2>8. QED BY <1>1, <1>2, <1>3, <2>6, <2>7, WsLookOn
<1>6. QED BY <1>4, <1>5


LEMMA WsLastNumbers ==
  ASSUME WsShape, NEW own \in SUBSET SlotIds
  PROVE  /\ WsLast(own) = {} => own = {}
         /\ WsLast(own) # {} => \E u \in own : WsLastNumber(own) = slots[u].n /\ \A i \in own : slots[i].n <= slots[u].n
<1>1. ASSUME WsLast(own) = {} PROVE own = {} BY <1>1, WsHighest DEF WsLast
<1>2. ASSUME WsLast(own) # {}
      PROVE  \E u \in own : WsLastNumber(own) = slots[u].n /\ \A i \in own : slots[i].n <= slots[u].n
 <2>1. PICK u : u = CHOOSE i \in WsLast(own) : TRUE OBVIOUS
 <2>2. u \in WsLast(own) BY <1>2, <2>1
 <2>3. WsLastNumber(own) = slots[u].n BY <1>2, <2>1 DEF WsLastNumber
 <2>4. QED BY <2>2, <2>3 DEF WsLast
<1>3. QED BY <1>1, <1>2

\* What assignRegistrationToSlot reads.
WsSeatRead(q, r) ==
  /\ parts[q.company] # Work!NoPart /\ (\A s \in SlotIds : slots[s].reg # q.reg)
  /\ r.pc = "assignWrite" /\ r.pid = parts[q.company].id /\ r.company = q.company /\ r.reg = q.reg /\ r.left = q.left
  /\ r.held = {s \in WsOpen(r.pid) : \A t \in WsOpen(r.pid) : slots[s].n <= slots[t].n}
  /\ r.count = (IF WsLast(Work!SlotsOf(r.pid)) = {} THEN 1 ELSE WsLastNumber(Work!SlotsOf(r.pid)) + 1)

LEMMA WsSeatReads ==
  ASSUME WsShape, NEW h \in Handlers, NEW q, q = reqs[h], Work!AssignRead(h)
  PROVE  /\ q.pc = "assign" /\ parts' = parts /\ slots' = slots /\ refused' = refused
         /\ Work!Finish(h) \/ \E r : WsGoes(h, r) /\ WsSeatRead(q, r)
<1>1. q.pc = "assign" /\ q \in Work!Requests /\ parts' = parts /\ slots' = slots /\ refused' = refused
 BY WsTypes DEF Work!AssignRead, Work!At
<1>2. PICK pid : pid = parts[q.company].id OBVIOUS
<1>3. PICK own : own = Work!SlotsOf(pid) OBVIOUS
<1>4. PICK open : open = {s \in own : slots[s].reg = None} OBVIOUS
<1>5. PICK last : last = {s \in own : \A t \in own : slots[t].n <= slots[s].n}
 OBVIOUS
<1>6. PICK held : held = {s \in open : \A t \in open : slots[s].n <= slots[t].n}
 OBVIOUS
<1>7. PICK count : count = (IF last = {} THEN 1 ELSE slots[CHOOSE s \in last : TRUE].n + 1)
 OBVIOUS
<1>8. IF parts[q.company] = Work!NoPart \/ \E s \in SlotIds : slots[s].reg = q.reg
      THEN Work!Finish(h)
      ELSE WsGoes(h, [q EXCEPT !.pc = "assignWrite", !.pid = pid, !.held = held, !.count = count])
 BY <1>2, <1>3, <1>4, <1>5, <1>6, <1>7 DEF Work!AssignRead, Work!Goto, WsGoes
<1>9. open = WsOpen(pid) /\ last = WsLast(own)
 BY <1>3, <1>4, <1>5 DEF WsOpen, WsLast
<1>10. count = (IF WsLast(own) = {} THEN 1 ELSE WsLastNumber(own) + 1)
 BY <1>7, <1>9 DEF WsLastNumber
<1>11. PICK r : r = [q EXCEPT !.pc = "assignWrite", !.pid = pid, !.held = held, !.count = count]
 OBVIOUS
<1>12. /\ r.pc = "assignWrite" /\ r.pid = pid /\ r.held = held /\ r.count = count
       /\ r.company = q.company /\ r.reg = q.reg /\ r.left = q.left
 BY <1>1, <1>11 DEF Work!Requests
<1>13. CASE parts[q.company] = Work!NoPart \/ \E s \in SlotIds : slots[s].reg = q.reg
 BY <1>1, <1>8, <1>13
<1>14. CASE ~(parts[q.company] = Work!NoPart \/ \E s \in SlotIds : slots[s].reg = q.reg)
 <2>1. WsGoes(h, r) BY <1>8, <1>11, <1>14
 <2>2. WsSeatRead(q, r)
  BY <1>2, <1>3, <1>6, <1>9, <1>10, <1>12, <1>14 DEF WsSeatRead
 <2>3. QED BY <1>1, <2>1, <2>2
<1>15. QED BY <1>13, <1>14

LEMMA WsAssignReadAlone ==
  ASSUME WsShape, NEW h \in Handlers, WsAloneAt(reqs[h], parts, slots, refused), Work!AssignRead(h)
  PROVE  WsAloneOn(h)
<1>1. PICK q : q = reqs[h] OBVIOUS
<1>2. q.pc = "assign" /\ parts' = parts /\ slots' = slots /\ refused' = refused
 BY <1>1, WsSeatReads
<1>3. ~WsCounts(q) /\ q.company \in Companies
 BY <1>1, <1>2, WsTypes DEF WsCounts, WsReconciles, WsAsks
<1>4. CASE Work!Finish(h) BY <1>1, <1>2, <1>3, <1>4, WsStaysKept, WsFinishOn
<1>5. ASSUME NEW r, WsGoes(h, r), WsSeatRead(q, r) PROVE WsAloneOn(h)
 <2>1. r.pid = parts[q.company].id /\ r.pid # 0
  BY <1>3, <1>5, WsTypes DEF WsSeatRead
 <2>2. PICK k \in Nat : WsNumbered(slots, r.pid, k)
  BY <1>1, <1>3, <2>1 DEF WsAloneAt, WsGapless
 <2>3. PICK own : own = Work!SlotsOf(r.pid) OBVIOUS
 <2>4. own = {i \in SlotIds : slots[i].pid = r.pid}
  BY <2>3 DEF Work!SlotsOf
 <2>5. r.count = k + 1
  <3>1. r.count = (IF WsLast(own) = {} THEN 1 ELSE WsLastNumber(own) + 1)
   BY <1>5, <2>3 DEF WsSeatRead
  <3>2. CASE WsLast(own) = {}
   <4>1. own = {} BY <2>4, <3>2, WsLastNumbers
   <4>2. k = 0
    <5>1. ASSUME k > 0 PROVE FALSE
     <6>1. k \in 1 .. k BY <5>1
     <6>2. QED BY <2>2, <2>4, <4>1, <6>1 DEF WsNumbered
    <5>2. QED BY <5>1
   <4>3. QED BY <3>1, <3>2, <4>2
  <3>3. CASE WsLast(own) # {}
   <4>1. PICK u \in own : WsLastNumber(own) = slots[u].n /\ \A i \in own : slots[i].n <= slots[u].n
    BY <2>4, <3>3, WsLastNumbers
   <4>2. slots[u].n \in 1 .. k BY <2>2, <2>4, <4>1 DEF WsNumbered
   <4>3. k \in 1 .. k BY <4>2
   <4>4. PICK i \in SlotIds : slots[i].pid = r.pid /\ slots[i].n = k
    BY <2>2, <4>3 DEF WsNumbered
   <4>5. k <= slots[u].n BY <2>4, <4>1, <4>4
   <4>6. WsLastNumber(own) = k BY <4>1, <4>2, <4>5
   <4>7. QED BY <3>1, <3>3, <4>6
  <3>4. QED BY <3>2, <3>3
 <2>6. r.count - 1 = k BY <2>5
 <2>7. \A e \in q.left : parts[e.company].id = e.pid /\ parts[e.company].count = e.count
  BY <1>1, <1>2 DEF WsAloneAt, WsPlan
 <2>8. WsNumbered(slots, r.pid, r.count - 1) BY <2>2, <2>6
 <2>9. WsPlan(r, parts, slots)
  BY <1>5, <2>1, <2>7, <2>8 DEF WsPlan, WsCounts, WsReconciles, WsSeatRead
 <2>10. QED BY <1>1, <1>2, <1>3, <1>5, <2>9, WsLookOn
<1>6. QED BY <1>1, <1>4, <1>5, WsSeatReads

LEMMA WsLooksAlone ==
  ASSUME WsShape, NEW h \in Handlers, WsAloneAt(reqs[h], parts, slots, refused), WsLooks(h)
  PROVE  WsAloneOn(h)
BY WsReadsAlone, WsCreateReadAlone, WsRecReadAlone, WsSurvivorsAlone, WsSyncReadAlone, WsLedgerAlone, WsCleanReadAlone,
   WsCleanNextAlone, WsAssignReadAlone, Zenon DEF WsLooks


\* Ids and counts of the participants stay, and the slots' owners and numbers.
WsRowsStay == \A c \in Companies : parts'[c].id = parts[c].id /\ parts'[c].count = parts[c].count

LEMMA WsTouchedKept ==
  ASSUME WsRowsStay, NEW t, t = slots', WsTouched(t) \/ t = slots, refused' = refused
  PROVE  WsEvenKept
<1>1. \A i \in SlotIds : t[i].pid = slots[i].pid /\ t[i].n = slots[i].n
 BY DEF WsTouched
<1>2. PICK no2 : no2 = refused' OBVIOUS
<1>3. PICK p2 : p2 = parts' OBVIOUS
<1>4. ASSUME NEW c \in Companies PROVE WsKept(parts, slots, refused, p2, t, no2, c)
 BY <1>1, <1>2, <1>3 DEF WsKept, WsSame, WsRowsStay
<1>5. QED BY <1>2, <1>3, <1>4 DEF WsEvenKept

LEMMA WsStandsAlone ==
  ASSUME WsShape, NEW h \in Handlers, WsAloneAt(reqs[h], parts, slots, refused), WsEvenKept, reqs' = reqs, reqs[h].pc = "idle"
  PROVE  WsAloneOn(h)
<1>1. PICK r : r = reqs[h] OBVIOUS
<1>2. WsGoes(h, r) BY <1>1 DEF WsGoes, WsShape
<1>3. WsPlain(r) /\ ~WsCounts(r)
 BY <1>1 DEF WsPlain, WsCounts, WsReconciles
<1>4. QED BY <1>1, <1>2, <1>3, WsPlainOn

LEMMA WsDeskAlone ==
  ASSUME WsShape, NEW h \in Handlers, WsAloneAt(reqs[h], parts, slots, refused),
         \/ \E r \in Regs, paid \in BOOLEAN : Work!Register(h, r, paid)
         \/ \E r \in Regs : Work!DeleteRegistration(h, r)
         \/ \E r \in Regs, c \in Companies \cup {None}, paid \in BOOLEAN : Work!PayRegistration(h, r, c, paid)
         \/ Work!SyncMark(h) \/ Work!SyncLink(h) \/ Work!SlotWrite(h)
  PROVE  WsAloneOn(h)
<1>1. ASSUME NEW r \in Regs, NEW paid \in BOOLEAN, Work!Register(h, r, paid) PROVE WsAloneOn(h)
 <2>1. reqs[h].pc = "idle" BY <1>1 DEF Work!Register, Work!Calls
 <2>2. PICK x : WsRegistered(h, r, x) BY <1>1, WsRegisterDoes
 <2>3. WsRowsStay /\ slots' = slots /\ refused' = refused /\ reqs' = reqs
  BY <2>2 DEF WsRegistered, WsPartsStay, WsRowsStay
 <2>4. QED BY <2>1, <2>3, WsTouchedKept, WsStandsAlone
<1>2. ASSUME NEW r \in Regs, Work!DeleteRegistration(h, r) PROVE WsAloneOn(h)
 <2>1. reqs[h].pc = "idle" BY <1>2 DEF Work!DeleteRegistration, Work!Calls
 <2>2. PICK t : WsUnsigned(h, r, t) BY <1>2, WsUnregisterDoes
 <2>3. WsRowsStay /\ t = slots' /\ WsTouched(t) /\ refused' = refused /\ reqs' = reqs
  BY <2>2 DEF WsUnsigned, WsPartsStay, WsRowsStay
 <2>4. QED BY <2>1, <2>3, WsTouchedKept, WsStandsAlone
<1>3. ASSUME NEW r \in Regs, NEW c \in Companies \cup {None}, NEW paid \in BOOLEAN, Work!PayRegistration(h, r, c, paid)
      PROVE  WsAloneOn(h)
 <2>1. reqs[h].pc = "idle" BY <1>3 DEF Work!PayRegistration, Work!Calls
 <2>2. PICK x : WsPaidReg(h, r, x, c) BY <1>3, WsPayRegDoes
 <2>3. WsRowsStay /\ slots' = slots /\ refused' = refused
  BY <2>2 DEF WsPaidReg, WsPartsStay, WsRowsStay
 <2>4. WsEvenKept BY <2>3, WsTouchedKept
 <2>5. CASE reqs' = reqs BY <2>1, <2>4, <2>5, WsStandsAlone
 <2>6. CASE WsGoes(h, [Work!Idle EXCEPT !.pc = "assign", !.reg = r, !.company = c])
  <3>1. PICK y : y = [Work!Idle EXCEPT !.pc = "assign", !.reg = r, !.company = c]
   OBVIOUS
  <3>2. y.pc = "assign" /\ y.left = {} BY <3>1 DEF Work!Idle
  <3>3. WsPlain(y) /\ ~WsCounts(reqs[h])
   BY <2>1, <3>2 DEF WsPlain, WsCounts, WsReconciles
  <3>4. QED BY <2>4, <2>6, <3>1, <3>2, <3>3, WsPlainOn
 <2>7. QED BY <2>2, <2>5, <2>6 DEF WsPaidReg
<1>4. CASE Work!SyncMark(h)
 <2>1. PICK q : WsMarked(h, q) BY <1>4, WsMarkDoes
 <2>2. q = reqs[h] /\ q \in Work!Requests /\ q.pc = "syncMark"
  BY <2>1, WsTypes DEF WsMarked
 <2>3. WsRowsStay /\ slots' = slots /\ refused' = refused
  BY <2>1 DEF WsMarked, WsPartsStay, WsRowsStay
 <2>4. WsEvenKept BY <2>3, WsTouchedKept
 <2>5. PICK y : y = [q EXCEPT !.pc = "syncRead"] OBVIOUS
 <2>6. y.pc = "syncRead" /\ y.left = q.left /\ WsGoes(h, y)
  BY <2>1, <2>2, <2>5 DEF Work!Requests, WsMarked
 <2>7. WsPlain(y) /\ ~WsCounts(q)
  BY <2>2, <2>6 DEF WsPlain, WsCounts, WsReconciles
 <2>8. QED BY <2>2, <2>3, <2>4, <2>6, <2>7, WsOnAlone DEF WsRowsStay
<1>5. CASE Work!SyncLink(h)
 <2>1. reqs[h].pc = "syncLink" /\ ~WsCounts(reqs[h])
  BY <1>5 DEF Work!SyncLink, Work!At, WsCounts, WsReconciles
 <2>2. CASE WsTablesStay /\ refused' = refused /\ Work!Finish(h)
  <3>1. WsRowsStay /\ slots' = slots BY <2>2 DEF WsTablesStay, WsRowsStay
  <3>2. QED BY <2>1, <2>2, <3>1, WsTouchedKept, WsFinishOn
 <2>3. ASSUME NEW q, NEW a, NEW t, WsSynced(h, q, a, t) PROVE WsAloneOn(h)
  <3>1. WsRowsStay /\ t = slots' /\ WsTouched(t) /\ refused' = refused
   BY <2>3 DEF WsSynced, WsRowsStay
  <3>2. WsEvenKept BY <3>1, WsTouchedKept
  <3>3. CASE Work!Finish(h) BY <2>1, <3>2, <3>3, WsFinishOn
  <3>4. CASE WsGoes(h, [q EXCEPT !.pairs = q.pairs \ {a}])
   <4>1. PICK y : y = [q EXCEPT !.pairs = q.pairs \ {a}] OBVIOUS
   <4>2. q = reqs[h] /\ q \in Work!Requests BY <2>3, WsTypes DEF WsSynced
   <4>3. y.pc = "syncLink" /\ y.left = q.left
    BY <2>1, <4>1, <4>2 DEF Work!Requests
   <4>4. WsPlain(y) BY <4>3 DEF WsPlain, WsCounts, WsReconciles
   <4>5. QED BY <2>1, <3>1, <3>2, <3>4, <4>1, <4>2, <4>3, <4>4, WsOnAlone DEF WsRowsStay
  <3>5. QED BY <2>3, <3>3, <3>4 DEF WsSynced
 <2>4. QED BY <1>5, <2>2, <2>3, WsSyncDoes
<1>6. CASE Work!SlotWrite(h)
 <2>1. PICK q, t : WsNamed(h, q, t) BY <1>6, WsNameDoes
 <2>2. WsRowsStay /\ t = slots' /\ WsTouched(t) /\ refused' = refused /\ Work!Finish(h)
  BY <2>1 DEF WsNamed, WsRowsStay
 <2>3. ~WsCounts(reqs[h])
  BY <1>6 DEF Work!SlotWrite, Work!At, WsCounts, WsReconciles
 <2>4. QED BY <2>2, <2>3, WsTouchedKept, WsFinishOn
<1>7. QED BY <1>1, <1>2, <1>3, <1>4, <1>5, <1>6


LEMMA WsReconcileFields ==
  ASSUME NEW pid, NEW c, NEW n, NEW rm, NEW then, NEW r, r = Work!Reconcile(pid, c, n, rm, then)
  PROVE  r.pc = "recRead" /\ r.pid = pid /\ r.company = c /\ r.count = n /\ r.left = {} /\ r.then = then /\ r.rm = rm
BY DEF Work!Reconcile, Work!Idle

\* One participant is written, its numbers have no gap, and it is about to be reconciled or has its count.
LEMMA WsWrittenAlone ==
  ASSUME WsShape, NEW h \in Handlers, WsAloneAt(reqs[h], parts, slots, refused), ~WsCounts(reqs[h]),
         NEW c, NEW x, WsWritten(c, x), paidOnce \subseteq paidOnce', slots' = slots, refused' = refused,
         \E k \in Nat : WsNumbered(slots, x.id, k),
         NEW r, WsGoes(h, r), WsPlan(r, parts', slots'),
         (WsCounts(r) /\ r.company = c) \/ WsCounted(parts', slots, refused, c)
  PROVE  WsAloneOn(h)
<1>1. PICK q : q = reqs[h] OBVIOUS
<1>2. PICK p2 : p2 = parts' OBVIOUS
<1>3. p2[c] = x /\ \A d \in Companies : d # c => p2[d] = parts[d]
 BY <1>2, WsWrittenShape
<1>4. \A d \in Companies : d # c => WsKept(parts, slots, refused, p2, slots, refused, d)
 BY <1>3 DEF WsKept, WsSame
<1>5. WsGapless(parts, slots) /\ WsTallied(parts, slots, refused, q) /\ ~WsCounts(q)
 BY <1>1 DEF WsAloneAt
<1>6. \E k \in Nat : WsNumbered(slots, p2[c].id, k) BY <1>3
<1>7. (WsCounts(r) /\ r.company = c) \/ WsCounted(p2, slots, refused, c)
 BY <1>2
<1>8. WsGapless(p2, slots) /\ WsTallied(p2, slots, refused, r)
 BY <1>4, <1>5, <1>6, <1>7, WsCarries
<1>9. QED BY <1>2, <1>8 DEF WsAloneOn, WsAloneAt

LEMMA WsNewNumbers ==
  ASSUME WsShape, NEW pid, pid # 0, \A c \in Companies : parts[c].id # pid
  PROVE  WsNumbered(slots, pid, 0) /\ \A i \in SlotIds : slots[i].pid # pid
<1>1. \A i \in SlotIds : slots[i].pid # pid BY DEF WsShape, WsSlots
<1>2. QED BY <1>1 DEF WsNumbered

\* A flag of a participant is written.
LEMMA WsFlagKept ==
  ASSUME WsShape, NEW c, NEW x, WsWritten(c, x), paidOnce \subseteq paidOnce', x.id = parts[c].id, x.count = parts[c].count,
         slots' = slots, refused' = refused
  PROVE  WsRowsStay /\ WsEvenKept
<1>1. c \in Companies /\ parts'[c] = x /\ \A d \in Companies : d # c => parts'[d] = parts[d]
 BY WsWrittenShape DEF WsWritten
<1>2. WsRowsStay BY <1>1 DEF WsRowsStay
<1>3. QED BY <1>2, WsTouchedKept

LEMMA WsPayAlone ==
  ASSUME WsShape, NEW h \in Handlers, WsAloneAt(reqs[h], parts, slots, refused), Work!PayWrite(h) \/ Work!ImportPay(h)
  PROVE  WsAloneOn(h)
<1>1. ~WsCounts(reqs[h]) /\ reqs[h].pc # "idle" /\ refused' = refused /\ slots' = slots
 BY DEF Work!PayWrite, Work!ImportPay, Work!At, WsCounts, WsReconciles
<1>2. CASE WsTablesStay /\ Work!Finish(h)
 <2>1. WsRowsStay BY <1>2 DEF WsTablesStay, WsRowsStay
 <2>2. QED BY <1>1, <1>2, <2>1, WsTouchedKept, WsFinishOn
<1>3. ASSUME NEW q, NEW c, NEW id, NEW owner, WsPaidRow(h, q, c, id, owner) PROVE WsAloneOn(h)
 <2>1. Work!Finish(h) /\ c \in Companies /\ WsRecorded(id, owner, q.pay, c, q.body)
  BY <1>3 DEF WsPaidRow
 <2>2. paidOnce \subseteq paidOnce' BY <2>1 DEF WsRecorded
 <2>3. CASE parts' = parts
  <3>1. WsRowsStay BY <2>3 DEF WsRowsStay
  <3>2. QED BY <1>1, <2>1, <3>1, WsTouchedKept, WsFinishOn
 <2>4. ASSUME WsWritten(c, [parts[c] EXCEPT !.confirmed = Work!Eligible(q.body)]) PROVE WsAloneOn(h)
  <3>1. PICK flag : flag = Work!Eligible(q.body) OBVIOUS
  <3>2. PICK x : x = [parts[c] EXCEPT !.confirmed = flag] OBVIOUS
  <3>3. flag \in BOOLEAN /\ parts[c] \in Work!Parts
   BY <2>1, <3>1, WsEligible, WsTypes
  <3>4. x.id = parts[c].id /\ x.count = parts[c].count
   BY <3>2, <3>3, WsFlagField
  <3>5. WsWritten(c, x) BY <2>4, <3>1, <3>2
  <3>6. WsEvenKept BY <1>1, <2>2, <3>4, <3>5, WsFlagKept
  <3>7. QED BY <1>1, <2>1, <3>6, WsFinishOn
 <2>5. QED BY <1>3, <2>3, <2>4 DEF WsPaidRow
<1>4. ASSUME NEW q, NEW c, NEW id, NEW owner, WsImported(h, q, c, id, owner) PROVE WsAloneOn(h)
 <2>1. q = reqs[h] /\ parts' = parts /\ WsGoes(h, [q EXCEPT !.pc = "importFlag", !.pay = 0]) /\ q \in Work!Requests
  BY <1>4, WsTypes DEF WsImported
 <2>2. WsRowsStay BY <2>1 DEF WsRowsStay
 <2>3. PICK y : y = [q EXCEPT !.pc = "importFlag", !.pay = 0] OBVIOUS
 <2>4. y.pc = "importFlag" /\ y.left = q.left
  BY <2>1, <2>3 DEF Work!Requests
 <2>5. WsPlain(y) BY <2>4 DEF WsPlain, WsCounts, WsReconciles
 <2>6. WsEvenKept BY <1>1, <2>2, WsTouchedKept
 <2>7. QED BY <1>1, <2>1, <2>3, <2>4, <2>5, <2>6, WsOnAlone
<1>5. QED BY <1>2, <1>3, <1>4, WsPayDoes, WsImportDoes

LEMMA WsConfirmAlone ==
  ASSUME WsShape, NEW h \in Handlers, WsAloneAt(reqs[h], parts, slots, refused), Work!ConfirmWrite(h)
  PROVE  WsAloneOn(h)
<1>1. ~WsCounts(reqs[h]) /\ reqs[h].pc # "idle" /\ refused' = refused /\ slots' = slots
 BY DEF Work!ConfirmWrite, Work!At, WsCounts, WsReconciles
<1>2. CASE WsTablesStay /\ Work!Finish(h)
 <2>1. WsRowsStay BY <1>2 DEF WsTablesStay, WsRowsStay
 <2>2. QED BY <1>1, <1>2, <2>1, WsTouchedKept, WsFinishOn
<1>3. ASSUME NEW q, NEW c, NEW pid, NEW id, WsConfirmed(h, q, c, pid, id) PROVE WsAloneOn(h)
 <2>1. PICK flag : flag = Work!Eligible(q.body) OBVIOUS
 <2>2. PICK then : then = (IF flag THEN "syncMark" ELSE "done") OBVIOUS
 <2>3. PICK x : x = [id |-> pid, confirmed |-> flag, count |-> q.count, active |-> TRUE]
  OBVIOUS
 <2>4. PICK r : r = Work!Reconcile(pid, c, q.count, q.rm, then) OBVIOUS
 <2>5. WsWritten(c, x) /\ WsGoes(h, r) /\ WsRecorded(id, c, newest[c], c, q.body)
  BY <1>3, <2>1, <2>2, <2>3, <2>4 DEF WsConfirmed
 <2>6. paidOnce \subseteq paidOnce' /\ c \in Companies /\ x.id = pid /\ x.count = q.count /\ pid # 0
  BY <2>3, <2>5 DEF WsRecorded, WsWritten
 <2>7. r.pc = "recRead" /\ r.pid = pid /\ r.company = c /\ r.count = q.count /\ r.left = {}
  BY <2>4, WsReconcileFields
 <2>8. \E k \in Nat : WsNumbered(slots, x.id, k)
  <3>1. CASE pid = parts[c].id BY <2>6, <3>1 DEF WsAloneAt, WsGapless
  <3>2. CASE pid # parts[c].id
   <4>1. \A d \in Companies : parts[d].id # pid
    BY <2>5, <2>6, <3>2 DEF WsWritten
   <4>2. QED BY <2>6, <4>1, WsNewNumbers
  <3>3. QED BY <3>1, <3>2
 <2>9. parts'[c] = x BY <2>5, <2>6, WsWrittenShape
 <2>10. WsPlan(r, parts', slots')
  BY <2>6, <2>7, <2>9 DEF WsPlan, WsCounts, WsReconciles
 <2>11. WsCounts(r) /\ r.company = c BY <2>7 DEF WsCounts, WsReconciles
 <2>12. QED BY <1>1, <2>5, <2>6, <2>8, <2>10, <2>11, WsWrittenAlone
<1>4. QED BY <1>2, <1>3, WsConfirmDoes

LEMMA WsCreateAlone ==
  ASSUME WsShape, NEW h \in Handlers, WsAloneAt(reqs[h], parts, slots, refused), Work!CreateWrite(h)
  PROVE  WsAloneOn(h)
<1>1. ~WsCounts(reqs[h]) /\ reqs[h].pc # "idle" /\ refused' = refused /\ slots' = slots
 BY DEF Work!CreateWrite, Work!At, WsCounts, WsReconciles
<1>2. CASE WsTablesStay /\ Work!Finish(h)
 <2>1. WsRowsStay BY <1>2 DEF WsTablesStay, WsRowsStay
 <2>2. QED BY <1>1, <1>2, <2>1, WsTouchedKept, WsFinishOn
<1>3. ASSUME NEW q, NEW c, NEW pid, WsCreated(h, q, c, pid) PROVE WsAloneOn(h)
 <2>1. PICK x : x = [id |-> pid, confirmed |-> TRUE, count |-> q.count, active |-> TRUE]
  OBVIOUS
 <2>2. /\ WsWritten(c, x) /\ q = reqs[h] /\ q.pc = "create" /\ c = q.company /\ parts[c].id = 0 /\ q.count \in Int
       /\ paidOnce' = paidOnce /\ \A d \in Companies : parts[d].id # pid
  BY <1>3, <2>1 DEF WsCreated, WsBooksStay
 <2>3. x.id = pid /\ x.count = q.count /\ pid # 0 /\ c \in Companies
  BY <2>1, <2>2 DEF WsWritten
 <2>4. WsNumbered(slots, x.id, 0) /\ \A i \in SlotIds : slots[i].pid # pid
  BY <2>2, <2>3, WsNewNumbers
 <2>5. q.count >= 0 /\ \A e \in q.left : parts[e.company].id = e.pid /\ parts[e.company].count = e.count
  BY <2>2 DEF WsAloneAt, WsPlan
 <2>6. /\ parts'[c] = x /\ \A d \in Companies : d # c => parts'[d] = parts[d]
  BY <2>2, WsWrittenShape
 <2>7. q \in Work!Requests /\ \A e \in q.left : e.company \in Companies /\ e.pid # 0
  BY <2>2, WsTypes, WsIds DEF Work!Requests, Work!Entries
 <2>8. \A e \in q.left : parts'[e.company].id = e.pid /\ parts'[e.company].count = e.count
  BY <2>2, <2>5, <2>6, <2>7
 <2>9. CASE q.count > 0
  <3>1. PICK r : r = [q EXCEPT !.pc = "createSlots", !.pid = pid] OBVIOUS
  <3>2. WsGoes(h, r) BY <1>3, <2>9, <3>1 DEF WsCreated
  <3>3. r.pc = "createSlots" /\ r.pid = pid /\ r.company = c /\ r.count = q.count /\ r.left = q.left
   BY <2>2, <2>7, <3>1 DEF Work!Requests
  <3>4. WsPlan(r, parts', slots')
   BY <1>1, <2>3, <2>4, <2>5, <2>6, <2>8, <3>3 DEF WsPlan, WsCounts, WsReconciles
  <3>5. WsCounts(r) /\ r.company = c BY <3>3 DEF WsCounts
  <3>6. QED BY <1>1, <2>2, <2>4, <3>2, <3>4, <3>5, WsWrittenAlone
 <2>10. CASE ~(q.count > 0)
  <3>1. WsGoes(h, Work!Idle)
   BY <1>3, <2>10 DEF WsCreated, Work!Finish, Work!Goto, WsGoes
  <3>2. WsPlan(Work!Idle, parts', slots') BY WsIdlePlain, WsPlainPlan
  <3>3. q.count = 0 BY <2>2, <2>5, <2>10
  <3>4. WsCounted(parts', slots, refused, c)
   BY <2>3, <2>4, <2>6, <3>3 DEF WsCounted
  <3>5. QED BY <1>1, <2>2, <2>4, <3>1, <3>2, <3>4, WsWrittenAlone
 <2>11. QED BY <2>9, <2>10
<1>4. QED BY <1>2, <1>3, WsCreateDoes


\* A participant's row is written and its slots have the count or are about to be reconciled.
LEMMA WsRowSetAlone ==
  ASSUME WsShape, NEW h \in Handlers, WsAloneAt(reqs[h], parts, slots, refused), ~WsCounts(reqs[h]),
         NEW q, NEW c, NEW x, WsRowSet(h, q, c, x)
  PROVE  WsAloneOn(h)
<1>1. PICK p2 : p2 = parts' OBVIOUS
<1>2. /\ c \in Companies /\ parts[c].id # 0 /\ x.id = parts[c].id /\ WsWritten(c, x) /\ paidOnce \subseteq paidOnce'
      /\ slots' = slots /\ refused' = refused
 BY DEF WsRowSet, WsOthersStay, WsBooksStay
<1>3. p2[c] = x /\ \A d \in Companies : d # c => p2[d] = parts[d]
 BY <1>1, <1>2, WsWrittenShape
<1>4. \E k \in Nat : WsNumbered(slots, x.id, k)
 BY <1>2 DEF WsAloneAt, WsGapless
<1>5. WsCounted(parts, slots, refused, c) BY <1>2 DEF WsAloneAt, WsTallied
<1>6. ASSUME x.count = parts[c].count PROVE WsCounted(p2, slots, refused, c)
 BY <1>2, <1>3, <1>5, <1>6 DEF WsCounted
<1>7. ASSUME NEW rm, NEW r, r = Work!Reconcile(x.id, c, x.count, rm, "done"), WsGoes(h, r) PROVE WsAloneOn(h)
 <2>1. r.pc = "recRead" /\ r.pid = x.id /\ r.company = c /\ r.count = x.count /\ r.left = {}
  BY <1>7, WsReconcileFields
 <2>2. WsPlan(r, p2, slots)
  BY <1>3, <2>1 DEF WsPlan, WsCounts, WsReconciles
 <2>3. WsCounts(r) /\ r.company = c BY <2>1 DEF WsCounts, WsReconciles
 <2>4. QED BY <1>1, <1>2, <1>4, <1>7, <2>2, <2>3, WsWrittenAlone
<1>8. ASSUME Work!Finish(h), x.count = parts[c].count PROVE WsAloneOn(h)
 <2>1. WsGoes(h, Work!Idle) BY <1>8 DEF Work!Finish, Work!Goto, WsGoes
 <2>2. WsPlan(Work!Idle, p2, slots) BY WsIdlePlain, WsPlainPlan
 <2>3. WsCounted(p2, slots, refused, c) BY <1>6, <1>8
 <2>4. QED BY <1>1, <1>2, <1>4, <2>1, <2>2, <2>3, WsWrittenAlone
<1>9. ASSUME q = reqs[h], q.pc \in {"repair", "archive"}, c = q.company, q.pid = x.id, x.count = parts[c].count,
             NEW pc \in {"recRead", "cleanNext"}, NEW r, r = [q EXCEPT !.pc = pc], WsGoes(h, r)
      PROVE  WsAloneOn(h)
 <2>1. q \in Work!Requests /\ \A e \in q.left : e.company \in Companies
  BY <1>9, WsTypes DEF Work!Requests, Work!Entries
 <2>2. r.pc = pc /\ r.pid = q.pid /\ r.company = c /\ r.count = q.count /\ r.left = q.left
  BY <1>9, <2>1 DEF Work!Requests
 <2>3. parts[c].count = q.count /\ \A e \in q.left : parts[e.company].id = e.pid /\ parts[e.company].count = e.count
  BY <1>9 DEF WsAloneAt, WsPlan
 <2>4. \A e \in q.left : p2[e.company].id = e.pid /\ p2[e.company].count = e.count
  <3> TAKE e \in q.left
  <3>1. CASE e.company = c BY <1>2, <1>3, <1>9, <2>3, <3>1
  <3>2. CASE e.company # c BY <1>3, <2>1, <2>3, <3>2
  <3>3. QED BY <3>1, <3>2
 <2>5. CASE pc = "recRead"
  <3>1. WsPlan(r, p2, slots)
   BY <1>3, <1>9, <2>2, <2>3, <2>4, <2>5 DEF WsPlan, WsCounts, WsReconciles
  <3>2. WsCounts(r) /\ r.company = c
   BY <2>2, <2>5 DEF WsCounts, WsReconciles
  <3>3. QED BY <1>1, <1>2, <1>4, <1>9, <3>1, <3>2, WsWrittenAlone
 <2>6. CASE pc = "cleanNext"
  <3>1. WsPlain(r) BY <2>2, <2>6 DEF WsPlain, WsCounts, WsReconciles
  <3>2. WsPlan(r, p2, slots) BY <2>2, <2>4, <3>1, WsPlainPlan
  <3>3. WsCounted(p2, slots, refused, c) BY <1>6, <1>9
  <3>4. QED BY <1>1, <1>2, <1>4, <1>9, <3>2, <3>3, WsWrittenAlone
 <2>7. QED BY <2>5, <2>6
<1>10. QED BY <1>7, <1>8, <1>9 DEF WsRowSet

LEMMA WsRowsAlone ==
  ASSUME WsShape, NEW h \in Handlers, WsAloneAt(reqs[h], parts, slots, refused),
         \/ \E c \in Companies, n \in Counts, rm \in BOOLEAN : Work!CountWrite(h, c, n, rm)
         \/ Work!ImportFlag(h) \/ Work!CleanWrite(h)
  PROVE  WsAloneOn(h)
<1>1. ~WsCounts(reqs[h])
 BY DEF Work!CountWrite, Work!ImportFlag, Work!CleanWrite, Work!At, Work!Calls, WsCounts, WsReconciles
<1>2. ASSUME WsTablesStay, refused' = refused, Work!Finish(h) PROVE WsAloneOn(h)
 BY <1>1, <1>2, WsStaysKept, WsFinishOn DEF WsTablesStay
<1>3. \/ WsTablesStay /\ refused' = refused /\ Work!Finish(h)
      \/ \E q, c, x : WsRowSet(h, q, c, x)
 BY WsFlagDoes, WsCountDoes, WsCleanDoes
<1>4. QED BY <1>1, <1>2, <1>3, WsRowSetAlone


\* New slots behind the last one.
LEMMA WsGrownNumbers ==
  ASSUME WsShape, NEW pid, pid # 0, NEW k, WsNumbered(slots, pid, k), NEW m \in Nat, k <= m,
         NEW ns, \A n : n \in ns <=> (n \in Nat /\ n > k /\ n <= m), NEW reg, NEW t, WsAdds(t, pid, ns, reg)
  PROVE  WsNumbered(t, pid, m) /\ \A d : d # 0 /\ d # pid => WsSame(slots, t, d)
<1>1. k \in Nat BY DEF WsNumbered
<1>2. \A i \in SlotIds : slots[i].pid # 0 => t[i] = slots[i]
 BY DEF WsAdds, Work!NoSlot
<1>3. \A i \in SlotIds : t[i] = slots[i] \/ (slots[i].pid = 0 /\ t[i].pid = pid /\ t[i].n \in ns)
 BY DEF WsAdds, Work!NoSlot
<1>4. \A i \in SlotIds : t[i].pid = pid => t[i].n \in 1 .. m
 <2> SUFFICES ASSUME NEW i \in SlotIds, t[i].pid = pid PROVE t[i].n \in 1 .. m
  OBVIOUS
 <2>1. CASE t[i] = slots[i]
  <3>1. slots[i].n \in 1 .. k BY <2>1 DEF WsNumbered
  <3>2. QED BY <1>1, <2>1, <3>1
 <2>2. CASE t[i].n \in ns BY <1>1, <2>2
 <2>3. QED BY <1>3, <2>1, <2>2
<1>5. \A n \in 1 .. m : \E i \in SlotIds : t[i].pid = pid /\ t[i].n = n
 <2> SUFFICES ASSUME NEW n \in 1 .. m PROVE \E i \in SlotIds : t[i].pid = pid /\ t[i].n = n
  OBVIOUS
 <2>1. CASE n <= k
  <3>1. n \in 1 .. k BY <1>1, <2>1
  <3>2. PICK i \in SlotIds : slots[i].pid = pid /\ slots[i].n = n
   BY <3>1 DEF WsNumbered
  <3>3. QED BY <1>2, <3>2
 <2>2. CASE n > k
  <3>1. n \in ns BY <1>1, <2>2
  <3>2. QED BY <3>1 DEF WsAdds
 <2>3. QED BY <1>1, <2>1, <2>2
<1>6. ASSUME NEW d, d # 0, d # pid PROVE WsSame(slots, t, d)
 BY <1>3, <1>6 DEF WsSame
<1>7. QED BY <1>4, <1>5, <1>6 DEF WsNumbered

\* Slots of one participant only change.
LEMMA WsOneChanges ==
  ASSUME WsShape, NEW c \in Companies, parts' = parts, refused \subseteq refused' \cup {c},
         \A d : d # 0 /\ d # parts[c].id => WsSame(slots, slots', d), parts[c].id # 0
  PROVE  \A d \in Companies : d # c => parts'[d].id = 0 \/ WsKept(parts, slots, refused, parts', slots', refused', d)
<1> SUFFICES ASSUME NEW d \in Companies, d # c, parts[d].id # 0
    PROVE WsKept(parts, slots, refused, parts', slots', refused', d)
 OBVIOUS
<1>1. parts[d].id # parts[c].id BY DEF WsShape, WsParts
<1>2. WsSame(slots, slots', parts[d].id) BY <1>1
<1>3. QED BY <1>2 DEF WsKept

LEMMA WsDropAlone ==
  ASSUME WsShape, NEW h \in Handlers, WsAloneAt(reqs[h], parts, slots, refused), Work!RecDrop(h)
  PROVE  WsAloneOn(h)
<1>1. PICK q : WsDropped(h, q) BY WsDropDoes
<1>2. PICK r : r = [q EXCEPT !.pc = "recSurvivors", !.held = {}] OBVIOUS
<1>3. PICK t : t = slots' OBVIOUS
<1>4. /\ q = reqs[h] /\ q.pc = "recDrop" /\ parts' = parts /\ refused' = refused /\ WsGoes(h, r)
      /\ t = [i \in SlotIds |-> IF i \in q.held THEN Work!NoSlot ELSE slots[i]]
 BY <1>1, <1>2, <1>3 DEF WsDropped
<1>5. q \in Work!Requests /\ WsCounts(q) /\ WsAloneAt(q, parts, slots, refused)
 BY <1>4, WsTypes DEF WsCounts, WsReconciles
<1>6. r.pc = "recSurvivors" /\ r.pid = q.pid /\ r.company = q.company /\ r.count = q.count /\ r.left = q.left
 BY <1>2, <1>5 DEF Work!Requests
<1>7. /\ q.company \in Companies /\ q.pid # 0 /\ parts[q.company].id = q.pid /\ parts[q.company].count = q.count
      /\ q.count \in Int /\ \E k \in Nat : WsNumbered(slots, q.pid, k)
 BY <1>4, <1>5, WsItsNumbers
<1>8. /\ q.held = {i \in SlotIds : slots[i].pid = q.pid /\ slots[i].n > q.count} /\ q.count >= 0
      /\ \A e \in q.left : parts[e.company].id = e.pid /\ parts[e.company].count = e.count
 BY <1>4, <1>5 DEF WsAloneAt, WsPlan
<1>9. PICK k \in Nat : WsNumbered(slots, q.pid, k) BY <1>7
<1>10. PICK m : m = (IF q.count < k THEN q.count ELSE k) OBVIOUS
<1>11. m \in Nat /\ m <= k /\ m <= q.count BY <1>7, <1>8, <1>10
<1>12. \A i \in SlotIds : /\ i \in q.held => t[i].pid = 0 /\ slots[i].pid = q.pid
                          /\ i \notin q.held => t[i] = slots[i]
 BY <1>4, <1>8 DEF Work!NoSlot
<1>13. \A i \in SlotIds : t[i].pid = q.pid => t[i].n \in 1 .. m /\ t[i].n <= q.count
 <2> SUFFICES ASSUME NEW i \in SlotIds, t[i].pid = q.pid PROVE t[i].n \in 1 .. m /\ t[i].n <= q.count
  OBVIOUS
 <2>1. i \notin q.held /\ t[i] = slots[i] BY <1>7, <1>12
 <2>2. slots[i].n \in 1 .. k BY <1>9, <2>1 DEF WsNumbered
 <2>3. ~(slots[i].n > q.count) BY <1>8, <2>1
 <2>4. QED BY <1>7, <1>10, <2>1, <2>2, <2>3
<1>14. \A n \in 1 .. m : \E i \in SlotIds : t[i].pid = q.pid /\ t[i].n = n
 <2> SUFFICES ASSUME NEW n \in 1 .. m PROVE \E i \in SlotIds : t[i].pid = q.pid /\ t[i].n = n
  OBVIOUS
 <2>1. n \in 1 .. k /\ n <= q.count BY <1>7, <1>11
 <2>2. PICK i \in SlotIds : slots[i].pid = q.pid /\ slots[i].n = n
  BY <1>9, <2>1 DEF WsNumbered
 <2>3. i \notin q.held BY <1>7, <1>8, <2>1, <2>2
 <2>4. QED BY <1>12, <2>2, <2>3
<1>15. WsNumbered(t, q.pid, m) BY <1>11, <1>13, <1>14 DEF WsNumbered
<1>16. \A d : d # 0 /\ d # q.pid => WsSame(slots, t, d)
 BY <1>12 DEF WsSame
<1>17. \A d \in Companies : d # q.company => parts'[d].id = 0 \/ WsKept(parts, slots, refused, parts', slots', refused', d)
 BY <1>3, <1>4, <1>7, <1>16, WsOneChanges
<1>18. WsPlan(r, parts, t)
 BY <1>6, <1>7, <1>8, <1>13 DEF WsPlan, WsCounts, WsReconciles
<1>19. WsCounts(r) /\ r.company = q.company
 BY <1>6 DEF WsCounts, WsReconciles
<1>20. WsGapless(parts, slots) /\ WsTallied(parts, slots, refused, q)
 BY <1>5 DEF WsAloneAt
<1>21. \A d \in Companies : d # q.company => parts[d].id = 0 \/ WsKept(parts, slots, refused, parts, t, refused, d)
 BY <1>3, <1>4, <1>17
<1>22. WsGapless(parts, t) /\ WsTallied(parts, t, refused, r)
 BY <1>7, <1>11, <1>15, <1>19, <1>20, <1>21, WsCarries
<1>23. QED BY <1>3, <1>4, <1>18, <1>22 DEF WsAloneOn, WsAloneAt


LEMMA WsFillAlone ==
  ASSUME WsShape, NEW h \in Handlers, WsAloneAt(reqs[h], parts, slots, refused), Work!RecFill(h)
  PROVE  WsAloneOn(h)
<1>1. PICK q, ns : WsFilled(h, q, ns) BY WsFillDoes
<1>2. PICK t : t = slots' OBVIOUS
<1>3. PICK no : no = refused' OBVIOUS
<1>4. q = reqs[h] /\ q.pc = "recFill" /\ ns = Work!Cardinality(q.held) + 1 .. q.count /\ parts' = parts
 BY <1>1 DEF WsFilled
<1>5. q \in Work!Requests /\ WsCounts(q) /\ WsAloneAt(q, parts, slots, refused)
 BY <1>4, WsTypes DEF WsCounts, WsReconciles
<1>6. /\ q.company \in Companies /\ q.pid # 0 /\ parts[q.company].id = q.pid /\ parts[q.company].count = q.count
      /\ q.count \in Int /\ \E k \in Nat : WsNumbered(slots, q.pid, k)
 BY <1>4, <1>5, WsItsNumbers
<1>7. /\ q.held = {i \in SlotIds : slots[i].pid = q.pid} /\ q.count >= 0
      /\ \A i \in SlotIds : slots[i].pid = q.pid => slots[i].n <= q.count
      /\ \A e \in q.left : parts[e.company].id = e.pid /\ parts[e.company].count = e.count
 BY <1>4, <1>5 DEF WsAloneAt, WsPlan
<1>8. PICK k \in Nat : WsNumbered(slots, q.pid, k) BY <1>6
<1>9. Work!Cardinality(q.held) = k
 BY <1>6, <1>7, <1>8, WsOwnSlots DEF Work!SlotsOf
<1>10. \A n : n \in ns <=> (n \in Nat /\ n > k /\ n <= q.count)
 <2>1. ns = k + 1 .. q.count BY <1>4, <1>9
 <2>2. QED BY <1>6, <2>1
<1>11. k <= q.count
 <2>1. CASE k = 0 BY <1>7, <2>1
 <2>2. CASE k # 0
  <3>1. k \in 1 .. k BY <2>2
  <3>2. QED BY <1>7, <1>8, <3>1 DEF WsNumbered
 <2>3. QED BY <2>1, <2>2
<1>12. ~WsFillFails(q, ns)
 <2>1. \A i \in q.held : slots[i] # Work!NoSlot
  BY <1>6, <1>7 DEF Work!NoSlot
 <2>2. \A i \in SlotIds : slots[i].pid = q.pid => slots[i].n \in 1 .. k
  BY <1>8 DEF WsNumbered
 <2>3. \A i \in SlotIds : slots[i].pid = q.pid => ~(slots[i].n \in ns)
  BY <1>10, <2>2
 <2>4. QED BY <1>6, <2>1, <2>3 DEF WsFillFails
<1>13. /\ no = refused \ {q.company} /\ WsAdds(t, q.pid, ns, None)
       /\ IF q.then = "done" THEN Work!Finish(h) ELSE WsGoes(h, [q EXCEPT !.pc = q.then, !.held = {}])
 BY <1>1, <1>2, <1>3, <1>12 DEF WsFilled
<1>14. q.count \in Nat BY <1>6, <1>7
<1>15. WsNumbered(t, q.pid, q.count) /\ \A d : d # 0 /\ d # q.pid => WsSame(slots, t, d)
 BY <1>6, <1>8, <1>10, <1>11, <1>13, <1>14, WsGrownNumbers
<1>16. \A d \in Companies : d # q.company => parts[d].id = 0 \/ WsKept(parts, slots, refused, parts, t, no, d)
 BY <1>2, <1>3, <1>4, <1>6, <1>13, <1>15, WsOneChanges
<1>17. WsCounted(parts, t, no, q.company)
 BY <1>6, <1>14, <1>15 DEF WsCounted
<1>18. WsGapless(parts, slots) /\ WsTallied(parts, slots, refused, q)
 BY <1>5 DEF WsAloneAt
<1>19. \A r : WsGapless(parts, t) /\ WsTallied(parts, t, no, r)
 BY <1>6, <1>14, <1>15, <1>16, <1>17, <1>18, WsCarries
<1>20. \E r : WsGoes(h, r) /\ WsPlan(r, parts, t)
 <2>1. CASE q.then = "done"
  <3>1. WsGoes(h, Work!Idle)
   BY <1>13, <2>1 DEF Work!Finish, Work!Goto, WsGoes
  <3>2. WsPlan(Work!Idle, parts, t) BY WsIdlePlain, WsPlainPlan
  <3>3. QED BY <3>1, <3>2
 <2>2. CASE q.then # "done"
  <3>1. PICK r : r = [q EXCEPT !.pc = q.then, !.held = {}] OBVIOUS
  <3>2. r.pc = q.then /\ q.then \in {"syncMark", "cleanNext"} /\ r.left = q.left
   BY <1>5, <2>2, <3>1 DEF Work!Requests
  <3>3. WsPlain(r) BY <3>2 DEF WsPlain, WsCounts, WsReconciles
  <3>4. WsPlan(r, parts, t) BY <1>7, <3>2, <3>3, WsPlainPlan
  <3>5. QED BY <1>13, <2>2, <3>1, <3>4
 <2>3. QED BY <2>1, <2>2
<1>21. QED BY <1>2, <1>3, <1>4, <1>19, <1>20 DEF WsAloneOn, WsAloneAt

LEMMA WsMakeAlone ==
  ASSUME WsShape, NEW h \in Handlers, WsAloneAt(reqs[h], parts, slots, refused), Work!CreateSlots(h)
  PROVE  WsAloneOn(h)
<1>1. PICK q : q = reqs[h] OBVIOUS
<1>2. PICK t : t = slots' OBVIOUS
<1>3. q.pc = "createSlots" /\ q \in Work!Requests /\ WsCounts(q) /\ WsAloneAt(q, parts, slots, refused)
 BY <1>1, WsTypes DEF WsCounts, WsReconciles, Work!CreateSlots, Work!At
<1>4. /\ q.company \in Companies /\ q.pid # 0 /\ parts[q.company].id = q.pid /\ parts[q.company].count = q.count
      /\ q.count \in Int
 BY <1>1, <1>3, WsItsNumbers
<1>5. q.count >= 0 /\ \A i \in SlotIds : slots[i].pid # q.pid
 BY <1>3 DEF WsAloneAt, WsPlan
<1>6. \E c : WsMade(h, q, c)
 <2>1. ~((\A c \in Companies : parts[c].id # q.pid) \/ \E i \in SlotIds : slots[i].pid = q.pid /\ slots[i].n \in 1 .. q.count)
  BY <1>4, <1>5
 <2>2. \E p, c : WsMade(h, p, c) BY <1>1, <2>1, WsMakeDoes
 <2>3. QED BY <1>1, <2>2 DEF WsMade, WsGrown
<1>7. PICK c : WsMade(h, q, c) BY <1>6
<1>8. parts' = parts /\ refused' = refused /\ Work!Finish(h) /\ WsAdds(t, q.pid, 1 .. q.count, None)
 BY <1>2, <1>7 DEF WsMade, WsGrown
<1>9. WsNumbered(slots, q.pid, 0) /\ q.count \in Nat /\ 0 <= q.count /\ \A n : n \in 1 .. q.count <=> (n \in Nat /\ n > 0 /\ n <= q.count)
 BY <1>4, <1>5 DEF WsNumbered
<1>10. WsNumbered(t, q.pid, q.count) /\ \A d : d # 0 /\ d # q.pid => WsSame(slots, t, d)
 BY <1>4, <1>8, <1>9, WsGrownNumbers
<1>11. \A d \in Companies : d # q.company => parts[d].id = 0 \/ WsKept(parts, slots, refused, parts, t, refused, d)
 BY <1>2, <1>4, <1>8, <1>10, WsOneChanges
<1>12. WsCounted(parts, t, refused, q.company)
 BY <1>4, <1>9, <1>10 DEF WsCounted
<1>13. WsGapless(parts, slots) /\ WsTallied(parts, slots, refused, q)
 BY <1>3 DEF WsAloneAt
<1>14. \A r : WsGapless(parts, t) /\ WsTallied(parts, t, refused, r)
 BY <1>4, <1>9, <1>10, <1>11, <1>12, <1>13, WsCarries
<1>15. WsGoes(h, Work!Idle) BY <1>8 DEF Work!Finish, Work!Goto, WsGoes
<1>16. WsPlan(Work!Idle, parts, t) BY WsIdlePlain, WsPlainPlan
<1>17. QED BY <1>2, <1>8, <1>14, <1>15, <1>16 DEF WsAloneOn, WsAloneAt


LEMMA WsNumberedOnce ==
  ASSUME NEW s, NEW pid, NEW k, NEW m, WsNumbered(s, pid, k), WsNumbered(s, pid, m) PROVE k = m
<1>1. k \in Nat /\ m \in Nat BY DEF WsNumbered
<1>2. ASSUME NEW a \in Nat, NEW b \in Nat, WsNumbered(s, pid, a), WsNumbered(s, pid, b), a < b PROVE FALSE
 <2>1. b \in 1 .. b BY <1>2
 <2>2. PICK i \in SlotIds : s[i].pid = pid /\ s[i].n = b
  BY <1>2, <2>1 DEF WsNumbered
 <2>3. s[i].n \in 1 .. a BY <1>2, <2>2 DEF WsNumbered
 <2>4. QED BY <1>2, <2>2, <2>3
<1>3. ~(k < m) /\ ~(m < k) BY <1>1, <1>2
<1>4. QED BY <1>1, <1>3

LEMMA WsAssignAlone ==
  ASSUME WsShape, NEW h \in Handlers, WsAloneAt(reqs[h], parts, slots, refused), Work!AssignWrite(h)
  PROVE  WsAloneOn(h)
<1>1. reqs[h].pc = "assignWrite" /\ ~WsCounts(reqs[h])
 BY DEF Work!AssignWrite, Work!At, WsCounts, WsReconciles
<1>2. ASSUME WsTablesStay, refused' = refused, Work!Finish(h) PROVE WsAloneOn(h)
 BY <1>1, <1>2, WsStaysKept, WsFinishOn DEF WsTablesStay
<1>3. ASSUME NEW q, NEW t, WsSeatTaken(h, q, t) PROVE WsAloneOn(h)
 <2>1. t = slots' /\ WsTouched(t) /\ parts' = parts /\ refused' = refused /\ Work!Finish(h)
  BY <1>3 DEF WsSeatTaken
 <2>2. WsRowsStay BY <2>1 DEF WsRowsStay
 <2>3. WsEvenKept BY <2>1, <2>2, WsTouchedKept
 <2>4. QED BY <1>1, <2>1, <2>3, WsFinishOn
<1>4. ASSUME NEW q, NEW c, NEW x, WsSeatAdded(h, q, c, x) PROVE WsAloneOn(h)
 <2>1. PICK t : t = slots' OBVIOUS
 <2>2. PICK p2 : p2 = parts' OBVIOUS
 <2>3. /\ q = reqs[h] /\ q.held = {} /\ c = q.company /\ c \in Companies /\ parts[c].id = q.pid /\ refused' = refused
       /\ WsAdds(t, q.pid, {q.count}, q.reg) /\ WsWritten(c, x) /\ x.id = parts[c].id /\ x.count = parts[c].count + 1
       /\ Work!Finish(h) /\ paidOnce' = paidOnce
  BY <1>4, <2>1 DEF WsSeatAdded, WsGrown, WsRestStay
 <2>4. p2[c] = x /\ \A d \in Companies : d # c => p2[d] = parts[d]
  BY <2>2, <2>3, WsWrittenShape
 <2>5. q \in Work!Requests /\ q.count \in Int /\ q.count > 0 /\ q.pid # 0 /\ q.pc = "assignWrite"
  BY <1>1, <2>3, WsTypes DEF Work!Requests, WsAsks
 <2>6. PICK m : m = q.count OBVIOUS
 <2>7. PICK k : k = m - 1 OBVIOUS
 <2>8. WsNumbered(slots, q.pid, k)
  BY <1>1, <2>3, <2>6, <2>7 DEF WsAloneAt, WsPlan
 <2>9. k \in Nat /\ m \in Nat /\ m = k + 1 /\ \A n : n \in {m} <=> (n \in Nat /\ n > k /\ n <= m)
  BY <2>5, <2>6, <2>7
 <2>10. WsAdds(t, q.pid, {m}, q.reg) /\ k <= m BY <2>3, <2>6, <2>9
 <2>11. WsNumbered(t, q.pid, m) /\ \A d : d # 0 /\ d # q.pid => WsSame(slots, t, d)
  BY <2>5, <2>8, <2>9, <2>10, WsGrownNumbers
 <2>12. \A d \in Companies : d # c => p2[d].id = 0 \/ WsKept(parts, slots, refused, p2, t, refused, d)
  <3> SUFFICES ASSUME NEW d \in Companies, d # c, p2[d].id # 0 PROVE WsKept(parts, slots, refused, p2, t, refused, d)
   OBVIOUS
  <3>1. p2[d] = parts[d] /\ parts[d].id # q.pid
   BY <2>3, <2>4 DEF WsShape, WsParts
  <3>2. WsSame(slots, t, parts[d].id) BY <2>4, <2>11, <3>1
  <3>3. QED BY <3>1, <3>2 DEF WsKept
 <2>13. WsGapless(parts, slots) /\ WsTallied(parts, slots, refused, q) /\ ~WsCounts(q)
  BY <1>1, <2>3 DEF WsAloneAt
 <2>14. WsCounted(parts, slots, refused, c)
  BY <2>3, <2>5, <2>13 DEF WsTallied
 <2>15. parts[c].count = k \/ (c \in refused /\ parts[c].count < k)
  <3>1. PICK j \in Nat : /\ WsNumbered(slots, parts[c].id, j) /\ (parts[c].count = j \/ (c \in refused /\ parts[c].count < j))
   BY <2>14 DEF WsCounted
  <3>2. j = k BY <2>3, <2>8, <3>1, WsNumberedOnce
  <3>3. QED BY <3>1, <3>2
 <2>16. p2[c].id = q.pid /\ p2[c].count = parts[c].count + 1 /\ parts[c].count \in Int
  BY <2>3, <2>4, WsTypes
 <2>17. p2[c].count = m \/ (c \in refused /\ p2[c].count < m)
  BY <2>9, <2>15, <2>16
 <2>18. WsCounted(p2, t, refused, c)
  BY <2>9, <2>11, <2>16, <2>17 DEF WsCounted
 <2>19. WsNumbered(t, p2[c].id, m) BY <2>11, <2>16
 <2>20. \A r : WsGapless(p2, t) /\ WsTallied(p2, t, refused, r)
  BY <2>9, <2>12, <2>13, <2>18, <2>19, WsCarries
 <2>21. WsGoes(h, Work!Idle) BY <2>3 DEF Work!Finish, Work!Goto, WsGoes
 <2>22. WsPlan(Work!Idle, p2, t) BY WsIdlePlain, WsPlainPlan
 <2>23. QED BY <2>1, <2>2, <2>3, <2>20, <2>21, <2>22 DEF WsAloneOn, WsAloneAt
<1>5. QED BY <1>2, <1>3, <1>4, WsAssignDoes

LEMMA WsRemoveAlone ==
  ASSUME WsShape, NEW h \in Handlers, WsAloneAt(reqs[h], parts, slots, refused),
         NEW b \in Companies, NEW with \in BOOLEAN, Work!RemoveParticipant(h, b, with)
  PROVE  WsAloneOn(h)
<1>1. reqs[h].pc = "idle" BY DEF Work!RemoveParticipant, Work!Calls
<1>2. PICK c, pid, t, rows : WsRemoved(c, pid, t, rows)
 <2>1. \E pid, t, rows : WsRemoved(b, pid, t, rows) BY WsRemoveDoes
 <2>2. QED BY <2>1
<1>3. PICK p2 : p2 = parts' OBVIOUS
<1>4. PICK no : no = refused' OBVIOUS
<1>5. PICK q : q = reqs[h] OBVIOUS
<1>6. /\ c \in Companies /\ pid = parts[c].id /\ pid # 0 /\ p2 = [parts EXCEPT ![c] = Work!NoPart] /\ t = slots'
      /\ t = [i \in SlotIds |-> IF slots[i].pid = pid THEN Work!NoSlot ELSE slots[i]]
      /\ reqs' = reqs /\ no = refused \ {c}
 BY <1>2, <1>3, <1>4 DEF WsRemoved
<1>7. parts \in [Companies -> Work!Parts] BY DEF WsShape, WsParts
<1>8. p2[c].id = 0 /\ \A d \in Companies : d # c => p2[d] = parts[d]
 BY <1>6, <1>7, WsNoPart
<1>9. \A d \in Companies : d # c => p2[d].id = 0 \/ WsKept(parts, slots, refused, p2, t, no, d)
 <2> SUFFICES ASSUME NEW d \in Companies, d # c, p2[d].id # 0 PROVE WsKept(parts, slots, refused, p2, t, no, d)
  OBVIOUS
 <2>1. p2[d] = parts[d] /\ parts[d].id # pid
  BY <1>6, <1>8 DEF WsShape, WsParts
 <2>2. \A i \in SlotIds : /\ slots[i].pid = pid => t[i].pid = 0
                          /\ slots[i].pid # pid => t[i] = slots[i]
  BY <1>6 DEF Work!NoSlot
 <2>3. WsSame(slots, t, parts[d].id) BY <1>8, <2>1, <2>2 DEF WsSame
 <2>4. d \in refused => d \in no BY <1>6
 <2>5. QED BY <2>1, <2>3, <2>4 DEF WsKept
<1>10. WsGapless(parts, slots) /\ WsTallied(parts, slots, refused, q) /\ ~WsCounts(q)
 BY <1>1, <1>5 DEF WsAloneAt, WsCounts, WsReconciles
<1>11. WsGapless(p2, t) /\ WsTallied(p2, t, no, q)
 BY <1>8, <1>9, <1>10, WsCarries
<1>12. WsPlain(q) BY <1>1, <1>5 DEF WsPlain, WsCounts, WsReconciles
<1>13. WsPlan(q, p2, t) BY <1>1, <1>5, <1>12, WsPlainPlan
<1>14. WsGoes(h, q) BY <1>5, <1>6 DEF WsGoes, WsShape
<1>15. QED BY <1>3, <1>4, <1>6, <1>11, <1>13, <1>14 DEF WsAloneOn, WsAloneAt


\* In gapless numbers the rank of a slot is its number.
LEMMA WsRankIs ==
  ASSUME WsShape, NEW pid, pid # 0, NEW k, WsNumbered(slots, pid, k), NEW mine, mine = {i \in SlotIds : slots[i].pid = pid},
         NEW i \in mine
  PROVE  WsRank(mine, i) = slots[i].n
<1>1. PICK m : m = slots[i].n OBVIOUS
<1>2. PICK t : t = [j \in SlotIds |-> IF slots[j].pid = pid /\ slots[j].n > m THEN Work!NoSlot ELSE slots[j]]
 OBVIOUS
<1>3. k \in Nat /\ m \in 1 .. k /\ m \in Nat BY <1>1 DEF WsNumbered
<1>4. WsSlots(parts, slots) /\ \A j \in SlotIds : slots[j].n \in Nat /\ slots[j].pid \in PartIds \cup {0}
 BY WsTypes DEF WsShape
<1>5. \A j \in SlotIds : t[j] = slots[j] \/ t[j] = Work!NoSlot BY <1>2
<1>6. \A j \in SlotIds : /\ slots[j].pid = pid /\ slots[j].n > m => t[j].pid = 0
                         /\ ~(slots[j].pid = pid /\ slots[j].n > m) => t[j] = slots[j]
 BY <1>2 DEF Work!NoSlot
<1>7. t = [j \in SlotIds |-> t[j]] BY <1>2
<1>8. \A j \in SlotIds : t[j].pid # 0 => \E c \in Companies : parts[c].id = t[j].pid
 BY <1>4, <1>5, <1>6 DEF WsSlots
<1>9. WsSlots(parts, t) BY <1>4, <1>5, <1>7, <1>8, WsSlotsGo
<1>10. \A j \in SlotIds : t[j].pid = pid <=> slots[j].pid = pid /\ slots[j].n <= m
 BY <1>3, <1>4, <1>6
<1>11. WsNumbered(t, pid, m)
 <2>1. \A j \in SlotIds : t[j].pid = pid => t[j].n \in 1 .. m
  <3> SUFFICES ASSUME NEW j \in SlotIds, t[j].pid = pid PROVE t[j].n \in 1 .. m
   OBVIOUS
  <3>1. slots[j].pid = pid /\ slots[j].n <= m /\ t[j] = slots[j]
   BY <1>3, <1>4, <1>6, <1>10
  <3>2. slots[j].n \in 1 .. k BY <3>1 DEF WsNumbered
  <3>3. QED BY <1>3, <3>1, <3>2
 <2>2. \A n \in 1 .. m : \E j \in SlotIds : t[j].pid = pid /\ t[j].n = n
  <3> SUFFICES ASSUME NEW n \in 1 .. m PROVE \E j \in SlotIds : t[j].pid = pid /\ t[j].n = n
   OBVIOUS
  <3>1. n \in 1 .. k BY <1>3
  <3>2. PICK j \in SlotIds : slots[j].pid = pid /\ slots[j].n = n
   BY <3>1 DEF WsNumbered
  <3>3. ~(slots[j].n > m) BY <1>3, <3>2
  <3>4. QED BY <1>6, <3>2, <3>3
 <2>3. QED BY <1>3, <2>1, <2>2 DEF WsNumbered
<1>12. Work!Cardinality({j \in SlotIds : t[j].pid = pid}) = m
 BY <1>9, <1>11, WsHowMany
<1>13. {j \in SlotIds : t[j].pid = pid} = {u \in mine : slots[u].n <= slots[i].n}
 BY <1>1, <1>10
<1>14. QED BY <1>1, <1>12, <1>13 DEF WsRank

LEMMA WsTopIs ==
  ASSUME WsShape, NEW pid, pid # 0, NEW k, WsNumbered(slots, pid, k), NEW own, own = {i \in SlotIds : slots[i].pid = pid},
         NEW top, WsTop(own, top)
  PROVE  top = k
<1>1. k \in Nat /\ top \in Nat BY DEF WsNumbered, WsTop
<1>2. k <= top
 <2>1. CASE k = 0 BY <1>1, <2>1
 <2>2. CASE k # 0
  <3>1. k \in 1 .. k BY <1>1, <2>2
  <3>2. PICK i \in SlotIds : slots[i].pid = pid /\ slots[i].n = k
   BY <3>1 DEF WsNumbered
  <3>3. i \in own BY <3>2
  <3>4. QED BY <3>2, <3>3 DEF WsTop
 <2>3. QED BY <2>1, <2>2
<1>3. top <= k
 <2>1. CASE own = {} BY <1>1, <2>1 DEF WsTop
 <2>2. CASE own # {}
  <3>1. PICK u \in own : top = slots[u].n BY <2>2 DEF WsTop
  <3>2. top \in 1 .. k BY <3>1 DEF WsNumbered
  <3>3. QED BY <1>1, <3>2
 <2>3. QED BY <2>1, <2>2
<1>4. QED BY <1>1, <1>2, <1>3

LEMMA WsMergedAlone ==
  ASSUME WsShape, NEW h \in Handlers, WsAloneAt(reqs[h], parts, slots, refused),
         NEW q, NEW t, NEW own, NEW mine, NEW top, NEW p, NEW rows, NEW s, NEW x, WsMerged(h, q, t, own, mine, top, p, rows, s, x)
  PROVE  WsAloneOn(h)
<1>1. PICK p2 : p2 = parts' OBVIOUS
<1>2. PICK no : no = refused' OBVIOUS
<1>3. /\ q = reqs[h] /\ q.pc = "merge" /\ q.company \in Companies /\ q.to \in Companies /\ q.to # q.company
      /\ parts[q.company].id = q.pid /\ q.pid # 0 /\ s = slots' /\ no = refused \ {q.company, q.to} /\ Work!Finish(h)
      /\ own = {i \in SlotIds : slots[i].pid = t.id} /\ mine = {i \in SlotIds : slots[i].pid = q.pid} /\ WsTop(own, top)
 BY <1>2 DEF WsMerged
<1>4. WsMergedTo(q, t) BY DEF WsMerged
<1>5. t.id # 0 /\ (t.id = parts[q.to].id \/ \A c \in Companies : parts[c].id # t.id)
 BY <1>4 DEF WsMergedTo
<1>6. /\ x.id = t.id /\ x.count = Work!Cardinality(own) + Work!Cardinality(mine)
      /\ p2[q.company].id = 0 /\ p2[q.to] = x /\ \A d \in Companies : d # q.company /\ d # q.to => p2[d] = parts[d]
 BY <1>1, WsMergedTables, WsNoPart
<1>7. /\ \A i \in SlotIds : i \notin mine => s[i] = slots[i]
      /\ \A i \in mine : i \in SlotIds /\ s[i].pid = t.id /\ s[i].n = top + WsRank(mine, i)
      /\ t.id # q.pid
 BY WsMergedSlots
<1>8. WsGapless(parts, slots) /\ WsTallied(parts, slots, refused, q) /\ ~WsCounts(q)
 BY <1>3 DEF WsAloneAt, WsCounts, WsReconciles
<1>9. PICK k2 \in Nat : WsNumbered(slots, q.pid, k2)
 BY <1>3, <1>8 DEF WsGapless
<1>10. \E k \in Nat : WsNumbered(slots, t.id, k)
 <2>1. CASE t.id = parts[q.to].id BY <1>3, <1>5, <1>8, <2>1 DEF WsGapless
 <2>2. CASE \A c \in Companies : parts[c].id # t.id BY <1>5, <2>2, WsNewNumbers
 <2>3. QED BY <1>5, <2>1, <2>2
<1>11. PICK k1 \in Nat : WsNumbered(slots, t.id, k1) BY <1>10
<1>12. top = k1 BY <1>3, <1>5, <1>11, WsTopIs
<1>13. \A i \in mine : s[i].n = k1 + slots[i].n /\ slots[i].n \in 1 .. k2
 <2> TAKE i \in mine
 <2>1. WsRank(mine, i) = slots[i].n BY <1>3, <1>9, WsRankIs
 <2>2. slots[i].n \in 1 .. k2 BY <1>3, <1>9 DEF WsNumbered
 <2>3. QED BY <1>7, <1>12, <2>1, <2>2
<1>14. PICK m : m = k1 + k2 OBVIOUS
<1>15. m \in Nat BY <1>14
<1>16. \A i \in SlotIds : s[i].pid = t.id => s[i].n \in 1 .. m
 <2> SUFFICES ASSUME NEW i \in SlotIds, s[i].pid = t.id PROVE s[i].n \in 1 .. m
  OBVIOUS
 <2>1. CASE i \in mine BY <1>13, <1>14, <2>1
 <2>2. CASE i \notin mine
  <3>1. slots[i].pid = t.id /\ s[i] = slots[i] BY <1>7, <2>2
  <3>2. slots[i].n \in 1 .. k1 BY <1>11, <3>1 DEF WsNumbered
  <3>3. QED BY <1>14, <3>1, <3>2
 <2>3. QED BY <2>1, <2>2
<1>17. \A n \in 1 .. m : \E i \in SlotIds : s[i].pid = t.id /\ s[i].n = n
 <2> SUFFICES ASSUME NEW n \in 1 .. m PROVE \E i \in SlotIds : s[i].pid = t.id /\ s[i].n = n
  OBVIOUS
 <2>1. CASE n <= k1
  <3>1. n \in 1 .. k1 BY <2>1
  <3>2. PICK i \in SlotIds : slots[i].pid = t.id /\ slots[i].n = n
   BY <1>11, <3>1 DEF WsNumbered
  <3>3. i \notin mine BY <1>3, <1>7, <3>2
  <3>4. QED BY <1>7, <3>2, <3>3
 <2>2. CASE n > k1
  <3>1. n - k1 \in 1 .. k2 BY <1>14, <2>2
  <3>2. PICK i \in SlotIds : slots[i].pid = q.pid /\ slots[i].n = n - k1
   BY <1>9, <3>1 DEF WsNumbered
  <3>3. i \in mine BY <1>3, <3>2
  <3>4. s[i].n = k1 + (n - k1) BY <1>13, <3>2, <3>3
  <3>5. QED BY <1>7, <3>3, <3>4
 <2>3. QED BY <2>1, <2>2
<1>18. WsNumbered(s, t.id, m) BY <1>15, <1>16, <1>17 DEF WsNumbered
<1>19. Work!Cardinality(own) = k1 /\ Work!Cardinality(mine) = k2
 <2>1. WsSlots(parts, slots) BY DEF WsShape
 <2>2. QED BY <1>3, <1>5, <1>9, <1>11, <2>1, WsHowMany
<1>20. p2[q.to].id = t.id /\ p2[q.to].count = m BY <1>6, <1>14, <1>19
<1>21. WsCounted(p2, s, no, q.to) /\ \E k \in Nat : WsNumbered(s, p2[q.to].id, k)
 BY <1>15, <1>18, <1>20 DEF WsCounted
<1>22. \A d \in Companies : d # q.to => p2[d].id = 0 \/ WsKept(parts, slots, refused, p2, s, no, d)
 <2> SUFFICES ASSUME NEW d \in Companies, d # q.to, p2[d].id # 0 PROVE WsKept(parts, slots, refused, p2, s, no, d)
  OBVIOUS
 <2>1. d # q.company /\ p2[d] = parts[d] /\ parts[d].id # 0 BY <1>6
 <2>2. parts[d].id # q.pid /\ parts[d].id # t.id
  BY <1>3, <1>5, <2>1 DEF WsShape, WsParts
 <2>3. WsSame(slots, s, parts[d].id) BY <1>3, <1>7, <2>2 DEF WsSame
 <2>4. d \in refused => d \in no BY <1>3, <2>1
 <2>5. QED BY <2>1, <2>3, <2>4 DEF WsKept
<1>23. \A r : WsGapless(p2, s) /\ WsTallied(p2, s, no, r)
 BY <1>8, <1>21, <1>22, WsCarries
<1>24. WsGoes(h, Work!Idle) BY <1>3 DEF Work!Finish, Work!Goto, WsGoes
<1>25. WsPlan(Work!Idle, p2, s) BY WsIdlePlain, WsPlainPlan
<1>26. QED BY <1>1, <1>2, <1>3, <1>23, <1>24, <1>25 DEF WsAloneOn, WsAloneAt

LEMMA WsMergeAlone ==
  ASSUME WsShape, NEW h \in Handlers, WsAloneAt(reqs[h], parts, slots, refused), Work!MergeWrite(h)
  PROVE  WsAloneOn(h)
<1>1. ~WsCounts(reqs[h])
 BY DEF Work!MergeWrite, Work!At, WsCounts, WsReconciles
<1>2. ASSUME WsTablesStay, refused' = refused, Work!Finish(h) PROVE WsAloneOn(h)
 BY <1>1, <1>2, WsStaysKept, WsFinishOn DEF WsTablesStay
<1>3. QED BY <1>2, WsMergeDoes, WsMergedAlone

LEMMA WsAloneStep ==
  ASSUME WsShape, WsAlone, NEW h \in Handlers, WsTurn(h), Work!WsStep(h)
  PROVE  WsAlone'
<1>1. WsAloneAt(reqs[h], parts, slots, refused) BY DEF WsAlone, WsAloneAt
<1>2. CASE WsLooks(h) BY <1>1, <1>2, WsLooksAlone, WsAloneAfter DEF WsAloneOn
<1>3. CASE WsWrites(h)
 <2>1. WsAloneOn(h)
  BY <1>1, <1>3, WsRowsAlone, WsRemoveAlone, WsDeskAlone, WsDropAlone, WsFillAlone, WsConfirmAlone, WsCreateAlone,
     WsMakeAlone, WsPayAlone, WsMergeAlone, WsAssignAlone DEF WsWrites
 <2>2. QED BY <2>1, WsAloneAfter DEF WsAloneOn
<1>4. QED BY <1>2, <1>3, WsStepKinds

-----------------------------------------------------------------------------
(* The books: until participants are merged a company has one payment row,     *)
(* and the flag of its participant says what that row says.                    *)

\* The request after a step that only reads.
WsLooked(h, q, r) ==
  /\ q = reqs[h] /\ WsGoes(h, r) /\ q.pc \notin {"importFlag", "recFill"}
  /\ \/ r.pc \in {"idle", "confirm", "slot", "merge", "cleanNext", "archive"}
     \/ r.pc = "create" /\ r.pay = newest[r.company] /\ WsPaid(pays, newest[r.company])
     \/ r.pc = "payLedger" /\ r.pid = parts[r.company].id
     \/ r.pc = "importPay" /\ r.pay = newest[r.company]
     \/ /\ r.pc \in {"recDrop", "recSurvivors", "recFill"} /\ q.pc \in WsReconciles
        /\ r.pid = q.pid /\ r.company = q.company /\ r.then = q.then
     \/ /\ r.pc = "payWrite" /\ q.pc = "payLedger" /\ r.pid = q.pid /\ r.company = q.company /\ r.pay = newest[r.company]
     \/ /\ r.pc = "repair" /\ r.company \in Companies /\ \E p \in PayIds : pays[p].company = r.company /\ pays[p].paid
     \/ /\ r.pc = "syncLink" /\ q.pc = "syncRead" /\ r.pairs = WsPairs(q.pid, q.company)
     \/ /\ r.pc = "assignWrite" /\ q.pc = "assign" /\ WsSeatRead(q, r)

LEMMA WsFinishLooks ==
  ASSUME NEW h \in Handlers, NEW q, q = reqs[h], q.pc \notin {"importFlag", "recFill"}, Work!Finish(h)
  PROVE  \E r : WsLooked(h, q, r)
<1>1. Work!Idle.pc = "idle" BY DEF Work!Idle
<1>2. WsGoes(h, Work!Idle) BY DEF Work!Finish, Work!Goto, WsGoes
<1>3. QED BY <1>1, <1>2 DEF WsLooked

LEMMA WsReadsLook ==
  ASSUME WsShape, NEW h \in Handlers, NEW q, q = reqs[h],
         \/ \E c \in Companies, n \in Counts, b \in Bodies \cup {"kept"}, opt \in Options, rm \in BOOLEAN :
              Work!ConfirmRead(h, c, n, b, opt, rm)
         \/ \E c \in Companies, n \in Counts : Work!CreateRead(h, c, n)
         \/ \E c \in Companies, b \in Bodies \ {"forced"} : Work!PayRead(h, c, b) \/ Work!ImportRead(h, c, b)
         \/ \E s \in SlotIds, name \in {"keep", "name", "clear"} : Work!SlotRead(h, s, name)
         \/ \E c, d \in Companies : Work!MergeRead(h, c, d)
  PROVE  \E r : WsLooked(h, q, r)
<1>1. q.pc \notin {"importFlag", "recFill"}
 BY Zenon DEF Work!ConfirmRead, Work!CreateRead, Work!PayRead, Work!ImportRead, Work!SlotRead,
    Work!MergeRead, Work!Calls
<1>2. ASSUME NEW c \in Companies, NEW n \in Counts, NEW b \in Bodies \cup {"kept"}, NEW opt \in Options, NEW rm \in BOOLEAN,
             Work!ConfirmRead(h, c, n, b, opt, rm)
      PROVE  \E r : WsLooked(h, q, r)
 <2>1. PICK due, count : WsGoes(h, [Work!Idle EXCEPT !.pc = "confirm", !.company = c, !.pid = parts[c].id,
                              !.count = count, !.body = due, !.rm = rm])
  BY <1>2, Zenon DEF Work!ConfirmRead, Work!Goto, WsGoes
 <2>2. PICK r : r = [Work!Idle EXCEPT !.pc = "confirm", !.company = c, !.pid = parts[c].id,
                              !.count = count, !.body = due, !.rm = rm]
  OBVIOUS
 <2>3. r.pc = "confirm" BY <2>2 DEF Work!Idle
 <2>4. QED BY <1>1, <2>1, <2>2, <2>3 DEF WsLooked
<1>3. ASSUME NEW c \in Companies, NEW n \in Counts, Work!CreateRead(h, c, n) PROVE \E r : WsLooked(h, q, r)
 <2>1. PICK r : r = [Work!Idle EXCEPT !.pc = "create", !.company = c, !.pay = newest[c], !.count = n]
  OBVIOUS
 <2>2. WsGoes(h, r) /\ Work!Paid(newest[c])
  BY <1>3, <2>1 DEF Work!CreateRead, Work!Goto, WsGoes
 <2>3. r.pc = "create" /\ r.company = c /\ r.pay = newest[c]
  BY <2>1 DEF Work!Idle
 <2>4. WsPaid(pays, newest[c]) BY <2>2 DEF Work!Paid, WsPaid
 <2>5. QED BY <1>1, <2>2, <2>3, <2>4 DEF WsLooked
<1>4. ASSUME NEW c \in Companies, NEW b, Work!PayRead(h, c, b) PROVE \E r : WsLooked(h, q, r)
 <2>1. PICK r : r = [Work!Idle EXCEPT !.pc = "payLedger", !.company = c, !.pid = parts[c].id, !.body = b]
  OBVIOUS
 <2>2. r.pc = "payLedger" /\ r.pid = parts[r.company].id /\ WsGoes(h, r)
  BY <1>4, <2>1 DEF Work!Idle, Work!PayRead, Work!Goto, WsGoes
 <2>3. QED BY <1>1, <2>2 DEF WsLooked
<1>5. ASSUME NEW c \in Companies, NEW b, Work!ImportRead(h, c, b) PROVE \E r : WsLooked(h, q, r)
 <2>1. PICK r : r = [Work!Idle EXCEPT !.pc = "importPay", !.company = c, !.pay = newest[c], !.body = b]
  OBVIOUS
 <2>2. r.pc = "importPay" /\ r.pay = newest[r.company] /\ WsGoes(h, r)
  BY <1>5, <2>1 DEF Work!Idle, Work!ImportRead, Work!Goto, WsGoes
 <2>3. QED BY <1>1, <2>2 DEF WsLooked
<1>6. ASSUME NEW s \in SlotIds, NEW name \in {"keep", "name", "clear"}, Work!SlotRead(h, s, name)
      PROVE  \E r : WsLooked(h, q, r)
 <2>1. PICK flag : flag = (IF name = "keep" THEN slots[s].named ELSE name = "name")
  OBVIOUS
 <2>2. PICK r : r = [Work!Idle EXCEPT !.pc = "slot", !.held = {s}, !.flag = flag]
  OBVIOUS
 <2>3. r.pc = "slot" BY <2>2 DEF Work!Idle
 <2>4. WsGoes(h, r)
  BY <1>6, <2>1, <2>2, Zenon DEF Work!SlotRead, Work!Goto, WsGoes
 <2>5. QED BY <1>1, <2>3, <2>4 DEF WsLooked
<1>7. ASSUME NEW c \in Companies, NEW d \in Companies, Work!MergeRead(h, c, d) PROVE \E r : WsLooked(h, q, r)
 <2>1. PICK flag : flag = parts[c].confirmed OBVIOUS
 <2>2. PICK r : r = [Work!Idle EXCEPT !.pc = "merge", !.company = c, !.to = d, !.pid = parts[c].id, !.flag = flag]
  OBVIOUS
 <2>3. r.pc = "merge" BY <2>2 DEF Work!Idle
 <2>4. WsGoes(h, r)
  BY <1>7, <2>1, <2>2, Zenon DEF Work!MergeRead, Work!Goto, WsGoes
 <2>5. QED BY <1>1, <2>3, <2>4 DEF WsLooked
<1>8. QED BY <1>2, <1>3, <1>4, <1>5, <1>6, <1>7

LEMMA WsLooksGo ==
  ASSUME WsShape, NEW h \in Handlers, NEW q, q = reqs[h], WsLooks(h)
  PROVE  \E r : WsLooked(h, q, r)
<1>1. q \in Work!Requests BY WsTypes
<1>2. CASE Work!RecRead(h)
 <2>1. q.pc = "recRead" BY <1>2 DEF Work!RecRead, Work!At
 <2>2. \/ Work!Finish(h) \/ WsGoes(h, [q EXCEPT !.pc = "recSurvivors"])
       \/ \E drop : WsGoes(h, [q EXCEPT !.pc = "recDrop", !.held = drop])
  BY <1>2, Zenon DEF Work!RecRead, Work!Goto, WsGoes
 <2>3. ASSUME NEW drop, WsGoes(h, [q EXCEPT !.pc = "recDrop", !.held = drop]) PROVE \E r : WsLooked(h, q, r)
  <3>1. PICK r : r = [q EXCEPT !.pc = "recDrop", !.held = drop] OBVIOUS
  <3>2. r.pc = "recDrop" /\ r.pid = q.pid /\ r.company = q.company /\ r.then = q.then
   BY <1>1, <3>1 DEF Work!Requests
  <3>3. QED BY <2>1, <2>3, <3>1, <3>2 DEF WsLooked, WsReconciles
 <2>4. ASSUME WsGoes(h, [q EXCEPT !.pc = "recSurvivors"]) PROVE \E r : WsLooked(h, q, r)
  <3>1. PICK r : r = [q EXCEPT !.pc = "recSurvivors"] OBVIOUS
  <3>2. r.pc = "recSurvivors" /\ r.pid = q.pid /\ r.company = q.company /\ r.then = q.then
   BY <1>1, <3>1 DEF Work!Requests
  <3>3. QED BY <2>1, <2>4, <3>1, <3>2 DEF WsLooked, WsReconciles
 <2>5. QED BY <2>1, <2>2, <2>3, <2>4, WsFinishLooks
<1>3. CASE Work!RecSurvivors(h)
 <2>1. PICK own : own = Work!SlotsOf(q.pid) OBVIOUS
 <2>2. PICK r : r = [q EXCEPT !.pc = "recFill", !.held = own] OBVIOUS
 <2>3. q.pc = "recSurvivors" /\ WsGoes(h, r)
  BY <1>3, <2>1, <2>2 DEF Work!RecSurvivors, Work!At, Work!Goto, WsGoes
 <2>4. r.pc = "recFill" /\ r.pid = q.pid /\ r.company = q.company /\ r.then = q.then
  BY <1>1, <2>2 DEF Work!Requests
 <2>5. QED BY <2>3, <2>4 DEF WsLooked, WsReconciles
<1>4. CASE Work!SyncRead(h)
 <2>1. q.pc = "syncRead" BY <1>4 DEF Work!SyncRead, Work!At
 <2>2. PICK pairs : pairs = WsPairs(q.pid, q.company) OBVIOUS
 <2>3. \/ Work!Finish(h)
       \/ WsGoes(h, [Work!Idle EXCEPT !.pc = "syncLink", !.pid = reqs[h].pid, !.pairs = WsPairs(reqs[h].pid, reqs[h].company)])
  BY <1>4, Zenon DEF Work!SyncRead, Work!Goto, WsGoes, WsPairs, WsTodo, WsOpen
 <2>4. ASSUME WsGoes(h, [Work!Idle EXCEPT !.pc = "syncLink", !.pid = q.pid, !.pairs = pairs]) PROVE \E r : WsLooked(h, q, r)
  <3>1. PICK r : r = [Work!Idle EXCEPT !.pc = "syncLink", !.pid = q.pid, !.pairs = pairs]
   OBVIOUS
  <3>2. r.pc = "syncLink" /\ r.pairs = pairs BY <3>1 DEF Work!Idle
  <3>3. QED BY <2>1, <2>2, <2>4, <3>1, <3>2 DEF WsLooked
 <2>5. QED BY <2>1, <2>2, <2>3, <2>4, WsFinishLooks
<1>5. CASE Work!PayLedger(h)
 <2>1. PICK r : r = [q EXCEPT !.pc = "payWrite", !.pay = newest[q.company]]
  OBVIOUS
 <2>2. q.pc = "payLedger" /\ WsGoes(h, r)
  BY <1>5, <2>1 DEF Work!PayLedger, Work!At, Work!Goto, WsGoes
 <2>3. r.pc = "payWrite" /\ r.pid = q.pid /\ r.company = q.company /\ r.pay = newest[q.company]
  BY <1>1, <2>1 DEF Work!Requests
 <2>4. QED BY <2>2, <2>3 DEF WsLooked
<1>6. CASE Work!CleanRead(h)
 <2>1. PICK left : WsGoes(h, [Work!Idle EXCEPT !.pc = "cleanNext", !.then = "cleanNext", !.left = left])
  BY <1>6, Zenon DEF Work!CleanRead, Work!Goto, WsGoes
 <2>2. PICK r : r = [Work!Idle EXCEPT !.pc = "cleanNext", !.then = "cleanNext", !.left = left]
  OBVIOUS
 <2>3. r.pc = "cleanNext" /\ q.pc = "idle"
  BY <1>6, <2>2 DEF Work!Idle, Work!CleanRead, Work!Calls
 <2>4. QED BY <2>1, <2>2, <2>3 DEF WsLooked
<1>7. CASE Work!CleanNext(h)
 <2>1. q.pc = "cleanNext" BY <1>7 DEF Work!CleanNext, Work!At
 <2>2. CASE q.left = {}
  <3>1. Work!Finish(h) BY <1>7, <2>2 DEF Work!CleanNext
  <3>2. QED BY <2>1, <3>1, WsFinishLooks
 <2>3. CASE q.left # {}
  <3>1. PICK e \in q.left, pc \in {"repair", "archive"} :
           /\ WsGoes(h, [q EXCEPT !.left = @ \ {e}, !.pid = e.pid, !.company = e.company, !.count = e.count, !.pc = pc])
           /\ pc = "repair" => \E p \in PayIds : pays[p].company = e.company /\ pays[p].paid
   BY <1>7, <2>3 DEF Work!CleanNext, Work!Goto, WsGoes
  <3>2. PICK left : left = q.left \ {e} OBVIOUS
  <3>3. PICK r : r = [q EXCEPT !.left = left, !.pid = e.pid, !.company = e.company, !.count = e.count, !.pc = pc]
   OBVIOUS
  <3>4. r.company = e.company /\ r.pc = pc /\ e.company \in Companies
   BY <1>1, <3>3 DEF Work!Requests, Work!Entries
  <3>5. WsGoes(h, r) BY <3>1, <3>2, <3>3
  <3>6. QED BY <2>1, <3>1, <3>4, <3>5 DEF WsLooked
 <2>4. QED BY <2>2, <2>3
<1>8. CASE Work!AssignRead(h)
 <2>1. q.pc = "assign" /\ (Work!Finish(h) \/ \E r : WsGoes(h, r) /\ WsSeatRead(q, r))
  BY <1>8, WsSeatReads
 <2>2. ASSUME NEW r, WsGoes(h, r), WsSeatRead(q, r) PROVE WsLooked(h, q, r)
  BY <2>1, <2>2 DEF WsLooked, WsSeatRead
 <2>3. QED BY <2>1, <2>2, WsFinishLooks
<1>9. QED BY <1>2, <1>3, <1>4, <1>5, <1>6, <1>7, <1>8, WsReadsLook DEF WsLooks


WsBooksAt(q, p, pay, w) == WsOneRow(pay, w) /\ WsBill(q, p, pay, w) /\ WsFlagged(p, pay, w, q)
WsBooksOn(h) == \E r : WsGoes(h, r) /\ WsBooksAt(r, parts', pays', newest')
\* A request that knows nothing of the books.
WsFree(q) == q.pc \notin {"payLedger", "payWrite", "importPay", "importFlag", "create", "repair"}

LEMMA WsFreeBill == ASSUME NEW q, WsFree(q) PROVE \A p, pay, w : WsBill(q, p, pay, w)
BY DEF WsFree, WsBill

LEMMA WsBooksAfter ==
  ASSUME WsShape, NEW h \in Handlers, WsTurn(h), NEW r, WsGoes(h, r), WsBooksAt(r, parts', pays', newest')
  PROVE  WsBooks'
<1>1. reqs'[h] = r /\ \A k \in Handlers : k # h => reqs'[k] = reqs[k] /\ reqs[k].pc = "idle"
 BY DEF WsShape, WsGoes, WsTurn
<1>2. ASSUME NEW k \in Handlers, WsTurn(k)'
      PROVE  WsBill(reqs'[k], parts', pays', newest') /\ WsFlagged(parts', pays', newest', reqs'[k])
 <2>1. CASE k = h BY <1>1, <2>1 DEF WsBooksAt
 <2>2. CASE k # h
  <3>1. r.pc = "idle" /\ reqs'[k].pc = "idle"
   BY <1>1, <1>2, <2>2 DEF WsTurn
  <3>2. WsBill(reqs'[k], parts', pays', newest')
   BY <3>1, WsFreeBill DEF WsFree
  <3>3. WsFlagged(parts', pays', newest', reqs'[k])
   BY <3>1 DEF WsBooksAt, WsFlagged
  <3>4. QED BY <3>2, <3>3
 <2>3. QED BY <2>1, <2>2
<1>3. QED BY <1>2 DEF WsBooks, WsBooksAt

\* No participant's flag changes but with the participant.
WsFlagsStay == \A c \in Companies : parts'[c].id # 0 => parts[c].id # 0 /\ (parts'[c].confirmed <=> parts[c].confirmed)

LEMMA WsBooksPlain ==
  ASSUME NEW h \in Handlers, NEW q, WsBooksAt(q, parts, pays, newest), q.pc # "importFlag",
         WsFlagsStay, pays' = pays, newest' = newest, NEW r, WsGoes(h, r), WsBill(r, parts', pays, newest)
  PROVE  WsBooksOn(h)
<1>1. PICK p2 : p2 = parts' OBVIOUS
<1>2. WsFlagged(p2, pays, newest, r)
 BY <1>1 DEF WsBooksAt, WsFlagged, WsFlagsStay
<1>3. QED BY <1>1, <1>2 DEF WsBooksOn, WsBooksAt

\* A participant's flag is written as the newest row says.
LEMMA WsBooksFlag ==
  ASSUME WsShape, NEW h \in Handlers, NEW q, WsBooksAt(q, parts, pays, newest),
         NEW c, NEW x, WsWritten(c, x), q.pc = "importFlag" => q.company = c,
         paidOnce \subseteq paidOnce', pays' = pays, newest' = newest,
         x.confirmed <=> WsPaid(pays, newest[c]), NEW r, WsGoes(h, r), WsFree(r)
  PROVE  WsBooksOn(h)
<1>1. PICK p2 : p2 = parts' OBVIOUS
<1>2. c \in Companies /\ p2[c] = x /\ \A d \in Companies : d # c => p2[d] = parts[d]
 BY <1>1, WsWrittenShape DEF WsWritten
<1>3. WsFlagged(p2, pays, newest, r) BY <1>2 DEF WsBooksAt, WsFlagged
<1>4. WsBill(r, p2, pays, newest) BY WsFreeBill
<1>5. QED BY <1>1, <1>3, <1>4 DEF WsBooksOn, WsBooksAt

\* A payment of company c is recorded in its only row or in its first one.
LEMMA WsBooksRecorded ==
  ASSUME WsShape, NEW c \in Companies, NEW body, NEW id, NEW owner, WsRecorded(id, owner, newest[c], c, body),
         WsOneRow(pays, newest)
  PROVE  /\ owner = c /\ WsOneRow(pays', newest') /\ (WsPaid(pays', newest'[c]) <=> Work!Eligible(body))
         /\ \A d \in Companies : d # c => (WsPaid(pays', newest'[d]) <=> WsPaid(pays, newest[d]))
<1>1. PICK w : w = newest[c] OBVIOUS
<1>2. w \in PayIds \cup {0} /\ 0 \notin PayIds /\ \A d \in Companies : newest[d] \in PayIds \cup {0}
 BY <1>1, WsTypes, WsIds
<1>3. id \in PayIds /\ owner \in Companies /\ ((w = 0 /\ owner = c) \/ (w = id /\ owner = pays[id].company))
 BY <1>1 DEF WsRecorded
<1>4. owner = c
 <2>1. w # 0 => pays[w].company = c BY <1>1 DEF WsShape, WsPays
 <2>2. QED BY <1>2, <1>3, <2>1
<1>5. PICK pay2 : pay2 = pays' OBVIOUS
<1>6. PICK w2 : w2 = newest' OBVIOUS
<1>7. /\ \A i \in PayIds : i # id => pay2[i] = pays[i]
      /\ pay2[id].company = c /\ (pay2[id].paid <=> Work!Eligible(body)) /\ w2[c] = id
      /\ \A d \in Companies : d # c => w2[d] = newest[d] /\ newest[d] # id
 <2>1. WsRecorded(id, c, w, c, body) BY <1>1, <1>4
 <2>2. /\ \A i \in PayIds : i # id => pays'[i] = pays[i]
       /\ pays'[id].company = c /\ (pays'[id].paid <=> Work!Eligible(body)) /\ newest'[c] = id
       /\ \A d \in Companies : d # c => newest'[d] = newest[d] /\ newest[d] # id
  BY <2>1, WsRecordsShape
 <2>3. QED BY <1>5, <1>6, <2>2
<1>8. WsOneRow(pay2, w2)
 <2> SUFFICES ASSUME NEW i \in PayIds, NEW d \in Companies, pay2[i].company = d PROVE w2[d] = i
  BY DEF WsOneRow
 <2>1. CASE i = id BY <1>7, <2>1
 <2>2. CASE i # id
  <3>1. newest[d] = i BY <1>7, <2>2 DEF WsOneRow
  <3>2. d # c BY <1>1, <1>2, <1>3, <2>2, <3>1
  <3>3. QED BY <1>7, <3>1, <3>2
 <2>3. QED BY <2>1, <2>2
<1>9. WsPaid(pay2, w2[c]) <=> Work!Eligible(body)
 BY <1>2, <1>3, <1>7 DEF WsPaid
<1>10. \A d \in Companies : d # c => (WsPaid(pay2, w2[d]) <=> WsPaid(pays, newest[d]))
 BY <1>2, <1>7 DEF WsPaid
<1>11. QED BY <1>4, <1>5, <1>6, <1>8, <1>9, <1>10

\* Looking at the tables.
LEMMA WsLooksBooks ==
  ASSUME WsShape, NEW h \in Handlers, WsBooksAt(reqs[h], parts, pays, newest), WsLooks(h)
  PROVE  WsBooksOn(h)
<1>1. parts' = parts /\ pays' = pays /\ newest' = newest
 BY WsLooking DEF WsTablesStay
<1>2. PICK q : q = reqs[h] OBVIOUS
<1>3. PICK r : WsLooked(h, q, r) BY <1>2, WsLooksGo
<1>4. q \in Work!Requests /\ WsBooksAt(q, parts, pays, newest) /\ WsGoes(h, r) /\ q.pc # "importFlag"
 BY <1>2, <1>3, WsTypes DEF WsLooked
<1>5. WsFlagsStay BY <1>1 DEF WsFlagsStay
<1>6. ASSUME NEW p \in PayIds, NEW c \in Companies, pays[p].company = c, pays[p].paid PROVE WsPaid(pays, newest[c])
 <2>1. newest[c] = p /\ p # 0 BY <1>4, <1>6, WsIds DEF WsBooksAt, WsOneRow
 <2>2. QED BY <1>6, <2>1 DEF WsPaid
<1>7. WsBill(r, parts, pays, newest)
 <2>1. CASE WsFree(r) BY <2>1, WsFreeBill
 <2>2. CASE r.pc = "create" /\ r.pay = newest[r.company] /\ WsPaid(pays, newest[r.company])
  BY <2>2 DEF WsBill
 <2>3. CASE r.pc = "payLedger" /\ r.pid = parts[r.company].id BY <2>3 DEF WsBill
 <2>4. CASE r.pc = "importPay" /\ r.pay = newest[r.company] BY <2>4 DEF WsBill
 <2>5. CASE r.pc = "payWrite" /\ q.pc = "payLedger" /\ r.pid = q.pid /\ r.company = q.company /\ r.pay = newest[r.company]
  BY <1>4, <2>5 DEF WsBill, WsBooksAt
 <2>6. CASE r.pc = "repair" /\ r.company \in Companies /\ \E p \in PayIds : pays[p].company = r.company /\ pays[p].paid
  <3>1. WsPaid(pays, newest[r.company]) BY <1>6, <2>6
  <3>2. QED BY <2>6, <3>1 DEF WsBill
 <2>7. QED BY <1>3, <2>1, <2>2, <2>3, <2>4, <2>5, <2>6 DEF WsLooked, WsFree
<1>8. QED BY <1>1, <1>4, <1>5, <1>7, WsBooksPlain


\* The request goes on and remembers no payment.
WsGoesFree(h) == \E r : WsGoes(h, r) /\ WsFree(r)

LEMMA WsFinishFree == ASSUME NEW h \in Handlers, Work!Finish(h) PROVE WsGoesFree(h)
<1>1. Work!Idle.pc = "idle" BY DEF Work!Idle
<1>2. WsGoes(h, Work!Idle) BY DEF Work!Finish, Work!Goto, WsGoes
<1>3. QED BY <1>1, <1>2 DEF WsGoesFree, WsFree

LEMMA WsStaysFree ==
  ASSUME WsShape, NEW h \in Handlers, reqs' = reqs, reqs[h].pc = "idle" PROVE WsGoesFree(h)
<1>1. PICK r : r = reqs[h] OBVIOUS
<1>2. WsGoes(h, r) BY <1>1 DEF WsGoes, WsShape
<1>3. QED BY <1>1, <1>2 DEF WsGoesFree, WsFree

LEMMA WsBooksStill ==
  ASSUME NEW h \in Handlers, WsBooksAt(reqs[h], parts, pays, newest), reqs[h].pc # "importFlag",
         WsFlagsStay, pays' = pays, newest' = newest, WsGoesFree(h)
  PROVE  WsBooksOn(h)
<1>1. PICK q : q = reqs[h] OBVIOUS
<1>2. PICK r : WsGoes(h, r) /\ WsFree(r) BY DEF WsGoesFree
<1>3. WsBill(r, parts', pays, newest) BY <1>2, WsFreeBill
<1>4. QED BY <1>1, <1>2, <1>3, WsBooksPlain

\* Steps that leave participants and payments alone.
LEMMA WsDeskBooks ==
  ASSUME WsShape, NEW h \in Handlers, WsBooksAt(reqs[h], parts, pays, newest),
         \/ \E r \in Regs, paid \in BOOLEAN : Work!Register(h, r, paid)
         \/ \E r \in Regs : Work!DeleteRegistration(h, r)
         \/ \E r \in Regs, c \in Companies \cup {None}, paid \in BOOLEAN : Work!PayRegistration(h, r, c, paid)
         \/ Work!SyncMark(h) \/ Work!SyncLink(h) \/ Work!SlotWrite(h)
         \/ Work!RecDrop(h) \/ Work!RecFill(h) \/ Work!CreateSlots(h)
  PROVE  WsBooksOn(h)
<1>1. PICK q : q = reqs[h] OBVIOUS
<1>2. q \in Work!Requests BY <1>1, WsTypes
<1>3. parts' = parts /\ pays' = pays /\ newest' = newest /\ q.pc # "importFlag"
 BY <1>1, Zenon DEF Work!Register, Work!DeleteRegistration, Work!PayRegistration, Work!SyncMark, Work!SyncLink,
    Work!SlotWrite, Work!RecDrop, Work!RecFill, Work!CreateSlots, Work!Calls, Work!At
<1>4. ASSUME NEW r \in Regs, NEW c \in Companies \cup {None}, NEW paid \in BOOLEAN, Work!PayRegistration(h, r, c, paid)
      PROVE  WsGoesFree(h)
 <2>1. q.pc = "idle" BY <1>1, <1>4 DEF Work!PayRegistration, Work!Calls
 <2>2. reqs' = reqs \/ WsGoes(h, [Work!Idle EXCEPT !.pc = "assign", !.reg = r, !.company = c])
  BY <1>4 DEF Work!PayRegistration, Work!Goto, WsGoes
 <2>3. PICK y : y = [Work!Idle EXCEPT !.pc = "assign", !.reg = r, !.company = c]
  OBVIOUS
 <2>4. y.pc = "assign" BY <2>3 DEF Work!Idle
 <2>5. QED BY <1>1, <2>1, <2>2, <2>3, <2>4, WsStaysFree DEF WsGoesFree, WsFree
<1>5. ASSUME NEW r \in Regs, NEW paid \in BOOLEAN, Work!Register(h, r, paid) PROVE WsGoesFree(h)
 BY <1>5, WsStaysFree DEF Work!Register, Work!Calls
<1>6. ASSUME NEW r \in Regs, Work!DeleteRegistration(h, r) PROVE WsGoesFree(h)
 BY <1>6, WsStaysFree DEF Work!DeleteRegistration, Work!Calls
<1>7. CASE Work!SyncMark(h)
 <2>1. PICK y : y = [q EXCEPT !.pc = "syncRead"] OBVIOUS
 <2>2. WsGoes(h, y) /\ y.pc = "syncRead"
  BY <1>1, <1>2, <1>7, <2>1 DEF Work!SyncMark, Work!Goto, WsGoes, Work!Requests
 <2>3. WsGoesFree(h) BY <2>2 DEF WsGoesFree, WsFree
 <2>4. WsFlagsStay BY <1>3 DEF WsFlagsStay
 <2>5. QED BY <1>1, <1>3, <2>3, <2>4, WsBooksStill
<1>8. CASE Work!SyncLink(h)
 <2>1. q.pc = "syncLink" /\ (Work!Finish(h) \/ \E pairs : WsGoes(h, [q EXCEPT !.pairs = pairs]))
  BY <1>1, <1>8, Zenon DEF Work!SyncLink, Work!At, Work!Goto, WsGoes
 <2>2. ASSUME NEW pairs, WsGoes(h, [q EXCEPT !.pairs = pairs]) PROVE WsGoesFree(h)
  <3>1. PICK y : y = [q EXCEPT !.pairs = pairs] OBVIOUS
  <3>2. y.pc = "syncLink" BY <1>2, <2>1, <3>1 DEF Work!Requests
  <3>3. QED BY <2>2, <3>1, <3>2 DEF WsGoesFree, WsFree
 <2>3. WsFlagsStay BY <1>3 DEF WsFlagsStay
 <2>4. QED BY <1>1, <1>3, <2>1, <2>2, <2>3, WsFinishFree, WsBooksStill
<1>9. CASE Work!RecDrop(h)
 <2>1. PICK y : y = [q EXCEPT !.pc = "recSurvivors", !.held = {}] OBVIOUS
 <2>2. WsGoes(h, y) /\ y.pc = "recSurvivors"
  BY <1>1, <1>2, <1>9, <2>1 DEF Work!RecDrop, Work!Goto, WsGoes, Work!Requests
 <2>3. WsGoesFree(h) BY <2>2 DEF WsGoesFree, WsFree
 <2>4. WsFlagsStay BY <1>3 DEF WsFlagsStay
 <2>5. QED BY <1>1, <1>3, <2>3, <2>4, WsBooksStill
<1>10. CASE Work!RecFill(h)
 <2>1. Work!Finish(h) \/ WsGoes(h, [q EXCEPT !.pc = q.then, !.held = {}])
  BY <1>1, <1>10 DEF Work!RecFill, Work!Goto, WsGoes
 <2>2. PICK y : y = [q EXCEPT !.pc = q.then, !.held = {}] OBVIOUS
 <2>3. y.pc \in {"done", "syncMark", "cleanNext"}
  BY <1>2, <2>2 DEF Work!Requests
 <2>4. WsGoesFree(h)
  BY <2>1, <2>2, <2>3, WsFinishFree DEF WsGoesFree, WsFree
 <2>5. WsFlagsStay BY <1>3 DEF WsFlagsStay
 <2>6. QED BY <1>1, <1>3, <2>4, <2>5, WsBooksStill
<1>11. CASE Work!SlotWrite(h) \/ Work!CreateSlots(h)
 <2>1. Work!Finish(h) BY <1>11 DEF Work!SlotWrite, Work!CreateSlots
 <2>2. WsFlagsStay BY <1>3 DEF WsFlagsStay
 <2>3. QED BY <1>1, <1>3, <2>1, <2>2, WsFinishFree, WsBooksStill
<1>12. WsFlagsStay BY <1>3 DEF WsFlagsStay
<1>13. QED
 BY <1>1, <1>3, <1>4, <1>5, <1>6, <1>7, <1>8, <1>9, <1>10, <1>11, <1>12, WsBooksStill

\* The row of a participant is written.
LEMMA WsRowsBooks ==
  ASSUME WsShape, NEW h \in Handlers, WsBooksAt(reqs[h], parts, pays, newest),
         \/ \E c \in Companies, n \in Counts, rm \in BOOLEAN : Work!CountWrite(h, c, n, rm)
         \/ Work!CleanWrite(h)
  PROVE  WsBooksOn(h)
<1>1. PICK q : q = reqs[h] OBVIOUS
<1>2. q \in Work!Requests /\ q.pc # "importFlag"
 BY <1>1, WsTypes DEF Work!CountWrite, Work!CleanWrite, Work!Calls
<1>3. pays' = pays /\ newest' = newest /\ paidOnce' = paidOnce
 BY DEF Work!CountWrite, Work!CleanWrite
<1>4. ASSUME WsTablesStay, Work!Finish(h) PROVE WsBooksOn(h)
 <2>1. WsFlagsStay BY <1>4 DEF WsFlagsStay, WsTablesStay
 <2>2. QED BY <1>1, <1>2, <1>3, <1>4, <2>1, WsFinishFree, WsBooksStill
<1>5. ASSUME NEW k, NEW c, NEW x, WsRowSet(h, k, c, x) PROVE WsBooksOn(h)
 <2>1. c \in Companies /\ x.id = parts[c].id /\ parts[c].id # 0 /\ WsWritten(c, x) /\ paidOnce \subseteq paidOnce'
  BY <1>3, <1>5 DEF WsRowSet
 <2>2. parts'[c] = x /\ \A d \in Companies : d # c => parts'[d] = parts[d]
  BY <2>1, WsWrittenShape
 <2>3. CASE (x.confirmed <=> parts[c].confirmed) /\ WsGoesFree(h)
  <3>1. WsFlagsStay BY <2>1, <2>2, <2>3 DEF WsFlagsStay
  <3>2. QED BY <1>1, <1>2, <1>3, <2>3, <3>1, WsBooksStill
 <2>4. ASSUME NEW rm, WsGoes(h, Work!Reconcile(x.id, c, x.count, rm, "done")) PROVE WsGoesFree(h)
  <3>1. PICK y : y = Work!Reconcile(x.id, c, x.count, rm, "done") OBVIOUS
  <3>2. y.pc = "recRead" BY <3>1, WsReconcileFields
  <3>3. QED BY <2>4, <3>1, <3>2 DEF WsGoesFree, WsFree
 <2>5. ASSUME NEW pc \in {"recRead", "cleanNext"}, WsGoes(h, [q EXCEPT !.pc = pc]) PROVE WsGoesFree(h)
  <3>1. PICK y : y = [q EXCEPT !.pc = pc] OBVIOUS
  <3>2. y.pc = pc BY <1>2, <3>1 DEF Work!Requests
  <3>3. QED BY <2>5, <3>1, <3>2 DEF WsGoesFree, WsFree
 <2>6. CASE k = reqs[h] /\ k.pc = "repair" /\ c = k.company /\ x.confirmed /\ \E pc \in {"recRead", "cleanNext"} : WsGoes(h, [k EXCEPT !.pc = pc])
  <3>1. PICK y : WsGoes(h, y) /\ WsFree(y)
   BY <1>1, <2>5, <2>6 DEF WsGoesFree
  <3>2. WsPaid(pays, newest[c]) BY <2>6 DEF WsBooksAt, WsBill
  <3>3. WsBooksAt(q, parts, pays, newest) /\ (x.confirmed <=> WsPaid(pays, newest[c]))
   BY <1>1, <2>6, <3>2
  <3>4. QED BY <1>2, <1>3, <2>1, <3>1, <3>3, WsBooksFlag
 <2>7. QED BY <1>1, <1>2, <1>5, <2>3, <2>4, <2>5, <2>6 DEF WsRowSet
<1>6. \/ WsTablesStay /\ Work!Finish(h)
      \/ \E k, c, x : WsRowSet(h, k, c, x)
 BY WsCountDoes, WsCleanDoes
<1>7. QED BY <1>4, <1>5, <1>6


LEMMA WsRemoveBooks ==
  ASSUME WsShape, NEW h \in Handlers, WsBooksAt(reqs[h], parts, pays, newest),
         NEW b \in Companies, NEW with \in BOOLEAN, Work!RemoveParticipant(h, b, with)
  PROVE  WsBooksOn(h)
<1>1. PICK pid, t, rows : WsRemoved(b, pid, t, rows) BY WsRemoveDoes
<1>2. PICK q : q = reqs[h] OBVIOUS
<1>3. q.pc = "idle" /\ WsBooksAt(q, parts, pays, newest)
 BY <1>2 DEF Work!RemoveParticipant, Work!Calls
<1>4. PICK p2 : p2 = parts' OBVIOUS
<1>5. PICK w2 : w2 = newest' OBVIOUS
<1>6. parts \in [Companies -> Work!Parts] /\ newest \in [Companies -> PayIds \cup {0}]
 BY DEF WsShape, WsParts, WsPays
<1>7. p2[b].id = 0 /\ \A d \in Companies : d # b => p2[d] = parts[d]
 BY <1>1, <1>4, <1>6, WsNoPart DEF WsRemoved
<1>8. WsGoes(h, q) BY <1>1, <1>2 DEF WsGoes, WsShape, WsRemoved
<1>9. WsBill(q, p2, rows, w2) BY <1>3, WsFreeBill DEF WsFree
<1>10. CASE rows = pays /\ w2 = newest
 <2>1. WsFlagged(p2, rows, w2, q)
  BY <1>3, <1>7, <1>10 DEF WsBooksAt, WsFlagged
 <2>2. WsOneRow(rows, w2) BY <1>3, <1>10 DEF WsBooksAt
 <2>3. QED
  BY <1>1, <1>4, <1>5, <1>8, <1>9, <2>1, <2>2 DEF WsBooksOn, WsBooksAt, WsRemoved
<1>11. CASE rows = [p \in PayIds |-> IF pays[p].company = b THEN Work!NoPay ELSE pays[p]] /\ w2 = [newest EXCEPT ![b] = 0]
 <2>1. /\ \A p \in PayIds : /\ pays[p].company = b => rows[p].company = None
                            /\ pays[p].company # b => rows[p] = pays[p]
       /\ \A d \in Companies : d # b => w2[d] = newest[d]
  BY <1>6, <1>11 DEF Work!NoPay
 <2>2. WsOneRow(rows, w2)
  <3> SUFFICES ASSUME NEW i \in PayIds, NEW d \in Companies, rows[i].company = d PROVE w2[d] = i
   BY DEF WsOneRow
  <3>1. pays[i].company # b /\ rows[i] = pays[i] BY <2>1, WsIds
  <3>2. QED BY <1>3, <2>1, <3>1 DEF WsBooksAt, WsOneRow
 <2>3. \A d \in Companies : d # b => (WsPaid(rows, w2[d]) <=> WsPaid(pays, newest[d]))
  <3> SUFFICES ASSUME NEW d \in Companies, d # b PROVE WsPaid(rows, w2[d]) <=> WsPaid(pays, newest[d])
   OBVIOUS
  <3>1. newest[d] # 0 => newest[d] \in PayIds /\ pays[newest[d]].company = d
   BY <1>6 DEF WsShape, WsPays
  <3>2. QED BY <2>1, <3>1 DEF WsPaid
 <2>4. WsFlagged(p2, rows, w2, q)
  BY <1>3, <1>7, <2>3 DEF WsBooksAt, WsFlagged
 <2>5. QED
  BY <1>1, <1>4, <1>5, <1>8, <1>9, <2>2, <2>4 DEF WsBooksOn, WsBooksAt, WsRemoved
<1>12. QED BY <1>1, <1>5, <1>10, <1>11 DEF WsRemoved

\* A payment is recorded and the flag follows, or will.
LEMMA WsBooksPaid ==
  ASSUME WsShape, NEW h \in Handlers, NEW q, WsBooksAt(q, parts, pays, newest), q.pc # "importFlag",
         NEW c \in Companies, NEW body, NEW id, NEW owner, WsRecorded(id, owner, newest[c], c, body),
         \A d \in Companies : d # c => parts'[d] = parts[d],
         NEW r, WsGoes(h, r), r.pc = "importFlag" => r.company = c /\ r.body = body,
         r.pc = "importFlag" \/ (WsFree(r) /\ (parts'[c].id = 0 \/ (parts'[c].confirmed <=> Work!Eligible(body))))
  PROVE  WsBooksOn(h)
<1>1. PICK p2 : p2 = parts' OBVIOUS
<1>2. PICK w2 : w2 = newest' OBVIOUS
<1>3. PICK pay2 : pay2 = pays' OBVIOUS
<1>4. WsOneRow(pays, newest) /\ WsFlagged(parts, pays, newest, q)
 BY DEF WsBooksAt
<1>5. /\ WsOneRow(pay2, w2) /\ (WsPaid(pay2, w2[c]) <=> Work!Eligible(body))
      /\ \A d \in Companies : d # c => (WsPaid(pay2, w2[d]) <=> WsPaid(pays, newest[d]))
 BY <1>2, <1>3, <1>4, WsBooksRecorded
<1>6. \A d \in Companies : d # c /\ p2[d].id # 0 => (p2[d].confirmed <=> WsPaid(pay2, w2[d]))
 BY <1>1, <1>4, <1>5 DEF WsFlagged
<1>7. WsFlagged(p2, pay2, w2, r)
 <2>1. CASE r.pc = "importFlag" BY <1>6, <2>1 DEF WsFlagged
 <2>2. CASE p2[c].id = 0 \/ (p2[c].confirmed <=> Work!Eligible(body))
  BY <1>5, <1>6, <2>2 DEF WsFlagged
 <2>3. QED BY <1>1, <2>1, <2>2
<1>8. WsBill(r, p2, pay2, w2)
 <2>1. CASE r.pc = "importFlag" BY <1>5, <2>1 DEF WsBill
 <2>2. CASE WsFree(r) BY <2>2, WsFreeBill
 <2>3. QED BY <2>1, <2>2
<1>9. QED BY <1>1, <1>2, <1>3, <1>5, <1>7, <1>8 DEF WsBooksOn, WsBooksAt

LEMMA WsPayBooks ==
  ASSUME WsShape, NEW h \in Handlers, WsBooksAt(reqs[h], parts, pays, newest), Work!PayWrite(h) \/ Work!ImportPay(h)
  PROVE  WsBooksOn(h)
<1>1. PICK p2 : p2 = parts' OBVIOUS
<1>2. reqs[h].pc # "importFlag" /\ reqs[h] \in Work!Requests
 BY WsTypes DEF Work!PayWrite, Work!ImportPay, Work!At
<1>3. ASSUME WsTablesStay, Work!Finish(h) PROVE WsBooksOn(h)
 <2>1. WsFlagsStay /\ pays' = pays /\ newest' = newest
  BY <1>3 DEF WsFlagsStay, WsTablesStay
 <2>2. QED BY <1>2, <1>3, <2>1, WsFinishFree, WsBooksStill
<1>4. ASSUME NEW q, NEW c, NEW id, NEW owner, WsPaidRow(h, q, c, id, owner) PROVE WsBooksOn(h)
 <2>1. PICK flag : flag = Work!Eligible(q.body) OBVIOUS
 <2>2. PICK x : x = [parts[c] EXCEPT !.confirmed = flag] OBVIOUS
 <2>3. /\ q = reqs[h] /\ q.pc = "payWrite" /\ c = q.company /\ c \in Companies /\ WsRecorded(id, owner, q.pay, c, q.body)
       /\ Work!Finish(h) /\ ((q.pid = 0 /\ p2 = parts) \/ (q.pid = parts[c].id /\ WsWritten(c, x)))
  BY <1>1, <1>4, <2>1, <2>2 DEF WsPaidRow
 <2>4. q.pay = newest[c] /\ q.pid = parts[c].id
  BY <2>3 DEF WsBooksAt, WsBill
 <2>5. paidOnce \subseteq paidOnce' BY <2>3 DEF WsRecorded
 <2>6. flag \in BOOLEAN /\ parts[c] \in Work!Parts
  BY <2>1, <2>3, WsEligible, WsTypes
 <2>7. x.confirmed <=> flag BY <2>2, <2>6, WsFlagField
 <2>8. \A d \in Companies : d # c => p2[d] = parts[d]
  <3>1. CASE p2 = parts BY <3>1
  <3>2. CASE WsWritten(c, x) BY <1>1, <2>5, <3>2, WsWrittenShape
  <3>3. QED BY <2>3, <3>1, <3>2
 <2>9. p2[c].id = 0 \/ (p2[c].confirmed <=> Work!Eligible(q.body))
  <3>1. CASE q.pid = 0 /\ p2 = parts BY <2>4, <3>1
  <3>2. CASE WsWritten(c, x)
   <4>1. p2[c] = x BY <1>1, <2>5, <3>2, WsWrittenShape
   <4>2. QED BY <2>1, <2>7, <4>1
  <3>3. QED BY <2>3, <3>1, <3>2
 <2>10. PICK r : WsGoes(h, r) /\ WsFree(r)
  BY <2>3, WsFinishFree DEF WsGoesFree
 <2>11. WsBooksAt(q, parts, pays, newest) /\ WsRecorded(id, owner, newest[c], c, q.body) /\ q.pc # "importFlag" /\ r.pc # "importFlag"
  BY <1>2, <2>3, <2>4, <2>10 DEF WsFree
 <2>12. QED BY <1>1, <2>3, <2>8, <2>9, <2>10, <2>11, WsBooksPaid
<1>5. ASSUME NEW q, NEW c, NEW id, NEW owner, WsImported(h, q, c, id, owner) PROVE WsBooksOn(h)
 <2>1. PICK r : r = [q EXCEPT !.pc = "importFlag", !.pay = 0] OBVIOUS
 <2>2. /\ q = reqs[h] /\ q.pc = "importPay" /\ c = q.company /\ c \in Companies /\ WsRecorded(id, owner, q.pay, c, q.body)
       /\ p2 = parts /\ WsGoes(h, r)
  BY <1>1, <1>5, <2>1 DEF WsImported
 <2>3. r.pc = "importFlag" /\ r.company = c /\ r.body = q.body
  BY <1>2, <2>1, <2>2 DEF Work!Requests
 <2>4. q.pay = newest[c] BY <2>2 DEF WsBooksAt, WsBill
 <2>5. WsBooksAt(q, parts, pays, newest) /\ WsRecorded(id, owner, newest[c], c, q.body) /\ q.pc # "importFlag"
  BY <2>2, <2>4
 <2>6. \A d \in Companies : d # c => parts'[d] = parts[d] BY <1>1, <2>2
 <2>7. QED BY <2>2, <2>3, <2>5, <2>6, WsBooksPaid
<1>6. QED BY <1>3, <1>4, <1>5, WsPayDoes, WsImportDoes

LEMMA WsConfirmBooks ==
  ASSUME WsShape, NEW h \in Handlers, WsBooksAt(reqs[h], parts, pays, newest), Work!ConfirmWrite(h)
  PROVE  WsBooksOn(h)
<1>1. PICK p2 : p2 = parts' OBVIOUS
<1>2. reqs[h].pc # "importFlag" BY DEF Work!ConfirmWrite, Work!At
<1>3. ASSUME WsTablesStay, Work!Finish(h) PROVE WsBooksOn(h)
 <2>1. WsFlagsStay /\ pays' = pays /\ newest' = newest
  BY <1>3 DEF WsFlagsStay, WsTablesStay
 <2>2. QED BY <1>2, <1>3, <2>1, WsFinishFree, WsBooksStill
<1>4. ASSUME NEW q, NEW c, NEW pid, NEW id, WsConfirmed(h, q, c, pid, id) PROVE WsBooksOn(h)
 <2>1. PICK flag : flag = Work!Eligible(q.body) OBVIOUS
 <2>2. PICK then : then = (IF flag THEN "syncMark" ELSE "done") OBVIOUS
 <2>3. PICK x : x = [id |-> pid, confirmed |-> flag, count |-> q.count, active |-> TRUE]
  OBVIOUS
 <2>4. PICK r : r = Work!Reconcile(pid, c, q.count, q.rm, then) OBVIOUS
 <2>5. q = reqs[h] /\ WsWritten(c, x) /\ WsGoes(h, r) /\ WsRecorded(id, c, newest[c], c, q.body)
  BY <1>4, <2>1, <2>2, <2>3, <2>4 DEF WsConfirmed
 <2>6. paidOnce \subseteq paidOnce' /\ c \in Companies /\ (x.confirmed <=> flag)
  BY <2>3, <2>5 DEF WsRecorded, WsWritten
 <2>7. p2[c] = x /\ \A d \in Companies : d # c => p2[d] = parts[d]
  BY <1>1, <2>5, <2>6, WsWrittenShape
 <2>8. r.pc = "recRead" BY <2>4, WsReconcileFields
 <2>9. WsFree(r) /\ r.pc # "importFlag" BY <2>8 DEF WsFree
 <2>10. parts'[c].confirmed <=> Work!Eligible(q.body)
  BY <1>1, <2>1, <2>6, <2>7
 <2>11. WsBooksAt(q, parts, pays, newest) /\ q.pc # "importFlag" /\ \A d \in Companies : d # c => parts'[d] = parts[d]
  BY <1>1, <1>2, <2>5, <2>7
 <2>12. QED BY <2>5, <2>6, <2>9, <2>10, <2>11, WsBooksPaid
<1>5. QED BY <1>3, <1>4, WsConfirmDoes


LEMMA WsCreateBooks ==
  ASSUME WsShape, NEW h \in Handlers, WsBooksAt(reqs[h], parts, pays, newest), Work!CreateWrite(h)
  PROVE  WsBooksOn(h)
<1>1. reqs[h].pc # "importFlag" /\ reqs[h] \in Work!Requests
 BY WsTypes DEF Work!CreateWrite, Work!At
<1>2. ASSUME WsTablesStay, Work!Finish(h) PROVE WsBooksOn(h)
 <2>1. WsFlagsStay /\ pays' = pays /\ newest' = newest
  BY <1>2 DEF WsFlagsStay, WsTablesStay
 <2>2. QED BY <1>1, <1>2, <2>1, WsFinishFree, WsBooksStill
<1>3. ASSUME NEW q, NEW c, NEW pid, WsCreated(h, q, c, pid) PROVE WsBooksOn(h)
 <2>1. PICK x : x = [id |-> pid, confirmed |-> TRUE, count |-> q.count, active |-> TRUE]
  OBVIOUS
 <2>2. /\ q = reqs[h] /\ q.pc = "create" /\ c = q.company /\ WsWritten(c, x) /\ pays' = pays /\ newest' = newest
       /\ paidOnce \subseteq paidOnce'
  BY <1>3, <2>1 DEF WsCreated, WsBooksStay
 <2>3. WsBooksAt(q, parts, pays, newest) /\ WsPaid(pays, newest[c])
  BY <2>2 DEF WsBooksAt, WsBill
 <2>4. x.confirmed <=> WsPaid(pays, newest[c]) BY <2>1, <2>3
 <2>5. WsGoesFree(h)
  <3>1. PICK r : r = [q EXCEPT !.pc = "createSlots", !.pid = pid] OBVIOUS
  <3>2. r.pc = "createSlots" BY <1>1, <2>2, <3>1 DEF Work!Requests
  <3>3. WsGoes(h, r) \/ Work!Finish(h) BY <1>3, <3>1 DEF WsCreated
  <3>4. QED BY <3>2, <3>3, WsFinishFree DEF WsGoesFree, WsFree
 <2>6. PICK r : WsGoes(h, r) /\ WsFree(r) BY <2>5 DEF WsGoesFree
 <2>7. QED BY <1>1, <2>2, <2>3, <2>4, <2>6, WsBooksFlag
<1>4. QED BY <1>2, <1>3, WsCreateDoes

LEMMA WsFlagBooks ==
  ASSUME WsShape, NEW h \in Handlers, WsBooksAt(reqs[h], parts, pays, newest), Work!ImportFlag(h)
  PROVE  WsBooksOn(h)
<1>1. PICK q : q = reqs[h] OBVIOUS
<1>2. PICK c : c = q.company OBVIOUS
<1>3. PICK flag : flag = Work!Eligible(q.body) OBVIOUS
<1>4. q.pc = "importFlag" /\ q \in Work!Requests /\ c \in Companies /\ WsBooksAt(q, parts, pays, newest)
      /\ pays' = pays /\ newest' = newest /\ paidOnce' = paidOnce
 BY <1>1, <1>2, WsTypes DEF Work!ImportFlag, Work!At, WsAsks
<1>5. flag \in BOOLEAN /\ parts[c] \in Work!Parts
 BY <1>3, <1>4, WsEligible, WsTypes
<1>6. WsPaid(pays, newest[c]) <=> flag
 BY <1>2, <1>3, <1>4 DEF WsBooksAt, WsBill
<1>7. WsGoesFree(h)
 <2>1. Work!Finish(h) \/ WsGoes(h, Work!Reconcile(parts[c].id, c, parts[c].count, FALSE, "done"))
  BY <1>1, <1>2 DEF Work!ImportFlag, Work!Goto, WsGoes
 <2>5. PICK pid, n, no : pid = parts[c].id /\ n = parts[c].count /\ no = FALSE
  OBVIOUS
 <2>2. PICK y : y = Work!Reconcile(pid, c, n, no, "done") OBVIOUS
 <2>3. y.pc = "recRead" BY <2>2, WsReconcileFields
 <2>4. QED BY <2>1, <2>2, <2>3, <2>5, WsFinishFree DEF WsGoesFree, WsFree
<1>8. PICK r : WsGoes(h, r) /\ WsFree(r) BY <1>7 DEF WsGoesFree
<1>9. PICK p2 : p2 = parts' OBVIOUS
<1>10. PICK x : x = [parts[c] EXCEPT !.confirmed = flag] OBVIOUS
<1>11. (p2 = parts /\ parts[c] = Work!NoPart) \/ p2 = [parts EXCEPT ![c] = x]
 BY <1>1, <1>2, <1>3, <1>9, <1>10 DEF Work!ImportFlag
<1>12. x.confirmed <=> flag BY <1>5, <1>10, WsFlagField
<1>13. parts \in [Companies -> Work!Parts] BY DEF WsShape, WsParts
<1>14. /\ \A d \in Companies : d # c => p2[d] = parts[d]
       /\ p2[c].id = 0 \/ (p2[c].confirmed <=> flag)
 BY <1>4, <1>11, <1>12, <1>13, WsNoPart
<1>15. \A d \in Companies : d # c /\ parts[d].id # 0 => (parts[d].confirmed <=> WsPaid(pays, newest[d]))
 BY <1>2, <1>4 DEF WsBooksAt, WsFlagged
<1>16. WsFlagged(p2, pays, newest, r) BY <1>6, <1>14, <1>15 DEF WsFlagged
<1>17. WsBill(r, p2, pays, newest) BY <1>8, WsFreeBill
<1>18. QED BY <1>4, <1>8, <1>9, <1>16, <1>17 DEF WsBooksOn, WsBooksAt

LEMMA WsAssignBooks ==
  ASSUME WsShape, NEW h \in Handlers, WsBooksAt(reqs[h], parts, pays, newest), Work!AssignWrite(h)
  PROVE  WsBooksOn(h)
<1>1. reqs[h].pc # "importFlag" /\ pays' = pays /\ newest' = newest /\ paidOnce' = paidOnce /\ WsGoesFree(h)
 BY WsFinishFree DEF Work!AssignWrite, Work!At
<1>2. WsFlagsStay
 <2>1. CASE parts' = parts BY <2>1 DEF WsFlagsStay
 <2>2. ASSUME NEW q, NEW c, NEW x, WsSeatAdded(h, q, c, x) PROVE WsFlagsStay
  <3>1. c \in Companies /\ WsWritten(c, x) /\ x.id = parts[c].id /\ (x.confirmed <=> parts[c].confirmed)
   BY <2>2 DEF WsSeatAdded, WsWritten
  <3>2. paidOnce \subseteq paidOnce' /\ x.id # 0
   BY <1>1, <3>1 DEF WsWritten
  <3>3. parts'[c] = x /\ \A d \in Companies : d # c => parts'[d] = parts[d]
   BY <3>1, <3>2, WsWrittenShape
  <3>4. QED BY <3>1, <3>2, <3>3 DEF WsFlagsStay
 <2>3. QED BY <2>1, <2>2, WsAssignDoes DEF WsTablesStay, WsSeatTaken
<1>3. QED BY <1>1, <1>2, WsBooksStill

\* Participants, once merged, stay merged.
LEMMA WsMergedForGood == ASSUME WsShape, NEW h \in Handlers, Work!WsStep(h), ~merged' PROVE ~merged
<1>1. merged \in BOOLEAN BY DEF WsShape
<1>2. merged' = merged \/ merged' = TRUE
 <2>1. CASE WsLooks(h) BY <2>1, WsLooking DEF WsTablesStay
 <2>2. CASE WsWrites(h)
  BY <2>2, Zenon DEF WsWrites, Work!CountWrite, Work!RemoveParticipant, Work!Register, Work!DeleteRegistration,
     Work!PayRegistration, Work!RecDrop, Work!RecFill, Work!ConfirmWrite, Work!SyncMark,
     Work!SyncLink, Work!CreateWrite, Work!CreateSlots, Work!PayWrite, Work!ImportPay,
     Work!ImportFlag, Work!SlotWrite, Work!MergeWrite, Work!CleanWrite, Work!AssignWrite
 <2>3. QED BY <2>1, <2>2, WsStepKinds
<1>3. QED BY <1>1, <1>2

\* A merge that finds its participant gone changes nothing.
LEMMA WsNoMerge ==
  ASSUME WsShape, NEW h \in Handlers, Work!MergeWrite(h), ~merged'
  PROVE  WsTablesStay /\ refused' = refused /\ Work!Finish(h)
<1>1. ASSUME NEW q, NEW t, NEW own, NEW mine, NEW top, NEW p, NEW rows, NEW s, NEW x, WsMerged(h, q, t, own, mine, top, p, rows, s, x)
      PROVE  FALSE
 BY <1>1, Zenon DEF WsMerged
<1>2. QED BY <1>1, WsMergeDoes

LEMMA WsBooksStep ==
  ASSUME WsShape, WsBooks, NEW h \in Handlers, WsTurn(h), Work!WsStep(h), ~merged'
  PROVE  WsBooks'
<1>1. WsBooksAt(reqs[h], parts, pays, newest) BY DEF WsBooks, WsBooksAt
<1>2. WsBooksOn(h)
 <2>1. CASE WsLooks(h) BY <1>1, <2>1, WsLooksBooks
 <2>2. CASE Work!MergeWrite(h)
  <3>1. WsTablesStay /\ Work!Finish(h) /\ reqs[h].pc # "importFlag"
   BY <2>2, WsNoMerge DEF Work!MergeWrite, Work!At
  <3>2. WsFlagsStay /\ pays' = pays /\ newest' = newest
   BY <3>1 DEF WsFlagsStay, WsTablesStay
  <3>3. QED BY <1>1, <3>1, <3>2, WsFinishFree, WsBooksStill
 <2>3. CASE WsWrites(h) /\ ~Work!MergeWrite(h)
  BY <1>1, <2>3, WsDeskBooks, WsRowsBooks, WsRemoveBooks, WsPayBooks, WsConfirmBooks, WsCreateBooks, WsFlagBooks,
     WsAssignBooks DEF WsWrites
 <2>4. QED BY <2>1, <2>2, <2>3, WsStepKinds
<1>3. PICK r : WsGoes(h, r) /\ WsBooksAt(r, parts', pays', newest')
 BY <1>2 DEF WsBooksOn
<1>4. QED BY <1>3, WsBooksAfter

-----------------------------------------------------------------------------
(* The links: until participants are merged a registration whose company       *)
(* stayed has at most one slot, one of its company's participant.              *)

WsLinkAt(q, p, s, g, mv) == WsSeated(p, s, g, mv) /\ WsOnce(s, mv) /\ WsLink(q, p, s, g, mv)
WsLinkOn(h) == \E r : WsGoes(h, r) /\ WsLinkAt(r, parts', slots', regs', moved')
\* A request that knows nothing of the links.
WsUnlinked(q) ==
  q.pc \notin {"syncMark", "syncRead", "syncLink", "assign", "assignWrite"} /\ ~(q.pc \in WsReconciles /\ q.then = "syncMark")

LEMMA WsUnlinkedLink == ASSUME NEW q, WsUnlinked(q) PROVE \A p, s, g, mv : WsLink(q, p, s, g, mv)
BY DEF WsUnlinked, WsLink

LEMMA WsIdleUnlinked == \A q : q.pc = "idle" => WsUnlinked(q)
BY DEF WsUnlinked, WsReconciles

LEMMA WsLinksAfter ==
  ASSUME WsShape, NEW h \in Handlers, WsTurn(h), NEW r, WsGoes(h, r), WsLinkAt(r, parts', slots', regs', moved')
  PROVE  WsLinks'
<1>1. reqs'[h] = r /\ \A k \in Handlers : k # h => reqs'[k] = reqs[k] /\ reqs[k].pc = "idle"
 BY DEF WsShape, WsGoes, WsTurn
<1>2. ASSUME NEW k \in Handlers, WsTurn(k)' PROVE WsLink(reqs'[k], parts', slots', regs', moved')
 <2>1. CASE k = h BY <1>1, <2>1 DEF WsLinkAt
 <2>2. CASE k # h
  <3>1. reqs'[k].pc = "idle" BY <1>1, <2>2
  <3>2. QED BY <3>1, WsIdleUnlinked, WsUnlinkedLink
 <2>3. QED BY <2>1, <2>2
<1>3. QED BY <1>2 DEF WsLinks, WsLinkAt

\* No link is made and no linked slot changes hands.
LEMMA WsLinksStay ==
  ASSUME WsShape, WsSeated(parts, slots, regs, moved), WsOnce(slots, moved), NEW p2, NEW t, NEW g2,
         \A c \in Companies : parts[c].id # 0 => p2[c].id = parts[c].id,
         \A i \in SlotIds : t[i].reg = None \/ (t[i].reg = slots[i].reg /\ t[i].pid = slots[i].pid),
         \A r \in Regs : g2[r].company = regs[r].company
  PROVE  WsSeated(p2, t, g2, moved) /\ WsOnce(t, moved)
<1>1. \A i \in SlotIds : slots[i].reg # None => slots[i].reg \in Regs /\ slots[i].pid # 0
 BY WsTypes DEF WsShape, WsSlots, Work!NoSlot
<1>2. \A r \in Regs : regs[r].company \in Companies \cup {None}
 BY DEF WsShape, WsRegs, Work!Registrations
<1>3. WsSeated(p2, t, g2, moved)
 <2> SUFFICES ASSUME NEW i \in SlotIds, t[i].reg # None, t[i].reg \notin moved
     PROVE g2[t[i].reg].company # None /\ p2[g2[t[i].reg].company].id = t[i].pid
  BY DEF WsSeated
 <2>1. PICK r : r = t[i].reg OBVIOUS
 <2>2. slots[i].reg = r /\ t[i].pid = slots[i].pid /\ r \in Regs /\ slots[i].pid # 0
  BY <1>1, <2>1
 <2>3. PICK c : c = regs[r].company OBVIOUS
 <2>4. c # None /\ parts[c].id = slots[i].pid
  BY <2>1, <2>2, <2>3 DEF WsSeated
 <2>5. c \in Companies BY <1>2, <2>2, <2>3, <2>4
 <2>6. QED BY <2>1, <2>2, <2>3, <2>4, <2>5
<1>4. WsOnce(t, moved) BY DEF WsOnce
<1>5. QED BY <1>3, <1>4

\* Participants keep their ids.
WsIdsStay == \A c \in Companies : parts[c].id # 0 => parts'[c].id = parts[c].id

LEMMA WsLinksStill ==
  ASSUME WsShape, NEW h \in Handlers, NEW q, WsLinkAt(q, parts, slots, regs, moved), WsIdsStay, moved' = moved,
         NEW t, t = slots', \A i \in SlotIds : t[i].reg = None \/ (t[i].reg = slots[i].reg /\ t[i].pid = slots[i].pid),
         \A r \in Regs : regs'[r].company = regs[r].company,
         NEW r, WsGoes(h, r), WsLink(r, parts', slots', regs', moved')
  PROVE  WsLinkOn(h)
<1>1. PICK p2 : p2 = parts' OBVIOUS
<1>2. PICK g2 : g2 = regs' OBVIOUS
<1>3. WsSeated(parts, slots, regs, moved) /\ WsOnce(slots, moved)
 BY DEF WsLinkAt
<1>4. \A c \in Companies : parts[c].id # 0 => p2[c].id = parts[c].id
 BY <1>1 DEF WsIdsStay
<1>5. \A b \in Regs : g2[b].company = regs[b].company BY <1>2
<1>6. WsSeated(p2, t, g2, moved) /\ WsOnce(t, moved)
 BY <1>3, <1>4, <1>5, WsLinksStay
<1>7. QED BY <1>1, <1>2, <1>6 DEF WsLinkOn, WsLinkAt


\* The rank of a registration among those that wait for a slot.
LEMMA WsQueue ==
  ASSUME NEW todo \in SUBSET Regs, NEW a \in todo, NEW b \in todo, a # b
  PROVE  Work!Cardinality({u \in todo : u <= a}) # Work!Cardinality({u \in todo : u <= b})
<1>1. IsFiniteSet(todo) /\ Regs \subseteq Nat
 <2>1. IsFiniteSet(Regs) /\ Regs \subseteq Nat
  BY EventureAssumption DEF EventureAssumption, Work!IdsAssumption, Work!IsFiniteSet, IsFiniteSet
 <2>2. QED BY <2>1, FS_Subset
<1>2. PICK f : f = [u \in todo |-> u] OBVIOUS
<1>3. f \in [todo -> Int] /\ \A u \in todo : f[u] = u BY <1>1, <1>2
<1>4. ASSUME NEW x \in todo, NEW y \in todo, x < y
      PROVE  Cardinality({u \in todo : u <= x}) # Cardinality({u \in todo : u <= y})
 <2>1. f[x] < f[y] BY <1>3, <1>4
 <2>2. /\ Cardinality({u \in todo : f[u] <= f[x]}) < Cardinality({u \in todo : f[u] <= f[y]})
       /\ Cardinality({u \in todo : f[u] <= f[y]}) \in Nat
  <3>1. IsFiniteSet(todo) BY <1>1
  <3>2. f \in [todo -> Int] BY <1>3
  <3>3. QED BY <2>1, <3>1, <3>2, WsCounting
 <2>3. {u \in todo : f[u] <= f[x]} = {u \in todo : u <= x} /\ {u \in todo : f[u] <= f[y]} = {u \in todo : u <= y}
  BY <1>3
 <2>4. {u \in todo : u <= x} \in SUBSET {u \in todo : u <= y} /\ IsFiniteSet({u \in todo : u <= y})
  <3>1. \A u \in todo : u <= x => u <= y BY <1>1, <1>4
  <3>2. {u \in todo : u <= y} \in SUBSET todo OBVIOUS
  <3>3. QED BY <1>1, <3>1, <3>2, FS_Subset
 <2>5. Cardinality({u \in todo : u <= x}) \in Nat
  BY <2>4, FS_Subset, FS_CardinalityType
 <2>6. QED BY <2>2, <2>3, <2>5
<1>5. a < b \/ b < a
 <2>1. a \in Nat /\ b \in Nat BY <1>1
 <2>2. QED BY <2>1
<1>6. Cardinality({u \in todo : u <= a}) # Cardinality({u \in todo : u <= b})
 BY <1>4, <1>5
<1>7. QED BY <1>6, WsCardinality

LEMMA WsPairFacts ==
  ASSUME WsShape, NEW pid, pid # 0, NEW c, NEW a \in WsPairs(pid, c)
  PROVE  /\ a.reg \in WsTodo(pid, c) /\ a.slot \in WsOpen(pid) /\ a = [reg |-> a.reg, slot |-> a.slot]
         /\ Work!Cardinality({u \in WsTodo(pid, c) : u <= a.reg}) = WsRank(WsOpen(pid), a.slot)
<1>1. PICK todo : todo = WsTodo(pid, c) OBVIOUS
<1>2. PICK open : open = WsOpen(pid) OBVIOUS
<1>3. a \in {p \in [reg : todo, slot : open] :
               Work!Cardinality({q \in todo : q <= p.reg}) =
               Work!Cardinality({s \in open : slots[s].n <= slots[p.slot].n})}
 BY <1>1, <1>2 DEF WsPairs
<1>4. a \in [reg : todo, slot : open] /\ Work!Cardinality({q \in todo : q <= a.reg}) =
               Work!Cardinality({s \in open : slots[s].n <= slots[a.slot].n})
 BY <1>3
<1>5. QED BY <1>1, <1>2, <1>4 DEF WsRank

LEMMA WsPairsMatch ==
  ASSUME WsShape, NEW pid, pid # 0, NEW c, NEW a \in WsPairs(pid, c), NEW b \in WsPairs(pid, c)
  PROVE  a.reg = b.reg <=> a.slot = b.slot
<1>1. PICK todo : todo = WsTodo(pid, c) OBVIOUS
<1>2. PICK open : open = WsOpen(pid) OBVIOUS
<1>3. todo \in SUBSET Regs /\ open \in SUBSET SlotIds /\ \A s \in open : slots[s].pid = pid /\ slots[s].n \in Nat
 BY <1>1, <1>2, WsTypes DEF WsTodo, WsOpen, Work!SlotsOf
<1>4. /\ a.reg \in todo /\ a.slot \in open /\ b.reg \in todo /\ b.slot \in open
      /\ Work!Cardinality({u \in todo : u <= a.reg}) = WsRank(open, a.slot)
      /\ Work!Cardinality({u \in todo : u <= b.reg}) = WsRank(open, b.slot)
 BY <1>1, <1>2, WsPairFacts
<1>5. ASSUME a.slot = b.slot PROVE a.reg = b.reg
 BY <1>3, <1>4, <1>5, WsQueue
<1>6. ASSUME a.reg = b.reg, a.slot # b.slot PROVE FALSE
 <2>1. WsRank(open, a.slot) = WsRank(open, b.slot) BY <1>4, <1>6
 <2>2. slots[a.slot].n # slots[b.slot].n
  BY <1>3, <1>4, <1>6 DEF WsShape, WsSlots
 <2>3. slots[a.slot].n < slots[b.slot].n \/ slots[b.slot].n < slots[a.slot].n
  BY <1>3, <1>4, <2>2
 <2>4. /\ \A i, j \in open : slots[i].n < slots[j].n => WsRank(open, i) < WsRank(open, j)
       /\ \A i \in open : WsRank(open, i) \in Nat
  BY <1>3, WsRanks
 <2>5. QED BY <1>4, <2>1, <2>3, <2>4
<1>7. QED BY <1>5, <1>6

\* What syncRead pairs may be linked.
LEMMA WsPairsLink ==
  ASSUME WsShape, NEW q, q.pid # 0, q.company \in Companies, WsSeated(parts, slots, regs, moved),
         parts[q.company].id = q.pid, NEW r, r.pc = "syncLink", r.pairs = WsPairs(q.pid, q.company)
  PROVE  WsLink(r, parts, slots, regs, moved)
<1>1. \A a \in r.pairs : /\ a.reg \in Regs /\ a.slot \in SlotIds
                         /\ regs[a.reg].company # None /\ parts[regs[a.reg].company].id = slots[a.slot].pid
                         /\ slots[a.slot].pid # 0 /\ (a.reg \in moved \/ \A i \in SlotIds : slots[i].reg # a.reg)
 <2> TAKE a \in r.pairs
 <2>1. a.reg \in WsTodo(q.pid, q.company) /\ a.slot \in WsOpen(q.pid)
  BY WsPairFacts
 <2>2. /\ a.reg \in Regs /\ regs[a.reg].company = q.company /\ \A i \in SlotIds : slots[i].pid = q.pid => slots[i].reg # a.reg
       /\ a.slot \in SlotIds /\ slots[a.slot].pid = q.pid
  BY <2>1 DEF WsTodo, WsOpen, Work!SlotsOf
 <2>3. q.company # None BY WsIds
 <2>4. ASSUME a.reg \notin moved, NEW i \in SlotIds, slots[i].reg = a.reg PROVE FALSE
  <3>1. a.reg # None BY <2>2, WsIds
  <3>2. parts[regs[a.reg].company].id = slots[i].pid
   BY <2>4, <3>1 DEF WsSeated
  <3>3. QED BY <2>2, <2>4, <3>2
 <2>5. QED BY <2>2, <2>3, <2>4
<1>2. \A a, b \in r.pairs : a.reg = b.reg <=> a.slot = b.slot
 BY WsPairsMatch
<1>3. QED BY <1>1, <1>2 DEF WsLink, WsReconciles


LEMMA WsLooksLink ==
  ASSUME WsShape, NEW h \in Handlers, WsLinkAt(reqs[h], parts, slots, regs, moved), WsLooks(h)
  PROVE  WsLinkOn(h)
<1>1. parts' = parts /\ slots' = slots /\ regs' = regs /\ moved' = moved
 BY WsLooking DEF WsTablesStay
<1>2. PICK q : q = reqs[h] OBVIOUS
<1>3. PICK r : WsLooked(h, q, r) BY <1>2, WsLooksGo
<1>4. /\ q \in Work!Requests /\ WsSeated(parts, slots, regs, moved) /\ WsOnce(slots, moved)
      /\ WsLink(q, parts, slots, regs, moved) /\ WsGoes(h, r) /\ WsAsks(q, paidOnce)
 BY <1>2, <1>3, WsTypes DEF WsLooked, WsLinkAt
<1>5. WsLink(r, parts, slots, regs, moved)
 <2>1. CASE WsUnlinked(r) BY <2>1, WsUnlinkedLink
 <2>2. CASE r.pc \in {"recDrop", "recSurvivors", "recFill"}
  <3>1. q.pc \in WsReconciles /\ r.pid = q.pid /\ r.company = q.company /\ r.then = q.then
   BY <1>3, <2>2 DEF WsLooked
  <3>2. r.then = "syncMark" => parts[r.company].id = r.pid
   BY <1>4, <3>1 DEF WsLink
  <3>3. QED BY <2>2, <3>2 DEF WsLink, WsReconciles
 <2>3. CASE r.pc = "syncLink"
  <3>1. q.pc = "syncRead" /\ r.pairs = WsPairs(q.pid, q.company)
   BY <1>3, <2>3 DEF WsLooked
  <3>2. q.pid # 0 /\ q.company \in Companies
   BY <1>4, <3>1 DEF WsAsks, WsReconciles
  <3>3. parts[q.company].id = q.pid BY <1>4, <3>1 DEF WsLink
  <3>4. QED BY <1>4, <2>3, <3>1, <3>2, <3>3, WsPairsLink
 <2>4. CASE r.pc = "assignWrite"
  <3>1. q.pc = "assign" /\ WsSeatRead(q, r) BY <1>3, <2>4 DEF WsLooked
  <3>2. q.company \in Companies /\ regs[q.reg].company = q.company
   BY <1>4, <3>1 DEF WsAsks, WsLink
  <3>3. /\ r.pid = parts[q.company].id /\ r.company = q.company /\ r.reg = q.reg /\ \A i \in SlotIds : slots[i].reg # q.reg
        /\ r.held = {s \in WsOpen(r.pid) : \A t \in WsOpen(r.pid) : slots[s].n <= slots[t].n}
        /\ parts[q.company] # Work!NoPart
   BY <3>1 DEF WsSeatRead
  <3>4. parts[q.company].id # 0 BY <3>2, <3>3, WsTypes
  <3>5. \A i \in r.held : i \in SlotIds /\ slots[i].pid = r.pid /\ slots[i].n \in Nat /\ i \in WsOpen(r.pid)
   BY <3>3, WsTypes DEF WsOpen, Work!SlotsOf
  <3>6. \A i, j \in r.held : i = j
   <4> SUFFICES ASSUME NEW i \in r.held, NEW j \in r.held PROVE i = j
    OBVIOUS
   <4>1. slots[i].n <= slots[j].n /\ slots[j].n <= slots[i].n
    BY <3>3, <3>5
   <4>2. slots[i].n = slots[j].n BY <3>5, <4>1
   <4>3. QED BY <3>3, <3>4, <3>5, <4>2 DEF WsShape, WsSlots
  <3>7. QED BY <2>4, <3>2, <3>3, <3>5, <3>6 DEF WsLink, WsReconciles
 <2>5. QED BY <1>3, <2>1, <2>2, <2>3, <2>4 DEF WsLooked, WsUnlinked, WsReconciles
<1>6. QED BY <1>1, <1>4, <1>5 DEF WsLinkOn, WsLinkAt

\* Only rows of participants and payments are written.
LEMMA WsLinksRow ==
  ASSUME WsShape, NEW h \in Handlers, NEW q, WsLinkAt(q, parts, slots, regs, moved), WsIdsStay,
         slots' = slots, regs' = regs, moved' = moved, NEW r, WsGoes(h, r), WsLink(r, parts', slots, regs, moved)
  PROVE  WsLinkOn(h)
<1>1. /\ \A i \in SlotIds : slots[i].reg = None \/ (slots[i].reg = slots[i].reg /\ slots[i].pid = slots[i].pid)
      /\ \A c \in Regs : regs'[c].company = regs[c].company
 OBVIOUS
<1>2. WsLink(r, parts', slots', regs', moved') OBVIOUS
<1>3. QED BY <1>1, <1>2, WsLinksStill

LEMMA WsWrittenIds ==
  ASSUME WsShape, NEW c, NEW x, WsWritten(c, x), paidOnce \subseteq paidOnce'
  PROVE  WsIdsStay /\ parts'[c] = x /\ c \in Companies
BY WsWrittenShape DEF WsIdsStay, WsWritten

LEMMA WsFinishLink ==
  ASSUME WsShape, NEW h \in Handlers, NEW q, WsLinkAt(q, parts, slots, regs, moved), WsIdsStay,
         slots' = slots, regs' = regs, moved' = moved, Work!Finish(h)
  PROVE  WsLinkOn(h)
<1>1. PICK r : r = Work!Idle OBVIOUS
<1>2. r.pc = "idle" /\ WsGoes(h, r)
 BY <1>1 DEF Work!Idle, Work!Finish, Work!Goto, WsGoes
<1>3. WsLink(r, parts', slots, regs, moved)
 BY <1>2, WsIdleUnlinked, WsUnlinkedLink
<1>4. QED BY <1>2, <1>3, WsLinksRow

LEMMA WsPaymentsLink ==
  ASSUME WsShape, NEW h \in Handlers, WsLinkAt(reqs[h], parts, slots, regs, moved),
         \/ Work!PayWrite(h) \/ Work!ImportPay(h) \/ Work!ConfirmWrite(h) \/ Work!CreateWrite(h)
  PROVE  WsLinkOn(h)
<1>1. slots' = slots /\ regs' = regs /\ moved' = moved
 BY DEF Work!PayWrite, Work!ImportPay, Work!ConfirmWrite, Work!CreateWrite
<1>2. PICK q : q = reqs[h] OBVIOUS
<1>3. q \in Work!Requests /\ WsLinkAt(q, parts, slots, regs, moved)
 BY <1>2, WsTypes
<1>4. ASSUME parts' = parts PROVE WsIdsStay BY <1>4 DEF WsIdsStay
<1>5. ASSUME WsTablesStay, Work!Finish(h) PROVE WsLinkOn(h)
 <2>1. WsIdsStay BY <1>4, <1>5 DEF WsTablesStay
 <2>2. QED BY <1>1, <1>3, <1>5, <2>1, WsFinishLink
<1>6. ASSUME NEW k, NEW c, NEW id, NEW owner, WsPaidRow(h, k, c, id, owner) PROVE WsLinkOn(h)
 <2>1. Work!Finish(h) /\ WsRecorded(id, owner, k.pay, c, k.body)
  BY <1>6 DEF WsPaidRow
 <2>2. paidOnce \subseteq paidOnce' BY <2>1 DEF WsRecorded
 <2>3. ASSUME NEW x, WsWritten(c, x) PROVE WsIdsStay
  BY <2>2, <2>3, WsWrittenIds
 <2>4. WsIdsStay BY <1>4, <1>6, <2>3 DEF WsPaidRow
 <2>5. QED BY <1>1, <1>3, <2>1, <2>4, WsFinishLink
<1>7. ASSUME NEW k, NEW c, NEW id, NEW owner, WsImported(h, k, c, id, owner) PROVE WsLinkOn(h)
 <2>1. PICK r : r = [k EXCEPT !.pc = "importFlag", !.pay = 0] OBVIOUS
 <2>2. k = q /\ WsGoes(h, r) /\ parts' = parts
  BY <1>2, <1>7, <2>1 DEF WsImported
 <2>3. r.pc = "importFlag" BY <1>3, <2>1, <2>2 DEF Work!Requests
 <2>4. WsUnlinked(r) BY <2>3 DEF WsUnlinked, WsReconciles
 <2>5. WsLink(r, parts', slots, regs, moved) BY <2>4, WsUnlinkedLink
 <2>6. QED BY <1>1, <1>3, <1>4, <2>2, <2>5, WsLinksRow
<1>8. ASSUME NEW k, NEW c, NEW pid, NEW id, WsConfirmed(h, k, c, pid, id) PROVE WsLinkOn(h)
 <2>1. PICK flag : flag = Work!Eligible(k.body) OBVIOUS
 <2>2. PICK then : then = (IF flag THEN "syncMark" ELSE "done") OBVIOUS
 <2>3. PICK x : x = [id |-> pid, confirmed |-> flag, count |-> k.count, active |-> TRUE]
  OBVIOUS
 <2>4. PICK r : r = Work!Reconcile(pid, c, k.count, k.rm, then) OBVIOUS
 <2>5. WsWritten(c, x) /\ WsGoes(h, r) /\ WsRecorded(id, c, newest[c], c, k.body)
  BY <1>8, <2>1, <2>2, <2>3, <2>4 DEF WsConfirmed
 <2>6. paidOnce \subseteq paidOnce' /\ x.id = pid
  BY <2>3, <2>5 DEF WsRecorded
 <2>7. WsIdsStay /\ parts'[c] = x BY <2>5, <2>6, WsWrittenIds
 <2>8. r.pc = "recRead" /\ r.pid = pid /\ r.company = c
  BY <2>4, WsReconcileFields
 <2>9. WsLink(r, parts', slots, regs, moved)
  BY <2>6, <2>7, <2>8 DEF WsLink, WsReconciles
 <2>10. QED BY <1>1, <1>3, <2>5, <2>7, <2>9, WsLinksRow
<1>9. ASSUME NEW k, NEW c, NEW pid, WsCreated(h, k, c, pid) PROVE WsLinkOn(h)
 <2>1. PICK x : x = [id |-> pid, confirmed |-> TRUE, count |-> k.count, active |-> TRUE]
  OBVIOUS
 <2>2. k = q /\ WsWritten(c, x) /\ paidOnce \subseteq paidOnce'
  BY <1>2, <1>9, <2>1 DEF WsCreated, WsBooksStay
 <2>3. WsIdsStay BY <2>2, WsWrittenIds
 <2>4. PICK r : r = [k EXCEPT !.pc = "createSlots", !.pid = pid] OBVIOUS
 <2>5. r.pc = "createSlots" BY <1>3, <2>2, <2>4 DEF Work!Requests
 <2>6. WsUnlinked(r) BY <2>5 DEF WsUnlinked, WsReconciles
 <2>7. WsLink(r, parts', slots, regs, moved) BY <2>6, WsUnlinkedLink
 <2>8. WsGoes(h, r) \/ Work!Finish(h) BY <1>9, <2>4 DEF WsCreated
 <2>9. QED BY <1>1, <1>3, <2>3, <2>7, <2>8, WsLinksRow, WsFinishLink
<1>10. QED
 BY <1>5, <1>6, <1>7, <1>8, <1>9, WsPayDoes, WsImportDoes, WsConfirmDoes, WsCreateDoes

LEMMA WsRowsLink ==
  ASSUME WsShape, NEW h \in Handlers, WsLinkAt(reqs[h], parts, slots, regs, moved),
         \/ \E c \in Companies, n \in Counts, rm \in BOOLEAN : Work!CountWrite(h, c, n, rm)
         \/ Work!ImportFlag(h) \/ Work!CleanWrite(h)
  PROVE  WsLinkOn(h)
<1>1. slots' = slots /\ regs' = regs /\ moved' = moved
 BY DEF Work!CountWrite, Work!ImportFlag, Work!CleanWrite
<1>2. PICK q : q = reqs[h] OBVIOUS
<1>3. q \in Work!Requests /\ WsLinkAt(q, parts, slots, regs, moved)
 BY <1>2, WsTypes
<1>4. ASSUME WsTablesStay, Work!Finish(h) PROVE WsLinkOn(h)
 <2>1. WsIdsStay BY <1>4 DEF WsTablesStay, WsIdsStay
 <2>2. QED BY <1>1, <1>3, <1>4, <2>1, WsFinishLink
<1>5. ASSUME NEW k, NEW c, NEW x, WsRowSet(h, k, c, x) PROVE WsLinkOn(h)
 <2>1. WsWritten(c, x) /\ paidOnce \subseteq paidOnce'
  BY <1>5 DEF WsRowSet, WsBooksStay
 <2>2. WsIdsStay /\ parts'[c] = x BY <2>1, WsWrittenIds
 <2>3. ASSUME NEW rm, WsGoes(h, Work!Reconcile(x.id, c, x.count, rm, "done")) PROVE WsLinkOn(h)
  <3>1. PICK y : y = Work!Reconcile(x.id, c, x.count, rm, "done") OBVIOUS
  <3>2. y.pc = "recRead" /\ y.then = "done" BY <3>1, WsReconcileFields
  <3>3. WsUnlinked(y) BY <3>2 DEF WsUnlinked, WsReconciles
  <3>4. WsLink(y, parts', slots, regs, moved) BY <3>3, WsUnlinkedLink
  <3>5. QED BY <1>1, <1>3, <2>2, <2>3, <3>1, <3>4, WsLinksRow
 <2>4. ASSUME k = q, c = q.company, q.pid = x.id, NEW pc \in {"recRead", "cleanNext"}, WsGoes(h, [q EXCEPT !.pc = pc])
       PROVE  WsLinkOn(h)
  <3>1. PICK y : y = [q EXCEPT !.pc = pc] OBVIOUS
  <3>2. y.pc = pc /\ y.pid = q.pid /\ y.company = q.company
   BY <1>3, <3>1 DEF Work!Requests
  <3>3. WsLink(y, parts', slots, regs, moved)
   BY <2>2, <2>4, <3>2 DEF WsLink, WsReconciles
  <3>4. QED BY <1>1, <1>3, <2>2, <2>4, <3>1, <3>3, WsLinksRow
 <2>5. CASE Work!Finish(h) BY <1>1, <1>3, <2>2, <2>5, WsFinishLink
 <2>6. QED BY <1>2, <1>5, <2>3, <2>4, <2>5 DEF WsRowSet
<1>6. \/ WsTablesStay /\ Work!Finish(h)
      \/ \E k, c, x : WsRowSet(h, k, c, x)
 BY WsFlagDoes, WsCountDoes, WsCleanDoes
<1>7. QED BY <1>4, <1>5, <1>6


\* What a link says of the slot that holds it.
LEMMA WsSeatFacts ==
  ASSUME WsShape, WsSeated(parts, slots, regs, moved), NEW i \in SlotIds, slots[i].reg # None, slots[i].reg \notin moved
  PROVE  /\ slots[i].reg \in Regs /\ regs[slots[i].reg].company \in Companies
         /\ parts[regs[slots[i].reg].company].id = slots[i].pid /\ slots[i].pid # 0
<1>1. PICK r : r = slots[i].reg OBVIOUS
<1>2. r \in Regs /\ slots[i].pid # 0
 BY <1>1, WsTypes DEF WsShape, WsSlots, Work!NoSlot
<1>3. regs[r].company \in Companies \cup {None}
 BY <1>2 DEF WsShape, WsRegs, Work!Registrations
<1>4. regs[r].company # None /\ parts[regs[r].company].id = slots[i].pid
 BY <1>1 DEF WsSeated
<1>5. QED BY <1>1, <1>2, <1>3, <1>4

\* The acting request ends or was none.
LEMMA WsLinkEnds ==
  ASSUME WsShape, NEW h \in Handlers, Work!Finish(h) \/ (reqs' = reqs /\ reqs[h].pc = "idle"),
         WsSeated(parts', slots', regs', moved'), WsOnce(slots', moved')
  PROVE  WsLinkOn(h)
<1>1. PICK r : r = Work!Idle \/ r = reqs[h] OBVIOUS
<1>2. \E y : y.pc = "idle" /\ WsGoes(h, y)
 <2>1. CASE Work!Finish(h) BY <2>1 DEF Work!Idle, Work!Finish, Work!Goto, WsGoes
 <2>2. CASE reqs' = reqs /\ reqs[h].pc = "idle" BY <2>2 DEF WsGoes, WsShape
 <2>3. QED BY <2>1, <2>2
<1>3. PICK y : y.pc = "idle" /\ WsGoes(h, y) BY <1>2
<1>4. WsLink(y, parts', slots', regs', moved')
 BY <1>3, WsIdleUnlinked, WsUnlinkedLink
<1>5. QED BY <1>3, <1>4 DEF WsLinkOn, WsLinkAt

LEMMA WsRemoveLink ==
  ASSUME WsShape, NEW h \in Handlers, WsLinkAt(reqs[h], parts, slots, regs, moved),
         NEW b \in Companies, NEW with \in BOOLEAN, Work!RemoveParticipant(h, b, with)
  PROVE  WsLinkOn(h)
<1>1. PICK pid, t, rows : WsRemoved(b, pid, t, rows) BY WsRemoveDoes
<1>2. PICK p2 : p2 = parts' OBVIOUS
<1>3. /\ pid = parts[b].id /\ pid # 0 /\ p2 = [parts EXCEPT ![b] = Work!NoPart] /\ t = slots'
      /\ t = [i \in SlotIds |-> IF slots[i].pid = pid THEN Work!NoSlot ELSE slots[i]]
      /\ regs' = regs /\ reqs' = reqs /\ moved' = moved
 BY <1>1, <1>2 DEF WsRemoved
<1>4. reqs[h].pc = "idle" /\ WsSeated(parts, slots, regs, moved) /\ WsOnce(slots, moved)
 BY DEF Work!RemoveParticipant, Work!Calls, WsLinkAt
<1>5. parts \in [Companies -> Work!Parts] BY DEF WsShape, WsParts
<1>6. \A d \in Companies : d # b => p2[d] = parts[d] BY <1>3, <1>5
<1>7. \A i \in SlotIds : t[i].reg # None => t[i] = slots[i] /\ slots[i].pid # pid
 BY <1>3 DEF Work!NoSlot
<1>8. WsSeated(p2, t, regs, moved)
 <2> SUFFICES ASSUME NEW i \in SlotIds, t[i].reg # None, t[i].reg \notin moved
     PROVE regs[t[i].reg].company # None /\ p2[regs[t[i].reg].company].id = t[i].pid
  BY DEF WsSeated
 <2>1. t[i] = slots[i] /\ slots[i].pid # pid BY <1>7
 <2>2. PICK r : r = slots[i].reg OBVIOUS
 <2>3. regs[r].company \in Companies /\ parts[regs[r].company].id = slots[i].pid
  BY <1>4, <2>1, <2>2, WsSeatFacts
 <2>4. regs[r].company # b /\ regs[r].company # None
  BY <1>3, <2>1, <2>3, WsIds
 <2>5. QED BY <1>6, <2>1, <2>2, <2>3, <2>4
<1>9. WsOnce(t, moved) BY <1>4, <1>7 DEF WsOnce
<1>10. QED BY <1>2, <1>3, <1>4, <1>8, <1>9, WsLinkEnds

LEMMA WsRegsLink ==
  ASSUME WsShape, NEW h \in Handlers, WsLinkAt(reqs[h], parts, slots, regs, moved),
         \/ \E r \in Regs, paid \in BOOLEAN : Work!Register(h, r, paid)
         \/ \E r \in Regs : Work!DeleteRegistration(h, r)
         \/ \E r \in Regs, c \in Companies \cup {None}, paid \in BOOLEAN : Work!PayRegistration(h, r, c, paid)
  PROVE  WsLinkOn(h)
<1>1. WsSeated(parts, slots, regs, moved) /\ WsOnce(slots, moved)
 BY DEF WsLinkAt
<1>2. reqs[h].pc = "idle"
 BY DEF Work!Register, Work!DeleteRegistration, Work!PayRegistration, Work!Calls
<1>3. PICK g2 : g2 = regs' OBVIOUS
<1>4. ASSUME NEW r, NEW x, WsRegistered(h, r, x) PROVE WsLinkOn(h)
 <2>1. slots' = slots /\ moved' = moved /\ reqs' = reqs /\ regs[r].state = "new" /\ WsSigned(r, x) /\ parts' = parts
  BY <1>4 DEF WsRegistered, WsPartsStay
 <2>2. r \in Regs /\ g2[r] = x /\ \A d \in Regs : d # r => g2[d] = regs[d]
  BY <1>3, <2>1, WsSignedShape DEF WsSigned
 <2>3. regs[r].company = None BY <2>1, <2>2 DEF WsShape, WsRegs
 <2>4. WsSeated(parts, slots, g2, moved)
  <3> SUFFICES ASSUME NEW i \in SlotIds, slots[i].reg # None, slots[i].reg \notin moved
      PROVE g2[slots[i].reg].company # None /\ parts[g2[slots[i].reg].company].id = slots[i].pid
   BY DEF WsSeated
  <3>1. slots[i].reg \in Regs /\ regs[slots[i].reg].company # None /\ parts[regs[slots[i].reg].company].id = slots[i].pid
   BY <1>1, WsSeatFacts, WsIds
  <3>2. slots[i].reg # r BY <2>3, <3>1
  <3>3. QED BY <2>2, <3>1, <3>2
 <2>5. QED BY <1>1, <1>2, <1>3, <2>1, <2>4, WsLinkEnds
<1>5. ASSUME NEW r, NEW t, WsUnsigned(h, r, t) PROVE WsLinkOn(h)
 <2>1. /\ parts' = parts /\ moved' = moved /\ reqs' = reqs /\ t = slots' /\ WsTouched(t)
       /\ \A i \in SlotIds : t[i].reg = (IF slots[i].reg = r THEN None ELSE slots[i].reg)
       /\ \A d \in Regs : g2[d].company = regs[d].company
  BY <1>3, <1>5 DEF WsUnsigned, WsPartsStay
 <2>2. \A i \in SlotIds : t[i].reg = None \/ (t[i].reg = slots[i].reg /\ t[i].pid = slots[i].pid)
  BY <2>1 DEF WsTouched
 <2>3. WsSeated(parts, t, g2, moved) /\ WsOnce(t, moved)
  BY <1>1, <2>1, <2>2, WsLinksStay
 <2>4. QED BY <1>2, <1>3, <2>1, <2>3, WsLinkEnds
<1>6. ASSUME NEW r, NEW x, NEW c, WsPaidReg(h, r, x, c) PROVE WsLinkOn(h)
 <2>1. PICK mv : mv = moved' OBVIOUS
 <2>2. /\ slots' = slots /\ WsSigned(r, x) /\ parts' = parts /\ x.company = c /\ c \in Companies \cup {None}
       /\ mv = (IF regs[r].company \in {None, c} THEN moved ELSE moved \cup {r})
       /\ \/ reqs' = reqs
          \/ c \in Companies /\ WsGoes(h, [Work!Idle EXCEPT !.pc = "assign", !.reg = r, !.company = c])
  BY <1>6, <2>1 DEF WsPaidReg, WsPartsStay
 <2>3. r \in Regs /\ g2[r] = x /\ \A d \in Regs : d # r => g2[d] = regs[d]
  BY <1>3, <2>2, WsSignedShape DEF WsSigned
 <2>4. moved \subseteq mv /\ (r \notin mv => regs[r].company \in {None, c})
  BY <2>2
 <2>5. WsSeated(parts, slots, g2, mv)
  <3> SUFFICES ASSUME NEW i \in SlotIds, slots[i].reg # None, slots[i].reg \notin mv
      PROVE g2[slots[i].reg].company # None /\ parts[g2[slots[i].reg].company].id = slots[i].pid
   BY DEF WsSeated
  <3>1. slots[i].reg \in Regs /\ regs[slots[i].reg].company # None /\ parts[regs[slots[i].reg].company].id = slots[i].pid
   BY <1>1, <2>4, WsSeatFacts, WsIds
  <3>2. CASE slots[i].reg = r BY <2>2, <2>3, <2>4, <3>1, <3>2
  <3>3. CASE slots[i].reg # r BY <2>3, <3>1, <3>3
  <3>4. QED BY <3>2, <3>3
 <2>6. WsOnce(slots, mv) BY <1>1, <2>4 DEF WsOnce
 <2>7. CASE reqs' = reqs BY <1>2, <1>3, <2>1, <2>2, <2>5, <2>6, <2>7, WsLinkEnds
 <2>8. CASE WsGoes(h, [Work!Idle EXCEPT !.pc = "assign", !.reg = r, !.company = c])
  <3>1. PICK y : y = [Work!Idle EXCEPT !.pc = "assign", !.reg = r, !.company = c]
   OBVIOUS
  <3>2. y.pc = "assign" /\ y.reg = r /\ y.company = c
   BY <3>1 DEF Work!Idle
  <3>3. g2[y.reg].company = y.company BY <2>2, <2>3, <3>2
  <3>4. WsLink(y, parts, slots, g2, mv)
   BY <3>2, <3>3 DEF WsLink, WsReconciles
  <3>5. QED BY <1>3, <2>1, <2>2, <2>5, <2>6, <2>8, <3>1, <3>4 DEF WsLinkOn, WsLinkAt
 <2>9. QED BY <2>2, <2>7, <2>8
<1>7. QED BY <1>4, <1>5, <1>6, WsRegisterDoes, WsUnregisterDoes, WsPayRegDoes


\* Slot k is given to a registration that may have it.
LEMMA WsLinkGained ==
  ASSUME WsShape, WsSeated(parts, slots, regs, moved), WsOnce(slots, moved), NEW p2, NEW t, NEW k \in SlotIds, NEW a,
         \A c \in Companies : parts[c].id # 0 => p2[c].id = parts[c].id,
         t[k].reg = a, regs[a].company # None, p2[regs[a].company].id = t[k].pid,
         a \in moved \/ \A i \in SlotIds : slots[i].reg # a,
         \A i \in SlotIds : i # k => t[i].reg = None \/ (t[i].reg = slots[i].reg /\ t[i].pid = slots[i].pid)
  PROVE  WsSeated(p2, t, regs, moved) /\ WsOnce(t, moved)
<1>1. WsSeated(p2, t, regs, moved)
 <2> SUFFICES ASSUME NEW i \in SlotIds, t[i].reg # None, t[i].reg \notin moved
     PROVE regs[t[i].reg].company # None /\ p2[regs[t[i].reg].company].id = t[i].pid
  BY DEF WsSeated
 <2>1. CASE i = k BY <2>1
 <2>2. CASE i # k
  <3>1. PICK r : r = t[i].reg OBVIOUS
  <3>2. slots[i].reg = r /\ t[i].pid = slots[i].pid BY <2>2, <3>1
  <3>3. regs[r].company \in Companies /\ parts[regs[r].company].id = slots[i].pid /\ slots[i].pid # 0
   BY <3>1, <3>2, WsSeatFacts
  <3>4. regs[r].company # None BY <3>3, WsIds
  <3>5. QED BY <3>1, <3>2, <3>3, <3>4
 <2>3. QED BY <2>1, <2>2
<1>2. WsOnce(t, moved)
 <2> SUFFICES ASSUME NEW i \in SlotIds, NEW j \in SlotIds, t[i].reg = t[j].reg, t[i].reg # None, t[i].reg \notin moved
     PROVE i = j
  BY DEF WsOnce
 <2>1. ASSUME i # k, j # k PROVE i = j BY <2>1 DEF WsOnce
 <2>2. ASSUME NEW u \in SlotIds, u # k, t[u].reg = a, a \notin moved, a # None PROVE FALSE
  BY <2>2
 <2>3. QED BY <2>1, <2>2
<1>3. QED BY <1>1, <1>2

LEMMA WsMarkLink ==
  ASSUME WsShape, NEW h \in Handlers, WsLinkAt(reqs[h], parts, slots, regs, moved), Work!SyncMark(h)
  PROVE  WsLinkOn(h)
<1>1. PICK q : WsMarked(h, q) BY WsMarkDoes
<1>2. PICK r : r = [q EXCEPT !.pc = "syncRead"] OBVIOUS
<1>3. /\ q = reqs[h] /\ q.pc = "syncMark" /\ parts' = parts /\ slots' = slots /\ moved' = moved /\ WsGoes(h, r)
      /\ \A b \in Regs : regs'[b].company = regs[b].company
 BY <1>1, <1>2 DEF WsMarked, WsPartsStay
<1>4. q \in Work!Requests /\ WsLinkAt(q, parts, slots, regs, moved)
 BY <1>3, WsTypes
<1>5. r.pc = "syncRead" /\ r.pid = q.pid /\ r.company = q.company
 BY <1>2, <1>4 DEF Work!Requests
<1>6. parts[q.company].id = q.pid BY <1>3, <1>4 DEF WsLinkAt, WsLink
<1>7. WsLink(r, parts', slots', regs', moved')
 BY <1>3, <1>5, <1>6 DEF WsLink, WsReconciles
<1>8. WsIdsStay BY <1>3 DEF WsIdsStay
<1>9. \A i \in SlotIds : slots[i].reg = None \/ (slots[i].reg = slots[i].reg /\ slots[i].pid = slots[i].pid)
 OBVIOUS
<1>10. QED BY <1>3, <1>4, <1>7, <1>8, <1>9, WsLinksStill

LEMMA WsSyncLink ==
  ASSUME WsShape, NEW h \in Handlers, WsLinkAt(reqs[h], parts, slots, regs, moved), Work!SyncLink(h)
  PROVE  WsLinkOn(h)
<1>1. ASSUME WsTablesStay, Work!Finish(h) PROVE WsLinkOn(h)
 <2>1. WsIdsStay /\ slots' = slots /\ regs' = regs /\ moved' = moved
  BY <1>1 DEF WsTablesStay, WsIdsStay
 <2>2. QED BY <1>1, <2>1, WsFinishLink
<1>2. ASSUME NEW q, NEW a, NEW t, WsSynced(h, q, a, t) PROVE WsLinkOn(h)
 <2>1. /\ q = reqs[h] /\ q.pc = "syncLink" /\ a \in q.pairs /\ t = slots' /\ parts' = parts /\ regs' = regs /\ moved' = moved
       /\ t = [i \in SlotIds |-> IF i = a.slot THEN [slots[i] EXCEPT !.reg = a.reg, !.named = TRUE] ELSE slots[i]]
       /\ WsTouched(t)
  BY <1>2 DEF WsSynced
 <2>2. q \in Work!Requests /\ WsSeated(parts, slots, regs, moved) /\ WsOnce(slots, moved) /\ WsLink(q, parts, slots, regs, moved)
  BY <2>1, WsTypes DEF WsLinkAt
 <2>3. q.pairs \in SUBSET [reg : Regs, slot : SlotIds]
  BY <2>2 DEF Work!Requests
 <2>4. /\ \A b \in q.pairs : /\ b.reg \in Regs /\ b.slot \in SlotIds
                             /\ regs[b.reg].company # None /\ parts[regs[b.reg].company].id = slots[b.slot].pid
                             /\ slots[b.slot].pid # 0 /\ (b.reg \in moved \/ \A i \in SlotIds : slots[i].reg # b.reg)
       /\ \A b, d \in q.pairs : b.reg = d.reg <=> b.slot = d.slot
  BY <2>1, <2>2 DEF WsLink
 <2>5. PICK k : k = a.slot OBVIOUS
 <2>6. PICK n : n = a.reg OBVIOUS
 <2>7. k \in SlotIds /\ n \in Regs BY <2>1, <2>4, <2>5, <2>6
 <2>8. t[k].reg = n /\ t[k].pid = slots[k].pid /\ \A i \in SlotIds : i # k => t[i] = slots[i]
  <3>1. PICK x : x = [slots[k] EXCEPT !.reg = n, !.named = TRUE] OBVIOUS
  <3>2. x.reg = n /\ x.pid = slots[k].pid
   <4>1. slots[k] \in Work!SlotRows BY <2>7, WsTypes
   <4>2. QED BY <3>1, <4>1 DEF Work!SlotRows
  <3>3. t = [i \in SlotIds |-> IF i = k THEN [slots[i] EXCEPT !.reg = n, !.named = TRUE] ELSE slots[i]]
   BY <2>1, <2>5, <2>6
  <3>4. t[k] = x /\ \A i \in SlotIds : i # k => t[i] = slots[i]
   BY <2>7, <3>1, <3>3
  <3>5. QED BY <3>2, <3>4
 <2>9. WsSeated(parts, t, regs, moved) /\ WsOnce(t, moved)
  <3>1. regs[n].company # None /\ parts[regs[n].company].id = t[k].pid /\ (n \in moved \/ \A i \in SlotIds : slots[i].reg # n)
   <4>1. /\ regs[a.reg].company # None /\ parts[regs[a.reg].company].id = slots[a.slot].pid
         /\ (a.reg \in moved \/ \A i \in SlotIds : slots[i].reg # a.reg)
    BY <2>1, <2>4
   <4>2. QED BY <2>5, <2>6, <2>8, <4>1
  <3>2. \A i \in SlotIds : i # k => t[i].reg = None \/ (t[i].reg = slots[i].reg /\ t[i].pid = slots[i].pid)
   BY <2>8
  <3>3. \A c \in Companies : parts[c].id # 0 => parts[c].id = parts[c].id
   OBVIOUS
  <3>4. QED BY <2>2, <2>7, <2>8, <3>1, <3>2, <3>3, WsLinkGained
 <2>10. CASE Work!Finish(h) BY <2>1, <2>9, <2>10, WsLinkEnds
 <2>11. CASE WsGoes(h, [q EXCEPT !.pairs = q.pairs \ {a}])
  <3>1. PICK r : r = [q EXCEPT !.pairs = q.pairs \ {a}] OBVIOUS
  <3>2. r.pc = "syncLink" /\ r.pairs = q.pairs \ {a}
   BY <2>1, <2>2, <3>1 DEF Work!Requests
  <3>3. \A i \in SlotIds : t[i].pid = slots[i].pid BY <2>8
  <3>4. \A b \in r.pairs : /\ b.reg \in Regs /\ b.slot \in SlotIds
                           /\ regs[b.reg].company # None /\ parts[regs[b.reg].company].id = t[b.slot].pid
                           /\ t[b.slot].pid # 0 /\ (b.reg \in moved \/ \A i \in SlotIds : t[i].reg # b.reg)
   <4> SUFFICES ASSUME NEW b \in r.pairs
       PROVE  /\ b.reg \in Regs /\ b.slot \in SlotIds
              /\ regs[b.reg].company # None /\ parts[regs[b.reg].company].id = t[b.slot].pid
              /\ t[b.slot].pid # 0 /\ (b.reg \in moved \/ \A i \in SlotIds : t[i].reg # b.reg)
    OBVIOUS
   <4>1. b \in q.pairs /\ b # a BY <3>2
   <4>2. b.reg # n
    <5>1. a = [reg |-> a.reg, slot |-> a.slot] /\ b = [reg |-> b.reg, slot |-> b.slot]
     BY <2>1, <2>3, <4>1
    <5>2. b.reg = a.reg => b.slot = a.slot BY <2>1, <2>4, <4>1
    <5>3. QED BY <2>6, <4>1, <5>1, <5>2
   <4>3. /\ b.reg \in Regs /\ b.slot \in SlotIds /\ regs[b.reg].company # None
         /\ parts[regs[b.reg].company].id = slots[b.slot].pid
         /\ slots[b.slot].pid # 0 /\ (b.reg \in moved \/ \A i \in SlotIds : slots[i].reg # b.reg)
    BY <2>4, <4>1
   <4>4. b.reg \in moved \/ \A i \in SlotIds : t[i].reg # b.reg
    BY <2>8, <4>2, <4>3
   <4>5. QED BY <3>3, <4>3, <4>4
  <3>5. \A b, d \in r.pairs : b.reg = d.reg <=> b.slot = d.slot
   BY <2>4, <3>2
  <3>6. WsLink(r, parts, t, regs, moved)
   BY <3>2, <3>4, <3>5 DEF WsLink, WsReconciles
  <3>7. QED BY <2>1, <2>9, <2>11, <3>1, <3>6 DEF WsLinkOn, WsLinkAt
 <2>12. QED BY <1>2, <2>10, <2>11 DEF WsSynced
<1>3. QED BY <1>1, <1>2, WsSyncDoes


LEMMA WsNameLink ==
  ASSUME WsShape, NEW h \in Handlers, WsLinkAt(reqs[h], parts, slots, regs, moved), Work!SlotWrite(h)
  PROVE  WsLinkOn(h)
<1>1. PICK q, t : WsNamed(h, q, t) BY WsNameDoes
<1>2. /\ t = slots' /\ parts' = parts /\ regs' = regs /\ moved' = moved /\ WsTouched(t) /\ Work!Finish(h)
      /\ \A i \in SlotIds : t[i].reg = slots[i].reg
 BY <1>1 DEF WsNamed
<1>3. \A i \in SlotIds : t[i].reg = None \/ (t[i].reg = slots[i].reg /\ t[i].pid = slots[i].pid)
 BY <1>2 DEF WsTouched
<1>4. WsSeated(parts, t, regs, moved) /\ WsOnce(t, moved)
 <2>1. WsSeated(parts, slots, regs, moved) /\ WsOnce(slots, moved)
  BY DEF WsLinkAt
 <2>2. \A c \in Companies : parts[c].id # 0 => parts[c].id = parts[c].id
  OBVIOUS
 <2>3. \A r \in Regs : regs[r].company = regs[r].company OBVIOUS
 <2>4. QED BY <1>3, <2>1, <2>2, <2>3, WsLinksStay
<1>5. QED BY <1>2, <1>4, WsLinkEnds

\* Slots go or open ones come.
LEMMA WsSlotsLink ==
  ASSUME WsShape, NEW h \in Handlers, NEW q, WsLinkAt(q, parts, slots, regs, moved), parts' = parts, regs' = regs, moved' = moved,
         NEW t, t = slots', \A i \in SlotIds : t[i] = slots[i] \/ t[i].reg = None,
         \/ Work!Finish(h)
         \/ \E r : WsGoes(h, r) /\ WsLink(r, parts, t, regs, moved)
  PROVE  WsLinkOn(h)
<1>1. \A i \in SlotIds : t[i].reg = None \/ (t[i].reg = slots[i].reg /\ t[i].pid = slots[i].pid)
 OBVIOUS
<1>2. WsSeated(parts, t, regs, moved) /\ WsOnce(t, moved)
 <2>1. WsSeated(parts, slots, regs, moved) /\ WsOnce(slots, moved)
  BY DEF WsLinkAt
 <2>2. \A c \in Companies : parts[c].id # 0 => parts[c].id = parts[c].id
  OBVIOUS
 <2>3. \A r \in Regs : regs[r].company = regs[r].company OBVIOUS
 <2>4. QED BY <1>1, <2>1, <2>2, <2>3, WsLinksStay
<1>3. CASE Work!Finish(h) BY <1>2, <1>3, WsLinkEnds
<1>4. ASSUME NEW r, WsGoes(h, r), WsLink(r, parts, t, regs, moved) PROVE WsLinkOn(h)
 BY <1>2, <1>4 DEF WsLinkOn, WsLinkAt
<1>5. QED BY <1>3, <1>4

LEMMA WsAddsOpen ==
  ASSUME NEW t, NEW pid, NEW ns, WsAdds(t, pid, ns, None) PROVE \A i \in SlotIds : t[i] = slots[i] \/ t[i].reg = None
<1> TAKE i \in SlotIds
<1>1. t[i] = slots[i] \/ t[i] = [pid |-> pid, n |-> t[i].n, named |-> None # None, reg |-> None]
 BY DEF WsAdds
<1>2. QED BY <1>1

LEMMA WsReconcileLink ==
  ASSUME WsShape, NEW h \in Handlers, WsLinkAt(reqs[h], parts, slots, regs, moved),
         Work!RecDrop(h) \/ Work!RecFill(h) \/ Work!CreateSlots(h)
  PROVE  WsLinkOn(h)
<1>1. ASSUME NEW q, WsDropped(h, q) PROVE WsLinkOn(h)
 <2>1. PICK t : t = slots' OBVIOUS
 <2>2. PICK r : r = [q EXCEPT !.pc = "recSurvivors", !.held = {}] OBVIOUS
 <2>3. /\ q = reqs[h] /\ q.pc = "recDrop" /\ parts' = parts /\ regs' = regs /\ moved' = moved /\ WsGoes(h, r)
       /\ t = [i \in SlotIds |-> IF i \in q.held THEN Work!NoSlot ELSE slots[i]]
  BY <1>1, <2>1, <2>2 DEF WsDropped
 <2>4. q \in Work!Requests /\ WsLinkAt(q, parts, slots, regs, moved)
  BY <2>3, WsTypes
 <2>5. r.pc = "recSurvivors" /\ r.pid = q.pid /\ r.company = q.company /\ r.then = q.then
  BY <2>2, <2>4 DEF Work!Requests
 <2>6. r.then = "syncMark" => parts[r.company].id = r.pid
  BY <2>3, <2>4, <2>5 DEF WsLinkAt, WsLink, WsReconciles
 <2>7. WsLink(r, parts, t, regs, moved)
  BY <2>5, <2>6 DEF WsLink, WsReconciles
 <2>8. \A i \in SlotIds : t[i] = slots[i] \/ t[i].reg = None
  BY <2>3 DEF Work!NoSlot
 <2>9. QED BY <2>1, <2>3, <2>4, <2>7, <2>8, WsSlotsLink
<1>2. ASSUME NEW q, NEW ns, WsFilled(h, q, ns) PROVE WsLinkOn(h)
 <2>1. PICK t : t = slots' OBVIOUS
 <2>2. q = reqs[h] /\ q.pc = "recFill" /\ parts' = parts /\ regs' = regs /\ moved' = moved
  BY <1>2 DEF WsFilled
 <2>3. q \in Work!Requests /\ WsLinkAt(q, parts, slots, regs, moved)
  BY <2>2, WsTypes
 <2>4. t = slots \/ WsAdds(t, q.pid, ns, None) BY <1>2, <2>1 DEF WsFilled
 <2>5. \A i \in SlotIds : t[i] = slots[i] \/ t[i].reg = None
  BY <2>4, WsAddsOpen
 <2>6. PICK r : r = [q EXCEPT !.pc = q.then, !.held = {}] OBVIOUS
 <2>7. Work!Finish(h) \/ (WsGoes(h, r) /\ q.then # "done")
  BY <1>2, <2>6 DEF WsFilled
 <2>8. ASSUME q.then # "done" PROVE WsLink(r, parts, t, regs, moved)
  <3>1. r.pc = q.then /\ r.pid = q.pid /\ r.company = q.company /\ q.then \in {"syncMark", "cleanNext"}
   BY <2>3, <2>6, <2>8 DEF Work!Requests
  <3>2. r.pc = "syncMark" => parts[r.company].id = r.pid
   BY <2>2, <2>3, <3>1 DEF WsLinkAt, WsLink, WsReconciles
  <3>3. QED BY <3>1, <3>2 DEF WsLink, WsReconciles
 <2>9. QED BY <2>1, <2>2, <2>3, <2>5, <2>7, <2>8, WsSlotsLink
<1>3. ASSUME NEW q, NEW c, WsMade(h, q, c) PROVE WsLinkOn(h)
 <2>1. PICK t : t = slots' OBVIOUS
 <2>2. /\ q = reqs[h] /\ parts' = parts /\ regs' = regs /\ moved' = moved /\ Work!Finish(h)
       /\ WsAdds(t, q.pid, 1 .. q.count, None)
  BY <1>3, <2>1 DEF WsMade, WsGrown
 <2>3. \A i \in SlotIds : t[i] = slots[i] \/ t[i].reg = None
  BY <2>2, WsAddsOpen
 <2>4. WsLinkAt(q, parts, slots, regs, moved) BY <2>2
 <2>5. QED BY <2>1, <2>2, <2>3, <2>4, WsSlotsLink
<1>4. ASSUME WsTablesStay, Work!Finish(h) PROVE WsLinkOn(h)
 <2>1. WsIdsStay /\ slots' = slots /\ regs' = regs /\ moved' = moved
  BY <1>4 DEF WsTablesStay, WsIdsStay
 <2>2. QED BY <1>4, <2>1, WsFinishLink
<1>5. QED BY <1>1, <1>2, <1>3, <1>4, WsDropDoes, WsFillDoes, WsMakeDoes

LEMMA WsAssignLink ==
  ASSUME WsShape, NEW h \in Handlers, WsLinkAt(reqs[h], parts, slots, regs, moved), Work!AssignWrite(h)
  PROVE  WsLinkOn(h)
<1>1. PICK q : q = reqs[h] OBVIOUS
<1>2. q.pc = "assignWrite" /\ q \in Work!Requests /\ WsAsks(q, paidOnce) /\ WsSeated(parts, slots, regs, moved)
      /\ WsOnce(slots, moved) /\ WsLink(q, parts, slots, regs, moved)
 BY <1>1, WsTypes DEF WsLinkAt, Work!AssignWrite, Work!At
<1>3. q.reg \in Regs /\ q.company \in Companies /\ q.pid # 0 /\ q.held \in SUBSET SlotIds
 BY <1>2 DEF WsAsks, Work!Requests
<1>4. PICK a : a = q.reg OBVIOUS
<1>5. /\ regs[a].company = q.company /\ regs[a].company # None /\ parts[q.company].id = q.pid /\ \A i \in SlotIds : slots[i].reg # a
      /\ \A i \in q.held : slots[i].pid = q.pid
      /\ \A i, j \in q.held : i = j
 BY <1>2, <1>3, <1>4, WsIds DEF WsLink
<1>6. ASSUME WsTablesStay, Work!Finish(h) PROVE WsLinkOn(h)
 <2>1. WsIdsStay /\ slots' = slots /\ regs' = regs /\ moved' = moved
  BY <1>6 DEF WsTablesStay, WsIdsStay
 <2>2. QED BY <1>6, <2>1, WsFinishLink
<1>7. ASSUME NEW u, NEW t, WsSeatTaken(h, u, t) PROVE WsLinkOn(h)
 <2>1. /\ u = q /\ q.held # {} /\ t = slots' /\ parts' = parts /\ regs' = regs /\ moved' = moved /\ Work!Finish(h)
       /\ t = [i \in SlotIds |-> IF i \in u.held /\ slots[i] # Work!NoSlot
                                 THEN [slots[i] EXCEPT !.reg = u.reg, !.named = TRUE] ELSE slots[i]]
  BY <1>1, <1>7 DEF WsSeatTaken
 <2>2. PICK k : k \in q.held BY <2>1
 <2>3. k \in SlotIds /\ slots[k].pid = q.pid /\ slots[k].pid # 0 /\ slots[k] \in Work!SlotRows
  BY <1>3, <1>5, <2>2, WsTypes
 <2>4. slots[k] # Work!NoSlot BY <2>3, WsSlotOwned
 <2>5. PICK x : x = [slots[k] EXCEPT !.reg = a, !.named = TRUE] OBVIOUS
 <2>6. x.reg = a /\ x.pid = slots[k].pid BY <2>3, <2>5 DEF Work!SlotRows
 <2>7. t[k] = x BY <1>4, <2>1, <2>2, <2>3, <2>4, <2>5
 <2>8. \A i \in SlotIds : i # k => i \notin q.held BY <1>5, <2>2
 <2>9. \A i \in SlotIds : i # k => t[i] = slots[i] BY <2>1, <2>8
 <2>10. WsSeated(parts, t, regs, moved) /\ WsOnce(t, moved)
  <3>1. t[k].reg = a /\ parts[regs[a].company].id = t[k].pid
   BY <1>5, <2>3, <2>6, <2>7
  <3>2. \A i \in SlotIds : i # k => t[i].reg = None \/ (t[i].reg = slots[i].reg /\ t[i].pid = slots[i].pid)
   BY <2>9
  <3>3. \A c \in Companies : parts[c].id # 0 => parts[c].id = parts[c].id
   OBVIOUS
  <3>4. QED BY <1>2, <1>5, <2>3, <3>1, <3>2, <3>3, WsLinkGained
 <2>11. QED BY <2>1, <2>10, WsLinkEnds
<1>8. ASSUME NEW u, NEW c, NEW x, WsSeatAdded(h, u, c, x) PROVE WsLinkOn(h)
 <2>1. PICK t : t = slots' OBVIOUS
 <2>2. PICK p2 : p2 = parts' OBVIOUS
 <2>3. PICK n : n = q.count OBVIOUS
 <2>4. /\ u = q /\ c = q.company /\ regs' = regs /\ moved' = moved /\ Work!Finish(h) /\ paidOnce' = paidOnce
       /\ WsAdds(t, q.pid, {n}, a) /\ WsWritten(c, x)
  BY <1>1, <1>4, <1>8, <2>1, <2>3 DEF WsSeatAdded, WsGrown, WsRestStay
 <2>5. \A d \in Companies : parts[d].id # 0 => p2[d].id = parts[d].id
  BY <2>2, <2>4, WsWrittenIds DEF WsIdsStay
 <2>6. PICK k \in SlotIds : slots[k] = Work!NoSlot /\ t[k].pid = q.pid /\ t[k].n = n
  BY <2>4 DEF WsAdds
 <2>7. t[k] # slots[k] BY <1>3, <2>6 DEF Work!NoSlot
 <2>8. t[k].reg = a
  <3>1. t[k] = [pid |-> q.pid, n |-> t[k].n, named |-> a # None, reg |-> a]
   BY <2>4, <2>7 DEF WsAdds
  <3>2. QED BY <3>1
 <2>9. \A i \in SlotIds : i # k => t[i] = slots[i]
  <3> SUFFICES ASSUME NEW i \in SlotIds, t[i] # slots[i] PROVE i = k
   OBVIOUS
  <3>1. t[i].n = n BY <2>4 DEF WsAdds
  <3>2. QED BY <2>4, <2>6, <2>7, <3>1 DEF WsAdds
 <2>10. WsSeated(p2, t, regs, moved) /\ WsOnce(t, moved)
  <3>1. p2[regs[a].company].id = t[k].pid BY <1>3, <1>5, <2>5, <2>6
  <3>2. \A i \in SlotIds : i # k => t[i].reg = None \/ (t[i].reg = slots[i].reg /\ t[i].pid = slots[i].pid)
   BY <2>9
  <3>3. QED BY <1>2, <1>5, <2>5, <2>8, <3>1, <3>2, WsLinkGained
 <2>11. QED BY <2>1, <2>2, <2>4, <2>10, WsLinkEnds
<1>9. QED BY <1>6, <1>7, <1>8, WsAssignDoes

LEMMA WsLinksStep ==
  ASSUME WsShape, WsLinks, NEW h \in Handlers, WsTurn(h), Work!WsStep(h), ~merged'
  PROVE  WsLinks'
<1>1. WsLinkAt(reqs[h], parts, slots, regs, moved)
 BY DEF WsLinks, WsLinkAt
<1>2. WsLinkOn(h)
 <2>1. CASE WsLooks(h) BY <1>1, <2>1, WsLooksLink
 <2>2. CASE Work!MergeWrite(h)
  <3>1. WsTablesStay /\ Work!Finish(h) BY <2>2, WsNoMerge
  <3>2. WsIdsStay /\ slots' = slots /\ regs' = regs /\ moved' = moved
   BY <3>1 DEF WsIdsStay, WsTablesStay
  <3>3. QED BY <1>1, <3>1, <3>2, WsFinishLink
 <2>3. CASE WsWrites(h) /\ ~Work!MergeWrite(h)
  BY <1>1, <2>3, WsRegsLink, WsMarkLink, WsSyncLink, WsNameLink, WsReconcileLink, WsAssignLink, WsPaymentsLink, WsRowsLink,
     WsRemoveLink DEF WsWrites
 <2>4. QED BY <2>1, <2>2, <2>3, WsStepKinds
<1>3. PICK r : WsGoes(h, r) /\ WsLinkAt(r, parts', slots', regs', moved')
 BY <1>2 DEF WsLinkOn
<1>4. QED BY <1>3, WsLinksAfter

-----------------------------------------------------------------------------
\* Steps that take no slot away.
WsSlotsLast == \A i \in SlotIds : slots[i].pid # 0 => slots'[i].pid # 0

LEMMA WsTouchedLast == ASSUME NEW t, t = slots', WsTouched(t) PROVE WsSlotsLast
BY DEF WsTouched, WsSlotsLast

LEMMA WsAddsLast ==
  ASSUME NEW t, t = slots', NEW pid, NEW ns, NEW reg, WsAdds(t, pid, ns, reg) PROVE WsSlotsLast
<1> SUFFICES ASSUME NEW i \in SlotIds, slots[i].pid # 0 PROVE t[i].pid # 0
 BY DEF WsSlotsLast
<1>1. t[i] = slots[i] \/ slots[i] = Work!NoSlot BY DEF WsAdds
<1>2. QED BY <1>1 DEF Work!NoSlot

LEMMA WsMergedLast ==
  ASSUME WsShape, NEW h \in Handlers, NEW q, NEW t, NEW own, NEW mine, NEW top, NEW p, NEW rows, NEW s, NEW x,
         WsMerged(h, q, t, own, mine, top, p, rows, s, x)
  PROVE  WsSlotsLast
<1>1. s = slots' /\ t.id # 0 BY DEF WsMerged, WsMergedTo
<1>2. /\ \A i \in SlotIds : i \notin mine => s[i] = slots[i]
      /\ \A i \in mine : s[i].pid = t.id
 BY WsMergedSlots
<1>3. QED BY <1>1, <1>2 DEF WsSlotsLast

LEMMA WsSlotsStaying ==
  ASSUME WsShape, NEW h \in Handlers, Work!WsStep(h)
  PROVE  \/ WsSlotsLast \/ Work!RecDrop(h)
         \/ \E c \in Companies, with \in BOOLEAN : Work!RemoveParticipant(h, c, with)
<1>1. ASSUME slots' = slots PROVE WsSlotsLast BY <1>1 DEF WsSlotsLast
<1>2. ASSUME WsTablesStay PROVE WsSlotsLast BY <1>1, <1>2 DEF WsTablesStay
<1>3. CASE WsLooks(h) BY <1>2, <1>3, WsLooking
<1>4. CASE \/ \E c \in Companies, n \in Counts, rm \in BOOLEAN : Work!CountWrite(h, c, n, rm)
           \/ \E r \in Regs, paid \in BOOLEAN : Work!Register(h, r, paid)
           \/ \E r \in Regs, c \in Companies \cup {None}, paid \in BOOLEAN : Work!PayRegistration(h, r, c, paid)
           \/ Work!ConfirmWrite(h) \/ Work!SyncMark(h) \/ Work!CreateWrite(h) \/ Work!PayWrite(h)
           \/ Work!ImportPay(h) \/ Work!ImportFlag(h) \/ Work!CleanWrite(h)
 <2>1. slots' = slots
  BY <1>4 DEF Work!CountWrite, Work!Register, Work!PayRegistration, Work!ConfirmWrite, Work!SyncMark,
     Work!CreateWrite, Work!PayWrite, Work!ImportPay, Work!ImportFlag, Work!CleanWrite
 <2>2. QED BY <1>1, <2>1
<1>5. CASE \E r \in Regs : Work!DeleteRegistration(h, r)
 <2>1. PICK r \in Regs : Work!DeleteRegistration(h, r) BY <1>5
 <2>2. PICK t : WsUnsigned(h, r, t) BY <2>1, WsUnregisterDoes
 <2>3. QED BY <2>2, WsTouchedLast DEF WsUnsigned
<1>6. CASE Work!RecFill(h)
 <2>1. PICK q, ns : WsFilled(h, q, ns) BY <1>6, WsFillDoes
 <2>2. PICK t : t = slots' OBVIOUS
 <2>3. slots' = slots \/ WsAdds(t, q.pid, ns, None)
  BY <2>1, <2>2 DEF WsFilled
 <2>4. QED BY <1>1, <2>2, <2>3, WsAddsLast
<1>7. CASE Work!SyncLink(h)
 <2>1. ASSUME NEW q, NEW a, NEW t, WsSynced(h, q, a, t) PROVE WsSlotsLast
  BY <2>1, WsTouchedLast DEF WsSynced
 <2>2. QED BY <1>2, <1>7, <2>1, WsSyncDoes
<1>8. CASE Work!CreateSlots(h)
 <2>1. ASSUME NEW q, NEW c, WsMade(h, q, c) PROVE WsSlotsLast
  <3>1. PICK t : t = slots' OBVIOUS
  <3>2. WsAdds(t, q.pid, 1 .. q.count, None)
   BY <2>1, <3>1 DEF WsMade, WsGrown
  <3>3. QED BY <3>1, <3>2, WsAddsLast
 <2>2. QED BY <1>2, <1>8, <2>1, WsMakeDoes
<1>9. CASE Work!SlotWrite(h)
 <2>1. PICK q, t : WsNamed(h, q, t) BY <1>9, WsNameDoes
 <2>2. QED BY <2>1, WsTouchedLast DEF WsNamed
<1>10. CASE Work!MergeWrite(h) BY <1>2, <1>10, WsMergeDoes, WsMergedLast
<1>11. CASE Work!AssignWrite(h)
 <2>1. ASSUME NEW q, NEW t, WsSeatTaken(h, q, t) PROVE WsSlotsLast
  BY <2>1, WsTouchedLast DEF WsSeatTaken
 <2>2. ASSUME NEW q, NEW c, NEW x, WsSeatAdded(h, q, c, x) PROVE WsSlotsLast
  <3>1. PICK t : t = slots' OBVIOUS
  <3>2. WsAdds(t, q.pid, {q.count}, q.reg)
   BY <2>2, <3>1 DEF WsSeatAdded, WsGrown
  <3>3. QED BY <3>1, <3>2, WsAddsLast
 <2>3. QED BY <1>2, <1>11, <2>1, <2>2, WsAssignDoes
<1>12. QED
 BY <1>3, <1>4, <1>5, <1>6, <1>7, <1>8, <1>9, <1>10, <1>11, WsStepKinds DEF WsWrites

\* While requests do not overlap, named slots go only where they may.
LEMMA WsNamedStep ==
  ASSUME WsShape, WsAlone, NEW h \in Handlers, WsTurn(h), Work!WsStep(h),
         NEW i \in SlotIds, slots[i].named, slots'[i] = Work!NoSlot
  PROVE  (\A c \in Companies : parts'[c].id # slots[i].pid) \/ (reqs[h].pc = "recDrop" /\ reqs[h].rm)
<1>1. slots[i].pid # 0 BY WsSlotOwned DEF Work!NoSlot
<1>2. slots'[i].pid = 0 BY DEF Work!NoSlot
<1>3. ~WsSlotsLast BY <1>1, <1>2 DEF WsSlotsLast
<1>4. CASE Work!RecDrop(h)
 <2>1. PICK q : WsDropped(h, q) BY <1>4, WsDropDoes
 <2>2. q = reqs[h] /\ q.pc = "recDrop" /\ slots' = [j \in SlotIds |-> IF j \in q.held THEN Work!NoSlot ELSE slots[j]]
  BY <2>1 DEF WsDropped
 <2>3. i \in q.held BY <1>1, <1>2, <2>2
 <2>4. WsPlan(q, parts, slots) /\ q.rm \in BOOLEAN
  BY <2>2, WsTypes DEF WsAlone, Work!Requests
 <2>5. q.rm BY <2>2, <2>3, <2>4 DEF WsPlan
 <2>6. QED BY <2>2, <2>5
<1>5. ASSUME NEW c \in Companies, NEW with \in BOOLEAN, Work!RemoveParticipant(h, c, with)
      PROVE  \A d \in Companies : parts'[d].id # slots[i].pid
 <2>1. PICK pid, t, rows : WsRemoved(c, pid, t, rows)
  BY <1>5, WsRemoveDoes
 <2>2. PICK p2 : p2 = parts' OBVIOUS
 <2>3. /\ pid = parts[c].id /\ p2 = [parts EXCEPT ![c] = Work!NoPart] /\ t = slots'
       /\ t = [j \in SlotIds |-> IF slots[j].pid = pid THEN Work!NoSlot ELSE slots[j]]
  BY <2>1, <2>2 DEF WsRemoved
 <2>4. slots[i].pid = pid BY <1>1, <1>2, <2>3
 <2>5. parts \in [Companies -> Work!Parts] /\ \A d \in Companies : parts[d].id = parts[c].id /\ parts[d].id # 0 => d = c
  BY DEF WsShape, WsParts
 <2>6. p2[c].id = 0 /\ \A d \in Companies : d # c => p2[d] = parts[d]
  BY <2>3, <2>5, WsNoPart
 <2>7. QED BY <1>1, <2>2, <2>3, <2>4, <2>5, <2>6
<1>6. QED BY <1>3, <1>4, <1>5, WsSlotsStaying


LEMMA WsInvInit == Work!WsInit => WsInv
<1> SUFFICES ASSUME Work!WsInit PROVE WsInv
 OBVIOUS
<1>1. WsShape BY WsShapeInit
<1>2. /\ \A c \in Companies : parts[c].id = 0 /\ newest[c] = 0
      /\ \A i \in SlotIds : slots[i].reg = None
      /\ \A i \in PayIds : pays[i].company = None
      /\ \A h \in Handlers : reqs[h] = Work!Idle
      /\ merged = FALSE /\ refused = {}
 BY DEF Work!WsInit, Work!NoPart, Work!NoSlot, Work!NoPay
<1>3. PICK q : q = Work!Idle OBVIOUS
<1>4. q.pc = "idle" BY <1>3 DEF Work!Idle
<1>5. WsLone /\ WsGapless(parts, slots) /\ WsTallied(parts, slots, refused, q) /\ WsFlagged(parts, pays, newest, q)
 BY <1>2, <1>3, <1>4 DEF WsLone, WsGapless, WsTallied, WsFlagged
<1>6. WsPlan(q, parts, slots) BY <1>4 DEF WsPlan, WsCounts, WsReconciles
<1>7. WsBill(q, parts, pays, newest) BY <1>4 DEF WsBill
<1>8. WsLink(q, parts, slots, regs, moved)
 BY <1>4, WsIdleUnlinked, WsUnlinkedLink
<1>9. WsOneRow(pays, newest) BY <1>2, WsIds DEF WsOneRow
<1>10. WsSeated(parts, slots, regs, moved) /\ WsOnce(slots, moved)
 BY <1>2 DEF WsSeated, WsOnce
<1>11. \A h \in Handlers : reqs[h] = q BY <1>2, <1>3
<1>12. WsAlone BY <1>5, <1>6, <1>11 DEF WsAlone
<1>13. WsBooks BY <1>5, <1>7, <1>9, <1>11 DEF WsBooks
<1>14. WsLinks BY <1>8, <1>10, <1>11 DEF WsLinks
<1>15. QED BY <1>1, <1>2, <1>12, <1>13, <1>14 DEF WsInv

LEMMA WsInvStep == WsInv /\ Work!WsNext => WsInv'
<1> SUFFICES ASSUME WsInv, Work!WsNext PROVE WsInv'
 OBVIOUS
<1>1. PICK h \in Handlers : Work!WsStep(h) /\ wsCalm' = (wsCalm /\ Work!Alone(h))
 BY DEF Work!WsNext
<1>2. WsShape BY DEF WsInv
<1>3. wsCalm' \in BOOLEAN /\ (wsCalm' => wsCalm /\ WsTurn(h))
 <2>1. Work!Alone(h) => WsTurn(h) BY DEF Work!Alone, WsTurn
 <2>2. QED BY <1>1, <2>1
<1>4. WsShape' BY <1>1, <1>2, <1>3, WsShapeStep
<1>5. ASSUME wsCalm' PROVE WsAlone' /\ (~merged' => WsBooks' /\ WsLinks')
 <2>1. WsAlone /\ WsTurn(h) /\ (~merged => WsBooks /\ WsLinks)
  BY <1>3, <1>5 DEF WsInv
 <2>2. WsAlone' BY <1>1, <1>2, <2>1, WsAloneStep
 <2>3. ASSUME ~merged' PROVE WsBooks' /\ WsLinks'
  BY <1>1, <1>2, <2>1, <2>3, WsMergedForGood, WsBooksStep, WsLinksStep
 <2>4. QED BY <2>2, <2>3
<1>6. QED BY <1>1, <1>4, <1>5 DEF WsInv

LEMMA WsNamedKept == WsInv /\ Work!WsNext => Work!NamedKept
<1> SUFFICES ASSUME WsInv, Work!WsNext, wsCalm', NEW i \in SlotIds, slots[i].named, slots'[i] = Work!NoSlot
    PROVE  \/ \A c \in Companies : parts'[c].id # slots[i].pid
           \/ \E h \in Handlers : reqs[h].pc = "recDrop" /\ reqs[h].rm
 BY DEF Work!NamedKept
<1>1. PICK h \in Handlers : Work!WsStep(h) /\ wsCalm' = (wsCalm /\ Work!Alone(h))
 BY DEF Work!WsNext
<1>2. wsCalm /\ WsTurn(h) BY <1>1 DEF Work!Alone, WsTurn
<1>3. WsShape /\ WsAlone BY <1>2 DEF WsInv
<1>4. QED BY <1>1, <1>2, <1>3, WsNamedStep

LEMMA WsSlotsCounted ==
  ASSUME WsInv, wsCalm, Work!Quiet, NEW c \in Companies, parts[c] # Work!NoPart
  PROVE  /\ Work!NumbersOf(parts[c].id) = 1 .. Work!Cardinality(Work!SlotsOf(parts[c].id))
         /\ \/ parts[c].count = Work!Cardinality(Work!SlotsOf(parts[c].id))
            \/ /\ c \in refused
               /\ parts[c].count < Work!Cardinality(Work!SlotsOf(parts[c].id))
<1>1. WsShape /\ WsAlone /\ (Handlers = {} => \A d \in Companies : parts[d].id = 0)
 BY DEF WsInv
<1>2. parts[c].id # 0 BY <1>1, WsTypes
<1>3. PICK h : h \in Handlers BY <1>1, <1>2
<1>4. WsTurn(h) /\ reqs[h].pc = "idle" BY <1>3 DEF WsTurn, Work!Quiet
<1>5. WsCounted(parts, slots, refused, c)
 <2>1. WsTallied(parts, slots, refused, reqs[h])
  BY <1>1, <1>3, <1>4 DEF WsAlone
 <2>2. ~WsCounts(reqs[h]) BY <1>4 DEF WsCounts, WsReconciles
 <2>3. QED BY <1>2, <2>1, <2>2 DEF WsTallied
<1>6. PICK k \in Nat : WsNumbered(slots, parts[c].id, k) /\ (parts[c].count = k \/ (c \in refused /\ parts[c].count < k))
 BY <1>5 DEF WsCounted
<1>7. Work!Cardinality(Work!SlotsOf(parts[c].id)) = k
 BY <1>1, <1>2, <1>6, WsOwnSlots
<1>8. Work!NumbersOf(parts[c].id) = 1 .. k
 <2>1. PICK pid : pid = parts[c].id OBVIOUS
 <2>2. WsNumbered(slots, pid, k) BY <1>6, <2>1
 <2>3. \A n : n \in Work!NumbersOf(pid) <=> \E i \in SlotIds : slots[i].pid = pid /\ slots[i].n = n
  BY DEF Work!NumbersOf, Work!SlotsOf
 <2>4. Work!NumbersOf(pid) = 1 .. k BY <2>2, <2>3 DEF WsNumbered
 <2>5. QED BY <2>1, <2>4
<1>9. QED BY <1>6, <1>7, <1>8

LEMMA WsFlagsFollow ==
  ASSUME WsInv, wsCalm, Work!Quiet, ~merged, NEW c \in Companies, parts[c] # Work!NoPart
  PROVE  parts[c].confirmed = Work!Paid(newest[c])
<1>1. WsShape /\ WsBooks /\ (Handlers = {} => \A d \in Companies : parts[d].id = 0)
 BY DEF WsInv
<1>2. parts[c].id # 0 /\ parts[c].confirmed \in BOOLEAN BY <1>1, WsTypes
<1>3. PICK h : h \in Handlers BY <1>1, <1>2
<1>4. WsTurn(h) /\ reqs[h].pc = "idle" BY <1>3 DEF WsTurn, Work!Quiet
<1>5. WsFlagged(parts, pays, newest, reqs[h])
 BY <1>1, <1>3, <1>4 DEF WsBooks
<1>6. parts[c].confirmed <=> WsPaid(pays, newest[c])
 BY <1>2, <1>4, <1>5 DEF WsFlagged
<1>7. Work!Paid(newest[c]) <=> WsPaid(pays, newest[c])
 BY DEF Work!Paid, WsPaid
<1>8. Work!Paid(newest[c]) \in BOOLEAN
 <2>1. newest[c] = 0 \/ (newest[c] \in PayIds /\ pays[newest[c]] \in Work!Payments)
  BY <1>1, WsTypes
 <2>2. QED BY <2>1 DEF Work!Paid, Work!Payments
<1>9. QED BY <1>2, <1>6, <1>7, <1>8

LEMMA WsResults ==
  WsInv => /\ Work!WsTypeOK /\ Work!ConfirmedWasPaid
           /\ Work!SlotsMatchCount /\ Work!LinkedOnce /\ Work!FlagFollowsLedger
<1> SUFFICES ASSUME WsInv
    PROVE  /\ Work!WsTypeOK /\ Work!ConfirmedWasPaid
           /\ Work!SlotsMatchCount /\ Work!LinkedOnce /\ Work!FlagFollowsLedger
 OBVIOUS
<1>1. Work!WsTypeOK /\ Work!ConfirmedWasPaid BY WsShapeTypes DEF WsInv
<1>2. Work!SlotsMatchCount BY WsSlotsCounted DEF Work!SlotsMatchCount
<1>3. Work!LinkedOnce BY DEF Work!LinkedOnce, WsInv, WsLinks, WsOnce
<1>4. Work!FlagFollowsLedger BY WsFlagsFollow DEF Work!FlagFollowsLedger
<1>5. QED BY <1>1, <1>2, <1>3, <1>4

LEMMA WsInvStays == WsInv /\ UNCHANGED wsVars => WsInv'
<1> SUFFICES ASSUME WsInv, UNCHANGED wsVars PROVE WsInv'
 OBVIOUS
<1>1. /\ parts' = parts /\ slots' = slots /\ pays' = pays /\ newest' = newest /\ regs' = regs /\ reqs' = reqs
      /\ paidOnce' = paidOnce /\ moved' = moved /\ merged' = merged /\ refused' = refused /\ wsCalm' = wsCalm
 BY DEF wsVars
<1>2. WsShape' <=> WsShape BY <1>1, Zenon DEF WsShape
<1>3. WsAlone' <=> WsAlone BY <1>1, Zenon DEF WsAlone, WsLone, WsTurn
<1>4. WsBooks' <=> WsBooks BY <1>1, Zenon DEF WsBooks, WsTurn
<1>5. WsLinks' <=> WsLinks BY <1>1, Zenon DEF WsLinks, WsTurn
<1>6. QED BY <1>1, <1>2, <1>3, <1>4, <1>5, Zenon DEF WsInv
==============================================================================

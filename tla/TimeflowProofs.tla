----------------------------- MODULE TimeflowProofs -----------------------------
(***************************************************************************)
(* The safety of TimeFlow's time off, records, workspace profiles and       *)
(* invoice numbers for any number of users, rows and handlers, whatever     *)
(* handlers interleave or stop half-way.  Each component has an inductive   *)
(* invariant of its own; the steps of the other components leave its        *)
(* variables alone.                                                         *)
(***************************************************************************)
EXTENDS Timeflow, FiniteSetTheorems, TLAPS

-----------------------------------------------------------------------------
(* Time off.  While requests are calm, the entries made for a request are   *)
(* no more than the times it was turned, and one more only from the moment  *)
(* an approval makes its entry until the request is turned again.           *)

Approves(h) ==
  LET q == offReq[h] IN
  q.pc # "idle" => Off!There(q.of) /\ (q.pc = "mark" => q.entry \in Off!MadeFor(q.of))

Owing(r) == \E h \in Handlers : offReq[h].pc \in {"client", "entry"} /\ offReq[h].of = r
Marking(r) == \E h \in Handlers : offReq[h].pc = "mark" /\ offReq[h].of = r
Booked(r) ==
  Off!There(r) =>
    /\ Cardinality(Off!MadeFor(r)) =< request[r].turned + 1
    /\ Owing(r) \/ (request[r].status # "approved" /\ ~Marking(r)) =>
         Cardinality(Off!MadeFor(r)) =< request[r].turned

OffInv ==
  /\ Off!TypeOK
  /\ \A r \in Requests : IsFiniteSet(Off!MadeFor(r)) /\ (Off!There(r) \/ Off!MadeFor(r) = {})
  /\ \A h \in Handlers : Approves(h)
  /\ Off!ApprovedHasLeave
  /\ offCalm => Off!OneAtATime /\ \A r \in Requests : Booked(r)

LEMMA OffInit == ASSUME Off!Init PROVE OffInv
<1>1. Off!TypeOK
 BY TimeflowAssumption DEF Off!Init, Off!TypeOK, Off!Absent, Off!NoEntry, Off!None, Off!Idle
<1>2. \A r \in Requests : Off!MadeFor(r) = {} /\ ~Off!There(r)
 BY TimeflowAssumption DEF Off!Init, Off!MadeFor, Off!NoEntry, Off!There, Off!Absent, Off!TurnsAssumption
<1>3. \A h \in Handlers : offReq[h].pc = "idle" BY DEF Off!Init, Off!Idle
<1>4. QED BY <1>1, <1>2, <1>3, FS_EmptySet
    DEF OffInv, Approves, Booked, Off!ApprovedHasLeave, Off!OneAtATime, Off!Free

LEMMA OffCount == \A S : Off!Cardinality(S) = Cardinality(S)
BY DEF Off!Cardinality, Cardinality

LEMMA OffShape ==
  ASSUME Off!TypeOK, NEW h \in Handlers, offReq[h].pc # "idle"
  PROVE  offReq[h] \in Off!Approvals /\ offReq[h].of \in Requests
<1>1. offReq[h] \in Off!Approvals \cup {Off!Idle} BY DEF Off!TypeOK
<1>2. Off!Idle.pc = "idle" BY DEF Off!Idle
<1>3. offReq[h] \in Off!Approvals BY <1>1, <1>2
<1>4. QED BY <1>3 DEF Off!Approvals

LEMMA OffSlot ==
  ASSUME Off!TypeOK, NEW h \in Handlers, NEW q \in Off!Approvals \cup {Off!Idle},
         offReq' = [offReq EXCEPT ![h] = q]
  PROVE  /\ offReq' \in [Handlers -> Off!Approvals \cup {Off!Idle}]
         /\ \A k \in Handlers : offReq'[k] = IF k = h THEN q ELSE offReq[k]
BY DEF Off!TypeOK

\* While requests stay calm, the one that moves is the only one.
LEMMA OffOnly ==
  ASSUME OffInv, NEW h \in Handlers, NEW q \in Off!Approvals \cup {Off!Idle},
         offReq' = [offReq EXCEPT ![h] = q], offCalm' = (offCalm /\ Off!OneAtATime'), offCalm',
         offReq[h].pc # "idle" \/ q.pc # "idle",
         NEW r
  PROVE  /\ Off!OneAtATime' /\ offCalm
         /\ Owing(r) <=> offReq[h].pc \in {"client", "entry"} /\ offReq[h].of = r
         /\ Marking(r) <=> offReq[h].pc = "mark" /\ offReq[h].of = r
         /\ Owing(r)' <=> q.pc \in {"client", "entry"} /\ q.of = r
         /\ Marking(r)' <=> q.pc = "mark" /\ q.of = r
<1>1. Off!OneAtATime' /\ offCalm /\ Off!OneAtATime BY DEF OffInv
<1>2. \A k \in Handlers : offReq'[k] = IF k = h THEN q ELSE offReq[k]
 BY OffSlot DEF OffInv
<1>3. \A k \in Handlers \ {h} : offReq[k].pc = "idle" /\ offReq'[k].pc = "idle"
 BY <1>1, <1>2 DEF Off!OneAtATime, Off!Free
<1>4. QED BY <1>1, <1>2, <1>3 DEF Owing, Marking

\* A handler's step: what it must show of the tables and of its own request.
LEMMA OffMoves ==
  ASSUME OffInv, NEW h \in Handlers, NEW q \in Off!Approvals \cup {Off!Idle},
         offReq' = [offReq EXCEPT ![h] = q], offCalm' = (offCalm /\ Off!OneAtATime'),
         request' \in [Requests -> Off!FiledRequests \cup {Off!Absent}],
         entry' \in [Entries -> [made : Requests \cup {Off!None}, there : BOOLEAN]],
         \A r \in Requests : /\ Off!There(r) => Off!There(r)'
                             /\ Off!MadeFor(r) \subseteq Off!MadeFor(r)' /\ IsFiniteSet(Off!MadeFor(r)')
                             /\ Off!There(r)' \/ Off!MadeFor(r)' = {}
                             /\ offCalm' => Booked(r)',
         q.pc # "idle" => Off!There(q.of)' /\ (q.pc = "mark" => q.entry \in Off!MadeFor(q.of)'),
         Off!ApprovedHasLeave'
  PROVE  OffInv'
<1>1. /\ offReq' \in [Handlers -> Off!Approvals \cup {Off!Idle}]
      /\ \A k \in Handlers : offReq'[k] = IF k = h THEN q ELSE offReq[k]
 BY OffSlot DEF OffInv
<1>2. ASSUME NEW k \in Handlers PROVE Approves(k)'
 <2>1. CASE k = h BY <1>1, <2>1 DEF Approves
 <2>2. CASE k # h
  <3>1. offReq'[k] = offReq[k] BY <1>1, <2>2
  <3>2. CASE offReq[k].pc # "idle"
   <4>1. PICK r \in Requests : r = offReq[k].of
    BY <3>2, OffShape DEF OffInv
   <4>2. Off!There(r)' /\ (offReq[k].pc = "mark" => offReq[k].entry \in Off!MadeFor(r)')
    BY <3>2, <4>1 DEF OffInv, Approves
   <4>3. QED BY <3>1, <4>1, <4>2 DEF Approves
  <3>3. QED BY <3>1, <3>2 DEF Approves
 <2>3. QED BY <2>1, <2>2
<1>3. offCalm' \in BOOLEAN /\ (offCalm' => Off!OneAtATime') OBVIOUS
<1>4. Off!TypeOK' BY <1>1, <1>3 DEF Off!TypeOK
<1>5. QED BY <1>2, <1>3, <1>4 DEF OffInv

LEMMA OffPost ==
  ASSUME OffInv, NEW h \in Handlers, NEW r \in Requests, Off!PostRequest(h, r),
         offCalm' = (offCalm /\ Off!OneAtATime')
  PROVE  OffInv'
<1>1. PICK status \in {"pending", "approved"} :
        /\ request' = [request EXCEPT ![r] = Off!Filed(status)]
        /\ entry' = entry
        /\ \/ status = "pending" /\ offReq' = offReq
           \/ status = "approved" /\ Off!Begin(h, "client", r)
 BY DEF Off!PostRequest
<1>2. ~Off!There(r) /\ Off!MadeFor(r) = {} BY DEF OffInv, Off!PostRequest
<1>3. /\ request' \in [Requests -> Off!FiledRequests \cup {Off!Absent}]
      /\ request'[r].status = status /\ request'[r].turned = 0 /\ (request'[r].self <=> status = "approved")
      /\ \A s \in Requests \ {r} : request'[s] = request[s]
 <2> DEFINE filed == Off!Filed(status)
 <2>1. filed \in Off!FiledRequests
  BY TimeflowAssumption DEF Off!Filed, Off!FiledRequests, Off!TurnsAssumption
 <2>2. filed.status = status /\ filed.turned = 0 /\ (filed.self <=> status = "approved")
  BY DEF Off!Filed
 <2>3. request' = [request EXCEPT ![r] = filed] BY <1>1
 <2> HIDE DEF filed
 <2>4. QED BY <2>1, <2>2, <2>3 DEF OffInv, Off!TypeOK
<1>4. \A s \in Requests : Off!MadeFor(s)' = Off!MadeFor(s)
 BY <1>1 DEF Off!MadeFor
<1>5. Off!There(r)' /\ \A s \in Requests \ {r} : Off!There(s)' <=> Off!There(s)
 BY <1>3 DEF Off!There
<1>6. Off!ApprovedHasLeave'
 BY <1>3, <1>4, <1>5 DEF OffInv, Off!ApprovedHasLeave
<1>7. Cardinality(Off!MadeFor(r)') = 0 /\ request'[r].turned = 0
 BY <1>2, <1>3, <1>4, FS_EmptySet
<1>8. Booked(r)' BY <1>7 DEF Booked
<1>9. CASE offReq' = offReq
 <2>1. \A s \in Requests \ {r} : Booked(s) => Booked(s)'
  BY <1>3, <1>4, <1>5, <1>9 DEF Booked, Owing, Marking
 <2>2. \A k \in Handlers : Approves(k)'
  <3>1. ASSUME NEW k \in Handlers, offReq[k].pc # "idle" PROVE Approves(k)'
   <4>1. PICK s \in Requests : s = offReq[k].of
    BY <3>1, OffShape DEF OffInv
   <4>2. QED BY <1>4, <1>5, <1>9, <3>1, <4>1 DEF OffInv, Approves
  <3>2. QED BY <1>9, <3>1 DEF Approves
 <2>3. Off!TypeOK' BY <1>1, <1>3, <1>9 DEF OffInv, Off!TypeOK
 <2>4. \A s \in Requests : IsFiniteSet(Off!MadeFor(s)') /\ (Off!There(s)' \/ Off!MadeFor(s)' = {})
  BY <1>4, <1>5 DEF OffInv
 <2>5. offCalm' => Off!OneAtATime' /\ \A s \in Requests : Booked(s)'
  BY <1>8, <2>1 DEF OffInv
 <2>6. QED BY <1>6, <2>2, <2>3, <2>4, <2>5 DEF OffInv
<1>10. CASE Off!Begin(h, "client", r)
 <2> DEFINE q == [pc |-> "client", of |-> r, entry |-> Off!None]
 <2>1. q \in Off!Approvals /\ offReq' = [offReq EXCEPT ![h] = q] /\ offReq[h].pc = "idle"
  BY <1>10 DEF Off!Begin, Off!Approvals, Off!Free
 <2>2. q.pc = "client" /\ q.of = r OBVIOUS
 <2> HIDE DEF q
 <2>3. ASSUME NEW s \in Requests \ {r}, offCalm' PROVE Booked(s)'
  <3>1. Booked(s) /\ ~Owing(s) /\ ~Marking(s) /\ ~Owing(s)' /\ ~Marking(s)'
   BY <2>1, <2>2, <2>3, OffOnly DEF OffInv
  <3>2. QED BY <1>3, <1>4, <1>5, <3>1 DEF Booked
 <2>4. \A s \in Requests : /\ Off!There(s) => Off!There(s)'
                           /\ Off!MadeFor(s) \subseteq Off!MadeFor(s)' /\ IsFiniteSet(Off!MadeFor(s)')
                           /\ Off!There(s)' \/ Off!MadeFor(s)' = {}
                           /\ offCalm' => Booked(s)'
  BY <1>4, <1>5, <1>8, <2>3 DEF OffInv
 <2>5. entry' \in [Entries -> [made : Requests \cup {Off!None}, there : BOOLEAN]]
  BY <1>1 DEF OffInv, Off!TypeOK
 <2>6. q.pc # "idle" => Off!There(q.of)' /\ (q.pc = "mark" => q.entry \in Off!MadeFor(q.of)')
  BY <1>5, <2>2
 <2>7. QED BY <1>3, <1>6, <2>1, <2>4, <2>5, <2>6, OffMoves
<1>11. QED BY <1>1, <1>9, <1>10

\* What a step leaves of the requests and entries it does not write.
LEMMA OffSame ==
  ASSUME OffInv, request' = request, entry' = entry
  PROVE  /\ \A r \in Requests : /\ Off!There(r)' <=> Off!There(r)
                                /\ Off!MadeFor(r)' = Off!MadeFor(r) /\ IsFiniteSet(Off!MadeFor(r)')
                                /\ Off!There(r) \/ Off!MadeFor(r)' = {}
         /\ Off!ApprovedHasLeave'
         /\ request' \in [Requests -> Off!FiledRequests \cup {Off!Absent}]
         /\ entry' \in [Entries -> [made : Requests \cup {Off!None}, there : BOOLEAN]]
<1>1. \A r \in Requests : Off!MadeFor(r)' = Off!MadeFor(r) /\ (Off!There(r)' <=> Off!There(r))
 BY DEF Off!MadeFor, Off!There
<1>2. Off!ApprovedHasLeave' BY <1>1 DEF OffInv, Off!ApprovedHasLeave
<1>3. QED BY <1>1, <1>2 DEF OffInv, Off!TypeOK

LEMMA OffStart ==
  ASSUME OffInv, NEW h \in Handlers, NEW r \in Requests, Off!StartApprove(h, r),
         offCalm' = (offCalm /\ Off!OneAtATime')
  PROVE  OffInv'
<1> DEFINE q == [pc |-> "client", of |-> r, entry |-> Off!None]
<1>1. q \in Off!Approvals /\ offReq' = [offReq EXCEPT ![h] = q] /\ offReq[h].pc = "idle"
 BY DEF Off!StartApprove, Off!Begin, Off!Approvals, Off!Free
<1>2. q.pc = "client" /\ q.of = r OBVIOUS
<1>3. request' = request /\ entry' = entry /\ Off!There(r) /\ request[r].status # "approved"
 BY DEF Off!StartApprove, Off!Approvable
<1> HIDE DEF q
<1>4. ASSUME NEW s \in Requests, offCalm' PROVE Booked(s)'
 <2>1. Booked(s) /\ ~Owing(s) /\ ~Marking(s) /\ ~Marking(s)' /\ (Owing(s)' => s = r)
  BY <1>1, <1>2, <1>4, OffOnly DEF OffInv
 <2>2. QED BY <1>3, <2>1, OffSame DEF Booked
<1>5. q.pc # "idle" => Off!There(q.of)' /\ (q.pc = "mark" => q.entry \in Off!MadeFor(q.of)')
 BY <1>2, <1>3, OffSame
<1>6. QED BY <1>1, <1>3, <1>4, <1>5, OffSame, OffMoves

LEMMA OffFind ==
  ASSUME OffInv, NEW h \in Handlers, Off!FindClient(h), offCalm' = (offCalm /\ Off!OneAtATime')
  PROVE  OffInv'
<1>1. PICK r \in Requests : r = offReq[h].of
 BY OffShape DEF OffInv, Off!FindClient
<1>2. offReq[h].pc = "client" /\ Off!There(r) /\ request' = request /\ entry' = entry
 BY <1>1 DEF Off!FindClient, OffInv, Approves
<1>3. PICK q \in Off!Approvals \cup {Off!Idle} :
        /\ offReq' = [offReq EXCEPT ![h] = q]
        /\ q.pc = "idle" \/ (q.pc = "entry" /\ q.of = r)
 <2>1. CASE Off!Answer(h)
  <3>1. Off!Idle.pc = "idle" /\ offReq' = [offReq EXCEPT ![h] = Off!Idle]
   BY <2>1 DEF Off!Answer, Off!Idle
  <3>2. QED BY <3>1
 <2>2. CASE offReq' = [offReq EXCEPT ![h].pc = "entry"]
  <3> DEFINE q == [offReq[h] EXCEPT !.pc = "entry"]
  <3>1. offReq[h] \in Off!Approvals BY <1>2, OffShape DEF OffInv
  <3>2. q \in Off!Approvals /\ q.pc = "entry" /\ q.of = r
   BY <1>1, <3>1 DEF Off!Approvals
  <3>3. offReq' = [offReq EXCEPT ![h] = q] BY <2>2 DEF OffInv, Off!TypeOK
  <3> HIDE DEF q
  <3>4. QED BY <3>2, <3>3
 <2>3. QED BY <2>1, <2>2 DEF Off!FindClient
<1>4. ASSUME NEW s \in Requests, offCalm' PROVE Booked(s)'
 <2>1. Booked(s) /\ ~Marking(s)' /\ ~Marking(s) /\ (Owing(s) <=> s = r) /\ (Owing(s)' => s = r)
  BY <1>1, <1>2, <1>3, <1>4, OffOnly DEF OffInv
 <2>2. QED BY <1>2, <2>1, OffSame DEF Booked
<1>5. q.pc # "idle" => Off!There(q.of)' /\ (q.pc = "mark" => q.entry \in Off!MadeFor(q.of)')
 BY <1>2, <1>3, OffSame
<1>6. QED BY <1>2, <1>3, <1>4, <1>5, OffSame, OffMoves

LEMMA OffCreate ==
  ASSUME OffInv, NEW h \in Handlers, Off!CreateEntry(h), offCalm' = (offCalm /\ Off!OneAtATime')
  PROVE  OffInv'
<1>1. PICK r \in Requests : r = offReq[h].of
 BY OffShape DEF OffInv, Off!CreateEntry
<1>2. offReq[h].pc = "entry" /\ Off!There(r) /\ request' = request
 BY <1>1 DEF Off!CreateEntry, OffInv, Approves
<1>3. PICK e \in Entries :
        /\ entry[e] = Off!NoEntry
        /\ entry' = [entry EXCEPT ![e] = [made |-> r, there |-> TRUE]]
        /\ offReq' = [offReq EXCEPT ![h].pc = "mark", ![h].entry = e]
 BY <1>1 DEF Off!CreateEntry
<1>4. offReq[h] \in Off!Approvals BY <1>2, OffShape DEF OffInv
<1>5. PICK q \in Off!Approvals : q = [offReq[h] EXCEPT !.pc = "mark", !.entry = e]
 BY <1>4 DEF Off!Approvals
<1>6. q.pc = "mark" /\ q.of = r /\ q.entry = e /\ offReq' = [offReq EXCEPT ![h] = q]
 BY <1>1, <1>3, <1>4, <1>5 DEF Off!Approvals, OffInv, Off!TypeOK
<1>7. entry[e].made = Off!None /\ Off!None \notin Requests
 BY <1>3, TimeflowAssumption DEF Off!NoEntry, Off!TurnsAssumption
<1>8. /\ entry' \in [Entries -> [made : Requests \cup {Off!None}, there : BOOLEAN]]
      /\ entry'[e].made = r /\ \A d \in Entries \ {e} : entry'[d] = entry[d]
 BY <1>3 DEF OffInv, Off!TypeOK
<1>9. Off!MadeFor(r)' = Off!MadeFor(r) \cup {e} /\ e \notin Off!MadeFor(r)
      /\ \A s \in Requests \ {r} : Off!MadeFor(s)' = Off!MadeFor(s)
 BY <1>7, <1>8 DEF Off!MadeFor
<1>10. \A s \in Requests : Off!There(s)' <=> Off!There(s)
 BY <1>2 DEF Off!There
<1>11. IsFiniteSet(Off!MadeFor(r)') /\ Cardinality(Off!MadeFor(r)') = Cardinality(Off!MadeFor(r)) + 1
 BY <1>9, FS_AddElement DEF OffInv
<1>12. ASSUME NEW s \in Requests, offCalm' PROVE Booked(s)'
 <2>1. /\ Booked(s) /\ ~Marking(s) /\ ~Owing(s)' /\ (Owing(s) <=> s = r) /\ (Marking(s)' <=> s = r)
  BY <1>1, <1>2, <1>6, <1>12, OffOnly DEF OffInv
 <2>2. CASE s = r
  <3>1. Cardinality(Off!MadeFor(r)) =< request[r].turned /\ Cardinality(Off!MadeFor(r)) \in Nat
   BY <1>2, <2>1, <2>2, FS_CardinalityType DEF Booked, OffInv
  <3>2. request[r].turned \in Nat
   BY <1>2, TimeflowAssumption DEF OffInv, Off!TypeOK, Off!There, Off!FiledRequests, Off!Absent, Off!TurnsAssumption
  <3>3. QED BY <1>2, <1>11, <2>1, <2>2, <3>1, <3>2 DEF Booked
 <2>3. CASE s # r BY <1>2, <1>9, <1>10, <2>1, <2>3 DEF Booked
 <2>4. QED BY <2>2, <2>3
<1>13. Off!ApprovedHasLeave'
 BY <1>2, <1>9, <1>10 DEF OffInv, Off!ApprovedHasLeave
<1>14. \A s \in Requests : /\ Off!There(s) => Off!There(s)'
                           /\ Off!MadeFor(s) \subseteq Off!MadeFor(s)' /\ IsFiniteSet(Off!MadeFor(s)')
                           /\ Off!There(s)' \/ Off!MadeFor(s)' = {}
                           /\ offCalm' => Booked(s)'
 BY <1>2, <1>9, <1>10, <1>11, <1>12 DEF OffInv
<1>15. Off!There(q.of)' /\ q.entry \in Off!MadeFor(q.of)'
 BY <1>2, <1>6, <1>9, <1>10
<1>16. request' \in [Requests -> Off!FiledRequests \cup {Off!Absent}]
 BY <1>2 DEF OffInv, Off!TypeOK
<1>17. QED BY <1>5, <1>6, <1>8, <1>13, <1>14, <1>15, <1>16, OffMoves

LEMMA OffMark ==
  ASSUME OffInv, NEW h \in Handlers, Off!MarkApproved(h), offCalm' = (offCalm /\ Off!OneAtATime')
  PROVE  OffInv'
<1>1. PICK r \in Requests : r = offReq[h].of
 BY OffShape DEF OffInv, Off!MarkApproved
<1>2. PICK e : e = offReq[h].entry OBVIOUS
<1>3. offReq[h].pc = "mark" /\ Off!There(r) /\ e \in Off!MadeFor(r) /\ entry' = entry
 BY <1>1, <1>2 DEF Off!MarkApproved, OffInv, Approves
<1>4. request' = [request EXCEPT ![r].status = "approved", ![r].lists = e]
      /\ offReq' = [offReq EXCEPT ![h] = Off!Idle]
 BY <1>1, <1>2 DEF Off!MarkApproved, Off!Answer
<1>5. Off!Idle.pc = "idle" BY DEF Off!Idle
<1> DEFINE marked == [request[r] EXCEPT !.status = "approved", !.lists = e]
<1>6. request[r] \in Off!FiledRequests /\ e \in Entries
 BY <1>3 DEF OffInv, Off!TypeOK, Off!There, Off!Absent, Off!MadeFor
<1>7. marked \in Off!FiledRequests /\ marked.status = "approved" /\ marked.lists = e
      /\ marked.turned = request[r].turned
 BY <1>6 DEF Off!FiledRequests
<1>8. request' = [request EXCEPT ![r] = marked]
 BY <1>4 DEF OffInv, Off!TypeOK
<1> HIDE DEF marked
<1>9. /\ request' \in [Requests -> Off!FiledRequests \cup {Off!Absent}]
      /\ request'[r] = marked /\ \A s \in Requests \ {r} : request'[s] = request[s]
 BY <1>7, <1>8 DEF OffInv, Off!TypeOK
<1>10. \A s \in Requests : (Off!There(s)' <=> Off!There(s)) /\ Off!MadeFor(s)' = Off!MadeFor(s)
 BY <1>3, <1>7, <1>9 DEF Off!There, Off!MadeFor
<1>11. ASSUME NEW s \in Requests, offCalm' PROVE Booked(s)'
 <2>1. /\ Booked(s) /\ ~Owing(s) /\ ~Owing(s)' /\ ~Marking(s)' /\ (Marking(s) <=> s = r)
  BY <1>1, <1>3, <1>4, <1>5, <1>11, OffOnly DEF OffInv
 <2>2. CASE s = r BY <1>3, <1>7, <1>9, <1>10, <2>1, <2>2 DEF Booked
 <2>3. CASE s # r BY <1>9, <1>10, <2>1, <2>3 DEF Booked
 <2>4. QED BY <2>2, <2>3
<1>12. Off!ApprovedHasLeave'
 BY <1>3, <1>7, <1>9, <1>10 DEF OffInv, Off!ApprovedHasLeave
<1>13. \A s \in Requests : /\ Off!There(s) => Off!There(s)'
                           /\ Off!MadeFor(s) \subseteq Off!MadeFor(s)' /\ IsFiniteSet(Off!MadeFor(s)')
                           /\ Off!There(s)' \/ Off!MadeFor(s)' = {}
                           /\ offCalm' => Booked(s)'
 BY <1>10, <1>11 DEF OffInv
<1>14. entry' \in [Entries -> [made : Requests \cup {Off!None}, there : BOOLEAN]]
 BY <1>3 DEF OffInv, Off!TypeOK
<1>15. QED BY <1>4, <1>5, <1>9, <1>12, <1>13, <1>14, OffMoves

\* The single updates leave every request where it is.
LEMMA OffUpdates ==
  ASSUME OffInv, offReq' = offReq, offCalm' = (offCalm /\ Off!OneAtATime'),
         request' \in [Requests -> Off!FiledRequests \cup {Off!Absent}],
         entry' \in [Entries -> [made : Requests \cup {Off!None}, there : BOOLEAN]],
         \A r \in Requests : (Off!There(r)' <=> Off!There(r)) /\ Off!MadeFor(r)' = Off!MadeFor(r),
         Off!ApprovedHasLeave',
         \A r \in Requests : Booked(r) => Booked(r)'
  PROVE  OffInv'
<1>1. ASSUME NEW k \in Handlers, offReq[k].pc # "idle" PROVE Approves(k)'
 <2>1. PICK s \in Requests : s = offReq[k].of BY <1>1, OffShape DEF OffInv
 <2>2. QED BY <1>1, <2>1 DEF OffInv, Approves
<1>2. \A k \in Handlers : Approves(k)' BY <1>1 DEF Approves
<1>3. Off!TypeOK' BY DEF OffInv, Off!TypeOK
<1>4. offCalm' => offCalm /\ Off!OneAtATime' OBVIOUS
<1>5. QED BY <1>2, <1>3, <1>4 DEF OffInv

LEMMA OffTurn ==
  ASSUME OffInv, NEW r \in Requests, NEW status \in {"denied", "cancelled"}, Off!Turn(r, status),
         offCalm' = (offCalm /\ Off!OneAtATime')
  PROVE  OffInv'
<1>1. /\ Off!There(r) /\ request[r].turned < MaxTurns
      /\ request' = [request EXCEPT ![r].status = status, ![r].turned = @ + 1]
      /\ entry' = entry /\ offReq' = offReq
 BY DEF Off!Turn
<1> DEFINE turned == [request[r] EXCEPT !.status = status, !.turned = @ + 1]
<1>2. request[r] \in Off!FiledRequests
 BY <1>1 DEF OffInv, Off!TypeOK, Off!There, Off!Absent
<1>3. turned \in Off!FiledRequests /\ turned.status = status /\ turned.turned = request[r].turned + 1
      /\ request[r].turned \in Nat
 <2>1. request[r].turned \in 0..MaxTurns /\ MaxTurns \in Nat
  BY <1>2, TimeflowAssumption DEF Off!FiledRequests, Off!TurnsAssumption
 <2>2. request[r].turned + 1 \in 0..MaxTurns BY <1>1, <2>1
 <2>3. turned \in Off!FiledRequests BY <1>2, <2>2 DEF Off!FiledRequests
 <2>4. turned.status = status /\ turned.turned = request[r].turned + 1
  BY <1>2 DEF Off!FiledRequests
 <2>5. QED BY <2>1, <2>3, <2>4
<1>4. request' = [request EXCEPT ![r] = turned]
 BY <1>1 DEF OffInv, Off!TypeOK
<1> HIDE DEF turned
<1>5. /\ request' \in [Requests -> Off!FiledRequests \cup {Off!Absent}]
      /\ request'[r] = turned /\ \A s \in Requests \ {r} : request'[s] = request[s]
 BY <1>3, <1>4 DEF OffInv, Off!TypeOK
<1>6. \A s \in Requests : (Off!There(s)' <=> Off!There(s)) /\ Off!MadeFor(s)' = Off!MadeFor(s)
 BY <1>1, <1>3, <1>5 DEF Off!There, Off!MadeFor
<1>7. Off!ApprovedHasLeave'
 BY <1>3, <1>5, <1>6 DEF OffInv, Off!ApprovedHasLeave
<1>8. Cardinality(Off!MadeFor(r)) \in Nat BY FS_CardinalityType DEF OffInv
<1>9. \A s \in Requests : (Owing(s)' <=> Owing(s)) /\ (Marking(s)' <=> Marking(s))
 BY <1>1 DEF Owing, Marking
<1>10. Booked(r) => Booked(r)' BY <1>1, <1>3, <1>5, <1>6, <1>8 DEF Booked
<1>11. \A s \in Requests \ {r} : Booked(s) => Booked(s)'
 BY <1>5, <1>6, <1>9 DEF Booked
<1>12. entry' \in [Entries -> [made : Requests \cup {Off!None}, there : BOOLEAN]]
 BY <1>1 DEF OffInv, Off!TypeOK
<1>13. QED BY <1>1, <1>5, <1>6, <1>7, <1>10, <1>11, <1>12, OffUpdates

LEMMA OffDelete ==
  ASSUME OffInv, NEW e \in Entries, Off!DeleteEntry(e), offCalm' = (offCalm /\ Off!OneAtATime')
  PROVE  OffInv'
<1>1. entry' = [entry EXCEPT ![e].there = FALSE] /\ request' = request /\ offReq' = offReq
 BY DEF Off!DeleteEntry
<1>2. /\ entry' \in [Entries -> [made : Requests \cup {Off!None}, there : BOOLEAN]]
      /\ \A d \in Entries : entry'[d].made = entry[d].made
 BY <1>1 DEF OffInv, Off!TypeOK
<1>3. \A s \in Requests : (Off!There(s)' <=> Off!There(s)) /\ Off!MadeFor(s)' = Off!MadeFor(s)
 BY <1>1, <1>2 DEF Off!There, Off!MadeFor
<1>4. Off!ApprovedHasLeave' BY <1>1, <1>3 DEF OffInv, Off!ApprovedHasLeave
<1>5. \A s \in Requests : Booked(s) => Booked(s)'
 BY <1>1, <1>3 DEF Booked, Owing, Marking
<1>6. request' \in [Requests -> Off!FiledRequests \cup {Off!Absent}]
 BY <1>1 DEF OffInv, Off!TypeOK
<1>7. QED BY <1>1, <1>2, <1>3, <1>4, <1>5, <1>6, OffUpdates

LEMMA OffAbort ==
  ASSUME OffInv, NEW h \in Handlers, Off!AbortRequest(h), offCalm' = FALSE
  PROVE  OffInv'
<1>1. request' = request /\ entry' = entry /\ offReq' = [offReq EXCEPT ![h] = Off!Idle]
 BY DEF Off!AbortRequest, Off!Answer
<1>2. Off!Idle.pc = "idle" BY DEF Off!Idle
<1>3. offReq' \in [Handlers -> Off!Approvals \cup {Off!Idle}]
      /\ \A k \in Handlers : offReq'[k] = IF k = h THEN Off!Idle ELSE offReq[k]
 BY <1>1, OffSlot DEF OffInv
<1>4. ASSUME NEW k \in Handlers \ {h}, offReq[k].pc # "idle" PROVE Approves(k)'
 <2>1. PICK s \in Requests : s = offReq[k].of BY <1>4, OffShape DEF OffInv
 <2>2. QED BY <1>1, <1>3, <1>4, <2>1, OffSame DEF OffInv, Approves
<1>5. \A k \in Handlers : Approves(k)' BY <1>2, <1>3, <1>4 DEF Approves
<1>6. Off!TypeOK' BY <1>1, <1>3, OffSame DEF OffInv, Off!TypeOK
<1>7. QED BY <1>1, <1>5, <1>6, OffSame DEF OffInv

LEMMA OffStep == ASSUME OffInv, Off!Next PROVE OffInv'
<1>1. CASE Off!Serve /\ offCalm' = (offCalm /\ Off!OneAtATime')
 BY <1>1, OffPost, OffStart, OffFind, OffCreate, OffMark, OffTurn, OffDelete
    DEF Off!Serve, Off!Deny, Off!Cancel
<1>2. CASE (\E h \in Handlers : Off!AbortRequest(h)) /\ offCalm' = FALSE
 BY <1>2, OffAbort
<1>3. QED BY <1>1, <1>2 DEF Off!Next

\* Leave is booked once per approval that stands.
LEMMA OffLeave == ASSUME OffInv PROVE Off!LeaveBookedOnce
<1>1. \A r \in Requests : Off!There(r) => request[r].turned \in Nat
 BY TimeflowAssumption DEF OffInv, Off!TypeOK, Off!There, Off!FiledRequests, Off!Absent, Off!TurnsAssumption
<1>2. \A r \in Requests : Cardinality(Off!MadeFor(r)) \in Nat
 BY FS_CardinalityType DEF OffInv
<1>3. QED BY <1>1, <1>2, OffCount DEF OffInv, Booked, Off!LeaveBookedOnce

-----------------------------------------------------------------------------
(* Records.  A row keeps its owner for good, and what a request has looked  *)
(* up is still so when it writes, but for the organization, which a relink  *)
(* may change in between unless requests stay calm.                         *)

Fixed == {"client", "project"}
Deletable == {"entry", "expense", "invoice", "bill", "gone"}
MakingPcs == {"project", "bill", "document"}

\* What a record kept in a request says of the rows.
Asks(q) ==
  /\ q.pc \in {"archive", "restore"} => q.id \in Ids /\ row[q.id].kind \in Fixed
  /\ q.pc = "put" => q.id \in Ids /\ q.on \subseteq Ids /\ (q.on # {} => row[q.id].kind \in {"entry", "gone"})
  /\ q.pc = "delete" => q.id \in Ids /\ row[q.id].kind \in Deletable
  /\ q.pc \in MakingPcs => q.id \in Ids /\ row[q.id].kind = "absent" /\ q.on \subseteq Ids
  /\ q.pc \in {"project", "bill"} =>
       \A l \in q.on : row[l].kind \in Fixed /\ row[l].by = q.token /\ (rowCalm => row[l].org = q.org)
  /\ q.pc = "document" =>
       \E e \in Ids : /\ q.on = {e} /\ row[e].kind # "absent"
                      /\ row[e].kind \in Fixed => row[e].by = q.user /\ (rowCalm => row[e].org = q.org)
  /\ q.pc \in {"retitle", "hide", "show", "archiveDocument"} => q.id \in Ids /\ row[q.id].kind = "document"

Linked(i) ==
  row[i].kind \in {"project", "bill"} =>
    \A l \in row[i].on : /\ l \in Ids /\ row[l].kind \in Fixed /\ row[l].by = row[i].by
                         /\ rowCalm => row[l].org = row[i].org
Attached(i) ==
  row[i].kind = "document" =>
    \E e \in Ids : /\ row[i].on = {e} /\ row[e].kind # "absent"
                   /\ row[e].kind \in Fixed => row[e].by = row[i].by /\ (rowCalm => row[e].org = row[i].org)

RowInv ==
  /\ Rows!TypeOK
  /\ \A h \in Handlers : Asks(rowReq[h])
  /\ \A g, h \in Handlers : g # h /\ rowReq[g].pc \in MakingPcs /\ rowReq[h].pc \in MakingPcs =>
       rowReq[g].id # rowReq[h].id
  /\ \A i \in Ids : Linked(i) /\ Attached(i)
  /\ rowCalm => Rows!OneAtATime

StoredRows == [kind : Rows!AllKinds, org : Orgs, by : Users, on : SUBSET Ids, active : BOOLEAN, shown : BOOLEAN]

LEMMA RowInit == ASSUME Rows!Init PROVE RowInv
<1>1. Rows!TypeOK BY DEF Rows!Init, Rows!TypeOK
<1>2. \A h \in Handlers : rowReq[h].pc = "idle"
 BY DEF Rows!Init, Rows!Idle
<1>3. \A i \in Ids : row[i].kind = "absent" BY DEF Rows!Init, Rows!Absent
<1>4. QED
 BY <1>1, <1>2, <1>3 DEF RowInv, Asks, Linked, Attached, MakingPcs, Rows!OneAtATime, Rows!Free

LEMMA RowShape ==
  ASSUME Rows!TypeOK, NEW h \in Handlers, rowReq[h].pc # "idle"
  PROVE  rowReq[h] \in Rows!Asked
<1>1. rowReq[h] \in Rows!Asked \cup {Rows!Idle} BY DEF Rows!TypeOK
<1>2. Rows!Idle.pc = "idle" BY DEF Rows!Idle
<1>3. QED BY <1>1, <1>2

LEMMA RowKind ==
  ASSUME Rows!TypeOK, NEW i \in Ids
  PROVE  /\ row[i].kind \notin {"absent", "gone"} => row[i] \in StoredRows
         /\ row[i].kind = "absent" => row[i] = Rows!Absent
         /\ row[i].kind = "gone" => row[i] = Rows!Gone
<1>1. row[i] \in {Rows!Absent, Rows!Gone} \cup StoredRows
 BY DEF Rows!TypeOK, StoredRows
<1>2. Rows!Absent.kind = "absent" /\ Rows!Gone.kind = "gone"
 BY DEF Rows!Absent, Rows!Gone
<1>3. \A r \in StoredRows : r.kind \notin {"absent", "gone"}
 BY DEF StoredRows, Rows!AllKinds, Rows!Counted
<1>4. QED BY <1>1, <1>2, <1>3

LEMMA RowSlot ==
  ASSUME Rows!TypeOK, NEW h \in Handlers, NEW q \in Rows!Asked \cup {Rows!Idle},
         rowReq' = [rowReq EXCEPT ![h] = q]
  PROVE  /\ rowReq' \in [Handlers -> Rows!Asked \cup {Rows!Idle}]
         /\ \A k \in Handlers : rowReq'[k] = IF k = h THEN q ELSE rowReq[k]
BY DEF Rows!TypeOK

\* Rows that are there keep what they are.
Still ==
  \A i \in Ids : row[i].kind # "absent" =>
    \/ row[i].kind \in Deletable /\ row'[i].kind = "gone"
    \/ /\ row'[i].kind = row[i].kind
       /\ row[i].kind # "gone" => row'[i].by = row[i].by
       /\ row[i].kind # "entry" => row'[i].on = row[i].on

\* A handler's step: what it must show of the tables and of its own request.
\* While requests stay calm there is no other.
LEMMA RowMoves ==
  ASSUME RowInv, NEW h \in Handlers, NEW q \in Rows!Asked \cup {Rows!Idle},
         rowReq' = [rowReq EXCEPT ![h] = q], rowReq[h].pc # "idle" \/ q.pc # "idle",
         rowCalm' = (rowCalm /\ Rows!OneAtATime'),
         row' \in [Ids -> {Rows!Absent, Rows!Gone} \cup StoredRows],
         file \subseteq file', file' \subseteq Ids, settings' \subseteq Orgs \X Users,
         Still, Asks(q)',
         \A i \in Ids : Linked(i)' /\ Attached(i)',
         \A k \in Handlers \ {h} : rowReq[k].pc \in MakingPcs =>
           row'[rowReq[k].id].kind = "absent" /\ (q.pc \in MakingPcs => q.id # rowReq[k].id)
  PROVE  RowInv'
<1>1. /\ rowReq' \in [Handlers -> Rows!Asked \cup {Rows!Idle}]
      /\ \A k \in Handlers : rowReq'[k] = IF k = h THEN q ELSE rowReq[k]
 BY RowSlot DEF RowInv
<1>2. ASSUME NEW k \in Handlers \ {h} PROVE Asks(rowReq[k])'
 <2>1. PICK r : r = rowReq[k] OBVIOUS
 <2>2. Asks(r) /\ rowReq'[k] = r BY <1>1, <2>1 DEF RowInv
 <2>3. CASE r.pc = "idle" BY <2>2, <2>3 DEF Asks, MakingPcs
 <2>4. CASE r.pc # "idle"
  <3>1. ~rowCalm'
   <4>1. rowCalm => rowReq[h].pc = "idle"
    BY <2>1, <2>4 DEF RowInv, Rows!OneAtATime, Rows!Free
   <4>2. Rows!OneAtATime' => q.pc = "idle"
    BY <1>1, <2>1, <2>4 DEF Rows!OneAtATime, Rows!Free
   <4>3. QED BY <4>1, <4>2
  <3>2. r.pc \in MakingPcs => row'[r.id].kind = "absent" BY <2>1
  <3>3. ASSUME NEW i \in Ids
        PROVE  /\ row[i].kind \in Fixed => row'[i].kind = row[i].kind /\ row'[i].by = row[i].by
               /\ row'[i].kind \in Fixed => row[i].kind \in {row'[i].kind, "absent"}
               /\ row[i].kind \in Deletable => row'[i].kind \in {row[i].kind, "gone"}
               /\ row[i].kind # "absent" => row'[i].kind # "absent"
               /\ row[i].kind = "document" => row'[i].kind = "document"
   BY DEF Still, Fixed, Deletable
  <3>4. r.pc = "put" => r.id \in Ids /\ r.on \subseteq Ids /\ (r.on # {} => row'[r.id].kind \in {"entry", "gone"})
   BY <2>2, <3>3 DEF Asks, Deletable
  <3>5. r.pc = "delete" => r.id \in Ids /\ row'[r.id].kind \in Deletable
   BY <2>2, <3>3 DEF Asks, Deletable
  <3>6. r.pc \in {"archive", "restore"} => r.id \in Ids /\ row'[r.id].kind \in Fixed
   BY <2>2, <3>3 DEF Asks
  <3>7. r.pc \in {"project", "bill"} => \A l \in r.on : row'[l].kind \in Fixed /\ row'[l].by = r.token
   BY <2>2, <3>3 DEF Asks, MakingPcs
  <3>8. r.pc = "document" =>
          \E e \in Ids : r.on = {e} /\ row'[e].kind # "absent" /\ (row'[e].kind \in Fixed => row'[e].by = r.user)
   BY <2>2, <3>3 DEF Asks
  <3>9. r.pc \in {"retitle", "hide", "show", "archiveDocument"} => r.id \in Ids /\ row'[r.id].kind = "document"
   BY <2>2, <3>3 DEF Asks
  <3>10. r.pc \in MakingPcs => r.id \in Ids /\ r.on \subseteq Ids
   BY <2>2 DEF Asks
  <3>11. Asks(r)'
   BY <3>1, <3>2, <3>4, <3>5, <3>6, <3>7, <3>8, <3>9, <3>10 DEF Asks
  <3>12. QED BY <2>2, <3>11
 <2>5. QED BY <2>1, <2>2, <2>3, <2>4
<1>3. \A k \in Handlers : Asks(rowReq[k])' BY <1>1, <1>2
<1>4. \A g, k \in Handlers : g # k /\ rowReq'[g].pc \in MakingPcs /\ rowReq'[k].pc \in MakingPcs =>
        rowReq'[g].id # rowReq'[k].id
 BY <1>1 DEF RowInv
<1>5. Rows!TypeOK' BY <1>1 DEF RowInv, Rows!TypeOK, StoredRows
<1>6. QED BY <1>3, <1>4, <1>5 DEF RowInv

\* Links between rows that were there hold on, if organizations stay.
LEMMA RowLinks ==
  ASSUME RowInv, Still, file \subseteq file', rowCalm' => rowCalm,
         \A i \in Ids : row'[i].kind \notin {"absent", "gone"} /\ row[i].kind # "absent" => row'[i].org = row[i].org,
         NEW i \in Ids, row[i].kind # "absent" \/ row'[i].kind = "absent"
  PROVE  Linked(i)' /\ Attached(i)'
<1>1. ASSUME NEW j \in Ids
      PROVE  /\ row[j].kind \in Fixed => row'[j].kind = row[j].kind /\ row'[j].by = row[j].by /\ row'[j].org = row[j].org
             /\ row'[j].kind \in Fixed /\ row[j].kind # "absent" => row[j].kind = row'[j].kind
             /\ row[j].kind # "absent" => row'[j].kind # "absent"
 BY DEF Still, Fixed, Deletable
<1>2. row'[i].kind \in {"project", "bill", "document"} =>
        row[i].kind = row'[i].kind /\ row'[i].by = row[i].by /\ row'[i].on = row[i].on /\ row'[i].org = row[i].org
 BY DEF Still, Deletable
<1>3. Linked(i) /\ Attached(i) BY DEF RowInv
<1>4. Linked(i)' BY <1>1, <1>2, <1>3 DEF Linked
<1>5. Attached(i)' BY <1>1, <1>2, <1>3 DEF Attached
<1>6. QED BY <1>4, <1>5

\* A request that found what it needs and writes nothing yet.
LEMMA RowGoes ==
  ASSUME RowInv, NEW h \in Handlers, rowReq[h].pc = "scoped",
         NEW pc \in Rows!Pcs, NEW i \in Ids \cup {"none"}, NEW on \in SUBSET (Ids \cup Orgs),
         Rows!Goto(h, pc, i, on), rowCalm' = (rowCalm /\ Rows!OneAtATime'),
         pc \in MakingPcs => Rows!Fresh(i),
         \A q \in Rows!Asked : q.pc = pc /\ q.id = i /\ q.on = on /\ q.org = rowReq[h].org
                               /\ q.token = rowReq[h].token /\ q.user = rowReq[h].user => Asks(q)
  PROVE  RowInv'
<1>1. rowReq[h] \in Rows!Asked BY RowShape DEF RowInv
<1>2. PICK q \in Rows!Asked : q = [rowReq[h] EXCEPT !.pc = pc, !.id = i, !.on = on]
 BY <1>1 DEF Rows!Asked
<1>3. q.pc = pc /\ q.id = i /\ q.on = on /\ q.org = rowReq[h].org /\ q.token = rowReq[h].token /\ q.user = rowReq[h].user
 BY <1>1, <1>2 DEF Rows!Asked
<1>4. rowReq' = [rowReq EXCEPT ![h] = q] /\ row' = row /\ file' = file /\ settings' = settings
 BY <1>2 DEF RowInv, Rows!TypeOK, Rows!Goto, Rows!tables
<1>5. Asks(q) BY <1>3
<1>6. Asks(q)' BY <1>4, <1>5 DEF Asks
<1>7. Still BY <1>4 DEF Still
<1>8. \A j \in Ids : Linked(j)' /\ Attached(j)' BY <1>4, <1>7, RowLinks
<1>9. \A k \in Handlers \ {h} : rowReq[k].pc \in MakingPcs =>
        row'[rowReq[k].id].kind = "absent" /\ (q.pc \in MakingPcs => q.id # rowReq[k].id)
 <2>1. ASSUME NEW k \in Handlers \ {h}, rowReq[k].pc \in MakingPcs
       PROVE  row'[rowReq[k].id].kind = "absent" /\ (q.pc \in MakingPcs => q.id # rowReq[k].id)
  <3>1. row[rowReq[k].id].kind = "absent" BY <2>1 DEF RowInv, Asks
  <3>2. rowReq[k].pc # "idle" BY <2>1 DEF MakingPcs
  <3>3. pc \in MakingPcs => i # rowReq[k].id
   BY <3>2 DEF Rows!Fresh, Rows!Free
  <3>4. QED BY <1>3, <1>4, <3>1, <3>3
 <2>2. QED BY <2>1
<1>10. row' \in [Ids -> {Rows!Absent, Rows!Gone} \cup StoredRows] /\ file' \subseteq Ids /\ settings' \subseteq Orgs \X Users
 BY <1>4 DEF RowInv, Rows!TypeOK, StoredRows
<1>11. QED BY <1>4, <1>6, <1>7, <1>8, <1>9, <1>10, RowMoves

\* The answer of a request, and the row it wrote.
LEMMA RowAnswers ==
  ASSUME RowInv, NEW h \in Handlers, rowReq[h].pc # "idle", Rows!Answer(h),
         rowCalm' = (rowCalm /\ Rows!OneAtATime'),
         row' \in [Ids -> {Rows!Absent, Rows!Gone} \cup StoredRows],
         file \subseteq file', file' \subseteq Ids, settings' \subseteq Orgs \X Users,
         Still,
         \A i \in Ids : Linked(i)' /\ Attached(i)',
         \A i \in Ids : row[i].kind = "absent" /\ row'[i].kind # "absent" =>
           \A k \in Handlers \ {h} : rowReq[k].pc \in MakingPcs => rowReq[k].id # i
  PROVE  RowInv'
<1>1. Rows!Idle.pc = "idle" BY DEF Rows!Idle
<1>2. PICK q : q = Rows!Idle OBVIOUS
<1>3. rowReq' = [rowReq EXCEPT ![h] = q] /\ q \in Rows!Asked \cup {Rows!Idle} /\ q.pc = "idle"
 BY <1>1, <1>2 DEF Rows!Answer
<1>4. Asks(q)' /\ q.pc \notin MakingPcs BY <1>3 DEF Asks, MakingPcs
<1>5. \A k \in Handlers \ {h} : rowReq[k].pc \in MakingPcs => row'[rowReq[k].id].kind = "absent"
 BY DEF RowInv, Asks
<1>6. QED BY <1>3, <1>4, <1>5, RowMoves

\* A row that is there changes in something no link depends on.
LEMMA RowEdits ==
  ASSUME RowInv, NEW h \in Handlers, rowReq[h].pc # "idle", Rows!Answer(h),
         rowCalm' = (rowCalm /\ Rows!OneAtATime'),
         file \subseteq file', file' \subseteq Ids, settings' \subseteq Orgs \X Users,
         NEW i \in Ids, NEW r \in StoredRows, row' = [row EXCEPT ![i] = r],
         row[i].kind \notin {"absent", "gone"},
         r.kind = row[i].kind, r.by = row[i].by, r.org = row[i].org,
         row[i].kind # "entry" => r.on = row[i].on
  PROVE  RowInv'
<1>1. row' \in [Ids -> {Rows!Absent, Rows!Gone} \cup StoredRows] /\ row'[i] = r
      /\ \A j \in Ids \ {i} : row'[j] = row[j]
 BY DEF RowInv, Rows!TypeOK, StoredRows
<1>2. Still BY <1>1 DEF Still
<1>3. \A j \in Ids : Linked(j)' /\ Attached(j)' BY <1>1, <1>2, RowLinks
<1>4. \A j \in Ids : row[j].kind = "absent" => row'[j].kind = "absent"
 BY <1>1
<1>5. QED BY <1>1, <1>2, <1>3, <1>4, RowAnswers

\* What a document of user u in organization o may be attached to.
AttachableTo(on, u, o) ==
  \E e \in Ids : /\ on = {e} /\ row[e].kind # "absent"
                 /\ row[e].kind \in Fixed => row[e].by = u /\ (rowCalm => row[e].org = o)

\* A new row.
LEMMA RowMakes ==
  ASSUME RowInv, NEW h \in Handlers, rowReq[h].pc # "idle", Rows!Answer(h),
         rowCalm' = (rowCalm /\ Rows!OneAtATime'), file' = file, settings' = settings,
         NEW i \in Ids, NEW kind \in Rows!AllKinds, NEW o \in Orgs, NEW u \in Users, NEW on \in SUBSET Ids,
         row' = [row EXCEPT ![i] = Rows!New(kind, o, u, on)],
         row[i].kind = "absent",
         \A k \in Handlers \ {h} : rowReq[k].pc \in MakingPcs => rowReq[k].id # i,
         kind \in {"project", "bill"} =>
           \A l \in on : row[l].kind \in Fixed /\ row[l].by = u /\ (rowCalm => row[l].org = o),
         kind = "document" => AttachableTo(on, u, o)
  PROVE  RowInv'
<1>1. PICK r \in StoredRows : r = Rows!New(kind, o, u, on)
 BY DEF Rows!New, StoredRows
<1>2. r.kind = kind /\ r.org = o /\ r.by = u /\ r.on = on
 BY <1>1 DEF Rows!New
<1>3. row' \in [Ids -> {Rows!Absent, Rows!Gone} \cup StoredRows] /\ row'[i] = r
      /\ \A j \in Ids \ {i} : row'[j] = row[j]
 BY <1>1 DEF RowInv, Rows!TypeOK, StoredRows
<1>4. Still BY <1>3 DEF Still
<1>5. \A j \in Ids \ {i} : Linked(j)' /\ Attached(j)'
 BY <1>3, <1>4, RowLinks
<1>6. "absent" \notin Fixed BY DEF Fixed
<1>7. rowCalm' => rowCalm OBVIOUS
<1>8. Linked(i)'
 <2>1. ASSUME NEW l \in on, kind \in {"project", "bill"}
       PROVE  l \in Ids /\ row'[l].kind \in Fixed /\ row'[l].by = u /\ (rowCalm' => row'[l].org = o)
  <3>1. l \in Ids \ {i} /\ row[l].kind \in Fixed /\ row[l].by = u /\ (rowCalm => row[l].org = o)
   BY <1>6, <2>1
  <3>2. row'[l] = row[l] BY <1>3, <3>1
  <3>3. QED BY <1>7, <3>1, <3>2
 <2>2. row'[i].kind = kind /\ row'[i].on = on /\ row'[i].by = u /\ row'[i].org = o
  BY <1>2, <1>3
 <2>3. QED BY <2>1, <2>2 DEF Linked
<1>9. Attached(i)'
 <2>1. ASSUME NEW e \in Ids, row[e].kind # "absent" PROVE row'[e] = row[e]
  BY <1>3, <2>1
 <2>2. row'[i].kind = kind /\ row'[i].on = on /\ row'[i].by = u /\ row'[i].org = o
  BY <1>2, <1>3
 <2>3. CASE kind = "document"
  <3>1. PICK e \in Ids : /\ on = {e} /\ row[e].kind # "absent"
                         /\ row[e].kind \in Fixed => row[e].by = u /\ (rowCalm => row[e].org = o)
   BY <2>3 DEF AttachableTo
  <3>2. row'[e] = row[e] BY <2>1, <3>1
  <3>3. row'[e].kind # "absent" /\ (row'[e].kind \in Fixed => row'[e].by = u /\ (rowCalm' => row'[e].org = o))
   BY <1>7, <3>1, <3>2
  <3>4. QED BY <2>2, <3>1, <3>3 DEF Attached
 <2>4. QED BY <2>2, <2>3 DEF Attached
<1>10. row'[i].kind = kind /\ file \subseteq file' /\ file' \subseteq Ids /\ settings' \subseteq Orgs \X Users
 BY <1>2, <1>3 DEF RowInv, Rows!TypeOK
<1>11. \A j \in Ids : row[j].kind = "absent" /\ row'[j].kind # "absent" => j = i
 BY <1>3
<1>12. QED BY <1>3, <1>4, <1>5, <1>8, <1>9, <1>10, <1>11, RowAnswers

LEMMA RowCount == \A S : Rows!Cardinality(S) = Cardinality(S)
BY DEF Rows!Cardinality, Cardinality

\* Owners of data are users; with one of them, that is who a stranger acts for.
LEMMA Owner ==
  ASSUME RowInv, NEW o, NEW u \in Users
  PROVE  /\ Rows!Owners(o) \subseteq Users
         /\ Rows!EffectiveUser(o, u) \in Users
         /\ u \in Rows!Owners(o) => Rows!EffectiveUser(o, u) = u
<1>1. Rows!Owners(o) \subseteq Users
 <2>1. ASSUME NEW i \in Ids, Rows!In(o, i) PROVE row[i].by \in Users
  BY <2>1, RowKind DEF RowInv, Rows!In, Rows!There, StoredRows
 <2>2. QED BY <2>1 DEF Rows!Owners
<1>2. ASSUME Cardinality(Rows!Owners(o)) = 1 PROVE Rows!Owners(o) # {}
 BY <1>2, FS_EmptySet
<1>3. QED BY <1>1, <1>2, RowCount DEF Rows!EffectiveUser

LEMMA RowRequest ==
  ASSUME RowInv, NEW h \in Handlers, NEW u \in Users, NEW o \in Orgs, Rows!Request(h, u, o),
         rowCalm' = (rowCalm /\ Rows!OneAtATime')
  PROVE  RowInv'
<1>1. PICK q \in Rows!Asked :
        /\ q = [pc |-> "scoped", org |-> o, token |-> u, user |-> Rows!EffectiveUser(o, u), id |-> "none", on |-> {}]
 BY Owner DEF Rows!Asked, Rows!Pcs
<1>2. q.pc = "scoped" /\ rowReq' = [rowReq EXCEPT ![h] = q] /\ row' = row /\ file' = file /\ settings' = settings
 BY <1>1 DEF Rows!Request, Rows!tables
<1>3. Asks(q)' /\ q.pc \notin MakingPcs BY <1>2 DEF Asks, MakingPcs
<1>4. Still BY <1>2 DEF Still
<1>5. \A j \in Ids : Linked(j)' /\ Attached(j)' BY <1>2, <1>4, RowLinks
<1>6. \A k \in Handlers \ {h} : rowReq[k].pc \in MakingPcs => row'[rowReq[k].id].kind = "absent"
 BY <1>2 DEF RowInv, Asks
<1>7. row' \in [Ids -> {Rows!Absent, Rows!Gone} \cup StoredRows] /\ file' \subseteq Ids /\ settings' \subseteq Orgs \X Users
 BY <1>2 DEF RowInv, Rows!TypeOK, StoredRows
<1>8. QED BY <1>2, <1>3, <1>4, <1>5, <1>6, <1>7, RowMoves

\* The two ways a route begins: it makes its row at once, or finds a row first.
LEMMA RowCreates ==
  ASSUME RowInv, NEW h \in Handlers, rowReq[h].pc = "scoped", NEW i \in Ids,
         NEW kind \in {"client", "entry", "expense", "invoice"}, NEW on \in SUBSET Ids,
         Rows!Create(h, kind, i, on), rowCalm' = (rowCalm /\ Rows!OneAtATime')
  PROVE  RowInv'
<1>1. rowReq[h] \in Rows!Asked BY RowShape DEF RowInv
<1>2. rowReq[h].org \in Orgs /\ rowReq[h].token \in Users
 BY <1>1 DEF Rows!Asked
<1>3. \A k \in Handlers \ {h} : rowReq[k].pc \in MakingPcs => rowReq[k].id # i
 BY DEF Rows!Create, Rows!Fresh, Rows!Free, MakingPcs
<1>4. row[i].kind = "absent" /\ kind \in Rows!AllKinds
 BY DEF Rows!Create, Rows!Fresh, Rows!Is, Rows!AllKinds, Rows!Counted
<1>5. PICK o \in Orgs, u \in Users : o = rowReq[h].org /\ u = rowReq[h].token
 BY <1>2
<1>6. Rows!Answer(h) /\ row' = [row EXCEPT ![i] = Rows!New(kind, o, u, on)] /\ file' = file /\ settings' = settings
 BY <1>5 DEF Rows!Create
<1>7. kind \notin {"project", "bill", "document"} OBVIOUS
<1>8. QED BY <1>3, <1>4, <1>6, <1>7, RowMakes

LEMMA RowFinds ==
  ASSUME RowInv, NEW h \in Handlers, rowReq[h].pc = "scoped", NEW i \in Ids, Rows!Mine(h, i),
         NEW pc \in {"put", "archive", "restore", "delete"},
         NEW on \in SUBSET Ids,
         pc \in {"archive", "restore"} => row[i].kind \in Fixed,
         pc = "put" /\ on # {} => row[i].kind = "entry",
         pc = "delete" => row[i].kind \in Deletable,
         Rows!Goto(h, pc, i, on), rowCalm' = (rowCalm /\ Rows!OneAtATime')
  PROVE  RowInv'
<1>1. \A q : q.pc = pc /\ q.id = i /\ q.on = on => Asks(q)
 BY DEF Asks, MakingPcs
<1>2. pc \in Rows!Pcs /\ pc \notin MakingPcs BY DEF Rows!Pcs, MakingPcs
<1>3. QED BY <1>1, <1>2, RowGoes

\* A project or bill whose client and project were found.
LEMMA RowChecks ==
  ASSUME RowInv, NEW h \in Handlers, rowReq[h].pc = "scoped", NEW i \in Ids, Rows!Fresh(i),
         NEW pc \in {"project", "bill"}, NEW on \in SUBSET Ids,
         \A l \in on : row[l].kind \in Fixed /\ Rows!Mine(h, l),
         Rows!Goto(h, pc, i, on), rowCalm' = (rowCalm /\ Rows!OneAtATime')
  PROVE  RowInv'
<1>1. \A l \in on : row[l].kind \in Fixed /\ row[l].by = rowReq[h].token /\ row[l].org = rowReq[h].org
 BY DEF Rows!Mine, Rows!Own, Rows!In
<1>2. row[i].kind = "absent" BY DEF Rows!Fresh, Rows!Is
<1>3. \A q : q.pc = pc /\ q.id = i /\ q.on = on /\ q.org = rowReq[h].org /\ q.token = rowReq[h].token => Asks(q)
 BY <1>1, <1>2 DEF Asks, MakingPcs
<1>4. pc \in Rows!Pcs BY DEF Rows!Pcs
<1>5. QED BY <1>3, <1>4, RowGoes

LEMMA RowRoutes ==
  ASSUME RowInv, NEW h \in Handlers, rowReq[h].pc = "scoped", NEW i \in Ids,
         \/ Rows!Clients(h, i) \/ Rows!Projects(h, i) \/ Rows!TimeEntries(h, i)
         \/ Rows!Expenses(h, i) \/ Rows!Invoices(h, i) \/ Rows!ProjectBills(h, i),
         rowCalm' = (rowCalm /\ Rows!OneAtATime')
  PROVE  RowInv'
<1>1. CASE Rows!Clients(h, i)
 <2>1. ASSUME Rows!Is(i, "client"), Rows!Mine(h, i),
              NEW pc \in {"put", "archive", "restore"}, Rows!Goto(h, pc, i, {})
       PROVE  RowInv'
  BY <2>1, RowFinds DEF Rows!Is, Fixed
 <2>2. QED BY <1>1, <2>1, RowCreates DEF Rows!Clients
<1>2. CASE Rows!Projects(h, i)
 <2>1. ASSUME Rows!Is(i, "project"), Rows!Mine(h, i),
              NEW pc \in {"put", "archive", "restore"}, Rows!Goto(h, pc, i, {})
       PROVE  RowInv'
  BY <2>1, RowFinds DEF Rows!Is, Fixed
 <2>2. ASSUME Rows!Fresh(i), NEW c \in Ids, Rows!Is(c, "client"), Rows!Mine(h, c), Rows!Goto(h, "project", i, {c})
       PROVE  RowInv'
  BY <2>2, RowChecks DEF Rows!Is, Fixed
 <2>3. QED BY <1>2, <2>1, <2>2 DEF Rows!Projects
<1>3. CASE Rows!TimeEntries(h, i)
 <2>1. ASSUME Rows!Is(i, "entry"), Rows!Mine(h, i), NEW c \in Ids, Rows!Goto(h, "put", i, {c})
       PROVE  RowInv'
  BY <2>1, RowFinds DEF Rows!Is
 <2>2. ASSUME Rows!Is(i, "entry"), Rows!Mine(h, i), Rows!Goto(h, "delete", i, {})
       PROVE  RowInv'
  BY <2>2, RowFinds DEF Rows!Is, Deletable
 <2>3. ASSUME NEW c \in Ids, Rows!Create(h, "entry", i, {c}) PROVE RowInv'
  BY <2>3, RowCreates
 <2>4. QED BY <1>3, <2>1, <2>2, <2>3 DEF Rows!TimeEntries
<1>4. CASE Rows!Expenses(h, i)
 <2>1. ASSUME Rows!Is(i, "expense"), Rows!Mine(h, i), NEW pc \in {"put", "delete"}, Rows!Goto(h, pc, i, {})
       PROVE  RowInv'
  BY <2>1, RowFinds DEF Rows!Is, Deletable
 <2>2. QED BY <1>4, <2>1, RowCreates DEF Rows!Expenses
<1>5. CASE Rows!Invoices(h, i)
 <2>1. ASSUME Rows!Is(i, "invoice"), Rows!Mine(h, i), NEW pc \in {"put", "delete"}, Rows!Goto(h, pc, i, {})
       PROVE  RowInv'
  BY <2>1, RowFinds DEF Rows!Is, Deletable
 <2>2. ASSUME NEW c \in Ids, Rows!Create(h, "invoice", i, {c}) PROVE RowInv'
  BY <2>2, RowCreates
 <2>3. QED BY <1>5, <2>1, <2>2 DEF Rows!Invoices
<1>6. CASE Rows!ProjectBills(h, i)
 <2>1. ASSUME Rows!Is(i, "bill"), Rows!Mine(h, i), NEW pc \in {"put", "delete"}, Rows!Goto(h, pc, i, {})
       PROVE  RowInv'
  BY <2>1, RowFinds DEF Rows!Is, Deletable
 <2>2. ASSUME Rows!Fresh(i), NEW c \in Ids, NEW p \in Ids, Rows!Is(c, "client"), Rows!Is(p, "project"),
              Rows!Mine(h, c), Rows!Mine(h, p), Rows!Goto(h, "bill", i, {c, p})
       PROVE  RowInv'
  <3>1. PICK on \in SUBSET Ids : on = {c, p} OBVIOUS
  <3>2. \A l \in on : row[l].kind \in Fixed /\ Rows!Mine(h, l)
   BY <2>2, <3>1 DEF Rows!Is, Fixed
  <3>3. QED BY <2>2, <3>1, <3>2, RowChecks
 <2>3. QED BY <1>6, <2>1, <2>2 DEF Rows!ProjectBills
<1>7. QED BY <1>1, <1>2, <1>3, <1>4, <1>5, <1>6

\* A row whose request was made for it: a project, bill or document.
LEMMA RowMade ==
  ASSUME RowInv, NEW h \in Handlers, Rows!CreateChecked(h) \/ Rows!PostDocument(h),
         rowCalm' = (rowCalm /\ Rows!OneAtATime')
  PROVE  RowInv'
<1>1. rowReq[h].pc \in MakingPcs /\ rowReq[h].pc # "idle"
 BY DEF Rows!CreateChecked, Rows!PostDocument, Rows!At, MakingPcs
<1>2. rowReq[h] \in Rows!Asked /\ Asks(rowReq[h])
 BY <1>1, RowShape DEF RowInv
<1>3. PICK i, kind, o, u, on :
        /\ i = rowReq[h].id /\ kind = rowReq[h].pc /\ o = rowReq[h].org /\ on = rowReq[h].on
        /\ u = IF rowReq[h].pc = "document" THEN rowReq[h].user ELSE rowReq[h].token
 OBVIOUS
<1>4. i \in Ids /\ kind \in Rows!AllKinds /\ o \in Orgs /\ u \in Users /\ on \in SUBSET Ids
      /\ row[i].kind = "absent"
 BY <1>1, <1>2, <1>3 DEF Asks, MakingPcs, Rows!Asked, Rows!AllKinds, Rows!Counted
<1>5. /\ row' = [row EXCEPT ![i] = Rows!New(kind, o, u, on)]
      /\ Rows!Answer(h) /\ file' = file /\ settings' = settings
 BY <1>3 DEF Rows!CreateChecked, Rows!PostDocument, Rows!At
<1>6. \A k \in Handlers \ {h} : rowReq[k].pc \in MakingPcs => rowReq[k].id # i
 BY <1>1, <1>3 DEF RowInv
<1>7. kind \in {"project", "bill"} =>
        \A l \in on : row[l].kind \in Fixed /\ row[l].by = u /\ (rowCalm => row[l].org = o)
 BY <1>2, <1>3 DEF Asks
<1>8. kind = "document" => AttachableTo(on, u, o)
 BY <1>2, <1>3 DEF Asks, AttachableTo
<1>9. QED BY <1>1, <1>4, <1>5, <1>6, <1>7, <1>8, RowMakes

\* A request that leaves the rows as they are.
LEMMA RowKeeps ==
  ASSUME RowInv, NEW h \in Handlers, rowReq[h].pc # "idle", Rows!Answer(h), row' = row,
         file \subseteq file', file' \subseteq Ids, settings' \subseteq Orgs \X Users,
         rowCalm' = (rowCalm /\ Rows!OneAtATime')
  PROVE  RowInv'
<1>1. Still BY DEF Still
<1>2. \A j \in Ids : Linked(j)' /\ Attached(j)' BY <1>1, RowLinks
<1>3. row' \in [Ids -> {Rows!Absent, Rows!Gone} \cup StoredRows]
 BY DEF RowInv, Rows!TypeOK, StoredRows
<1>4. \A i \in Ids : ~(row[i].kind = "absent" /\ row'[i].kind # "absent")
 OBVIOUS
<1>5. QED BY <1>1, <1>2, <1>3, <1>4, RowAnswers

LEMMA RowPut ==
  ASSUME RowInv, NEW h \in Handlers, Rows!Put(h), rowCalm' = (rowCalm /\ Rows!OneAtATime')
  PROVE  RowInv'
<1>1. rowReq[h].pc = "put" /\ rowReq[h].pc # "idle"
 BY DEF Rows!Put, Rows!At
<1>2. PICK i, on : i = rowReq[h].id /\ on = rowReq[h].on OBVIOUS
<1>3. i \in Ids /\ on \in SUBSET Ids /\ (on # {} => row[i].kind \in {"entry", "gone"})
 BY <1>1, <1>2 DEF RowInv, Asks
<1>4. Rows!Answer(h) /\ file \subseteq file' /\ file' \subseteq Ids /\ settings' \subseteq Orgs \X Users
 BY DEF Rows!Put, RowInv, Rows!TypeOK
<1>5. CASE Rows!There(i) /\ on # {}
 <2>1. row[i].kind = "entry" /\ row[i] \in StoredRows
  BY <1>3, <1>5, RowKind DEF Rows!There, RowInv
 <2>2. PICK r \in StoredRows : r = [row[i] EXCEPT !.on = on]
  BY <1>3, <2>1 DEF StoredRows
 <2>3. r.kind = row[i].kind /\ r.by = row[i].by /\ r.org = row[i].org
  BY <2>1, <2>2 DEF StoredRows
 <2>4. row' = [row EXCEPT ![i] = r]
  BY <1>2, <1>5, <2>2 DEF Rows!Put, RowInv, Rows!TypeOK
 <2>5. QED BY <1>1, <1>3, <1>4, <2>1, <2>3, <2>4, RowEdits
<1>6. CASE ~(Rows!There(i) /\ on # {}) BY <1>1, <1>2, <1>4, <1>6, RowKeeps DEF Rows!Put
<1>7. QED BY <1>5, <1>6

\* Archiving and restoring change the status of a row, and nothing else of it.
LEMMA RowMarks ==
  ASSUME RowInv, NEW h \in Handlers, rowReq[h].pc # "idle", Rows!Answer(h),
         file' = file, settings' = settings, rowCalm' = (rowCalm /\ Rows!OneAtATime'),
         NEW i \in Ids, row[i].kind \notin {"absent", "gone"},
         NEW active \in BOOLEAN, NEW shown \in BOOLEAN,
         row' = [row EXCEPT ![i] = [row[i] EXCEPT !.active = active, !.shown = shown]]
  PROVE  RowInv'
<1>1. row[i] \in StoredRows BY RowKind DEF RowInv
<1>2. PICK r \in StoredRows : r = [row[i] EXCEPT !.active = active, !.shown = shown]
 BY <1>1 DEF StoredRows
<1>3. r.kind = row[i].kind /\ r.by = row[i].by /\ r.org = row[i].org /\ r.on = row[i].on
 BY <1>1, <1>2 DEF StoredRows
<1>4. row' = [row EXCEPT ![i] = r] /\ file \subseteq file' /\ file' \subseteq Ids /\ settings' \subseteq Orgs \X Users
 BY <1>2 DEF RowInv, Rows!TypeOK
<1>5. QED BY <1>3, <1>4, RowEdits

LEMMA RowMarked ==
  ASSUME RowInv, NEW h \in Handlers, Rows!SetActive(h) \/ Rows!PatchDocument(h) \/ Rows!ArchiveDocument(h),
         rowCalm' = (rowCalm /\ Rows!OneAtATime')
  PROVE  RowInv'
<1>1. rowReq[h].pc \in {"archive", "restore", "retitle", "hide", "show", "archiveDocument"}
 BY DEF Rows!SetActive, Rows!PatchDocument, Rows!ArchiveDocument, Rows!At
<1>2. PICK i : i = rowReq[h].id OBVIOUS
<1>3. i \in Ids /\ row[i].kind \in {"client", "project", "document"}
 BY <1>1, <1>2 DEF RowInv, Asks, Fixed
<1>4. row[i] \in StoredRows BY <1>3, RowKind DEF RowInv
<1>5. Rows!Answer(h) /\ file' = file /\ settings' = settings
 BY DEF Rows!SetActive, Rows!PatchDocument, Rows!ArchiveDocument
<1>6. row \in [Ids -> {Rows!Absent, Rows!Gone} \cup StoredRows]
 BY DEF RowInv, Rows!TypeOK, StoredRows
<1>7. \E active, shown \in BOOLEAN :
        row' = [row EXCEPT ![i] = [row[i] EXCEPT !.active = active, !.shown = shown]]
 <2>1. CASE Rows!SetActive(h)
  <3>1. PICK active \in BOOLEAN, shown \in BOOLEAN :
          (active <=> Rows!At(h, "restore")) /\ shown = row[i].shown
   BY <1>4 DEF StoredRows
  <3>2. row' = [row EXCEPT ![i].active = active]
   BY <1>2, <2>1, <3>1 DEF Rows!SetActive, Rows!At
  <3>3. [row[i] EXCEPT !.active = active] = [row[i] EXCEPT !.active = active, !.shown = shown]
   BY <1>4, <3>1 DEF StoredRows
  <3>4. QED BY <1>3, <1>6, <3>2, <3>3
 <2>2. CASE Rows!ArchiveDocument(h)
  <3>1. PICK shown \in BOOLEAN : shown = row[i].shown
   BY <1>4 DEF StoredRows
  <3>2. row' = [row EXCEPT ![i].active = FALSE]
   BY <1>2, <2>2 DEF Rows!ArchiveDocument
  <3>3. [row[i] EXCEPT !.active = FALSE] = [row[i] EXCEPT !.active = FALSE, !.shown = shown]
   BY <1>4, <3>1 DEF StoredRows
  <3>4. QED BY <1>3, <1>6, <3>2, <3>3
 <2>3. CASE Rows!PatchDocument(h)
  <3>1. PICK on : on = IF Rows!At(h, "retitle") THEN row[i].shown ELSE Rows!At(h, "show")
   OBVIOUS
  <3>2. on \in BOOLEAN BY <1>4, <3>1 DEF StoredRows, Rows!At
  <3>3. row' = [row EXCEPT ![i].active = on, ![i].shown = on]
   BY <1>2, <2>3, <3>1 DEF Rows!PatchDocument
  <3>4. row' = [row EXCEPT ![i] = [row[i] EXCEPT !.active = on, !.shown = on]]
   BY <1>3, <1>6, <3>3
  <3>5. QED BY <3>2, <3>4
 <2>4. QED BY <2>1, <2>2, <2>3
<1>8. PICK active \in BOOLEAN, shown \in BOOLEAN :
        row' = [row EXCEPT ![i] = [row[i] EXCEPT !.active = active, !.shown = shown]]
 BY <1>7
<1>9. rowReq[h].pc # "idle" /\ row[i].kind \notin {"absent", "gone"}
 BY <1>1, <1>3
<1>10. QED BY <1>3, <1>5, <1>8, <1>9, RowMarks

LEMMA RowDelete ==
  ASSUME RowInv, NEW h \in Handlers, Rows!Delete(h), rowCalm' = (rowCalm /\ Rows!OneAtATime')
  PROVE  RowInv'
<1>1. rowReq[h].pc = "delete" /\ rowReq[h].pc # "idle"
 BY DEF Rows!Delete, Rows!At
<1>2. PICK i, r : i = rowReq[h].id /\ r = Rows!Gone OBVIOUS
<1>3. i \in Ids /\ row[i].kind \in Deletable
 BY <1>1, <1>2 DEF RowInv, Asks
<1>4. Rows!Answer(h) /\ file \subseteq file' /\ file' \subseteq Ids /\ settings' \subseteq Orgs \X Users
 BY DEF Rows!Delete, RowInv, Rows!TypeOK
<1>5. r.kind = "gone" /\ row' = [row EXCEPT ![i] = r] /\ row'[i] = r /\ \A j \in Ids \ {i} : row'[j] = row[j]
 BY <1>2, <1>3 DEF Rows!Delete, Rows!Gone, RowInv, Rows!TypeOK
<1>6. row' \in [Ids -> {Rows!Absent, Rows!Gone} \cup StoredRows]
 BY <1>2, <1>5 DEF RowInv, Rows!TypeOK, StoredRows
<1>7. row[i].kind # "absent" BY <1>3 DEF Deletable
<1>8. Still BY <1>3, <1>5 DEF Still
<1>9. \A j \in Ids : Linked(j)' /\ Attached(j)'
 <2>1. \A j \in Ids : row'[j].kind \notin {"absent", "gone"} => row'[j].org = row[j].org
  BY <1>5
 <2>2. \A j \in Ids : row[j].kind # "absent" \/ row'[j].kind = "absent"
  BY <1>5, <1>7
 <2>3. QED BY <1>4, <1>8, <2>1, <2>2, RowLinks
<1>10. \A j \in Ids : row[j].kind = "absent" => row'[j].kind = "absent"
 BY <1>5, <1>7
<1>11. QED BY <1>1, <1>4, <1>6, <1>8, <1>9, <1>10, RowAnswers

LEMMA RowRests ==
  ASSUME RowInv, NEW h \in Handlers, rowCalm' = (rowCalm /\ Rows!OneAtATime'),
         \/ Rows!Settings(h) \/ Rows!Refuse(h) \/ Rows!AbortRequest(h) \/ \E i \in Ids : Rows!Upload(h, i)
  PROVE  RowInv'
<1>1. rowReq[h].pc # "idle" /\ Rows!Answer(h) /\ row' = row
 BY DEF Rows!Settings, Rows!Refuse, Rows!AbortRequest, Rows!Upload, Rows!At, Rows!Free, Rows!tables
<1>2. file \subseteq file' /\ file' \subseteq Ids
 BY DEF Rows!Settings, Rows!Refuse, Rows!AbortRequest, Rows!Upload, Rows!tables, RowInv, Rows!TypeOK
<1>3. settings' \subseteq Orgs \X Users
 <2>1. settings \subseteq Orgs \X Users BY DEF RowInv, Rows!TypeOK
 <2>2. CASE Rows!Settings(h)
  <3>1. rowReq[h] \in Rows!Asked BY <1>1, RowShape DEF RowInv
  <3>2. rowReq[h].org \in Orgs /\ rowReq[h].token \in Users
   BY <3>1 DEF Rows!Asked
  <3>3. QED BY <2>1, <2>2, <3>2 DEF Rows!Settings
 <2>3. QED BY <2>1, <2>2 DEF Rows!Refuse, Rows!AbortRequest, Rows!Upload, Rows!tables
<1>4. QED BY <1>1, <1>2, <1>3, RowKeeps

LEMMA RowStartsDocument ==
  ASSUME RowInv, NEW h \in Handlers, NEW i \in Ids, Rows!StartDocument(h, i),
         rowCalm' = (rowCalm /\ Rows!OneAtATime')
  PROVE  RowInv'
<1>1. rowReq[h].pc = "scoped" /\ Rows!Fresh(i) /\ row[i].kind = "absent"
 BY DEF Rows!StartDocument, Rows!At, Rows!Fresh, Rows!Is
<1>2. PICK e \in Ids : Rows!Scope(h, e) /\ Rows!Goto(h, "document", i, {e})
 BY DEF Rows!StartDocument
<1>3. row[e].kind # "absent" /\ row[e].by = rowReq[h].user /\ row[e].org = rowReq[h].org
 BY <1>2 DEF Rows!Scope, Rows!Accessible, Rows!There, Rows!Own, Rows!In
<1>4. \A q : q.pc = "document" /\ q.id = i /\ q.on = {e} /\ q.org = rowReq[h].org /\ q.user = rowReq[h].user => Asks(q)
 BY <1>1, <1>3 DEF Asks, MakingPcs
<1>5. "document" \in Rows!Pcs BY DEF Rows!Pcs
<1>6. QED BY <1>1, <1>2, <1>4, <1>5, RowGoes

LEMMA RowStarts ==
  ASSUME RowInv, NEW h \in Handlers, Rows!StartRelink(h) \/ \E d \in Ids : Rows!StartPatch(h, d),
         rowCalm' = (rowCalm /\ Rows!OneAtATime')
  PROVE  RowInv'
<1>1. CASE Rows!StartRelink(h)
 <2>1. PICK on \in SUBSET (Ids \cup Orgs) : on = Rows!OtherOrgs(rowReq[h].org, rowReq[h].user)
  BY DEF Rows!OtherOrgs
 <2>2. rowReq[h].pc = "scoped" /\ Rows!Goto(h, "relink", "none", on)
  BY <1>1, <2>1 DEF Rows!StartRelink, Rows!At
 <2>3. \A q : q.pc = "relink" => Asks(q) BY DEF Asks, MakingPcs
 <2>4. "relink" \in Rows!Pcs /\ "relink" \notin MakingPcs
  BY DEF Rows!Pcs, MakingPcs
 <2>5. QED BY <2>2, <2>3, <2>4, RowGoes
<1>2. ASSUME NEW d \in Ids, Rows!StartPatch(h, d) PROVE RowInv'
 <2>1. PICK pc \in {"retitle", "hide", "show", "archiveDocument"} : Rows!Goto(h, pc, d, {})
  BY <1>2 DEF Rows!StartPatch
 <2>2. rowReq[h].pc = "scoped" /\ row[d].kind = "document"
  BY <1>2 DEF Rows!StartPatch, Rows!At, Rows!Is
 <2>3. \A q : q.pc = pc /\ q.id = d => Asks(q) BY <2>2 DEF Asks, MakingPcs
 <2>4. pc \in Rows!Pcs /\ pc \notin MakingPcs BY DEF Rows!Pcs, MakingPcs
 <2>5. QED BY <2>1, <2>2, <2>3, <2>4, RowGoes
<1>3. QED BY <1>1, <1>2

\* A relink moves every kind of row that a link may have at either end.
LEMMA RowRelink ==
  ASSUME RowInv, NEW h \in Handlers, Rows!Relink(h), rowCalm' = (rowCalm /\ Rows!OneAtATime')
  PROVE  RowInv'
<1>1. rowReq[h].pc = "relink" /\ rowReq[h].pc # "idle"
 BY DEF Rows!Relink, Rows!At
<1>2. PICK o, u, from : o = rowReq[h].org /\ u = rowReq[h].user /\ from = CHOOSE p \in rowReq[h].on : TRUE
 OBVIOUS
<1>3. o \in Orgs /\ u \in Users
 <2>1. rowReq[h] \in Rows!Asked BY <1>1, RowShape DEF RowInv
 <2>2. QED BY <1>2, <2>1 DEF Rows!Asked
<1>4. /\ row' = [i \in Ids |-> IF Rows!Own(from, u, i) /\ row[i].kind \in Rows!Moved
                               THEN [row[i] EXCEPT !.org = o] ELSE row[i]]
      /\ settings' = IF <<from, u>> \in settings
                     THEN (settings \ {<<from, u>>}) \cup {<<o, u>>} ELSE settings
      /\ Rows!Answer(h) /\ file' = file
 BY <1>2 DEF Rows!Relink
<1>5. ASSUME NEW i \in Ids
      PROVE  /\ row'[i] \in {Rows!Absent, Rows!Gone} \cup StoredRows
             /\ row'[i].kind = row[i].kind
             /\ row[i].kind \notin {"absent", "gone"} =>
                  /\ row'[i].by = row[i].by /\ row'[i].on = row[i].on
                  /\ row'[i].org = IF row[i].org = from /\ row[i].by = u /\ row[i].kind \in Rows!Moved
                                   THEN o ELSE row[i].org
             /\ row[i].kind \in {"absent", "gone"} => row'[i] = row[i]
 <2>1. CASE row[i].kind \in {"absent", "gone"}
  <3>1. row'[i] = row[i] BY <1>4, <2>1 DEF Rows!Own, Rows!In, Rows!There
  <3>2. QED BY <2>1, <3>1 DEF RowInv, Rows!TypeOK, StoredRows
 <2>2. CASE row[i].kind \notin {"absent", "gone"}
  <3>1. row[i] \in StoredRows BY <2>2, RowKind DEF RowInv
  <3>2. PICK r \in StoredRows : r = [row[i] EXCEPT !.org = o]
   BY <1>3, <3>1 DEF StoredRows
  <3>3. r.kind = row[i].kind /\ r.by = row[i].by /\ r.on = row[i].on /\ r.org = o
   BY <3>1, <3>2 DEF StoredRows
  <3>4. row'[i] = IF row[i].org = from /\ row[i].by = u /\ row[i].kind \in Rows!Moved THEN r ELSE row[i]
   BY <1>4, <2>2, <3>2 DEF Rows!Own, Rows!In, Rows!There
  <3>5. QED BY <2>2, <3>1, <3>3, <3>4
 <2>3. QED BY <2>1, <2>2
<1>6. row' \in [Ids -> {Rows!Absent, Rows!Gone} \cup StoredRows]
 <2>1. \A i \in Ids : row'[i] \in {Rows!Absent, Rows!Gone} \cup StoredRows
  BY <1>5
 <2>2. row' = [i \in Ids |-> row'[i]] BY <1>4
 <2>3. QED BY <2>1, <2>2
<1>7. Still BY <1>5 DEF Still
<1>8. rowCalm' => rowCalm OBVIOUS
<1>9. ASSUME NEW i \in Ids PROVE Linked(i)'
 <2>1. SUFFICES ASSUME row'[i].kind \in {"project", "bill"}, NEW l \in row'[i].on
                PROVE  l \in Ids /\ row'[l].kind \in Fixed /\ row'[l].by = row'[i].by
                       /\ (rowCalm' => row'[l].org = row'[i].org)
  BY DEF Linked
 <2>2. row[i].kind = row'[i].kind /\ l \in row[i].on /\ row'[i].by = row[i].by
  BY <1>5, <2>1
 <2>3. l \in Ids /\ row[l].kind \in Fixed /\ row[l].by = row[i].by /\ (rowCalm => row[l].org = row[i].org)
  BY <2>1, <2>2 DEF RowInv, Linked
 <2>4. row[l].kind \in Rows!Moved /\ row[i].kind \in Rows!Moved
  BY <2>1, <2>2, <2>3 DEF Fixed, Rows!Moved
 <2>5. row[l].kind \notin {"absent", "gone"} /\ row[i].kind \notin {"absent", "gone"}
  BY <2>4 DEF Rows!Moved
 <2>6. row'[l].kind = row[l].kind /\ row'[l].by = row[l].by
  BY <1>5, <2>3, <2>5
 <2>7. /\ row'[l].org = IF row[l].org = from /\ row[l].by = u THEN o ELSE row[l].org
       /\ row'[i].org = IF row[i].org = from /\ row[i].by = u THEN o ELSE row[i].org
  BY <1>5, <2>3, <2>4, <2>5
 <2>8. rowCalm' => row'[l].org = row'[i].org BY <1>8, <2>3, <2>7
 <2>9. QED BY <2>2, <2>3, <2>6, <2>8
<1>10. ASSUME NEW i \in Ids PROVE Attached(i)'
 <2>1. SUFFICES ASSUME row'[i].kind = "document"
                PROVE  \E e \in Ids : /\ row'[i].on = {e} /\ row'[e].kind # "absent"
                                      /\ row'[e].kind \in Fixed =>
                                            row'[e].by = row'[i].by /\ (rowCalm' => row'[e].org = row'[i].org)
  BY DEF Attached
 <2>2. row[i].kind = "document" /\ row'[i].on = row[i].on /\ row'[i].by = row[i].by
  BY <1>5, <2>1
 <2>4. PICK e \in Ids : /\ row[i].on = {e} /\ row[e].kind # "absent"
                        /\ row[e].kind \in Fixed => row[e].by = row[i].by /\ (rowCalm => row[e].org = row[i].org)
  BY <2>2 DEF RowInv, Attached
 <2>5. row'[e].kind = row[e].kind BY <1>5
 <2>6. ASSUME row[e].kind \in Fixed
       PROVE  row'[e].by = row'[i].by /\ (rowCalm' => row'[e].org = row'[i].org)
  <3>1. row[e].kind \notin {"absent", "gone"} /\ row[e].kind \in Rows!Moved /\ row[i].kind \in Rows!Moved
   BY <2>2, <2>6 DEF Fixed, Rows!Moved
  <3>2. row'[e].by = row[e].by BY <1>5, <3>1
  <3>3. /\ row'[e].org = IF row[e].org = from /\ row[e].by = u THEN o ELSE row[e].org
        /\ row'[i].org = IF row[i].org = from /\ row[i].by = u THEN o ELSE row[i].org
   BY <1>5, <2>2, <3>1
  <3>4. rowCalm' => row'[e].org = row'[i].org BY <1>8, <2>4, <2>6, <3>3
  <3>5. QED BY <2>2, <2>4, <2>6, <3>2, <3>4
 <2>7. QED BY <2>2, <2>4, <2>5, <2>6
<1>11. file \subseteq file' /\ file' \subseteq Ids
 BY <1>4 DEF RowInv, Rows!TypeOK
<1>12. settings' \subseteq Orgs \X Users
 BY <1>3, <1>4 DEF RowInv, Rows!TypeOK
<1>13. \A i \in Ids : row[i].kind = "absent" => row'[i].kind = "absent"
 BY <1>5
<1>14. QED BY <1>1, <1>4, <1>6, <1>7, <1>9, <1>10, <1>11, <1>12, <1>13, RowAnswers

LEMMA RowStep == ASSUME RowInv, Rows!Next PROVE RowInv'
<1>1. PICK h \in Handlers : Rows!Serve(h) BY DEF Rows!Next
<1>2. rowCalm' = (rowCalm /\ Rows!OneAtATime') BY DEF Rows!Next
<1>3. CASE \E u \in Users, o \in Orgs : Rows!Request(h, u, o) BY <1>2, <1>3, RowRequest
<1>4. ASSUME NEW i \in Ids, Rows!At(h, "scoped"),
             \/ Rows!Clients(h, i) \/ Rows!Projects(h, i) \/ Rows!TimeEntries(h, i)
             \/ Rows!Expenses(h, i) \/ Rows!Invoices(h, i) \/ Rows!ProjectBills(h, i)
      PROVE  RowInv'
 BY <1>2, <1>4, RowRoutes DEF Rows!At
<1>5. CASE \E i \in Ids : Rows!StartDocument(h, i) BY <1>2, <1>5, RowStartsDocument
<1>6. CASE Rows!StartRelink(h) \/ \E d \in Ids : Rows!StartPatch(h, d)
 BY <1>2, <1>6, RowStarts
<1>7. CASE Rows!CreateChecked(h) \/ Rows!PostDocument(h) BY <1>2, <1>7, RowMade
<1>8. CASE Rows!Put(h) BY <1>2, <1>8, RowPut
<1>9. CASE Rows!SetActive(h) \/ Rows!PatchDocument(h) \/ Rows!ArchiveDocument(h)
 BY <1>2, <1>9, RowMarked
<1>10. CASE Rows!Delete(h) BY <1>2, <1>10, RowDelete
<1>11. CASE Rows!Relink(h) BY <1>2, <1>11, RowRelink
<1>12. CASE \/ Rows!Settings(h) \/ Rows!Refuse(h) \/ Rows!AbortRequest(h) \/ \E i \in Ids : Rows!Upload(h, i)
 BY <1>2, <1>12, RowRests
<1>13. QED
 BY <1>1, <1>3, <1>4, <1>5, <1>6, <1>7, <1>8, <1>9, <1>10, <1>11, <1>12 DEF Rows!Serve

LEMMA RowLinked == ASSUME RowInv PROVE Rows!LinkedTogether
<1>1. ASSUME NEW i \in Ids, Rows!There(i), row[i].kind \in {"project", "bill"}, NEW l \in row[i].on
      PROVE  row[l].by = row[i].by /\ (rowCalm => row[l].org = row[i].org)
 BY <1>1 DEF RowInv, Linked
<1>2. QED BY <1>1 DEF Rows!LinkedTogether

LEMMA RowReadable == ASSUME RowInv PROVE Rows!DocumentsReadable
<1>1. SUFFICES ASSUME rowCalm, NEW d \in Ids, Rows!Is(d, "document"), row[d].active,
                      NEW e, e = Rows!EntityOf(d), row[e].kind \in {"client", "project"}, row[e].active
               PROVE  Rows!Download(row[e].org, Rows!EffectiveUser(row[e].org, row[e].by), d)
                        = (IF d \in file THEN "file" ELSE "file not found")
 BY DEF Rows!DocumentsReadable
<1>2. row[d].kind = "document" BY <1>1 DEF Rows!Is
<1>3. PICK f \in Ids : row[d].on = {f} /\ (row[f].kind \in Fixed => row[f].by = row[d].by /\ row[f].org = row[d].org)
 BY <1>1, <1>2 DEF RowInv, Attached
<1>4. e = f
 <2>1. row[d].on = {e} /\ e \in Ids BY <1>1, <1>3 DEF Rows!EntityOf
 <2>2. QED BY <1>3, <2>1
<1>5. PICK o, u : o = row[e].org /\ u = row[e].by OBVIOUS
<1>6. row[d].org = o /\ row[e].org = o /\ row[e].by = u /\ row[e].kind \in Fixed /\ e \in Ids
 BY <1>1, <1>3, <1>4, <1>5 DEF Fixed
<1>7. Rows!In(o, d) /\ Rows!In(o, e) /\ Rows!There(e)
 BY <1>1, <1>2, <1>6 DEF Rows!In, Rows!There
<1>8. row[e] \in StoredRows BY <1>6, <1>7, RowKind DEF RowInv, Rows!There
<1>9. u \in Users /\ u \in Rows!Owners(o)
 BY <1>1, <1>6, <1>7, <1>8 DEF StoredRows, Rows!Owners, Rows!Counted
<1>10. Rows!EffectiveUser(o, u) = u BY <1>9, Owner
<1>11. Rows!Accessible(o, u, e)
 BY <1>1, <1>6, <1>7 DEF Rows!Accessible, Rows!Attachable, Rows!Own
<1>12. Rows!ViewUrl(o, u, d) = "url" BY <1>1, <1>7, <1>11 DEF Rows!ViewUrl
<1>13. QED BY <1>5, <1>10, <1>12 DEF Rows!Download

-----------------------------------------------------------------------------
(* Workspaces.  There is a free slug because the organization that wants    *)
(* one has none yet; a request to save a profile knows the kind that the    *)
(* workspace has, unless requests overlapped.                               *)

Settled(q) ==
  /\ q.pc = "create" => slug[q.space] = 0
  /\ q.pc \in {"create", "own", "meta"} => q.kind \in {"solo", "team"}
  /\ q.pc \in {"join", "accept"} => q.space = Core /\ invitation[q.user].status # "none"
  /\ q.pc = "save" =>
       meta[q.space] # Space!NoMeta \/ (q.kind \in {"solo", "team"} /\ (spaceCalm => q.kind = Space!Derived(q.space)))

SpaceInv ==
  /\ Space!TypeOK
  /\ \A h \in Handlers : Settled(spaceReq[h])
  /\ \A g, h \in Handlers : g # h /\ spaceReq[g].pc = "create" /\ spaceReq[h].pc = "create" =>
       spaceReq[g].space # spaceReq[h].space
  /\ spaceCalm => Space!OneAtATime

Metas == [kind : {"solo", "team"}, default : BOOLEAN, profile : SUBSET Sections]

LEMMA SpaceCount == \A S : Space!Cardinality(S) = Cardinality(S)
BY DEF Space!Cardinality, Cardinality

LEMMA SpaceInit == ASSUME Space!Init PROVE SpaceInv
<1>1. Cardinality(Spaces) \in Nat /\ Cardinality(Spaces) >= 1
 BY TimeflowAssumption, FS_CardinalityType, FS_EmptySet DEF Space!CoreAssumption
<1>2. \A n \in {0, 1} : n \in 0..Space!Cardinality(Spaces)
 BY <1>1, SpaceCount
<1>3. \A h \in Handlers : spaceReq[h].pc = "idle"
 BY DEF Space!Init, Space!Idle
<1>4. slug \in [Spaces -> 0..Space!Cardinality(Spaces)]
 BY <1>2 DEF Space!Init
<1>5. /\ account \in [Users -> {Space!NoAccount} \cup [home : Spaces \cup {Space!Pending}]]
      /\ role \in [Spaces -> [Users -> {"none", "owner", "admin", "member"}]]
      /\ meta \in [Spaces -> {Space!NoMeta} \cup Metas]
      /\ spaceSettings \subseteq Spaces \X Users
      /\ spaceReq \in [Handlers -> Space!Calls \cup {Space!Idle}]
      /\ spaceCalm \in BOOLEAN
 BY DEF Space!Init
<1>6. invitation \in [Users -> Space!Invitations]
 <2>1. invitation \in [Users -> {[status |-> "none"]} \cup
         [to : {Core}, status : {"pending"}, role : {"admin", "member"}]]
  BY DEF Space!Init
 <2>2. [to : {Core}, status : {"pending"}, role : {"admin", "member"}] \subseteq
         [to : {Core}, status : {"pending", "accepted"}, role : {"admin", "member"}]
  OBVIOUS
 <2>3. QED BY <2>1, <2>2 DEF Space!Invitations
<1>7. Space!TypeOK BY <1>4, <1>5, <1>6 DEF Space!TypeOK, Metas
<1>8. QED BY <1>3, <1>7 DEF SpaceInv, Settled, Space!OneAtATime, Space!Free

LEMMA SpaceShape ==
  ASSUME Space!TypeOK, NEW h \in Handlers, spaceReq[h].pc # "idle"
  PROVE  spaceReq[h] \in Space!Calls
<1>1. spaceReq[h] \in Space!Calls \cup {Space!Idle} BY DEF Space!TypeOK
<1>2. Space!Idle.pc = "idle" BY DEF Space!Idle
<1>3. QED BY <1>1, <1>2

\* The meta row of a workspace, if it has one.
LEMMA SpaceMeta ==
  ASSUME SpaceInv, NEW w \in Spaces, meta[w] # Space!NoMeta
  PROVE  meta[w] \in Metas
BY DEF SpaceInv, Space!TypeOK, Metas

LEMMA MetaIsThere == ASSUME NEW m \in Metas PROVE m # Space!NoMeta
<1>1. Space!NoMeta.kind = "none" BY DEF Space!NoMeta
<1>2. m.kind # "none" BY DEF Metas
<1>3. QED BY <1>1, <1>2

\* What a step shows of the tables.
SpaceKeeps ==
  /\ account' \in [Users -> {Space!NoAccount} \cup [home : Spaces \cup {Space!Pending}]]
  /\ slug' \in [Spaces -> 0..Space!Cardinality(Spaces)]
  /\ role' \in [Spaces -> [Users -> {"none", "owner", "admin", "member"}]]
  /\ meta' \in [Spaces -> {Space!NoMeta} \cup Metas]
  /\ invitation' \in [Users -> Space!Invitations]
  /\ spaceSettings' \subseteq Spaces \X Users
  /\ \A w \in Spaces : meta[w] # Space!NoMeta => meta'[w] # Space!NoMeta
  /\ \A u \in Users : invitation[u].status # "none" => invitation'[u].status # "none"

LEMMA SpaceSame ==
  ASSUME SpaceInv
  PROVE  /\ account' = account => account' \in [Users -> {Space!NoAccount} \cup [home : Spaces \cup {Space!Pending}]]
         /\ slug' = slug => slug' \in [Spaces -> 0..Space!Cardinality(Spaces)]
         /\ role' = role => role' \in [Spaces -> [Users -> {"none", "owner", "admin", "member"}]]
         /\ meta' = meta => meta' \in [Spaces -> {Space!NoMeta} \cup Metas]
         /\ invitation' = invitation => invitation' \in [Users -> Space!Invitations]
         /\ spaceSettings' = spaceSettings => spaceSettings' \subseteq Spaces \X Users
BY DEF SpaceInv, Space!TypeOK, Metas

LEMMA SpaceSlot ==
  ASSUME Space!TypeOK, NEW h \in Handlers, NEW q \in Space!Calls \cup {Space!Idle},
         spaceReq' = [spaceReq EXCEPT ![h] = q]
  PROVE  /\ spaceReq' \in [Handlers -> Space!Calls \cup {Space!Idle}]
         /\ \A k \in Handlers : spaceReq'[k] = IF k = h THEN q ELSE spaceReq[k]
BY DEF Space!TypeOK

\* A handler's step: what it must show of the tables and of its own request.
LEMMA SpaceMoves ==
  ASSUME SpaceInv, NEW h \in Handlers, NEW q \in Space!Calls \cup {Space!Idle},
         spaceReq' = [spaceReq EXCEPT ![h] = q], spaceReq[h].pc # "idle" \/ q.pc # "idle",
         spaceCalm' = (spaceCalm /\ Space!OneAtATime'),
         SpaceKeeps, Settled(q)',
         \A k \in Handlers \ {h} : spaceReq[k].pc = "create" =>
           slug'[spaceReq[k].space] = 0 /\ (q.pc = "create" => q.space # spaceReq[k].space)
  PROVE  SpaceInv'
<1>1. /\ spaceReq' \in [Handlers -> Space!Calls \cup {Space!Idle}]
      /\ \A k \in Handlers : spaceReq'[k] = IF k = h THEN q ELSE spaceReq[k]
 BY SpaceSlot DEF SpaceInv
<1>2. ASSUME NEW k \in Handlers \ {h} PROVE Settled(spaceReq[k])'
 <2>1. PICK r : r = spaceReq[k] OBVIOUS
 <2>2. Settled(r) /\ spaceReq'[k] = r BY <1>1, <2>1 DEF SpaceInv
 <2>3. CASE r.pc = "idle" BY <2>2, <2>3 DEF Settled
 <2>4. CASE r.pc # "idle"
  <3>1. ~spaceCalm'
   <4>1. spaceCalm => spaceReq[h].pc = "idle"
    BY <2>1, <2>4 DEF SpaceInv, Space!OneAtATime, Space!Free
   <4>2. Space!OneAtATime' => q.pc = "idle"
    BY <1>1, <2>1, <2>4 DEF Space!OneAtATime, Space!Free
   <4>3. QED BY <4>1, <4>2
  <3>2. r \in Space!Calls BY <2>1, <2>4, SpaceShape DEF SpaceInv
  <3>3. r.space \in Spaces /\ r.user \in Users BY <3>2 DEF Space!Calls
  <3>4. r.pc = "create" => slug'[r.space] = 0 BY <2>1
  <3>5. r.pc \in {"join", "accept"} => r.space = Core /\ invitation'[r.user].status # "none"
   BY <2>2, <3>3 DEF SpaceKeeps, Settled
  <3>6. r.pc = "save" => meta'[r.space] # Space!NoMeta \/ r.kind \in {"solo", "team"}
   BY <2>2, <3>3 DEF SpaceKeeps, Settled
  <3>7. r.pc \in {"create", "own", "meta"} => r.kind \in {"solo", "team"}
   BY <2>2 DEF Settled
  <3>8. Settled(r)' BY <3>1, <3>4, <3>5, <3>6, <3>7 DEF Settled
  <3>9. QED BY <2>2, <3>8
 <2>5. QED BY <2>1, <2>2, <2>3, <2>4
<1>3. \A k \in Handlers : Settled(spaceReq[k])' BY <1>1, <1>2
<1>4. \A g, k \in Handlers : g # k /\ spaceReq'[g].pc = "create" /\ spaceReq'[k].pc = "create" =>
        spaceReq'[g].space # spaceReq'[k].space
 BY <1>1 DEF SpaceInv
<1>5. spaceCalm' \in BOOLEAN /\ (spaceCalm' => Space!OneAtATime') OBVIOUS
<1>6. Space!TypeOK' BY <1>1, <1>5 DEF SpaceKeeps, Space!TypeOK, Metas
<1>7. QED BY <1>3, <1>4, <1>5, <1>6 DEF SpaceInv

\* A request goes on to its next step, or is answered.
LEMMA SpaceGoes ==
  ASSUME SpaceInv, NEW h \in Handlers, spaceReq[h].pc # "idle",
         NEW pc \in Space!Pcs \ {"create", "save"}, Space!Goto(h, pc),
         spaceCalm' = (spaceCalm /\ Space!OneAtATime'), SpaceKeeps,
         \A k \in Handlers \ {h} : spaceReq[k].pc = "create" => slug'[spaceReq[k].space] = 0,
         pc \in {"own", "meta"} => spaceReq[h].kind \in {"solo", "team"},
         pc \in {"join", "accept"} => spaceReq[h].space = Core /\ invitation[spaceReq[h].user].status # "none"
  PROVE  SpaceInv'
<1>1. spaceReq[h] \in Space!Calls BY SpaceShape DEF SpaceInv
<1>2. PICK q \in Space!Calls : q = [spaceReq[h] EXCEPT !.pc = pc]
 BY <1>1 DEF Space!Calls
<1>3. q.pc = pc /\ q.user = spaceReq[h].user /\ q.space = spaceReq[h].space /\ q.kind = spaceReq[h].kind
 BY <1>1, <1>2 DEF Space!Calls
<1>4. spaceReq' = [spaceReq EXCEPT ![h] = q]
 BY <1>2 DEF SpaceInv, Space!TypeOK, Space!Goto
<1>5. q.user \in Users BY DEF Space!Calls
<1>6. pc \in {"join", "accept"} => q.space = Core /\ invitation'[q.user].status # "none"
 BY <1>3, <1>5 DEF SpaceKeeps
<1>7. Settled(q)' BY <1>3, <1>6 DEF Settled
<1>8. QED BY <1>3, <1>4, <1>7, SpaceMoves

LEMMA SpaceAnswers ==
  ASSUME SpaceInv, NEW h \in Handlers, spaceReq[h].pc # "idle", Space!Answer(h),
         spaceCalm' = (spaceCalm /\ Space!OneAtATime'), SpaceKeeps,
         \A k \in Handlers \ {h} : spaceReq[k].pc = "create" => slug'[spaceReq[k].space] = 0
  PROVE  SpaceInv'
<1>1. Space!Idle.pc = "idle" BY DEF Space!Idle
<1>2. PICK q : q = Space!Idle OBVIOUS
<1>3. spaceReq' = [spaceReq EXCEPT ![h] = q] /\ q \in Space!Calls \cup {Space!Idle} /\ q.pc = "idle"
 BY <1>1, <1>2 DEF Space!Answer
<1>4. Settled(q)' BY <1>3 DEF Settled
<1>5. QED BY <1>3, <1>4, SpaceMoves

\* The tables as they were.
LEMMA SpaceRests ==
  ASSUME SpaceInv, account' = account, slug' = slug, role' = role, meta' = meta,
         invitation' = invitation, spaceSettings' = spaceSettings
  PROVE  /\ SpaceKeeps
         /\ \A k \in Handlers : spaceReq[k].pc = "create" => slug'[spaceReq[k].space] = 0
<1>1. SpaceKeeps BY SpaceSame DEF SpaceKeeps
<1>2. QED BY <1>1 DEF SpaceInv, Settled

\* An account may be made at any time; nobody else's kind or membership is touched.
LEMMA SpaceRegister ==
  ASSUME SpaceInv, NEW u \in Users, NEW home \in Spaces \cup {Space!Pending}, Space!Register(u, home),
         spaceCalm' = (spaceCalm /\ Space!OneAtATime')
  PROVE  SpaceInv'
<1>1. /\ account' = [account EXCEPT ![u] = [home |-> home]]
      /\ slug' = slug /\ role' = role /\ meta' = meta /\ invitation' = invitation
      /\ spaceSettings' = spaceSettings /\ spaceReq' = spaceReq
 BY DEF Space!Register
<1>2. account' \in [Users -> {Space!NoAccount} \cup [home : Spaces \cup {Space!Pending}]]
 BY <1>1 DEF SpaceInv, Space!TypeOK
<1>3. spaceCalm' \in BOOLEAN /\ (spaceCalm' => Space!OneAtATime') OBVIOUS
<1>4. Space!TypeOK' BY <1>1, <1>2, <1>3 DEF SpaceInv, Space!TypeOK
<1>5. ASSUME NEW h \in Handlers PROVE Settled(spaceReq[h])'
 <2>1. Settled(spaceReq[h]) BY DEF SpaceInv
 <2>2. Space!Derived(spaceReq[h].space)' = Space!Derived(spaceReq[h].space)
  BY <1>1 DEF Space!Derived, Space!Members
 <2>3. spaceCalm' => spaceCalm OBVIOUS
 <2>4. QED BY <1>1, <2>1, <2>2, <2>3 DEF Settled
<1>6. QED BY <1>1, <1>3, <1>4, <1>5 DEF SpaceInv

\* The tables stay and a request begins.
LEMMA SpaceBegins ==
  ASSUME SpaceInv, NEW h \in Handlers, NEW q \in Space!Calls, spaceReq' = [spaceReq EXCEPT ![h] = q],
         account' = account, slug' = slug, role' = role, meta' = meta,
         invitation' = invitation, spaceSettings' = spaceSettings,
         spaceCalm' = (spaceCalm /\ Space!OneAtATime'),
         Settled(q),
         \A k \in Handlers \ {h} : spaceReq[k].pc = "create" /\ q.pc = "create" => q.space # spaceReq[k].space
  PROVE  SpaceInv'
<1>1. q.pc # "idle" BY DEF Space!Calls, Space!Pcs
<1>2. Space!Derived(q.space)' = Space!Derived(q.space)
 BY DEF Space!Derived, Space!Members
<1>3. spaceCalm' => spaceCalm OBVIOUS
<1>4. Settled(q)' BY <1>2, <1>3 DEF Settled
<1>5. QED BY <1>1, <1>4, SpaceRests, SpaceMoves

LEMMA SpaceStarts ==
  ASSUME SpaceInv, NEW h \in Handlers, NEW u \in Users,
         \/ Space!StartJoin(h, u)
         \/ \E w \in Spaces : Space!StartSetup(h, u, w) \/ Space!StartConvert(h, u, w) \/ Space!StartDefault(h, u, w),
         spaceCalm' = (spaceCalm /\ Space!OneAtATime')
  PROVE  SpaceInv'
<1>1. /\ account' = account /\ slug' = slug /\ role' = role /\ meta' = meta
      /\ invitation' = invitation /\ spaceSettings' = spaceSettings
 BY DEF Space!StartJoin, Space!StartSetup, Space!StartConvert, Space!StartDefault
<1>2. ASSUME NEW pc \in {"join", "convert", "clear"}, NEW w \in Spaces, Space!Begin(h, pc, u, w),
             pc = "join" => w = Core /\ invitation[u].status # "none"
      PROVE  SpaceInv'
 <2>1. PICK q : q = [pc |-> pc, user |-> u, space |-> w, then |-> "none", kind |-> "none", set |-> {}]
  OBVIOUS
 <2>2. q \in Space!Calls BY <2>1 DEF Space!Calls, Space!Pcs
 <2>3. spaceReq' = [spaceReq EXCEPT ![h] = q]
  BY <1>2, <2>1 DEF Space!Begin
 <2>4. q.pc = pc /\ q.space = w /\ q.user = u BY <2>1
 <2>5. Settled(q) BY <1>2, <2>4 DEF Settled
 <2>6. QED BY <1>1, <2>2, <2>3, <2>4, <2>5, SpaceBegins
<1>3. CASE Space!StartJoin(h, u)
 <2>1. invitation[u].status = "pending" /\ Space!Begin(h, "join", u, invitation[u].to)
  BY <1>3 DEF Space!StartJoin
 <2>2. invitation[u] \in Space!Invitations BY DEF SpaceInv, Space!TypeOK
 <2>3. invitation[u].to = Core BY <2>1, <2>2 DEF Space!Invitations
 <2>4. QED BY <1>2, <2>1, <2>3, TimeflowAssumption DEF Space!CoreAssumption
<1>4. ASSUME NEW w \in Spaces, Space!StartConvert(h, u, w) \/ Space!StartDefault(h, u, w) PROVE SpaceInv'
 <2>1. Space!Begin(h, "convert", u, w) \/ Space!Begin(h, "clear", u, w)
  BY <1>4 DEF Space!StartConvert, Space!StartDefault
 <2>2. QED BY <1>2, <2>1
<1>5. ASSUME NEW w \in Spaces, Space!StartSetup(h, u, w) PROVE SpaceInv'
 <2>1. slug[w] = 0 /\ \A g \in Handlers : spaceReq[g].pc = "create" => spaceReq[g].space # w
  BY <1>5 DEF Space!StartSetup, Space!At, Space!Space
 <2>2. PICK then \in {"setup", "make"}, kind \in {"solo", "team"} :
         spaceReq' = [spaceReq EXCEPT ![h] = [pc |-> "create", user |-> u, space |-> w, then |-> then,
                                              kind |-> kind, set |-> {}]]
  BY <1>5 DEF Space!StartSetup
 <2>3. PICK q : q = [pc |-> "create", user |-> u, space |-> w, then |-> then, kind |-> kind, set |-> {}]
  OBVIOUS
 <2>4. q \in Space!Calls BY <2>3 DEF Space!Calls, Space!Pcs
 <2>5. q.pc = "create" /\ q.space = w /\ q.kind = kind /\ spaceReq' = [spaceReq EXCEPT ![h] = q]
  BY <2>2, <2>3
 <2>6. Settled(q) BY <2>1, <2>5 DEF Settled
 <2>7. QED BY <1>1, <2>1, <2>4, <2>5, <2>6, SpaceBegins
<1>6. QED BY <1>3, <1>4, <1>5

LEMMA SpaceProfile ==
  ASSUME SpaceInv, NEW h \in Handlers, NEW u \in Users, NEW w \in Spaces, Space!StartProfile(h, u, w),
         spaceCalm' = (spaceCalm /\ Space!OneAtATime')
  PROVE  SpaceInv'
<1>1. /\ account' = account /\ slug' = slug /\ role' = role /\ meta' = meta
      /\ invitation' = invitation /\ spaceSettings' = spaceSettings
 BY DEF Space!StartProfile
<1>2. PICK old : old = IF meta[w] = Space!NoMeta THEN {} ELSE meta[w].profile
 OBVIOUS
<1>3. old \subseteq Sections BY <1>2, SpaceMeta DEF Metas
<1>4. PICK set \in SUBSET Sections, clear \in SUBSET Sections :
        spaceReq' = [spaceReq EXCEPT ![h] =
          [pc |-> IF meta[w] = Space!NoMeta THEN "count" ELSE "save",
           user |-> u, space |-> w, then |-> "none", kind |-> "none", set |-> (old \ clear) \cup set]]
 BY <1>2 DEF Space!StartProfile
<1>5. PICK pc \in {"count", "save"} : pc = IF meta[w] = Space!NoMeta THEN "count" ELSE "save"
 OBVIOUS
<1>6. PICK new \in SUBSET Sections : new = (old \ clear) \cup set BY <1>3
<1>7. PICK q : q = [pc |-> pc, user |-> u, space |-> w, then |-> "none", kind |-> "none", set |-> new]
 OBVIOUS
<1>8. q \in Space!Calls BY <1>7 DEF Space!Calls, Space!Pcs
<1>9. q.pc = pc /\ q.space = w /\ spaceReq' = [spaceReq EXCEPT ![h] = q]
 BY <1>4, <1>5, <1>6, <1>7
<1>10. Settled(q) BY <1>5, <1>9 DEF Settled
<1>11. q.pc # "create" BY <1>9
<1>12. QED BY <1>1, <1>8, <1>9, <1>10, <1>11, SpaceBegins

\* Some slug up to the number of organizations is free, and a least one is.
LEMMA LeastNumber ==
  ASSUME NEW S, S \subseteq Nat, S # {}
  PROVE  \E n \in S : \A m \in S : n =< m
<1>1. PICK R : R = OpToRel(<, Nat) OBVIOUS
<1>2. IsWellFoundedOn(R, Nat) BY <1>1, NatLessThanWellFounded
<1>3. PICK n \in S : \A m \in S : <<m, n>> \notin R BY <1>2, WFMin
<1>4. \A m \in S : ~(m < n) BY <1>1, <1>3 DEF OpToRel
<1>5. QED BY <1>4

LEMMA SpaceFreeSlug ==
  ASSUME SpaceInv, NEW w0 \in Spaces, slug[w0] = 0
  PROVE  Space!FreeSlug \in 1..Space!Cardinality(Spaces)
<1> DEFINE N == Cardinality(Spaces)
           Taken == {w \in Spaces : slug[w] \in 1..N}
           Open == {n \in 1..N : \A w \in Spaces : slug[w] # n}
<1>1. IsFiniteSet(Spaces) /\ N \in Nat /\ Space!Cardinality(Spaces) = N
 BY TimeflowAssumption, FS_CardinalityType, SpaceCount
<1>2. IsFiniteSet(Taken) /\ Cardinality(Taken) =< N - 1 /\ Cardinality(Taken) \in Nat
 <2>1. IsFiniteSet(Spaces \ {w0}) /\ Cardinality(Spaces \ {w0}) = N - 1
  BY <1>1, FS_RemoveElement
 <2>2. Taken \subseteq Spaces \ {w0} OBVIOUS
 <2>3. QED BY <2>1, <2>2, FS_Subset, FS_CardinalityType
<1>3. Open # {}
 <2>1. SUFFICES ASSUME Open = {} PROVE FALSE OBVIOUS
 <2>2. PICK f : f = [w \in Taken |-> slug[w]] OBVIOUS
 <2>3. f \in Surjection(Taken, 1..N)
  <3>1. \A n \in 1..N : \E w \in Taken : f[w] = n BY <2>1, <2>2
  <3>2. f \in [Taken -> 1..N] BY <2>2
  <3>3. QED BY <3>1, <3>2 DEF Surjection
 <2>4. Cardinality(1..N) =< Cardinality(Taken)
  BY <1>2, <2>3, FS_Surjection
 <2>5. Cardinality(1..N) = N BY <1>1, FS_Interval
 <2>6. QED BY <1>1, <1>2, <2>4, <2>5
<1>4. PICK n \in Open : \A m \in Open : n =< m
 <2>1. Open \subseteq Nat BY <1>1
 <2> HIDE DEF Open
 <2>2. QED BY <1>3, <2>1, LeastNumber
<1>5. n \in 1..N /\ (\A w \in Spaces : slug[w] # n) OBVIOUS
<1>6. \A k \in 1..n - 1 : \E w \in Spaces : slug[w] = k
 <2>1. ASSUME NEW k \in 1..n - 1, \A w \in Spaces : slug[w] # k PROVE FALSE
  <3>1. k \in 1..N /\ k < n BY <1>1, <1>5
  <3>2. k \in Open BY <2>1, <3>1
  <3>3. QED BY <1>1, <1>4, <3>1, <3>2
 <2>2. QED BY <2>1
<1>7. QED BY <1>1, <1>5, <1>6 DEF Space!FreeSlug

\* A write of one meta row.
LEMMA SpaceWrites ==
  ASSUME SpaceInv, NEW w \in Spaces, NEW m \in Metas, meta' = [meta EXCEPT ![w] = m],
         account' = account \/ account' \in [Users -> {Space!NoAccount} \cup [home : Spaces \cup {Space!Pending}]],
         slug' = slug, role' = role, invitation' = invitation, spaceSettings' = spaceSettings
  PROVE  /\ SpaceKeeps
         /\ \A k \in Handlers : spaceReq[k].pc = "create" => slug'[spaceReq[k].space] = 0
<1>1. meta' \in [Spaces -> {Space!NoMeta} \cup Metas] /\ meta'[w] = m /\ \A v \in Spaces \ {w} : meta'[v] = meta[v]
 BY DEF SpaceInv, Space!TypeOK, Metas
<1>2. m # Space!NoMeta BY MetaIsThere
<1>3. \A v \in Spaces : meta[v] # Space!NoMeta => meta'[v] # Space!NoMeta
 BY <1>1, <1>2
<1>4. SpaceKeeps BY <1>1, <1>3, SpaceSame DEF SpaceKeeps
<1>5. QED BY <1>4 DEF SpaceInv, Settled

LEMMA SpaceCreate ==
  ASSUME SpaceInv, NEW h \in Handlers, Space!CreateOrganization(h),
         spaceCalm' = (spaceCalm /\ Space!OneAtATime')
  PROVE  SpaceInv'
<1>1. spaceReq[h].pc = "create" /\ spaceReq[h].pc # "idle"
 BY DEF Space!CreateOrganization, Space!At
<1>2. spaceReq[h] \in Space!Calls /\ Settled(spaceReq[h])
 BY <1>1, SpaceShape DEF SpaceInv
<1>3. PICK w \in Spaces : w = spaceReq[h].space BY <1>2 DEF Space!Calls
<1>4. slug[w] = 0 /\ spaceReq[h].kind \in {"solo", "team"}
 BY <1>1, <1>2, <1>3 DEF Settled
<1>5. /\ account' = account /\ role' = role /\ meta' = meta
      /\ invitation' = invitation /\ spaceSettings' = spaceSettings
 BY DEF Space!CreateOrganization
<1>6. CASE Space!Answer(h) /\ slug' = slug BY <1>1, <1>5, <1>6, SpaceRests, SpaceAnswers
<1>7. CASE slug' = [slug EXCEPT ![w] = Space!FreeSlug] /\ Space!Goto(h, "own")
 <2>1. PICK n : n = Space!FreeSlug OBVIOUS
 <2>2. n \in 0..Space!Cardinality(Spaces)
  <3>1. n \in 1..Space!Cardinality(Spaces) BY <1>4, <2>1, SpaceFreeSlug
  <3>2. Space!Cardinality(Spaces) \in Nat
   BY TimeflowAssumption, FS_CardinalityType, SpaceCount
  <3>3. QED BY <3>1, <3>2
 <2>3. slug' \in [Spaces -> 0..Space!Cardinality(Spaces)] /\ \A v \in Spaces \ {w} : slug'[v] = slug[v]
  BY <1>7, <2>1, <2>2 DEF SpaceInv, Space!TypeOK
 <2>4. SpaceKeeps BY <1>5, <2>3, SpaceSame DEF SpaceKeeps
 <2>5. ASSUME NEW k \in Handlers \ {h}, spaceReq[k].pc = "create" PROVE slug'[spaceReq[k].space] = 0
  <3>1. spaceReq[k] \in Space!Calls BY <2>5, SpaceShape DEF SpaceInv
  <3>2. spaceReq[k].space \in Spaces \ {w}
   BY <1>1, <1>3, <2>5, <3>1 DEF SpaceInv, Space!Calls
  <3>3. slug[spaceReq[k].space] = 0 BY <2>5 DEF SpaceInv, Settled
  <3>4. QED BY <2>3, <3>2, <3>3
 <2>6. "own" \in Space!Pcs \ {"create", "save"} BY DEF Space!Pcs
 <2>7. QED BY <1>1, <1>4, <1>7, <2>4, <2>5, <2>6, SpaceGoes
<1>8. QED BY <1>3, <1>6, <1>7 DEF Space!CreateOrganization, Space!Space

\* A membership is given.
LEMMA SpaceGrants ==
  ASSUME SpaceInv, NEW w \in Spaces, NEW u \in Users, NEW r \in {"owner", "admin", "member"},
         Space!Grant(w, u, r),
         account' = account, slug' = slug, meta' = meta, invitation' = invitation, spaceSettings' = spaceSettings
  PROVE  /\ SpaceKeeps
         /\ \A k \in Handlers : spaceReq[k].pc = "create" => slug'[spaceReq[k].space] = 0
<1>1. [role[w] EXCEPT ![u] = r] \in [Users -> {"none", "owner", "admin", "member"}]
 BY DEF SpaceInv, Space!TypeOK
<1>2. role' \in [Spaces -> [Users -> {"none", "owner", "admin", "member"}]]
 BY <1>1 DEF Space!Grant, SpaceInv, Space!TypeOK
<1>3. SpaceKeeps BY <1>2, SpaceSame DEF SpaceKeeps
<1>4. QED BY <1>3 DEF SpaceInv, Settled

LEMMA SpaceOwner ==
  ASSUME SpaceInv, NEW h \in Handlers, Space!AddOwner(h), spaceCalm' = (spaceCalm /\ Space!OneAtATime')
  PROVE  SpaceInv'
<1>1. spaceReq[h].pc = "own" /\ spaceReq[h].pc # "idle"
 BY DEF Space!AddOwner, Space!At
<1>2. spaceReq[h] \in Space!Calls /\ Settled(spaceReq[h])
 BY <1>1, SpaceShape DEF SpaceInv
<1>3. PICK w \in Spaces, u \in Users : w = spaceReq[h].space /\ u = spaceReq[h].user
 BY <1>2 DEF Space!Calls
<1>4. spaceReq[h].kind \in {"solo", "team"} BY <1>1, <1>2 DEF Settled
<1>5. /\ Space!Grant(w, u, "owner") /\ Space!Goto(h, "meta")
      /\ account' = account /\ slug' = slug /\ meta' = meta /\ invitation' = invitation /\ spaceSettings' = spaceSettings
 BY <1>3 DEF Space!AddOwner, Space!Space, Space!User
<1>6. "meta" \in Space!Pcs \ {"create", "save"} BY DEF Space!Pcs
<1>7. QED BY <1>1, <1>4, <1>5, <1>6, SpaceGrants, SpaceGoes

LEMMA SpaceJoin ==
  ASSUME SpaceInv, NEW h \in Handlers, Space!Join(h), spaceCalm' = (spaceCalm /\ Space!OneAtATime')
  PROVE  SpaceInv'
<1>1. spaceReq[h].pc = "join" /\ spaceReq[h].pc # "idle"
 BY DEF Space!Join, Space!At
<1>2. spaceReq[h] \in Space!Calls /\ Settled(spaceReq[h])
 BY <1>1, SpaceShape DEF SpaceInv
<1>3. PICK w \in Spaces, u \in Users : w = spaceReq[h].space /\ u = spaceReq[h].user
 BY <1>2 DEF Space!Calls
<1>4. w = Core /\ invitation[u].status # "none" /\ invitation[u] \in Space!Invitations
 BY <1>1, <1>2, <1>3 DEF Settled, SpaceInv, Space!TypeOK
<1>5. PICK r \in {"owner", "admin", "member"} : r = invitation[u].role
 BY <1>4 DEF Space!Invitations
<1>6. /\ Space!Goto(h, "accept")
      /\ account' = account /\ slug' = slug /\ meta' = meta /\ invitation' = invitation /\ spaceSettings' = spaceSettings
      /\ Space!Grant(w, u, r) \/ role' = role
 BY <1>3, <1>5 DEF Space!Join, Space!Space, Space!User
<1>7. "accept" \in Space!Pcs \ {"create", "save"} BY DEF Space!Pcs
<1>8. SpaceKeeps /\ \A k \in Handlers : spaceReq[k].pc = "create" => slug'[spaceReq[k].space] = 0
 BY <1>6, SpaceGrants, SpaceRests
<1>9. QED BY <1>1, <1>3, <1>4, <1>6, <1>7, <1>8, SpaceGoes

LEMMA SpaceAccepts ==
  ASSUME SpaceInv, NEW h \in Handlers, Space!AcceptInvitation(h), spaceCalm' = (spaceCalm /\ Space!OneAtATime')
  PROVE  SpaceInv'
<1>1. spaceReq[h].pc = "accept" /\ spaceReq[h].pc # "idle"
 BY DEF Space!AcceptInvitation, Space!At
<1>2. spaceReq[h] \in Space!Calls /\ Settled(spaceReq[h])
 BY <1>1, SpaceShape DEF SpaceInv
<1>3. PICK u \in Users : u = spaceReq[h].user BY <1>2 DEF Space!Calls
<1>4. invitation[u].status # "none" /\ invitation[u] \in Space!Invitations
 BY <1>1, <1>2, <1>3 DEF Settled, SpaceInv, Space!TypeOK
<1>5. invitation[u] \in [to : {Core}, status : {"pending", "accepted"}, role : {"admin", "member"}]
 BY <1>4 DEF Space!Invitations
<1>6. PICK i : i = [invitation[u] EXCEPT !.status = "accepted"] OBVIOUS
<1>7. i \in Space!Invitations /\ i.status # "none"
 BY <1>5, <1>6 DEF Space!Invitations
<1>8. /\ invitation' = [invitation EXCEPT ![u] = i] /\ Space!Goto(h, "home")
      /\ account' = account /\ slug' = slug /\ role' = role /\ meta' = meta /\ spaceSettings' = spaceSettings
 BY <1>3, <1>6 DEF Space!AcceptInvitation, Space!User, SpaceInv, Space!TypeOK
<1>9. /\ invitation' \in [Users -> Space!Invitations]
      /\ \A v \in Users : invitation[v].status # "none" => invitation'[v].status # "none"
 BY <1>7, <1>8 DEF SpaceInv, Space!TypeOK
<1>10. SpaceKeeps /\ \A k \in Handlers : spaceReq[k].pc = "create" => slug'[spaceReq[k].space] = 0
 BY <1>8, <1>9, SpaceSame DEF SpaceKeeps, SpaceInv, Settled
<1>11. "home" \in Space!Pcs \ {"create", "save"} BY DEF Space!Pcs
<1>12. QED BY <1>1, <1>8, <1>10, <1>11, SpaceGoes

LEMMA SpaceWritesMeta ==
  ASSUME SpaceInv, NEW h \in Handlers, Space!WriteMeta(h), spaceCalm' = (spaceCalm /\ Space!OneAtATime')
  PROVE  SpaceInv'
<1>1. spaceReq[h].pc = "meta" /\ spaceReq[h].pc # "idle"
 BY DEF Space!WriteMeta, Space!At
<1>2. spaceReq[h] \in Space!Calls /\ Settled(spaceReq[h])
 BY <1>1, SpaceShape DEF SpaceInv
<1>3. PICK w \in Spaces, kind \in {"solo", "team"}, first \in BOOLEAN :
        w = spaceReq[h].space /\ kind = spaceReq[h].kind /\ first = (spaceReq[h].then = "setup")
 BY <1>1, <1>2 DEF Settled, Space!Calls
<1>4. PICK m : m = IF meta[w] = Space!NoMeta THEN Space!Meta(kind, first)
                   ELSE [meta[w] EXCEPT !.kind = kind, !.default = first \/ meta[w].default]
 OBVIOUS
<1>5. m \in Metas
 <2>1. CASE meta[w] = Space!NoMeta BY <1>4, <2>1 DEF Space!Meta, Metas
 <2>2. CASE meta[w] # Space!NoMeta
  <3>1. meta[w] \in Metas BY <2>2, SpaceMeta
  <3>2. PICK default \in BOOLEAN : default = (first \/ meta[w].default)
   OBVIOUS
  <3>3. m = [meta[w] EXCEPT !.kind = kind, !.default = default]
   BY <1>4, <2>2, <3>2
  <3>4. QED BY <3>1, <3>3 DEF Metas
 <2>3. QED BY <2>1, <2>2
<1>6. /\ meta' = [meta EXCEPT ![w] = m]
      /\ account' = account /\ slug' = slug /\ role' = role /\ invitation' = invitation /\ spaceSettings' = spaceSettings
      /\ Space!Goto(h, "home") \/ Space!Answer(h)
 BY <1>3, <1>4 DEF Space!WriteMeta, Space!Space
<1>7. "home" \in Space!Pcs \ {"create", "save"} BY DEF Space!Pcs
<1>8. QED BY <1>1, <1>5, <1>6, <1>7, SpaceWrites, SpaceGoes, SpaceAnswers

LEMMA SpaceHome ==
  ASSUME SpaceInv, NEW h \in Handlers, Space!SetHome(h), spaceCalm' = (spaceCalm /\ Space!OneAtATime')
  PROVE  SpaceInv'
<1>1. spaceReq[h].pc = "home" /\ spaceReq[h].pc # "idle"
 BY DEF Space!SetHome, Space!At
<1>2. spaceReq[h] \in Space!Calls BY <1>1, SpaceShape DEF SpaceInv
<1>3. PICK w \in Spaces, u \in Users : w = spaceReq[h].space /\ u = spaceReq[h].user
 BY <1>2 DEF Space!Calls
<1>4. account[u] \in {Space!NoAccount} \cup [home : Spaces \cup {Space!Pending}]
 BY DEF SpaceInv, Space!TypeOK
<1>5. PICK a : a = [account[u] EXCEPT !.home = w] OBVIOUS
<1>6. a \in [home : Spaces \cup {Space!Pending}]
 BY <1>4, <1>5 DEF Space!NoAccount
<1>7. /\ account' = [account EXCEPT ![u] = a]
      /\ slug' = slug /\ role' = role /\ meta' = meta /\ invitation' = invitation /\ spaceSettings' = spaceSettings
      /\ Space!Goto(h, "settings") \/ Space!Answer(h)
 BY <1>3, <1>5 DEF Space!SetHome, Space!Space, Space!User, SpaceInv, Space!TypeOK
<1>8. account' \in [Users -> {Space!NoAccount} \cup [home : Spaces \cup {Space!Pending}]]
 BY <1>6, <1>7 DEF SpaceInv, Space!TypeOK
<1>9. SpaceKeeps /\ \A k \in Handlers : spaceReq[k].pc = "create" => slug'[spaceReq[k].space] = 0
 BY <1>7, <1>8, SpaceSame DEF SpaceKeeps, SpaceInv, Settled
<1>10. "settings" \in Space!Pcs \ {"create", "save"} BY DEF Space!Pcs
<1>11. QED BY <1>1, <1>7, <1>9, <1>10, SpaceGoes, SpaceAnswers

LEMMA SpaceEnds ==
  ASSUME SpaceInv, NEW h \in Handlers, Space!WriteSettings(h) \/ Space!AbortRequest(h),
         spaceCalm' = (spaceCalm /\ Space!OneAtATime')
  PROVE  SpaceInv'
<1>1. spaceReq[h].pc # "idle" /\ Space!Answer(h)
 BY DEF Space!WriteSettings, Space!AbortRequest, Space!At, Space!Free
<1>2. spaceReq[h] \in Space!Calls BY <1>1, SpaceShape DEF SpaceInv
<1>3. spaceReq[h].space \in Spaces /\ spaceReq[h].user \in Users
 BY <1>2 DEF Space!Calls
<1>4. spaceSettings' \subseteq Spaces \X Users
 BY <1>3 DEF Space!WriteSettings, Space!AbortRequest, Space!Space, Space!User, SpaceInv, Space!TypeOK
<1>5. account' = account /\ slug' = slug /\ role' = role /\ meta' = meta /\ invitation' = invitation
 BY DEF Space!WriteSettings, Space!AbortRequest
<1>6. SpaceKeeps /\ \A k \in Handlers : spaceReq[k].pc = "create" => slug'[spaceReq[k].space] = 0
 BY <1>4, <1>5, SpaceSame DEF SpaceKeeps, SpaceInv, Settled
<1>7. QED BY <1>1, <1>6, SpaceAnswers

\* The members are counted, and a lone request finds as many when it saves.
LEMMA SpaceCounts ==
  ASSUME SpaceInv, NEW h \in Handlers, Space!CountMembers(h), spaceCalm' = (spaceCalm /\ Space!OneAtATime')
  PROVE  SpaceInv'
<1>1. spaceReq[h].pc = "count" /\ spaceReq[h].pc # "idle"
 BY DEF Space!CountMembers, Space!At
<1>2. spaceReq[h] \in Space!Calls BY <1>1, SpaceShape DEF SpaceInv
<1>3. PICK w \in Spaces : w = spaceReq[h].space BY <1>2 DEF Space!Calls
<1>4. PICK kind \in {"solo", "team"} : kind = Space!Derived(w)
 BY DEF Space!Derived
<1>5. PICK q : q = [spaceReq[h] EXCEPT !.pc = "save", !.kind = kind]
 OBVIOUS
<1>6. q \in Space!Calls /\ q.pc = "save" /\ q.kind = kind /\ q.space = w
 BY <1>2, <1>3, <1>5 DEF Space!Calls, Space!Pcs
<1>7. spaceReq' = [spaceReq EXCEPT ![h] = q]
 BY <1>3, <1>4, <1>5 DEF Space!CountMembers, Space!Space, SpaceInv, Space!TypeOK
<1>8. Settled(q) BY <1>4, <1>6 DEF Settled
<1>9. /\ account' = account /\ slug' = slug /\ role' = role /\ meta' = meta
      /\ invitation' = invitation /\ spaceSettings' = spaceSettings
 BY DEF Space!CountMembers
<1>10. q.pc # "create" BY <1>6
<1>11. QED BY <1>6, <1>7, <1>8, <1>9, <1>10, SpaceBegins

\* The row that a profile is saved to.
LEMMA SavedMeta ==
  ASSUME SpaceInv, NEW h \in Handlers, Space!SaveProfile(h)
  PROVE  \E w \in Spaces, m \in Metas :
           /\ w = spaceReq[h].space /\ meta' = [meta EXCEPT ![w] = m] /\ meta'[w] = m
           /\ m.kind = IF meta[w] # Space!NoMeta THEN meta[w].kind ELSE spaceReq[h].kind
<1>1. spaceReq[h].pc = "save" /\ spaceReq[h].pc # "idle"
 BY DEF Space!SaveProfile, Space!At
<1>2. spaceReq[h] \in Space!Calls /\ Settled(spaceReq[h])
 BY <1>1, SpaceShape DEF SpaceInv
<1>3. PICK w \in Spaces, set \in SUBSET Sections, kind \in {"none", "solo", "team"} :
        w = spaceReq[h].space /\ set = spaceReq[h].set /\ kind = spaceReq[h].kind
 BY <1>2 DEF Space!Calls
<1>4. meta[w] # Space!NoMeta \/ kind \in {"solo", "team"}
 BY <1>1, <1>2, <1>3 DEF Settled
<1>5. PICK m : m = IF meta[w] = Space!NoMeta THEN [Space!Meta(kind, FALSE) EXCEPT !.profile = set]
                   ELSE [meta[w] EXCEPT !.profile = set]
 OBVIOUS
<1>6. m \in Metas /\ m.kind = IF meta[w] # Space!NoMeta THEN meta[w].kind ELSE kind
 <2>1. CASE meta[w] = Space!NoMeta BY <1>4, <1>5, <2>1 DEF Space!Meta, Metas
 <2>2. CASE meta[w] # Space!NoMeta
  <3>1. meta[w] \in Metas BY <2>2, SpaceMeta
  <3>2. QED BY <1>5, <2>2, <3>1 DEF Metas
 <2>3. QED BY <2>1, <2>2
<1>7. meta' = [meta EXCEPT ![w] = m]
 BY <1>3, <1>5 DEF Space!SaveProfile, Space!Space
<1>8. meta'[w] = m BY <1>7 DEF SpaceInv, Space!TypeOK
<1>9. QED BY <1>3, <1>6, <1>7, <1>8

LEMMA SpaceSaves ==
  ASSUME SpaceInv, NEW h \in Handlers, Space!SaveProfile(h), spaceCalm' = (spaceCalm /\ Space!OneAtATime')
  PROVE  SpaceInv'
<1>1. PICK w \in Spaces, m \in Metas : meta' = [meta EXCEPT ![w] = m]
 BY SavedMeta
<1>2. /\ account' = account /\ slug' = slug /\ role' = role /\ invitation' = invitation
      /\ spaceSettings' = spaceSettings /\ Space!Answer(h) /\ spaceReq[h].pc # "idle"
 BY DEF Space!SaveProfile, Space!At
<1>3. QED BY <1>1, <1>2, SpaceWrites, SpaceAnswers

LEMMA SpaceConverts ==
  ASSUME SpaceInv, NEW h \in Handlers, Space!Convert(h) \/ Space!SetDefault(h),
         spaceCalm' = (spaceCalm /\ Space!OneAtATime')
  PROVE  SpaceInv'
<1>1. spaceReq[h].pc # "idle"
 BY DEF Space!Convert, Space!SetDefault, Space!At
<1>2. spaceReq[h] \in Space!Calls BY <1>1, SpaceShape DEF SpaceInv
<1>3. PICK w \in Spaces : w = spaceReq[h].space BY <1>2 DEF Space!Calls
<1>4. /\ account' = account /\ slug' = slug /\ role' = role /\ invitation' = invitation
      /\ spaceSettings' = spaceSettings
 BY DEF Space!Convert, Space!SetDefault
<1>5. meta[w] # Space!NoMeta => meta[w] \in Metas BY SpaceMeta
<1>6. CASE Space!Convert(h)
 <2>1. PICK m : m = IF meta[w] = Space!NoMeta THEN Space!Meta("team", FALSE) ELSE [meta[w] EXCEPT !.kind = "team"]
  OBVIOUS
 <2>2. m \in Metas BY <1>5, <2>1 DEF Space!Meta, Metas
 <2>3. meta' = [meta EXCEPT ![w] = m] /\ Space!Answer(h)
  BY <1>3, <1>6, <2>1 DEF Space!Convert, Space!Space
 <2>4. QED BY <1>1, <1>4, <2>2, <2>3, SpaceWrites, SpaceAnswers
<1>7. CASE Space!SetDefault(h)
 <2>1. PICK m : m = IF meta[w] = Space!NoMeta THEN Space!Meta("solo", TRUE) ELSE [meta[w] EXCEPT !.default = TRUE]
  OBVIOUS
 <2>2. m \in Metas BY <1>5, <2>1 DEF Space!Meta, Metas
 <2>3. meta' = [meta EXCEPT ![w] = m] /\ Space!Goto(h, "home")
  BY <1>3, <1>7, <2>1 DEF Space!SetDefault, Space!Space
 <2>4. "home" \in Space!Pcs \ {"create", "save"} BY DEF Space!Pcs
 <2>5. QED BY <1>1, <1>4, <2>2, <2>3, <2>4, SpaceWrites, SpaceGoes
<1>8. QED BY <1>6, <1>7

LEMMA SpaceClears ==
  ASSUME SpaceInv, NEW h \in Handlers, Space!ClearDefaults(h), spaceCalm' = (spaceCalm /\ Space!OneAtATime')
  PROVE  SpaceInv'
<1>1. spaceReq[h].pc # "idle" BY DEF Space!ClearDefaults, Space!At
<1>2. /\ account' = account /\ slug' = slug /\ role' = role /\ invitation' = invitation
      /\ spaceSettings' = spaceSettings /\ Space!Goto(h, "default")
 BY DEF Space!ClearDefaults
<1>3. PICK u : u = spaceReq[h].user OBVIOUS
<1>4. meta' = [w \in Spaces |-> IF meta[w] # Space!NoMeta /\ role[w][u] # "none"
                                THEN [meta[w] EXCEPT !.default = FALSE] ELSE meta[w]]
 BY <1>3 DEF Space!ClearDefaults, Space!User
<1>5. ASSUME NEW w \in Spaces
      PROVE  /\ meta'[w] \in {Space!NoMeta} \cup Metas
             /\ meta[w] # Space!NoMeta => meta'[w] # Space!NoMeta
 <2>1. CASE meta[w] = Space!NoMeta BY <1>4, <2>1
 <2>2. CASE meta[w] # Space!NoMeta
  <3>1. meta[w] \in Metas BY <2>2, SpaceMeta
  <3>2. [meta[w] EXCEPT !.default = FALSE] \in Metas BY <3>1 DEF Metas
  <3>3. meta'[w] \in Metas BY <1>4, <3>1, <3>2
  <3>4. QED BY <3>3, MetaIsThere
 <2>3. QED BY <2>1, <2>2
<1>6. meta' \in [Spaces -> {Space!NoMeta} \cup Metas]
 <2>1. \A w \in Spaces : meta'[w] \in {Space!NoMeta} \cup Metas BY <1>5
 <2>2. meta' = [w \in Spaces |-> meta'[w]] BY <1>4
 <2>3. QED BY <2>1, <2>2
<1>7. SpaceKeeps /\ \A k \in Handlers : spaceReq[k].pc = "create" => slug'[spaceReq[k].space] = 0
 BY <1>2, <1>5, <1>6, SpaceSame DEF SpaceKeeps, SpaceInv, Settled
<1>8. "default" \in Space!Pcs \ {"create", "save"} BY DEF Space!Pcs
<1>9. QED BY <1>1, <1>2, <1>7, <1>8, SpaceGoes

LEMMA SpaceStep == ASSUME SpaceInv, Space!Next PROVE SpaceInv'
<1>1. spaceCalm' = (spaceCalm /\ Space!OneAtATime') /\ Space!Serve
 BY DEF Space!Next
<1>2. CASE \E u \in Users : Space!Register(u, Space!Pending) \/ \E w \in Spaces : Space!AcceptViewer(u, w)
 BY <1>1, <1>2, SpaceRegister DEF Space!AcceptViewer
<1>3. ASSUME NEW h \in Handlers, NEW u \in Users,
             \/ Space!StartJoin(h, u)
             \/ \E w \in Spaces : \/ Space!StartSetup(h, u, w) \/ Space!StartProfile(h, u, w)
                                  \/ Space!StartConvert(h, u, w) \/ Space!StartDefault(h, u, w)
      PROVE  SpaceInv'
 BY <1>1, <1>3, SpaceStarts, SpaceProfile
<1>4. ASSUME NEW h \in Handlers,
             \/ Space!CreateOrganization(h) \/ Space!AddOwner(h) \/ Space!WriteMeta(h) \/ Space!SetHome(h)
             \/ Space!WriteSettings(h) \/ Space!Join(h) \/ Space!AcceptInvitation(h)
      PROVE  SpaceInv'
 BY <1>1, <1>4, SpaceCreate, SpaceOwner, SpaceWritesMeta, SpaceHome, SpaceEnds, SpaceJoin, SpaceAccepts
<1>5. ASSUME NEW h \in Handlers,
             \/ Space!CountMembers(h) \/ Space!SaveProfile(h) \/ Space!Convert(h) \/ Space!ClearDefaults(h)
             \/ Space!SetDefault(h) \/ Space!AbortRequest(h)
      PROVE  SpaceInv'
 BY <1>1, <1>5, SpaceCounts, SpaceSaves, SpaceConverts, SpaceClears, SpaceEnds
<1>6. QED BY <1>1, <1>2, <1>3, <1>4, <1>5 DEF Space!Serve

\* A request that stands before its write is moved by its own handler only.
LEMMA SaveMoves ==
  ASSUME SpaceInv, Space!Next, NEW h \in Handlers, spaceReq[h].pc = "save", spaceReq'[h].pc # "save"
  PROVE  Space!SaveProfile(h) \/ Space!AbortRequest(h)
<1>1. Space!Serve /\ spaceReq \in [Handlers -> Space!Calls \cup {Space!Idle}]
 BY DEF Space!Next, SpaceInv, Space!TypeOK
<1>2. spaceReq' # spaceReq OBVIOUS
<1>3. ~\E u \in Users : Space!Register(u, Space!Pending) \/ \E w \in Spaces : Space!AcceptViewer(u, w)
 BY <1>2 DEF Space!Register, Space!AcceptViewer
<1>4. ASSUME NEW k \in Handlers, NEW u \in Users,
             \/ Space!StartJoin(k, u)
             \/ \E w \in Spaces : \/ Space!StartSetup(k, u, w) \/ Space!StartProfile(k, u, w)
                                  \/ Space!StartConvert(k, u, w) \/ Space!StartDefault(k, u, w)
      PROVE  FALSE
 <2>1. Space!Free(k) /\ \A g \in Handlers \ {k} : spaceReq'[g] = spaceReq[g]
  BY <1>1, <1>4 DEF Space!StartJoin, Space!StartSetup, Space!StartProfile, Space!StartConvert,
                    Space!StartDefault, Space!Begin
 <2>2. QED BY <2>1 DEF Space!Free
<1>5. ASSUME NEW k \in Handlers,
             \/ Space!CreateOrganization(k) \/ Space!AddOwner(k) \/ Space!WriteMeta(k) \/ Space!SetHome(k)
             \/ Space!WriteSettings(k) \/ Space!Join(k) \/ Space!AcceptInvitation(k)
             \/ Space!CountMembers(k) \/ Space!Convert(k) \/ Space!ClearDefaults(k) \/ Space!SetDefault(k)
      PROVE  FALSE
 <2>1. \A g \in Handlers \ {k} : spaceReq'[g] = spaceReq[g]
  BY <1>1, <1>5 DEF Space!CreateOrganization, Space!AddOwner, Space!WriteMeta, Space!SetHome,
       Space!WriteSettings, Space!Join, Space!AcceptInvitation, Space!CountMembers, Space!Convert,
       Space!ClearDefaults, Space!SetDefault, Space!Goto, Space!Answer
 <2>2. spaceReq[k].pc # "save"
  BY <1>5 DEF Space!CreateOrganization, Space!AddOwner, Space!WriteMeta, Space!SetHome,
       Space!WriteSettings, Space!Join, Space!AcceptInvitation, Space!CountMembers, Space!Convert,
       Space!ClearDefaults, Space!SetDefault, Space!At
 <2>3. QED BY <2>1, <2>2
<1>6. ASSUME NEW k \in Handlers, Space!SaveProfile(k) \/ Space!AbortRequest(k) PROVE k = h
 <2>1. \A g \in Handlers \ {k} : spaceReq'[g] = spaceReq[g]
  BY <1>1, <1>6 DEF Space!SaveProfile, Space!AbortRequest, Space!Answer
 <2>2. QED BY <2>1
<1>7. QED BY <1>1, <1>3, <1>4, <1>5, <1>6 DEF Space!Serve

LEMMA SaveKeepsKind == ASSUME SpaceInv, Space!Next PROVE Space!ProfileKeepsKind
<1>1. SUFFICES ASSUME NEW h \in Handlers, NEW w \in Spaces, spaceReq[h].pc = "save", spaceReq[h].space = w,
                      spaceReq'[h].pc # "save", meta[w] # Space!NoMeta \/ spaceCalm
               PROVE  Space!Kind(w)' = Space!Kind(w)
 BY DEF Space!ProfileKeepsKind, Space!At, Space!Space
<1>2. CASE Space!AbortRequest(h)
 <2>1. meta' = meta /\ role' = role BY <1>2 DEF Space!AbortRequest
 <2>2. Space!Derived(w)' = Space!Derived(w)
  BY <2>1 DEF Space!Derived, Space!Members
 <2>3. QED BY <2>1, <2>2 DEF Space!Kind
<1>3. CASE Space!SaveProfile(h)
 <2>1. PICK m \in Metas : /\ meta'[w] = m
                          /\ m.kind = IF meta[w] # Space!NoMeta THEN meta[w].kind ELSE spaceReq[h].kind
  BY <1>1, <1>3, SavedMeta
 <2>2. Space!Kind(w)' = m.kind BY <2>1, MetaIsThere DEF Space!Kind
 <2>3. meta[w] = Space!NoMeta => spaceReq[h].kind = Space!Derived(w)
  BY <1>1 DEF SpaceInv, Settled
 <2>4. QED BY <2>1, <2>2, <2>3 DEF Space!Kind
<1>4. QED BY <1>1, <1>2, <1>3, SaveMoves

-----------------------------------------------------------------------------
(* Invoice numbers.  A candidate found by a scan was free then, so every    *)
(* later conflict is one more rival.                                        *)

LEMMA NumbersCount == \A S : Numbers!Cardinality(S) = Cardinality(S)
BY DEF Numbers!Cardinality, Cardinality

LEMMA BoundsHold ==
  MaxIdAttempts \in Nat \ {0} /\ MaxPosts \in Nat /\ Requested \subseteq Numbers!ReadIds
BY TimeflowAssumption DEF Numbers!BoundsAssumption

InvoiceReqs == [pc : {"idle", "create", "scan", "delete", "created", "dropped", "failed"},
                   id : Numbers!ReadIds, owner : Workspaces, attempt : 0..MaxIdAttempts]

LEMMA DigitsType == ASSUME NEW n \in Nat PROVE Numbers!Digits(n) \in Nat
<1> DEFINE powers == {k \in 1..9 : 10^k <= n}
<1>1. powers \subseteq 1..9 BY Zenon
<1>2. Numbers!Digits(n) = 1 + Cardinality(powers)
 BY NumbersCount, Zenon DEF Numbers!Digits
<1> HIDE DEF powers
<1>3. IsFiniteSet(1..9)
 <2>1. 1 \in Int /\ 9 \in Int OBVIOUS
 <2>2. QED BY <2>1, FS_Interval, Zenon
<1>4. Cardinality(powers) \in Nat
 BY <1>1, <1>3, FS_Subset, FS_CardinalityType
<1>5. QED BY <1>2, <1>4

\* A renumbered id stays in its series and keeps its digits or gains some.
LEMMA RenumberType ==
  ASSUME NEW id \in Numbers!ReadIds, NEW n \in Nat
  PROVE  /\ Numbers!Renumber(id, n) \in Numbers!ReadIds
         /\ Numbers!Renumber(id, n).series = id.series
         /\ Numbers!Renumber(id, n).number = n
         /\ Numbers!Numbered(id) => Numbers!Numbered(Numbers!Renumber(id, n))
<1> DEFINE w == IF Numbers!Digits(n) > id.width THEN Numbers!Digits(n) ELSE id.width
<1>1. w \in Nat /\ (id.width > 0 => w > 0)
 BY DigitsType DEF Numbers!ReadIds
<1>2. Numbers!Renumber(id, n) = [id EXCEPT !.number = n, !.width = w]
 BY DEF Numbers!Renumber
<1> HIDE DEF w
<1>3. QED BY <1>1, <1>2 DEF Numbers!ReadIds, Numbers!Numbered

\* Only an answer changes when a handler answers.
LEMMA PostAnswers ==
  ASSUME invoiceReq \in [Handlers -> InvoiceReqs], NEW h \in Handlers,
         NEW pc \in {"idle", "create", "scan", "delete", "created", "dropped", "failed"},
         Numbers!Answer(h, pc)
  PROVE  /\ invoiceReq' \in [Handlers -> InvoiceReqs]
         /\ invoiceReq'[h].pc = pc /\ invoiceReq'[h].id = invoiceReq[h].id
         /\ invoiceReq'[h].attempt = invoiceReq[h].attempt
         /\ \A k \in Handlers : k # h => invoiceReq'[k] = invoiceReq[k]
BY DEF Numbers!Answer, InvoiceReqs

\* What a scan leaves: one attempt more, and a candidate above every number of
\* its series, hence free.
LEMMA ScanShape ==
  ASSUME Numbers!TypeOK, NEW h \in Handlers, Numbers!FindNextFree(h), Numbers!Numbered(invoiceReq[h].id),
         invoiceReq[h].attempt < MaxIdAttempts
  PROVE  /\ invoiceReq' \in [Handlers -> InvoiceReqs]
         /\ invoiceReq'[h].pc = "create" /\ invoiceReq'[h].attempt = invoiceReq[h].attempt + 1
         /\ invoiceReq'[h].id.series = invoiceReq[h].id.series
         /\ Numbers!Numbered(invoiceReq'[h].id)
         /\ invoiceReq'[h].id \notin Numbers!Taken
         /\ \A inv \in invoices : inv.id.series = invoiceReq[h].id.series /\ Numbers!Numbered(inv.id)
              => inv.id.number < invoiceReq'[h].id.number
         /\ \A k \in Handlers : k # h => invoiceReq'[k] = invoiceReq[k]
<1>t. /\ invoiceReq \in [Handlers -> InvoiceReqs] /\ invoiceReq[h].id \in Numbers!ReadIds
      /\ invoiceReq[h].attempt \in Nat /\ invoices \subseteq [id : Numbers!ReadIds, owner : Workspaces]
      /\ MaxIdAttempts \in Nat
 BY BoundsHold DEF Numbers!TypeOK, InvoiceReqs
<1>1. PICK highest \in Numbers!SeriesNumbers(invoiceReq[h].id) :
        /\ \A n \in Numbers!SeriesNumbers(invoiceReq[h].id) : n <= highest
        /\ invoiceReq' = [invoiceReq EXCEPT
             ![h].pc = "create", ![h].attempt = @ + 1,
             ![h].id = Numbers!Renumber(invoiceReq[h].id, highest + 1)]
 BY DEF Numbers!FindNextFree
<1>2. Numbers!SeriesNumbers(invoiceReq[h].id) \subseteq Nat
 BY <1>t DEF Numbers!SeriesNumbers, Numbers!Taken, Numbers!ReadIds
<1>3. highest + 1 \in Nat BY <1>2
<1> DEFINE new == Numbers!Renumber(invoiceReq[h].id, highest + 1)
<1>4. /\ new \in Numbers!ReadIds /\ new.series = invoiceReq[h].id.series /\ new.number = highest + 1
      /\ Numbers!Numbered(new)
 BY <1>3, <1>t, RenumberType
<1> HIDE DEF new
<1>5. /\ invoiceReq' \in [Handlers -> InvoiceReqs]
      /\ invoiceReq'[h].pc = "create" /\ invoiceReq'[h].attempt = invoiceReq[h].attempt + 1
      /\ invoiceReq'[h].id = new
      /\ \A k \in Handlers : k # h => invoiceReq'[k] = invoiceReq[k]
 <2>1. invoiceReq' = [invoiceReq EXCEPT ![h].pc = "create", ![h].attempt = @ + 1, ![h].id = new]
  BY <1>1 DEF new
 <2>2. invoiceReq[h].attempt + 1 \in 0..MaxIdAttempts BY <1>t
 <2>3. QED BY <2>1, <2>2, <1>4, <1>t DEF InvoiceReqs
<1>6. \A inv \in invoices : inv.id.series = invoiceReq[h].id.series /\ Numbers!Numbered(inv.id)
        => inv.id.number < new.number
 <2> SUFFICES ASSUME NEW inv \in invoices, inv.id.series = invoiceReq[h].id.series,
                     Numbers!Numbered(inv.id)
              PROVE  inv.id.number < new.number
  OBVIOUS
 <2>1. inv.id.number \in Numbers!SeriesNumbers(invoiceReq[h].id)
  BY DEF Numbers!SeriesNumbers, Numbers!Taken
 <2>2. inv.id.number <= highest /\ inv.id.number \in Nat /\ highest \in Nat
  BY <2>1, <1>1, <1>2
 <2>3. QED BY <2>2, <1>4
<1>7. new \notin Numbers!Taken
 BY <1>4, <1>6, <1>t DEF Numbers!Taken, Numbers!ReadIds
<1>8. QED BY <1>4, <1>5, <1>6, <1>7

\* With its own handler's types and bound given, the invariant follows for the
\* handlers a step leaves alone, unless it creates an invoice.
LEMMA PostsKeep ==
  ASSUME Numbers!ContentionInv, NEW k \in Handlers, invoiceReq'[k] = invoiceReq[k], rivals'[k] = rivals[k],
         Numbers!Taken' \subseteq Numbers!Taken
  PROVE  Numbers!Contention(k)'
BY DEF Numbers!ContentionInv, Numbers!Contention

LEMMA InvoicesStep ==
  ASSUME Numbers!ContentionInv, [Numbers!Next]_invoiceVars
  PROVE  Numbers!ContentionInv'
<1>t. /\ Numbers!TypeOK /\ invoiceReq \in [Handlers -> InvoiceReqs] /\ rivals \in [Handlers -> Nat]
      /\ \A h \in Handlers : Numbers!Contention(h)
      /\ invoices \subseteq [id : Numbers!ReadIds, owner : Workspaces] /\ posts \in 0..MaxPosts
 BY DEF Numbers!ContentionInv, Numbers!TypeOK, InvoiceReqs
<1>n. MaxIdAttempts \in Nat /\ MaxIdAttempts >= 1 /\ MaxPosts \in Nat
 BY BoundsHold
<1>1. ASSUME NEW h \in Handlers, NEW w \in Workspaces, NEW id \in Requested, Numbers!StartPost(h, w, id)
      PROVE  Numbers!ContentionInv'
 <2>1. id \in Numbers!ReadIds BY BoundsHold DEF Numbers!ReadIds
 <2>2. /\ invoiceReq'[h] = [pc |-> "create", id |-> id, owner |-> w, attempt |-> 1]
       /\ rivals'[h] = 0 /\ UNCHANGED invoices
       /\ \A k \in Handlers : k # h => invoiceReq'[k] = invoiceReq[k] /\ rivals'[k] = rivals[k]
  BY <1>1, <1>t DEF Numbers!StartPost
 <2>3. Numbers!TypeOK'
  <3>1. [pc |-> "create", id |-> id, owner |-> w, attempt |-> 1] \in InvoiceReqs
   BY <2>1, <1>n DEF InvoiceReqs
  <3>2. invoiceReq' \in [Handlers -> InvoiceReqs]
   BY <1>1, <3>1, <1>t DEF Numbers!StartPost
  <3>3. rivals' \in [Handlers -> Nat] /\ posts' \in 0..MaxPosts /\ UNCHANGED invoices
   BY <1>1, <1>t, <1>n DEF Numbers!StartPost
  <3>4. QED BY <3>2, <3>3, <1>t DEF Numbers!TypeOK, InvoiceReqs
 <2>4. Numbers!Contention(h)' BY <2>2 DEF Numbers!Contention
 <2>5. \A k \in Handlers : k # h => Numbers!Contention(k)'
  BY <2>2, PostsKeep DEF Numbers!Taken
 <2>6. QED BY <2>3, <2>4, <2>5 DEF Numbers!ContentionInv
<1>2. ASSUME NEW h \in Handlers, Numbers!CreateInvoice(h)
      PROVE  Numbers!ContentionInv'
 <2>1. /\ invoiceReq' \in [Handlers -> InvoiceReqs]
       /\ invoiceReq'[h].pc = "created"
       /\ \A k \in Handlers : k # h => invoiceReq'[k] = invoiceReq[k]
  BY <1>2, <1>t, PostAnswers DEF Numbers!CreateInvoice
 <2>2. /\ invoiceReq[h].id \notin Numbers!Taken /\ UNCHANGED posts
       /\ invoices' = invoices \cup {[id |-> invoiceReq[h].id, owner |-> invoiceReq[h].owner]}
       /\ rivals' = [k \in Handlers |->
            IF k # h /\ Numbers!Posting(k) /\ invoiceReq[k].id.series = invoiceReq[h].id.series
            THEN rivals[k] + 1 ELSE rivals[k]]
  BY <1>2 DEF Numbers!CreateInvoice
 <2>3. Numbers!TypeOK'
  <3>1. [id |-> invoiceReq[h].id, owner |-> invoiceReq[h].owner] \in [id : Numbers!ReadIds, owner : Workspaces]
   BY <1>t DEF InvoiceReqs
  <3>2. rivals' \in [Handlers -> Nat] BY <2>2, <1>t
  <3>3. QED BY <2>1, <2>2, <3>1, <3>2, <1>t DEF Numbers!TypeOK, InvoiceReqs
 <2>4. Numbers!Taken' = Numbers!Taken \cup {invoiceReq[h].id}
  <3>1. PICK new : new = [id |-> invoiceReq[h].id, owner |-> invoiceReq[h].owner]
   OBVIOUS
  <3>2. new.id = invoiceReq[h].id /\ invoices' = invoices \cup {new}
   BY <2>2, <3>1
  <3>3. QED BY <3>2, Zenon DEF Numbers!Taken
 <2>5. Numbers!Contention(h)' BY <2>1 DEF Numbers!Contention
 <2>6. ASSUME NEW k \in Handlers, k # h PROVE Numbers!Contention(k)'
  <3>1. invoiceReq'[k] = invoiceReq[k] /\ rivals[k] \in Nat /\ invoiceReq[k].attempt \in Nat
   BY <2>1, <2>6, <1>t DEF InvoiceReqs
  <3>2. rivals'[k] \in Nat /\ rivals'[k] >= rivals[k] BY <2>2, <3>1
  <3>3. CASE invoiceReq[k].id = invoiceReq[h].id /\ Numbers!Posting(k)
   <4>1. rivals'[k] = rivals[k] + 1 BY <2>2, <2>6, <3>3
   <4>2. QED BY <4>1, <3>1, <3>3, <1>t, <1>n DEF Numbers!Contention, Numbers!Posting
  <3>4. CASE invoiceReq[k].id # invoiceReq[h].id /\ Numbers!Posting(k)
   <4>1. invoiceReq[k].id \in Numbers!Taken' => invoiceReq[k].id \in Numbers!Taken
    BY <2>4, <3>4
   <4>2. QED
    BY <4>1, <3>1, <3>2, <3>4, <1>t, <1>n DEF Numbers!Contention, Numbers!Posting
  <3>5. CASE ~Numbers!Posting(k)
   BY <3>1, <3>2, <3>5, <1>t, <1>n DEF Numbers!Contention, Numbers!Posting
  <3>6. QED BY <3>3, <3>4, <3>5
 <2>7. QED BY <2>3, <2>5, <2>6 DEF Numbers!ContentionInv
<1>3. ASSUME NEW h \in Handlers, Numbers!IdTaken(h)
      PROVE  Numbers!ContentionInv'
 <2>1. PICK pc \in {"dropped", "scan"} :
         /\ pc = (IF invoiceReq[h].attempt >= MaxIdAttempts THEN "dropped" ELSE "scan")
         /\ Numbers!Answer(h, pc)
  BY <1>3 DEF Numbers!IdTaken
 <2>2. /\ invoiceReq' \in [Handlers -> InvoiceReqs]
       /\ invoiceReq'[h].pc = pc /\ invoiceReq'[h].id = invoiceReq[h].id
       /\ invoiceReq'[h].attempt = invoiceReq[h].attempt
       /\ \A k \in Handlers : k # h => invoiceReq'[k] = invoiceReq[k]
  BY <2>1, <1>t, PostAnswers
 <2>3. UNCHANGED <<invoices, rivals, posts>> /\ invoiceReq[h].pc = "create"
       /\ invoiceReq[h].id \in Numbers!Taken
  BY <1>3 DEF Numbers!IdTaken
 <2>4. invoiceReq[h].attempt \in Nat /\ rivals[h] \in Nat
  BY <1>t, <1>n DEF InvoiceReqs
 <2>5. Numbers!Contention(h)'
  BY <2>1, <2>2, <2>3, <2>4, <1>t, <1>n DEF Numbers!Contention
 <2>6. \A k \in Handlers : k # h => Numbers!Contention(k)'
  BY <2>2, <2>3, PostsKeep DEF Numbers!Taken
 <2>7. Numbers!TypeOK' BY <2>2, <2>3, <1>t DEF Numbers!TypeOK, InvoiceReqs
 <2>8. QED BY <2>5, <2>6, <2>7 DEF Numbers!ContentionInv
<1>4. ASSUME NEW h \in Handlers, Numbers!FindNextFree(h)
      PROVE  Numbers!ContentionInv'
 <2>1. UNCHANGED <<invoices, rivals, posts>> /\ invoiceReq[h].pc = "scan"
  BY <1>4 DEF Numbers!FindNextFree
 <2>2. /\ invoiceReq[h].attempt \in Nat /\ rivals[h] \in Nat
       /\ invoiceReq[h].attempt < MaxIdAttempts
  BY <2>1, <1>t, <1>n DEF InvoiceReqs, Numbers!Contention
 <2>3. CASE Numbers!Numbered(invoiceReq[h].id)
  <3>1. /\ invoiceReq' \in [Handlers -> InvoiceReqs]
        /\ invoiceReq'[h].pc = "create" /\ invoiceReq'[h].attempt = invoiceReq[h].attempt + 1
        /\ invoiceReq'[h].id \notin Numbers!Taken
        /\ \A k \in Handlers : k # h => invoiceReq'[k] = invoiceReq[k]
   BY <1>4, <1>t, <2>2, <2>3, ScanShape
  <3>2. Numbers!Contention(h)'
   BY <2>1, <2>2, <2>3, <3>1, <1>t, <1>n DEF Numbers!Contention, Numbers!Taken
  <3>3. \A k \in Handlers : k # h => Numbers!Contention(k)'
   BY <2>1, <3>1, PostsKeep DEF Numbers!Taken
  <3>4. Numbers!TypeOK'
   BY <2>1, <3>1, <1>t DEF Numbers!TypeOK, InvoiceReqs
  <3>5. QED BY <3>2, <3>3, <3>4 DEF Numbers!ContentionInv
 <2>4. CASE ~Numbers!Numbered(invoiceReq[h].id)
  <3>1. Numbers!Answer(h, "dropped")
   BY <1>4, <2>4 DEF Numbers!FindNextFree
  <3>2. /\ invoiceReq' \in [Handlers -> InvoiceReqs]
        /\ invoiceReq'[h].pc = "dropped" /\ invoiceReq'[h].id = invoiceReq[h].id
        /\ \A k \in Handlers : k # h => invoiceReq'[k] = invoiceReq[k]
   BY <3>1, <1>t, PostAnswers
  <3>3. Numbers!Contention(h)'
   BY <2>4, <3>2 DEF Numbers!Contention, Numbers!Numbered
  <3>4. \A k \in Handlers : k # h => Numbers!Contention(k)'
   BY <2>1, <3>2, PostsKeep DEF Numbers!Taken
  <3>5. Numbers!TypeOK'
   BY <2>1, <3>2, <1>t DEF Numbers!TypeOK, InvoiceReqs
  <3>6. QED BY <3>3, <3>4, <3>5 DEF Numbers!ContentionInv
 <2>5. QED BY <2>3, <2>4
<1>5. ASSUME NEW h \in Handlers, Numbers!DatabaseError(h) \/ Numbers!DeleteInvoice(h)
      PROVE  Numbers!ContentionInv'
 <2>1. PICK pc \in {"failed", "idle"} : Numbers!Answer(h, pc)
  BY <1>5 DEF Numbers!DatabaseError, Numbers!DeleteInvoice
 <2>2. /\ invoiceReq' \in [Handlers -> InvoiceReqs] /\ invoiceReq'[h].pc = pc
       /\ \A k \in Handlers : k # h => invoiceReq'[k] = invoiceReq[k]
  BY <2>1, <1>t, PostAnswers
 <2>3. UNCHANGED <<rivals, posts>> /\ invoices' \subseteq invoices
  BY <1>5 DEF Numbers!DatabaseError, Numbers!DeleteInvoice
 <2>4. Numbers!Contention(h)' BY <2>2 DEF Numbers!Contention
 <2>5. \A k \in Handlers : k # h => Numbers!Contention(k)'
  BY <2>2, <2>3, PostsKeep DEF Numbers!Taken
 <2>6. Numbers!TypeOK' BY <2>2, <2>3, <1>t DEF Numbers!TypeOK, InvoiceReqs
 <2>7. QED BY <2>4, <2>5, <2>6 DEF Numbers!ContentionInv
<1>6. ASSUME NEW h \in Handlers, NEW inv \in invoices, Numbers!StartDelete(h, inv)
      PROVE  Numbers!ContentionInv'
 <2>1. [pc |-> "delete", id |-> inv.id, owner |-> inv.owner, attempt |-> 0] \in InvoiceReqs
  BY <1>t, <1>n DEF InvoiceReqs
 <2>2. /\ invoiceReq' \in [Handlers -> InvoiceReqs] /\ invoiceReq'[h].pc = "delete"
       /\ rivals' \in [Handlers -> Nat] /\ UNCHANGED <<invoices, posts>>
       /\ \A k \in Handlers : k # h => invoiceReq'[k] = invoiceReq[k] /\ rivals'[k] = rivals[k]
  BY <1>6, <2>1, <1>t DEF Numbers!StartDelete
 <2>3. Numbers!Contention(h)' BY <2>2 DEF Numbers!Contention
 <2>4. \A k \in Handlers : k # h => Numbers!Contention(k)'
  BY <2>2, PostsKeep DEF Numbers!Taken
 <2>5. Numbers!TypeOK' BY <2>2, <1>t DEF Numbers!TypeOK, InvoiceReqs
 <2>6. QED BY <2>3, <2>4, <2>5 DEF Numbers!ContentionInv
<1>7. CASE UNCHANGED invoiceVars
 BY <1>7, <1>t DEF invoiceVars, Numbers!ContentionInv, Numbers!Contention, Numbers!TypeOK, Numbers!Taken
<1>8. QED
 BY <1>1, <1>2, <1>3, <1>4, <1>5, <1>6, <1>7 DEF Numbers!Next, Numbers!HandlerStep


LEMMA InvoicesInit == ASSUME Numbers!Init PROVE Numbers!ContentionInv
<1>1. PICK id \in Requested, w \in Workspaces :
        invoiceReq = [h \in Handlers |-> [pc |-> "idle", id |-> id, owner |-> w, attempt |-> 0]]
 BY DEF Numbers!Init
<1>2. id \in Numbers!ReadIds BY BoundsHold
<1>3. 0 \in 0..MaxIdAttempts /\ posts \in 0..MaxPosts
 BY BoundsHold DEF Numbers!Init
<1>4. Numbers!TypeOK BY <1>1, <1>2, <1>3 DEF Numbers!Init, Numbers!TypeOK
<1>5. \A h \in Handlers : Numbers!Contention(h)
 BY <1>1 DEF Numbers!Contention
<1>6. QED BY <1>4, <1>5 DEF Numbers!ContentionInv

LEMMA InvoicesStay == ASSUME Numbers!ContentionInv, UNCHANGED invoiceVars PROVE Numbers!ContentionInv'
BY InvoicesStep

LEMMA DropsHaveRivals == ASSUME Numbers!ContentionInv PROVE Numbers!DropNeedsRivals
<1> SUFFICES ASSUME NEW h \in Handlers,
                    invoiceReq[h].pc = "dropped", Numbers!Numbered(invoiceReq[h].id)
             PROVE  rivals[h] >= MaxIdAttempts - 1
 BY DEF Numbers!DropNeedsRivals
<1>1. rivals[h] + 1 >= MaxIdAttempts /\ rivals[h] \in Nat
 BY DEF Numbers!ContentionInv, Numbers!Contention, Numbers!TypeOK
<1>2. QED BY <1>1, BoundsHold

LEMMA ScanFindsAbove ==
  ASSUME Numbers!ContentionInv, [Numbers!Next]_invoiceVars, NEW h \in Handlers,
         invoiceReq[h].pc = "scan", invoiceReq'[h].pc = "create"
  PROVE  \A inv \in invoices : inv.id.series = invoiceReq[h].id.series /\ Numbers!Numbered(inv.id)
           => inv.id.number < invoiceReq'[h].id.number
<1>t. Numbers!TypeOK /\ invoiceReq \in [Handlers -> InvoiceReqs]
 BY DEF Numbers!ContentionInv, Numbers!TypeOK, InvoiceReqs
<1>1. Numbers!FindNextFree(h)
 <2>1. PICK k \in Handlers :
         \/ Numbers!HandlerStep(k) \/ Numbers!DatabaseError(k)
         \/ \E w \in Workspaces, id \in Requested : Numbers!StartPost(k, w, id)
         \/ \E inv \in invoices : Numbers!StartDelete(k, inv)
  BY DEF Numbers!Next, invoiceVars
 <2>2. \A x \in Handlers : x # k => invoiceReq'[x] = invoiceReq[x]
  BY <2>1, <1>t DEF Numbers!HandlerStep, Numbers!DatabaseError, Numbers!StartPost, Numbers!StartDelete,
                    Numbers!CreateInvoice, Numbers!IdTaken, Numbers!FindNextFree, Numbers!DeleteInvoice, Numbers!Answer
 <2>3. k = h BY <2>2
 <2>4. QED
  BY <1>t, <2>1, <2>3 DEF Numbers!HandlerStep, Numbers!DatabaseError, Numbers!StartPost,
     Numbers!StartDelete, Numbers!CreateInvoice, Numbers!IdTaken, Numbers!DeleteInvoice, Numbers!Answer, Numbers!Free, InvoiceReqs
<1>2. Numbers!Numbered(invoiceReq[h].id)
 BY <1>1, <1>t, PostAnswers DEF Numbers!FindNextFree
<1>3. invoiceReq[h].attempt < MaxIdAttempts
 BY DEF Numbers!ContentionInv, Numbers!Contention
<1>4. QED BY <1>1, <1>2, <1>3, <1>t, ScanShape

-----------------------------------------------------------------------------
(* The whole: a step of one component is a stutter of the others.           *)

TimeflowInv == OffInv /\ RowInv /\ SpaceInv /\ Numbers!ContentionInv

LEMMA OffStays == ASSUME OffInv, UNCHANGED offVars PROVE OffInv'
<1>1. request' = request /\ entry' = entry /\ offReq' = offReq /\ offCalm' = offCalm
 BY DEF offVars
<1>2. Off!TypeOK' /\ (offCalm' => Off!OneAtATime')
 BY <1>1 DEF OffInv, Off!TypeOK, Off!OneAtATime, Off!Free
<1>3. \A r : Off!MadeFor(r)' = Off!MadeFor(r) /\ (Off!There(r)' <=> Off!There(r))
 BY <1>1 DEF Off!MadeFor, Off!There
<1>4. ASSUME NEW h \in Handlers PROVE Approves(h)'
 BY <1>1 DEF OffInv, Approves, Off!MadeFor, Off!There
<1>5. ASSUME NEW r \in Requests, offCalm' PROVE Booked(r)'
 <2>1. (Owing(r)' <=> Owing(r)) /\ (Marking(r)' <=> Marking(r))
  BY <1>1 DEF Owing, Marking
 <2>2. Booked(r) BY <1>1, <1>5 DEF OffInv
 <2>3. QED BY <1>1, <1>3, <2>1, <2>2 DEF Booked
<1>6. \A r \in Requests : IsFiniteSet(Off!MadeFor(r)') /\ (Off!There(r)' \/ Off!MadeFor(r)' = {})
 BY <1>3 DEF OffInv
<1>7. Off!ApprovedHasLeave' BY <1>1, OffSame
<1>8. QED BY <1>2, <1>4, <1>5, <1>6, <1>7 DEF OffInv

LEMMA RowsStay == ASSUME RowInv, UNCHANGED rowVars PROVE RowInv'
BY DEF RowInv, rowVars, Asks, Linked, Attached, Rows!TypeOK, Rows!OneAtATime, Rows!Free

LEMMA SpaceStays == ASSUME SpaceInv, UNCHANGED spaceVars PROVE SpaceInv'
<1>1. Space!TypeOK' BY DEF SpaceInv, spaceVars, Space!TypeOK
<1>2. ASSUME NEW h \in Handlers PROVE Settled(spaceReq[h])'
 BY DEF SpaceInv, spaceVars, Settled, Space!Derived, Space!Members
<1>3. QED BY <1>1, <1>2 DEF SpaceInv, spaceVars, Space!OneAtATime, Space!Free

LEMMA TimeflowInit == ASSUME Init PROVE TimeflowInv
BY OffInit, RowInit, SpaceInit, InvoicesInit DEF Init, TimeflowInv

LEMMA TimeflowStep == ASSUME TimeflowInv, [Next]_vars PROVE TimeflowInv'
<1>1. CASE Off!Next /\ UNCHANGED <<rowVars, spaceVars, invoiceVars>>
 BY <1>1, OffStep, RowsStay, SpaceStays, InvoicesStay DEF TimeflowInv
<1>2. CASE Rows!Next /\ UNCHANGED <<offVars, spaceVars, invoiceVars>>
 BY <1>2, OffStays, RowStep, SpaceStays, InvoicesStay DEF TimeflowInv
<1>3. CASE Space!Next /\ UNCHANGED <<offVars, rowVars, invoiceVars>>
 BY <1>3, OffStays, RowsStay, SpaceStep, InvoicesStay DEF TimeflowInv
<1>4. CASE Numbers!Next /\ UNCHANGED <<offVars, rowVars, spaceVars>>
 BY <1>4, OffStays, RowsStay, SpaceStays, InvoicesStep DEF TimeflowInv
<1>5. CASE UNCHANGED vars
 BY <1>5, OffStays, RowsStay, SpaceStays, InvoicesStay DEF TimeflowInv, vars
<1>6. QED BY <1>1, <1>2, <1>3, <1>4, <1>5 DEF Next

LEMMA TimeflowHolds == Spec => []TimeflowInv
<1>1. Init => TimeflowInv BY TimeflowInit
<1>2. TimeflowInv /\ [Next]_vars => TimeflowInv' BY TimeflowStep
<1>3. QED BY <1>1, <1>2, PTL DEF Spec

\* The tables and requests of time off, records, workspaces and invoices keep their
\* shape: rows, roles, meta rows and slugs are among those that the routes can write.
THEOREM TypesOfTimeflow == Spec => []Types
<1>1. TimeflowInv => Types
 BY DEF TimeflowInv, OffInv, RowInv, SpaceInv, Numbers!ContentionInv, Types
<1>2. QED BY <1>1, TimeflowHolds, PTL

\* Whatever approvals of time off overlap and wherever they stop, a request that a
\* reviewer approved lists a leave entry made for it; while none overlapped, leave is
\* booked at most once more than the request was turned.
THEOREM LeaveFollowsApprovals == Spec => []LeaveFollowsApproval
<1>1. TimeflowInv => LeaveFollowsApproval
 BY OffLeave DEF TimeflowInv, OffInv, LeaveFollowsApproval
<1>2. QED BY <1>1, TimeflowHolds, PTL

\* Projects and bills stay with the owner of the records they are for, through every
\* relink; while no requests overlapped they share an organization with them, and the
\* owner of a client or project in use is shown its documents.
THEOREM RecordsStayTogether == Spec => []RecordsTogether
<1>1. TimeflowInv => RecordsTogether
 BY RowLinked, RowReadable DEF TimeflowInv, RecordsTogether
<1>2. QED BY <1>1, TimeflowHolds, PTL

\* Saving a business profile leaves the kind of the workspace as it was: as its meta
\* row says, or, while no requests overlapped, as the number of its members says.
THEOREM ProfilesKeepKinds == Spec => ProfileKeepsKind
<1>1. ASSUME TimeflowInv, [Next]_vars PROVE [Space!ProfileKeepsKind]_spaceVars
 <2>1. CASE Space!Next BY <1>1, <2>1, SaveKeepsKind DEF TimeflowInv
 <2>2. CASE UNCHANGED spaceVars BY <2>2
 <2>3. QED BY <1>1, <2>1, <2>2 DEF Next, vars
<1>2. QED BY <1>1, TimeflowHolds, PTL DEF Spec, ProfileKeepsKind

\* POST /invoices turns a numbered request down only after MaxIdAttempts - 1
\* invoices were created in its series while it ran.
THEOREM DroppedOnlyUnderContention == Spec => []DropNeedsRivals
<1>1. TimeflowInv => DropNeedsRivals
 BY DropsHaveRivals DEF TimeflowInv, DropNeedsRivals
<1>2. QED BY <1>1, TimeflowHolds, PTL

\* The number a scan finds is above every number its series has.
THEOREM ScansFindFreeNumbers == Spec => RenumberedAbove
<1>1. ASSUME TimeflowInv, [Next]_vars PROVE [Numbers!RenumberedAbove]_invoiceVars
 <2>1. CASE [Numbers!Next]_invoiceVars
  BY <1>1, <2>1, ScanFindsAbove DEF TimeflowInv, Numbers!RenumberedAbove
 <2>2. QED BY <1>1, <2>1 DEF Next, vars
<1>2. QED BY <1>1, TimeflowHolds, PTL DEF Spec, RenumberedAbove
=============================================================================

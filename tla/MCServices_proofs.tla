------------------------- MODULE MCServices_proofs -------------------------
(***************************************************************************)
(* Webhooks's safety, and that of the runs of ManagePosition, for any      *)
(* constants.                                                              *)
(***************************************************************************)
EXTENDS MCServices, WellFoundedInduction, FiniteSetTheorems, TLAPS

-----------------------------------------------------------------------------
\* Events.

\* A request is accepted when it has a row, a job exists before its event is
\* marked, and what has been answered is known.
WebhooksInv ==
    /\ WebhooksTypeOK /\ OneRowPerEvent /\ AnsweredIsKept
    /\ OneJobPerTarget /\ DeliveredHasJob
    /\ taken \subseteq Rows
    /\ doing.at # "idle" => doing.row \in Rows
    /\ doing.at = "deliver" => jobs[Key(doing.row, doing.to)] > 0

\* Initially there is nothing.
LEMMA InitWebhooks == Init => WebhooksInv
  BY WebhooksAssumption
  DEF Init, WebhooksInv, WebhooksTypeOK, OneRowPerEvent, AnsweredIsKept, OneJobPerTarget,
      DeliveredHasJob, NoRow, Nothing, Rows, Known, Key, Waits

\* What the loop may be at.
Doings == {Nothing} \cup [at : {"submit", "deliver"}, row : Requests, to : Targets]
                    \cup [at : {"fail"}, row : Requests, to : Targets \cup {Nowhere}]

\* A step that leaves rows and jobs alone keeps the invariant when its
\* answers are about known events and the loop works on rows.
LEMMA QuietKeeps ==
    ASSUME WebhooksInv, UNCHANGED <<row, jobs>>,
           request' \in [Requests -> {"coming", "new", "accepted", "duplicate", "lost"}],
           \A r \in Requests : request'[r] \in {"accepted", "duplicate"} => Known(r),
           due' \in SUBSET Requests, taken' \in SUBSET Rows,
           target' \in Targets \cup {Nowhere}, doing' \in Doings,
           doing'.at # "idle" => doing'.row \in Rows,
           doing'.at = "deliver" => jobs[Key(doing'.row, doing'.to)] > 0,
           mishaps' \in Nat, edits' \in Nat
    PROVE WebhooksInv'
<1>1. Rows' = Rows /\ Rows \subseteq Requests /\ \A r \in Requests : Known(r)' <=> Known(r)
  BY DEF Rows, Known
<1>2. WebhooksTypeOK'
  BY <1>1 DEF WebhooksInv, WebhooksTypeOK, Doings
<1>3. OneRowPerEvent' /\ AnsweredIsKept' /\ OneJobPerTarget'
  BY <1>1 DEF WebhooksInv, OneRowPerEvent, AnsweredIsKept, OneJobPerTarget
<1>4. DeliveredHasJob'
  BY DEF WebhooksInv, DeliveredHasJob, Key
<1> QED
  BY <1>1, <1>2, <1>3, <1>4 DEF WebhooksInv, Key

\* The loop is idle, or at one of its rows.
LEMMA DoingShape ==
    ASSUME WebhooksInv
    PROVE /\ doing \in Doings /\ target \in Targets \cup {Nowhere}
          /\ doing.at = "submit" => doing \in [at : {"submit"}, row : Rows, to : Targets]
          /\ doing.at = "deliver" => doing \in [at : {"deliver"}, row : Rows, to : Targets]
          /\ doing.at = "fail" => doing \in [at : {"fail"}, row : Rows, to : Targets \cup {Nowhere}]
          /\ \A r \in Requests : request[r] \in {"accepted", "duplicate"} => Known(r)
          /\ request \in [Requests -> {"coming", "new", "accepted", "duplicate", "lost"}]
          /\ due \in SUBSET Requests /\ taken \in SUBSET Rows /\ Rows \subseteq Requests
          /\ mishaps \in Nat /\ edits \in Nat
<1>1. doing \in Doings
  BY DEF WebhooksInv, WebhooksTypeOK, Doings
<1>2. doing.at # "idle" => doing.row \in Rows
  BY DEF WebhooksInv
<1>3. Rows \subseteq Requests
  BY DEF Rows
<1> QED
  BY <1>1, <1>2, <1>3 DEF WebhooksInv, WebhooksTypeOK, Doings, Nothing, AnsweredIsKept

\* A failure leaves a row to be retried, after one of the waits, or given up.
LEMMA FailedType ==
    ASSUME NEW old \in [status : {"absent", "pending", "failed", "delivered", "dead_letter"},
                        attempts : Nat, wait : Waits]
    PROVE Failed(old) \in [status : {"failed", "dead_letter"}, attempts : Nat, wait : Waits]
<1>1. CASE old.attempts + 1 >= MaxAttempts
  <2>1. /\ Failed(old) = [old EXCEPT !.attempts = @ + 1, !.status = "dead_letter"]
        /\ old.attempts + 1 \in Nat
    BY <1>1 DEF Failed
  <2> QED
    BY <2>1
<1>2. CASE ~(old.attempts + 1 >= MaxAttempts)
  <2>1. old.attempts + 1 \in 0..MaxAttempts
    BY <1>2, WebhooksAssumption
  <2>2. Backoff(old.attempts + 1) \in Waits
    BY <2>1 DEF Waits
  <2> QED
    BY <1>2, <2>2 DEF Failed
<1> QED
  BY <1>1, <1>2

\* A row that changes without coming or going leaves what is known alone.
LEMMA SameRows ==
    ASSUME WebhooksInv, NEW q \in Rows, NEW new,
           new \in [status : {"failed", "delivered", "dead_letter"}, attempts : Nat, wait : Waits],
           row' = [row EXCEPT ![q] = new]
    PROVE /\ row' \in [Requests -> [status : {"absent", "pending", "failed", "delivered", "dead_letter"},
                                    attempts : Nat, wait : Waits]]
          /\ Rows' = Rows
          /\ \A r \in Requests : Known(r)' <=> Known(r)
          /\ row'[q] = new /\ \A r \in Requests \ {q} : row'[r] = row[r]
<1>1. /\ row'[q] = new /\ \A r \in Requests \ {q} : row'[r] = row[r]
      /\ row' \in [Requests -> [status : {"absent", "pending", "failed", "delivered", "dead_letter"},
                                attempts : Nat, wait : Waits]]
  BY DEF WebhooksInv, WebhooksTypeOK, Rows
<1>2. Rows' = Rows
  BY <1>1 DEF Rows
<1> QED
  BY <1>1, <1>2 DEF Known

\* An event's row that is marked keeps every part of the invariant: a
\* delivered one has its job, and the rest does not look at the marks.
LEMMA MarkKeeps ==
    ASSUME WebhooksInv, NEW q \in Rows, NEW new, NEW D \in SUBSET Requests,
           new \in [status : {"failed", "delivered", "dead_letter"}, attempts : Nat, wait : Waits],
           new.status = "delivered" => \E t \in Targets : jobs[Key(q, t)] > 0,
           row' = [row EXCEPT ![q] = new], due' = D, doing' = Nothing,
           UNCHANGED <<request, target, jobs, taken, bounds>>
    PROVE WebhooksInv'
<1>1. /\ row' \in [Requests -> [status : {"absent", "pending", "failed", "delivered", "dead_letter"},
                                attempts : Nat, wait : Waits]]
      /\ Rows' = Rows
      /\ \A r \in Requests : Known(r)' <=> Known(r)
      /\ row'[q] = new /\ \A r \in Requests \ {q} : row'[r] = row[r]
  BY SameRows
<1>2. WebhooksTypeOK'
  BY <1>1 DEF WebhooksInv, WebhooksTypeOK, bounds
<1>3. OneRowPerEvent' /\ AnsweredIsKept' /\ OneJobPerTarget'
  BY <1>1 DEF WebhooksInv, OneRowPerEvent, AnsweredIsKept, OneJobPerTarget
<1>4. DeliveredHasJob'
  BY <1>1 DEF WebhooksInv, DeliveredHasJob, Rows, Key
<1> QED
  BY <1>1, <1>2, <1>3, <1>4 DEF WebhooksInv, Nothing

\* A new row of an event that has none.
LEMMA PersistKeeps == ASSUME WebhooksInv, NEW r \in Requests, Persist(r) PROVE WebhooksInv'
<1>1. CASE Known(r)
  <2>1. /\ request' \in [Requests -> {"coming", "new", "accepted", "duplicate", "lost"}]
        /\ \A q \in Requests : request'[q] \in {"accepted", "duplicate"} => Known(q)
    BY <1>1, DoingShape DEF Persist
  <2> QED
    BY <1>1, <2>1, DoingShape, QuietKeeps DEF Persist, worker, bounds, WebhooksInv
<1>2. CASE ~Known(r)
  <2> DEFINE new == [NoRow EXCEPT !.status = "pending"]
  <2>1. new \in [status : {"pending"}, attempts : Nat, wait : Waits]
    BY DEF NoRow, Waits
  <2>2. row' = [row EXCEPT ![r] = new] /\ due' = due \cup {r}
        /\ request' = [request EXCEPT ![r] = "accepted"]
        /\ UNCHANGED <<target, jobs, taken, doing, mishaps, edits>>
    BY <1>2 DEF Persist, worker, bounds
  <2> HIDE DEF new
  <2>3. /\ row' \in [Requests -> [status : {"absent", "pending", "failed", "delivered", "dead_letter"},
                                  attempts : Nat, wait : Waits]]
        /\ row'[r] = new /\ \A q \in Requests \ {r} : row'[q] = row[q]
    BY <2>1, <2>2 DEF WebhooksInv, WebhooksTypeOK
  <2>4. Rows' = Rows \cup {r}
    BY <2>1, <2>3 DEF Rows
  <2>5. WebhooksTypeOK'
    BY <2>2, <2>3 DEF WebhooksInv, WebhooksTypeOK
  <2>6. OneRowPerEvent'
    BY <1>2, <2>4 DEF WebhooksInv, OneRowPerEvent, Known
  <2>7. AnsweredIsKept'
    <3>1. \A q \in Requests \ {r} : request'[q] = request[q]
      BY <2>2, DoingShape
    <3> QED
      BY <2>4, <3>1 DEF WebhooksInv, AnsweredIsKept, Known
  <2>8. OneJobPerTarget' /\ DeliveredHasJob'
    BY <2>1, <2>2, <2>3 DEF WebhooksInv, OneJobPerTarget, DeliveredHasJob, Key
  <2> QED
    BY <2>2, <2>4, <2>5, <2>6, <2>7, <2>8 DEF WebhooksInv, Key
<1> QED
  BY <1>1, <1>2

\* The job that is there, or the first one.
LEMMA SubmitKeeps == ASSUME WebhooksInv, Submit PROVE WebhooksInv'
<1> USE DEF WebhooksInv
<1> DEFINE k == Key(doing.row, doing.to)
<1>0. /\ jobs' = [jobs EXCEPT ![k] = IF @ > 0 THEN @ ELSE 1]
      /\ doing' = [doing EXCEPT !.at = "deliver"] /\ doing.at = "submit"
      /\ UNCHANGED <<request, row, due, target, taken, mishaps, edits>>
  BY DEF Submit, bounds
<1>1. doing \in [at : {"submit"}, row : Rows, to : Targets] /\ doing.row \in Requests
  BY <1>0, DoingShape
<1>2. k \in Events \X Targets
  BY <1>1, WebhooksAssumption DEF Key
<1>3. /\ jobs' \in [Events \X Targets -> Nat] /\ jobs'[k] = 1
      /\ \A j \in Events \X Targets : jobs'[j] \in {jobs[j], 1} /\ jobs'[j] >= jobs[j]
  <2>1. jobs \in [Events \X Targets -> Nat] /\ jobs[k] <= 1 /\ jobs[k] \in Nat
    BY <1>2 DEF WebhooksTypeOK, OneJobPerTarget
  <2> QED
    BY <1>0, <1>2, <2>1
<1>4. doing' \in [at : {"deliver"}, row : Rows, to : Targets]
      /\ doing'.row = doing.row /\ doing'.to = doing.to
  BY <1>0, <1>1
<1>5. WebhooksTypeOK'
  BY <1>0, <1>3, <1>4 DEF WebhooksTypeOK, Rows
<1>6. OneRowPerEvent' /\ AnsweredIsKept' /\ OneJobPerTarget'
  BY <1>0, <1>3 DEF WebhooksTypeOK, OneRowPerEvent, AnsweredIsKept, OneJobPerTarget, Rows, Known
<1>7. DeliveredHasJob'
  <2> SUFFICES ASSUME NEW r \in Requests, row[r].status = "delivered"
               PROVE \E t \in Targets : jobs'[Key(r, t)] > 0
    BY <1>0 DEF DeliveredHasJob, Key
  <2>1. PICK t \in Targets : jobs[Key(r, t)] > 0
    BY DEF DeliveredHasJob
  <2>2. Key(r, t) \in Events \X Targets
    BY WebhooksAssumption DEF Key
  <2> QED
    BY <1>3, <2>1, <2>2 DEF WebhooksTypeOK
<1>8. Rows' = Rows
  BY <1>0 DEF Rows
<1>9. doing'.row \in Rows' /\ taken' \subseteq Rows'
  BY <1>0, <1>4, <1>8
<1>10. jobs'[Key(doing'.row, doing'.to)] > 0
  BY <1>3, <1>4
<1> QED
  BY <1>5, <1>6, <1>7, <1>9, <1>10 DEF Key

\* Every step keeps the invariant.
LEMMA NextWebhooks == WebhooksInv /\ [Next]_vars => WebhooksInv'
<1> SUFFICES ASSUME WebhooksInv, [Next]_vars PROVE WebhooksInv'
  OBVIOUS
<1>1. ASSUME NEW r \in Requests, LookUp(r) PROVE WebhooksInv'
  <2>1. /\ request' \in [Requests -> {"coming", "new", "accepted", "duplicate", "lost"}]
        /\ \A q \in Requests : request'[q] \in {"accepted", "duplicate"} => Known(q)
    BY <1>1, DoingShape DEF LookUp
  <2> QED
    BY <1>1, <2>1, DoingShape, QuietKeeps DEF LookUp, worker, bounds, WebhooksInv
<1>2. ASSUME NEW r \in Requests, Persist(r) PROVE WebhooksInv'
  BY <1>2, PersistKeeps
<1>3. ASSUME NEW r \in Requests, RetryTimeComes(r) PROVE WebhooksInv'
  BY <1>3, DoingShape, QuietKeeps DEF RetryTimeComes, worker, bounds, WebhooksInv
<1>4. CASE Tick
  <2>1. taken' \in SUBSET Rows
    BY <1>4, DoingShape DEF Tick, Open, Rows
  <2> QED
    BY <1>4, <2>1, DoingShape, QuietKeeps DEF Tick, bounds, WebhooksInv
<1>5. ASSUME NEW r \in taken, Match(r) PROVE WebhooksInv'
  <2>1. /\ doing' \in Doings /\ doing'.row \in Rows
        /\ doing'.at \in {"submit", "fail"} /\ taken' \in SUBSET Rows
    BY <1>5, DoingShape DEF Match, Doings
  <2> QED
    BY <1>5, <2>1, DoingShape, QuietKeeps DEF Match, bounds
<1>6. CASE Submit
  BY <1>6, SubmitKeeps
<1>7. CASE SubmitFails
  <2>1. doing' \in [at : {"fail"}, row : Rows, to : Targets]
    BY <1>7, DoingShape DEF SubmitFails
  <2>2. mishaps' \in Nat
    BY <1>7, DoingShape DEF SubmitFails
  <2>3. doing' \in Doings /\ doing'.row \in Rows /\ doing'.at = "fail"
    BY <2>1, DoingShape DEF Doings
  <2> QED
    BY <1>7, <2>2, <2>3, DoingShape, QuietKeeps DEF SubmitFails
<1>8. CASE MarkDelivered
  <2>1. /\ doing.row \in Rows /\ doing.row \in Requests /\ doing.to \in Targets
        /\ jobs[Key(doing.row, doing.to)] > 0
    BY <1>8, DoingShape DEF MarkDelivered, WebhooksInv
  <2> DEFINE new == [row[doing.row] EXCEPT !.status = "delivered"]
  <2>2. row[doing.row] \in [status : {"absent", "pending", "failed", "delivered", "dead_letter"},
                            attempts : Nat, wait : Waits]
    BY <2>1 DEF WebhooksInv, WebhooksTypeOK
  <2>3. new \in [status : {"delivered"}, attempts : Nat, wait : Waits]
    BY <2>2
  <2>4. row' = [row EXCEPT ![doing.row] = new]
    BY <1>8 DEF MarkDelivered
  <2> HIDE DEF new
  <2> QED
    BY <1>8, <2>1, <2>3, <2>4, MarkKeeps, DoingShape DEF MarkDelivered
<1>9. CASE MarkFailed
  <2>1. doing.row \in Rows /\ doing.row \in Requests
    BY <1>9, DoingShape DEF MarkFailed
  <2> DEFINE new == Failed(row[doing.row])
  <2>2. row[doing.row] \in [status : {"absent", "pending", "failed", "delivered", "dead_letter"},
                            attempts : Nat, wait : Waits]
    BY <2>1 DEF WebhooksInv, WebhooksTypeOK
  <2>3. new \in [status : {"failed", "dead_letter"}, attempts : Nat, wait : Waits]
    BY <2>2, FailedType
  <2>4. row' = [row EXCEPT ![doing.row] = new]
    BY <1>9 DEF MarkFailed
  <2> HIDE DEF new
  <2>5. due' \in SUBSET Requests /\ new.status # "delivered"
    BY <1>9, <2>3, DoingShape DEF MarkFailed
  <2> QED
    BY <1>9, <2>1, <2>3, <2>4, <2>5, MarkKeeps DEF MarkFailed
<1>10. CASE MarkIsLost
  <2>1. doing' \in Doings /\ doing'.at = "idle"
    BY <1>10 DEF MarkIsLost, Nothing, Doings
  <2>2. mishaps' \in Nat
    BY <1>10, DoingShape DEF MarkIsLost
  <2> QED
    BY <1>10, <2>1, <2>2, DoingShape, QuietKeeps DEF MarkIsLost
<1>11. CASE Edit
  <2>1. target' \in Targets \cup {Nowhere} /\ edits' \in Nat
    BY <1>11, DoingShape DEF Edit
  <2> QED
    BY <1>11, <2>1, DoingShape, QuietKeeps DEF Edit, worker, WebhooksInv
<1>12. CASE Stop
  <2>1. doing' \in Doings /\ doing'.at = "idle" /\ taken' \in SUBSET Rows
    BY <1>12 DEF Stop, Nothing, Doings
  <2>2. /\ request' \in [Requests -> {"coming", "new", "accepted", "duplicate", "lost"}]
        /\ \A q \in Requests : request'[q] \in {"accepted", "duplicate"} => Known(q)
        /\ mishaps' \in Nat
    BY <1>12, DoingShape DEF Stop
  <2> QED
    BY <1>12, <2>1, <2>2, DoingShape, QuietKeeps DEF Stop
<1>13. CASE UNCHANGED vars
  BY <1>13, DoingShape, QuietKeeps DEF vars, worker, bounds, WebhooksInv
<1> QED
  BY <1>1, <1>2, <1>3, <1>4, <1>5, <1>6, <1>7, <1>8, <1>9, <1>10, <1>11, <1>12, <1>13 DEF Next, Works

\* Requests that repeat an event make one row of it, an answered event is
\* kept, its retries make one job for a target, and what is marked delivered
\* has its job (webhooks.go: HandleWebhook and ProcessPendingEvents).
THEOREM WebhooksSafe ==
    Spec => []EventsInv
<1>1. WebhooksInv => EventsInv
  BY DEF WebhooksInv, EventsInv
<1> QED
  BY <1>1, InitWebhooks, NextWebhooks, PTL DEF Spec

-----------------------------------------------------------------------------
\* What is left of some orders: their sum is one recursive function's, by the
\* least number of them for which it would not be.

LEMMA LeastNumber ==
    ASSUME NEW S, S \subseteq Nat, S # {}
    PROVE  \E x \in S : \A y \in S : x <= y
<1>1. PICK x \in S : \A y \in S : <<y, x>> \notin OpToRel(<, Nat)
  BY NatLessThanWellFounded, WFMin, Zenon
<1>2. \A y \in S : ~(y < x)
  BY <1>1 DEF OpToRel
<1>. QED
  BY <1>2

First(s) == CHOOSE x \in s : TRUE
Sum(g, s) == IF s = {} THEN 0 ELSE First(s).left + g[s \ {First(s)}]
Sums(g, os) == g = [s \in SUBSET os |-> Sum(g, s)]
Total(os) == CHOOSE g : Sums(g, os)

LEMMA LeftTotals == ASSUME NEW os PROVE P!Left(os) = Total(os)[os]
BY DEF P!Left, P!MapThenSumSet, P!MapThenFoldSet, Total, Sums, Sum, First

LEMMA OneLess ==
    ASSUME NEW s, IsFiniteSet(s), NEW x \in s
    PROVE  /\ IsFiniteSet(s \ {x}) /\ Cardinality(s) \in Nat
           /\ Cardinality(s \ {x}) \in Nat /\ Cardinality(s \ {x}) < Cardinality(s)
<1>1. IsFiniteSet(s \ {x}) /\ Cardinality(s \ {x}) = Cardinality(s) - 1
  BY FS_RemoveElement
<1>2. Cardinality(s) \in Nat /\ Cardinality(s \ {x}) \in Nat
  BY <1>1, FS_CardinalityType
<1>. QED
  BY <1>1, <1>2

LEMMA FirstIsIn == ASSUME NEW s, s # {} PROVE First(s) \in s
BY DEF First

\* A sum depends on no more than the set that is summed.
LEMMA SumsAgree ==
    ASSUME NEW os, NEW ps, NEW g, NEW h, Sums(g, os), Sums(h, ps),
           NEW s, IsFiniteSet(s), s \subseteq os, s \subseteq ps
    PROVE  g[s] = h[s]
<1> DEFINE Bad == {k \in Nat : \E t \in SUBSET s : Cardinality(t) = k /\ g[t] # h[t]}
<1>1. ASSUME Bad # {} PROVE FALSE
  <2>1. PICK k \in Bad : \A j \in Bad : k <= j
    <3>. HIDE DEF Bad
    <3>1. Bad \subseteq Nat
      BY DEF Bad
    <3>. QED
      BY <1>1, <3>1, LeastNumber
  <2>2. PICK t \in SUBSET s : Cardinality(t) = k /\ g[t] # h[t]
    OBVIOUS
  <2>3. g[t] = Sum(g, t) /\ h[t] = Sum(h, t)
    BY DEF Sums
  <2>4. t # {}
    BY <2>2, <2>3 DEF Sum
  <2>. DEFINE u == t \ {First(t)}
  <2>5. u \in SUBSET s /\ Cardinality(u) \in Nat /\ Cardinality(u) < k
    BY <2>2, <2>4, FirstIsIn, OneLess, FS_Subset
  <2>6. g[u] = h[u]
    BY <2>1, <2>5
  <2>. QED
    BY <2>2, <2>3, <2>4, <2>6 DEF Sum
<1>2. Cardinality(s) \in Nat
  BY FS_CardinalityType
<1>. QED
  BY <1>1, <1>2

LEMMA TotalExists ==
    ASSUME NEW os, IsFiniteSet(os)
    PROVE  Sums(Total(os), os)
<1> DEFINE Bad == {k \in Nat : \E t \in SUBSET os : Cardinality(t) = k /\ ~ \E g : Sums(g, t)}
<1>1. ASSUME Bad # {} PROVE FALSE
  <2>1. PICK k \in Bad : \A j \in Bad : k <= j
    <3>. HIDE DEF Bad
    <3>1. Bad \subseteq Nat
      BY DEF Bad
    <3>. QED
      BY <1>1, <3>1, LeastNumber
  <2>2. PICK t \in SUBSET os : Cardinality(t) = k /\ ~ \E g : Sums(g, t)
    OBVIOUS
  <2>3. IsFiniteSet(t)
    BY FS_Subset
  <2>. DEFINE Rest(s) == s \ {First(s)}
              v == [s \in SUBSET t |-> IF s = {} THEN 0 ELSE First(s).left + Total(Rest(s))[Rest(s)]]
  <2>4. ASSUME NEW s \in SUBSET t, s # t
        PROVE  Sums(Total(s), s) /\ v[s] = Total(s)[s]
    <3>1. ASSUME NEW r \in SUBSET t, r # t
          PROVE  Sums(Total(r), r)
      <4>1. PICK x \in t : x \notin r
        BY <3>1
      <4>2. Cardinality(t \ {x}) < k /\ Cardinality(t \ {x}) \in Nat /\ IsFiniteSet(t \ {x})
        BY <2>2, <2>3, OneLess
      <4>3. r \in SUBSET (t \ {x})
        BY <4>1
      <4>4. Cardinality(r) \in Nat /\ Cardinality(r) <= Cardinality(t \ {x})
        BY <4>2, <4>3, FS_Subset, FS_CardinalityType
      <4>5. Cardinality(r) < k
        BY <4>2, <4>4
      <4>6. \E g : Sums(g, r)
        BY <2>1, <4>4, <4>5
      <4>. QED
        BY <4>6 DEF Total
    <3>2. Sums(Total(s), s)
      BY <2>4, <3>1
    <3>3. Total(s)[s] = Sum(Total(s), s)
      BY <3>2 DEF Sums
    <3>4. CASE s = {}
      <4>1. v[s] = 0
        BY <3>4
      <4>2. Total(s)[s] = 0
        <5>. HIDE DEF v
        <5>. QED
          BY <3>3, <3>4 DEF Sum
      <4>. QED
        BY <3>2, <4>1, <4>2
    <3>5. CASE s # {}
      <4>1. First(s) \in s
        BY <3>5, FirstIsIn
      <4>2. Rest(s) \in SUBSET t /\ Rest(s) # t /\ IsFiniteSet(Rest(s)) /\ Rest(s) \subseteq s
        BY <2>3, <2>4, <4>1, FS_Subset
      <4>3. Sums(Total(Rest(s)), Rest(s))
        BY <3>1, <4>2
      <4>4. Total(s)[Rest(s)] = Total(Rest(s))[Rest(s)]
        <5>. HIDE DEF Rest
        <5>. QED
          BY <3>2, <4>2, <4>3, SumsAgree
      <4>. QED
        BY <3>2, <3>3, <3>5, <4>4 DEF Sum
    <3>. QED
      BY <3>2, <3>4, <3>5
  <2>5. ASSUME NEW s \in SUBSET t
        PROVE  v[s] = Sum(v, s)
    <3>1. CASE s = {}
      BY <3>1 DEF Sum
    <3>2. CASE s # {}
      <4>1. First(s) \in s
        BY <3>2, FirstIsIn
      <4>2. Rest(s) \in SUBSET t /\ Rest(s) # t
        BY <4>1
      <4>3. v[Rest(s)] = Total(Rest(s))[Rest(s)]
        BY <2>4, <4>2
      <4>4. v[s] = First(s).left + Total(Rest(s))[Rest(s)]
        BY <3>2
      <4>5. Sum(v, s) = First(s).left + v[Rest(s)]
        BY <3>2 DEF Sum
      <4>. QED
        BY <4>3, <4>4, <4>5
    <3>. QED
      BY <3>1, <3>2
  <2>6. v = [s \in SUBSET t |-> v[s]]
    OBVIOUS
  <2>. HIDE DEF v
  <2>7. Sums(v, t)
    BY <2>5, <2>6 DEF Sums
  <2>. QED
    BY <2>2, <2>7
<1>2. Cardinality(os) \in Nat
  BY FS_CardinalityType
<1>3. \E g : Sums(g, os)
  BY <1>1, <1>2
<1>. QED
  BY <1>3 DEF Total

\* Left, as a sum over a finite set.
LEMMA LeftNone == P!Left({}) = 0
<1>1. Sums(Total({}), {})
  BY TotalExists, FS_EmptySet
<1>2. Total({})[{}] = Sum(Total({}), {})
  BY <1>1 DEF Sums
<1>. QED
  BY <1>2, LeftTotals DEF Sum

LEMMA LeftFirst ==
    ASSUME NEW os, IsFiniteSet(os), os # {}
    PROVE  P!Left(os) = First(os).left + P!Left(os \ {First(os)})
<1>. DEFINE r == os \ {First(os)}
<1>1. IsFiniteSet(r) /\ r \subseteq os
  BY FS_Subset
<1>2. Sums(Total(os), os) /\ Sums(Total(r), r)
  BY <1>1, TotalExists
<1>3. Total(os)[r] = Total(r)[r]
  <2>. HIDE DEF r
  <2>. QED
    BY <1>1, <1>2, SumsAgree
<1>4. Total(os)[os] = Sum(Total(os), os)
  BY <1>2 DEF Sums
<1>. QED
  BY <1>3, <1>4, LeftTotals DEF Sum

Weighed(os) == IsFiniteSet(os) /\ \A o \in os : o.left \in Nat

LEMMA LeftIsNat ==
    ASSUME NEW os, Weighed(os)
    PROVE  P!Left(os) \in Nat
<1> DEFINE Bad == {k \in Nat : \E t \in SUBSET os : Cardinality(t) = k /\ P!Left(t) \notin Nat}
<1>1. ASSUME Bad # {} PROVE FALSE
  <2>1. PICK k \in Bad : \A j \in Bad : k <= j
    <3>. HIDE DEF Bad
    <3>1. Bad \subseteq Nat
      BY DEF Bad
    <3>. QED
      BY <1>1, <3>1, LeastNumber
  <2>2. PICK t \in SUBSET os : Cardinality(t) = k /\ P!Left(t) \notin Nat
    OBVIOUS
  <2>3. t # {}
    BY <2>2, LeftNone
  <2>4. IsFiniteSet(t) /\ First(t) \in t
    BY <2>3, FirstIsIn, FS_Subset DEF Weighed
  <2>. DEFINE u == t \ {First(t)}
  <2>5. Cardinality(u) \in Nat /\ Cardinality(u) < k /\ u \in SUBSET os
    BY <2>2, <2>4, OneLess
  <2>6. P!Left(u) \in Nat
    BY <2>1, <2>5
  <2>7. First(t).left \in Nat
    BY <2>4 DEF Weighed
  <2>. QED
    BY <2>2, <2>3, <2>4, <2>6, <2>7, LeftFirst
<1>2. Cardinality(os) \in Nat
  BY FS_CardinalityType DEF Weighed
<1>. QED
  BY <1>1, <1>2

\* Any of the orders may be counted first.
LEMMA LeftRemoves ==
    ASSUME NEW os, Weighed(os), NEW o \in os
    PROVE  P!Left(os) = o.left + P!Left(os \ {o})
<1> DEFINE Bad == {k \in Nat : \E t \in SUBSET os : \E x \in t :
                     Cardinality(t) = k /\ P!Left(t) # x.left + P!Left(t \ {x})}
<1>1. ASSUME Bad # {} PROVE FALSE
  <2>1. PICK k \in Bad : \A j \in Bad : k <= j
    <3>. HIDE DEF Bad
    <3>1. Bad \subseteq Nat
      BY DEF Bad
    <3>. QED
      BY <1>1, <3>1, LeastNumber
  <2>a. PICK t \in SUBSET os : \E x \in t : Cardinality(t) = k /\ P!Left(t) # x.left + P!Left(t \ {x})
    OBVIOUS
  <2>2. PICK x \in t : Cardinality(t) = k /\ P!Left(t) # x.left + P!Left(t \ {x})
    BY <2>a
  <2>. DEFINE c == First(t)
  <2>3. IsFiniteSet(t) /\ c \in t /\ IsFiniteSet(t \ {x}) /\ IsFiniteSet(t \ {c})
    BY FirstIsIn, FS_Subset DEF Weighed
  <2>4. P!Left(t) = c.left + P!Left(t \ {c})
    BY <2>3, LeftFirst
  <2>5. c # x
    BY <2>2, <2>4
  <2>6. k \in Nat /\ Cardinality(t \ {c}) \in Nat /\ Cardinality(t \ {c}) < k
        /\ Cardinality(t \ {x}) \in Nat /\ Cardinality(t \ {x}) < k
    BY <2>2, <2>3, OneLess
  <2>7. ASSUME NEW u \in SUBSET os, NEW y \in u, Cardinality(u) \in Nat, Cardinality(u) < k
        PROVE  P!Left(u) = y.left + P!Left(u \ {y})
    <3>1. CASE P!Left(u) # y.left + P!Left(u \ {y})
      <4>1. Cardinality(u) \in Bad
        BY <2>7, <3>1
      <4>2. k <= Cardinality(u)
        BY <2>1, <4>1
      <4>. QED
        BY <2>6, <2>7, <4>2
    <3>. QED
      BY <3>1
  <2>. HIDE DEF c
  <2>8. P!Left(t \ {c}) = x.left + P!Left((t \ {c}) \ {x})
    BY <2>3, <2>5, <2>6, <2>7
  <2>9. P!Left(t \ {x}) = c.left + P!Left((t \ {x}) \ {c})
    BY <2>3, <2>5, <2>6, <2>7
  <2>10. (t \ {c}) \ {x} = (t \ {x}) \ {c}
    OBVIOUS
  <2>11. PICK z : z = (t \ {x}) \ {c}
    OBVIOUS
  <2>12. P!Left(z) \in Nat /\ c.left \in Nat /\ x.left \in Nat
    <3>1. Weighed(z)
      BY <2>3, <2>11, FS_Subset DEF Weighed
    <3>. QED
      BY <2>3, <3>1, LeftIsNat DEF Weighed
  <2>13. P!Left(t) = c.left + (x.left + P!Left(z))
    BY <2>4, <2>8, <2>10, <2>11
  <2>14. P!Left(t \ {x}) = c.left + P!Left(z)
    BY <2>9, <2>11
  <2>15. PICK m : m = P!Left(z)
    OBVIOUS
  <2>16. c.left + (x.left + m) = x.left + (c.left + m)
    BY <2>12, <2>15
  <2>. QED
    BY <2>2, <2>13, <2>14, <2>15, <2>16
<1>2. Cardinality(os) \in Nat
  BY FS_CardinalityType DEF Weighed
<1>. QED
  BY <1>1, <1>2

LEMMA LeftAdds ==
    ASSUME NEW os, Weighed(os), NEW o, o \notin os, o.left \in Nat
    PROVE  P!Left(os \cup {o}) = P!Left(os) + o.left /\ Weighed(os \cup {o})
<1>. DEFINE ps == os \cup {o}
<1>1. Weighed(ps) /\ o \in ps /\ ps \ {o} = os
  BY FS_AddElement DEF Weighed
<1>2. P!Left(os) \in Nat
  BY LeftIsNat
<1>. HIDE DEF ps
<1>3. P!Left(ps) = o.left + P!Left(os)
  BY <1>1, LeftRemoves
<1>. QED
  BY <1>1, <1>2, <1>3 DEF ps

-----------------------------------------------------------------------------
\* Position runs.

\* What a run waits for, and the step it then goes on with.
Waiting == run.pc \in {"cancel", "positions", "orders"}
Ahead == IF Waiting THEN run.then ELSE run.pc
Clearing(to) == run.pc = "cancel" /\ run.then = to
Selling == Ahead \in {"sell", "resell", "retry"}

\* The better side of the market, in whose terms the invariant speaks: the run
\* goes by what it read of it.
Better == market.side
Worse == P!Opposite(market.side)
Aim == P!Target(Better)
Drops == P!Falls(Better)
BetterBuys == P!Of(orders, Better, "buy")
WorseBuys == P!Of(orders, Worse, "buy")
BetterSells == P!Of(orders, Better, "sell")
WorseSells == P!Of(orders, Worse, "sell")
BetterBids == P!Left(BetterBuys)
BetterAsks == P!Left(BetterSells)
WorseAsks == P!Left(WorseSells)

Fields ==
    {"pc", "then", "thesis", "funds", "weather", "held", "orders", "view", "doomed", "reload",
     "had", "gap", "blocked", "grade", "wants", "tight", "side", "asked", "tried", "back",
     "tier", "price", "want", "bought"}
Begun == {"start", "plan", "trim", "sell", "resell", "retry", "decide", "unlock", "terms",
          "stale", "oversized", "buy", "end"}
Cleared == {"plan", "sell", "retry", "unlock", "terms", "oversized", "buy", "end"}

\* Types.
Account ==
    /\ held \in [P!Sides -> Nat]
    /\ orders \subseteq P!Order /\ IsFiniteSet(orders) /\ \A x \in orders : x.left > 0
    /\ \A x, y \in orders : x.id = y.id => x = y
    /\ DOMAIN note = {"side", "level", "likely", "recent"}
Given ==
    /\ DOMAIN run = Fields
    /\ run.pc \in {"idle", "positions", "orders", "cancel"} \cup Begun
    /\ run.then \in Begun
    /\ run.pc # "idle" =>
          /\ run.thesis \in Theses /\ run.funds \in Funds /\ run.weather \in Weathers
          /\ run.view \in Views /\ market \in Views
HasReadTypes ==
    /\ run.held \in [P!Sides -> Nat]
    /\ run.orders \subseteq P!Order /\ IsFiniteSet(run.orders)
    /\ run.doomed \subseteq run.orders /\ (run.pc # "cancel" => run.doomed = {})
Figures ==
    /\ run.had \in Nat /\ run.gap \in Nat /\ run.tier \in 0..2 /\ run.price \in Nat
    /\ run.want \in Nat /\ run.bought \in Nat
    /\ run.side \in P!Sides /\ run.asked \in Nat /\ run.tried \in Nat
    /\ run.back \in {"idle", "trim", "decide"}

\* An order the run has read is still that order, whatever is left of it; and
\* what it is to withdraw is what the step it then goes on with is about.
Named ==
    \A o \in run.orders, x \in orders :
        o.id = x.id => o.side = x.side /\ o.way = x.way /\ o.tier = x.tier /\ o.price = x.price
Marked ==
    run.pc = "cancel" =>
      /\ run.then \in Cleared
      /\ \A o \in run.doomed :
          /\ o.way = IF run.then \in {"sell", "retry", "terms"} THEN "sell" ELSE "buy"
          /\ run.then = "plan" => o.side # run.view.side
          /\ run.then \in {"sell", "retry"} => o.side = run.side
          /\ run.then \in {"unlock", "terms", "oversized", "buy"} => o.side = run.view.side
          /\ run.then = "oversized" => o.tier # run.tier \/ o.price # run.price
Selects == Selling => run.back # "idle"
PositionTypes ==
    Account /\ Given /\ HasReadTypes /\ Figures /\ Named /\ Marked /\ Selects

\* An order of the exchange that the run has read, and one it is to withdraw.
Read(x) == \E o \in run.orders : o.id = x.id
Doomed(x) == \E o \in run.doomed : o.id = x.id

Decided == {"unlock", "terms", "stale", "oversized", "buy", "end"}
Trimmed == {"decide"} \cup Decided
Trading == {"stale", "oversized", "buy"}

HasRead == run.pc = "start" \/ Ahead # "start"
HasHeld == ~(run.pc = "positions" /\ run.then = "start")
TooMuch == run.had > Aim
Gap(n) == P!Larger(Aim - n, 0)
Going == run.wants /\ (market.strong \/ run.tight)
TierOf(v, f) ==
    IF v.grade = "one" /\ ~v.wide THEN 1 ELSE IF v.grade = "two" /\ f.rich THEN 2 ELSE 0
WantOf(gap, v, f) ==
    LET half == (gap * v.part) \div 2
    IN  IF f.afford > 0 THEN P!Smaller(half, f.afford) ELSE half

Knowledge ==
    /\ HasRead => run.view = market
    /\ HasRead /\ run.pc # "end" => \A x \in orders : x.way = "buy" => Read(x)
    /\ HasRead /\ ~TooMuch => \A x \in BetterSells : Read(x)
    /\ HasHeld /\ ~TooMuch /\ run.held[Better] = 0 => BetterSells = {}

WindsUp ==
    /\ Ahead \in {"start", "end"}
    /\ Ahead = "end" => \A x \in orders : x.way = "buy" => Clearing("end") /\ Doomed(x)

Plans ==
    /\ Ahead = "end" => run.pc = "end"
    /\ Ahead \in {"start", "plan"} => run.had = 0
    /\ Ahead # "start" => \A x \in WorseBuys : Clearing("plan") /\ Doomed(x)
    /\ Ahead \notin {"start", "plan"} =>
         run.gap = Gap(run.had) /\ (run.blocked <=> (Drops /\ run.gap > 0))
SellsRight ==
    Selling =>
      /\ run.back = "trim" => run.side = Worse
      /\ run.back = "decide" => run.side = Better /\ TooMuch
Decides ==
    /\ Ahead \in Decided =>
         /\ run.wants <=> (run.gap > 0 /\ ~run.blocked /\ market.part > 0)
         /\ run.grade = market.grade
         /\ run.tight <=> (~market.strong /\ run.wants /\ market.grade = "two" /\ run.funds.rich)
         /\ ~Going => \A x \in BetterBuys : Clearing("unlock") /\ Doomed(x)
    /\ Clearing("unlock") => ~Going
    /\ Ahead \in {"terms", "end"} \cup Trading /\ Going =>
         \A x \in BetterSells : Clearing("terms") /\ Doomed(x)
    /\ Ahead \in Trading => Going /\ run.tier > 0
    /\ run.tier > 0 => Going /\ Ahead \in {"end"} \cup Trading
Manages == Plans /\ SellsRight /\ Decides

QuietTrue ==
    run.pc # "idle" /\ run.weather # "storm" =>
        Knowledge /\ IF run.thesis.over THEN WindsUp ELSE Manages

\* Calm runs.
AsRead(s, way) == P!Of(run.orders, s, way) = P!Of(orders, s, way)
Fresh(x) == x.tier = run.tier /\ x.price = run.price
Met == BetterBids <= run.want
Enough == run.funds.afford > 0 => run.want - BetterBids < MinShares

CalmReads ==
    /\ HasHeld => run.held = held
    /\ Ahead \notin {"resell", "retry"}
    /\ run.pc = "cancel" /\ ~run.reload => run.then \in {"unlock", "end"}
    /\ run.pc \in {"start", "plan"} => run.orders = orders
    /\ run.pc = "sell" /\ run.back = "trim" => AsRead(Worse, "sell")
    /\ run.pc \in {"sell", "trim"} => AsRead(Better, "sell")
    /\ run.pc \in {"sell", "trim", "decide"} => AsRead(Better, "buy")
    /\ run.pc \in Decided \ {"end"} /\ Going => AsRead(Better, "buy")

CalmSells ==
    /\ Ahead \notin {"start", "plan"} => run.had = held[Better]
    /\ Ahead = "sell" =>
         /\ run.asked = IF run.back = "trim" THEN held[Worse] ELSE run.had - Aim
         /\ \/ \A x \in orders : x.way = "sell" /\ x.side = run.side => Clearing("sell") /\ Doomed(x)
            \/ run.pc = "sell" /\ run.back = "trim" /\ run.asked <= held[Worse] - WorseAsks
            \/ run.pc = "sell" /\ run.back = "decide" /\ run.asked <= held[Better] - BetterAsks
    /\ Ahead \in {"trim"} \cup Trimmed \/ (Ahead = "sell" /\ run.back = "decide") =>
         held[Worse] - WorseAsks < MinShares
    /\ Ahead \in Trimmed /\ TooMuch => held[Better] - BetterAsks < Aim + MinShares
    /\ Clearing("terms") => ~TooMuch
CalmBuys ==
    /\ Ahead \in Trading \/ (Ahead = "end" /\ run.tier > 0) =>
         /\ run.tier = TierOf(market, run.funds) /\ run.price = market.price
         /\ run.want = WantOf(run.gap, market, run.funds)
    /\ Ahead = "end" /\ run.wants => run.tier = TierOf(market, run.funds)
    /\ Ahead = "oversized" =>
         \A x \in BetterBuys : Fresh(x) \/ (Clearing("oversized") /\ Doomed(x))
    /\ Ahead = "buy" =>
         \/ \A x \in BetterBuys : Clearing("buy") /\ Doomed(x)
         \/ run.pc = "buy" /\ Met /\ \A x \in BetterBuys : Fresh(x)
    /\ run.pc = "end" /\ run.tier > 0 => Met /\ Enough /\ \A x \in BetterBuys : Fresh(x)

CalmTrue ==
    run.pc # "idle" /\ run.weather = "calm" =>
        CalmReads /\ (~run.thesis.over => CalmSells /\ CalmBuys)

\* What a run before has left, for one with the same inputs.
Fell(t, s) ==
    P!Remembered(s) /\ note.likely # t.likely /\ note.likely = (s = "yes")
Weak(t, s) == Fell(t, s) \/ (P!Remembered(s) /\ t.level < note.level)
LeftEnough(want, l) ==
    LET buys == P!Of(orders, l.view.side, "buy")
    IN  /\ \A x \in buys : x.tier = TierOf(l.view, l.funds) /\ x.price = l.view.price
        /\ P!Left(buys) <= want
        /\ l.funds.afford > 0 => want - P!Left(buys) < MinShares
LastGap(l) == P!Larger(l.target - held[l.view.side], 0)
NeedsNothing(l) ==
    \/ LastGap(l) = 0 \/ l.view.part = 0 \/ TierOf(l.view, l.funds) = 0
    \/ LeftEnough(WantOf(LastGap(l), l.view, l.funds), l)
    \/ /\ Fell(l.thesis, l.view.side) \/ ~Weak(l.thesis, l.view.side)
       /\ l.target = (l.thesis.cap * l.thesis.level) \div 4
Again ==
    last = [is |-> TRUE, thesis |-> run.thesis, funds |-> run.funds, view |-> market,
            target |-> Aim]
AgainIn == run.pc # "idle" /\ run.weather = "calm" /\ ~run.thesis.over /\ Again
AgainTrue ==
    /\ Ahead \notin Decided => NeedsNothing(last)
    /\ Ahead \in Decided /\ run.wants /\ TierOf(market, run.funds) > 0 =>
         LeftEnough(WantOf(run.gap, market, run.funds), last) /\ ~Clearing("buy")
    /\ run.bought = 0
LastTrue ==
    /\ run.pc = "idle" /\ last.is => last.thesis.over \/ NeedsNothing(last)
    /\ AgainIn => AgainTrue
    /\ run.bought > 0 => run.pc = "end"

Covered == \A s \in P!Sides : P!Left(P!Of(orders, s, "sell")) <= held[s]
PositionInvariant == PositionTypes /\ Covered /\ QuietTrue /\ CalmTrue /\ LastTrue

-----------------------------------------------------------------------------
LEMMA PositionConstants ==
    /\ MinShares \in Nat /\ MinShares > 0
    /\ \A t \in Theses : t.cap \in Nat /\ t.level \in 0..2
    /\ \A v \in Views : v.side \in P!Sides /\ v.part \in 0..2 /\ v.price \in Nat
                        /\ (v.grade = "none" <=> v.part = 0) /\ (v.grade = "one" => v.strong)
    /\ \A f \in Funds : f.afford \in Nat
    /\ Held \subseteq Nat
BY ServicesAssumption DEF P!PositionAssumption, P!Sides

LEMMA Halves ==
    ASSUME NEW a \in Nat, NEW b \in 0..2
    PROVE  a * b \in Nat /\ (a * b) \div 2 \in Nat /\ (a * b) \div 4 \in Nat
<1>1. CASE b = 0
  BY <1>1
<1>2. CASE b = 1
  BY <1>2
<1>3. CASE b = 2
  BY <1>3
<1>. QED
  BY <1>1, <1>2, <1>3

LEMMA TargetIsNat ==
    ASSUME run.thesis \in Theses, NEW s
    PROVE  P!Target(s) \in Nat
<1>1. run.thesis.cap \in Nat /\ run.thesis.level \in 0..2
  BY PositionConstants
<1>2. PICK n : n = run.thesis.cap * run.thesis.level
  OBVIOUS
<1>3. n \in Nat /\ n \div 2 \in Nat /\ n \div 4 \in Nat
  BY <1>1, <1>2, Halves
<1>. QED
  BY <1>2, <1>3 DEF P!Target

-----------------------------------------------------------------------------
\* More on sums.

LEMMA LeftMonotone ==
    ASSUME NEW b, Weighed(b), NEW a, a \subseteq b
    PROVE  P!Left(a) <= P!Left(b)
<1> DEFINE Bad == {k \in Nat : \E t \in SUBSET b : \E u \in SUBSET t :
                     Cardinality(t) = k /\ ~(P!Left(u) <= P!Left(t))}
<1>1. ASSUME Bad # {} PROVE FALSE
  <2>1. PICK k \in Bad : \A j \in Bad : k <= j
    <3>. HIDE DEF Bad
    <3>1. Bad \subseteq Nat
      BY DEF Bad
    <3>. QED
      BY <1>1, <3>1, LeastNumber
  <2>2. PICK t \in SUBSET b : \E u \in SUBSET t : Cardinality(t) = k /\ ~(P!Left(u) <= P!Left(t))
    OBVIOUS
  <2>3. PICK u \in SUBSET t : Cardinality(t) = k /\ ~(P!Left(u) <= P!Left(t))
    BY <2>2
  <2>4. Weighed(t) /\ Weighed(u)
    BY FS_Subset DEF Weighed
  <2>5. P!Left(t) \in Nat /\ P!Left(u) \in Nat
    BY <2>4, LeftIsNat
  <2>6. PICK x \in t : x \notin u
    BY <2>3, <2>5
  <2>. DEFINE w == t \ {x}
  <2>7. Cardinality(w) \in Nat /\ Cardinality(w) < k /\ Weighed(w)
    BY <2>3, <2>4, OneLess, FS_Subset DEF Weighed
  <2>8. w \in SUBSET b /\ u \in SUBSET w
    BY <2>6
  <2>9. P!Left(t) = x.left + P!Left(w) /\ x.left \in Nat /\ P!Left(w) \in Nat
    BY <2>4, <2>7, LeftRemoves, LeftIsNat DEF Weighed
  <2>. HIDE DEF w
  <2>10. CASE P!Left(u) <= P!Left(w)
    BY <2>3, <2>5, <2>9, <2>10
  <2>11. CASE ~(P!Left(u) <= P!Left(w))
    <3>1. Cardinality(w) \in Bad
      BY <2>7, <2>8, <2>11
    <3>2. k <= Cardinality(w)
      BY <2>1, <3>1
    <3>. QED
      BY <2>7, <3>2
  <2>. QED
    BY <2>10, <2>11
<1>2. Cardinality(b) \in Nat
  BY FS_CardinalityType DEF Weighed
<1>. QED
  BY <1>1, <1>2

LEMMA NothingIsLeft ==
    ASSUME NEW os, Weighed(os), \A o \in os : o.left > 0, P!Left(os) <= 0
    PROVE  os = {}
<1>1. ASSUME NEW o \in os PROVE FALSE
  <2>1. P!Left(os) = o.left + P!Left(os \ {o}) /\ o.left \in Nat
    BY LeftRemoves DEF Weighed
  <2>2. Weighed(os \ {o})
    BY FS_Subset DEF Weighed
  <2>. DEFINE w == os \ {o}
  <2>3. P!Left(w) \in Nat
    BY <2>2, LeftIsNat
  <2>. HIDE DEF w
  <2>4. P!Left(os) = o.left + P!Left(w)
    BY <2>1 DEF w
  <2>. QED
    BY <2>1, <2>3, <2>4
<1>. QED
  BY <1>1

LEMMA OrdersWeigh ==
    ASSUME Account, NEW os, os \subseteq orders
    PROVE  Weighed(os) /\ \A o \in os : o.left > 0
BY FS_Subset DEF Account, P!Order, Weighed

LEMMA OrderFields ==
    ASSUME NEW o \in P!Order
    PROVE  /\ o.id \in Nat /\ o.side \in P!Sides /\ o.way \in {"buy", "sell"}
           /\ o.left \in Nat /\ o.tier \in 0..2 /\ o.price \in Nat
BY DEF P!Order

-----------------------------------------------------------------------------
\* What a step of the run writes.

SameGiven == run'.thesis = run.thesis /\ run'.funds = run.funds /\ run'.weather = run.weather
SameSeen == run'.held = run.held /\ run'.orders = run.orders /\ run'.view = run.view
SamePlan == run'.had = run.had /\ run'.gap = run.gap /\ run'.blocked = run.blocked
SameSale == run'.side = run.side /\ run'.asked = run.asked /\ run'.tried = run.tried
            /\ run'.back = run.back
SameChoice == run'.grade = run.grade /\ run'.wants = run.wants /\ run'.tight = run.tight
SameTerms == run'.tier = run.tier /\ run'.price = run.price /\ run'.want = run.want
Still ==
    /\ held' = held /\ orders' = orders /\ market' = market /\ note' = note /\ last' = last
    /\ run'.bought = run.bought /\ DOMAIN run' = Fields /\ SameGiven
Stays == SameSeen /\ SamePlan /\ SameSale /\ SameChoice /\ SameTerms

\* The run goes to a step, or first withdraws the orders os.
GoesTo(to) ==
    run'.pc = to /\ run'.then = run.then /\ run'.doomed = run.doomed /\ run'.reload = run.reload
Withdraws(os, again, to) ==
    \/ os = {} /\ GoesTo(to)
    \/ /\ os # {} /\ run'.pc = "cancel" /\ run'.then = to
       /\ run'.doomed = os /\ run'.reload = again

\* The fields that a step of the run leaves, or takes from r.
Copies(c, r) ==
    /\ DOMAIN c = Fields
    /\ c.thesis = r.thesis /\ c.funds = r.funds /\ c.weather = r.weather
    /\ c.held = r.held /\ c.orders = r.orders /\ c.view = r.view
    /\ c.had = r.had /\ c.gap = r.gap /\ c.blocked = r.blocked
    /\ c.grade = r.grade /\ c.wants = r.wants /\ c.tight = r.tight
    /\ c.tier = r.tier /\ c.price = r.price /\ c.want = r.want /\ c.bought = r.bought
CopiesSale(c, r) ==
    c.side = r.side /\ c.asked = r.asked /\ c.tried = r.tried /\ c.back = r.back
Moves(c, r, to) == c.pc = to /\ c.then = r.then /\ c.doomed = r.doomed /\ c.reload = r.reload

LEMMA GoesFields ==
    ASSUME NEW r, DOMAIN r = Fields, NEW to, NEW c, c = P!Goes(r, to)
    PROVE  Copies(c, r) /\ CopiesSale(c, r) /\ Moves(c, r, to)
BY DEF P!Goes, Fields, Copies, CopiesSale, Moves

\* c is r as it goes to a step after it withdrew the orders os.
Clears(c, r, os, again, to) ==
    /\ Copies(c, r) /\ CopiesSale(c, r)
    /\ \/ os = {} /\ Moves(c, r, to)
       \/ os # {} /\ c.pc = "cancel" /\ c.then = to /\ c.doomed = os /\ c.reload = again

LEMMA CancelsFields ==
    ASSUME NEW r, DOMAIN r = Fields, NEW os, NEW again, NEW to
    PROVE  Clears(P!Cancels(r, os, again, to), r, os, again, to)
<1>1. CASE os = {}
  BY <1>1, GoesFields DEF P!Cancels, Clears
<1>2. CASE os # {}
  BY <1>2 DEF P!Cancels, Fields, Copies, CopiesSale, Clears
<1>. QED
  BY <1>1, <1>2

LEMMA ReloadsFields ==
    ASSUME NEW r, DOMAIN r = Fields, NEW to, NEW c, c = P!Reloads(r, to)
    PROVE  /\ Copies(c, r) /\ CopiesSale(c, r)
           /\ c.pc = "positions" /\ c.then = to /\ c.doomed = r.doomed /\ c.reload = r.reload
BY DEF P!Reloads, Fields, Copies, CopiesSale

\* c is r as it asks for a sale of n shares of side s.
AsksToSell(c, r, s, n, back) ==
    /\ Copies(c, r)
    /\ \/ r.held[s] = 0 /\ CopiesSale(c, r) /\ Moves(c, r, back)
       \/ /\ r.held[s] # 0
          /\ c.side = s /\ c.asked = n /\ c.back = back /\ c.tried = r.tried
          /\ LET locks == P!Of(r.orders, s, "sell") IN
             \/ locks = {} /\ Moves(c, r, "sell")
             \/ /\ locks # {} /\ c.pc = "cancel" /\ c.then = "sell"
                /\ c.doomed = locks /\ c.reload = TRUE
             \/ ~(n > P!Sellable(r.held, r.orders, s)) /\ Moves(c, r, "sell")

LEMMA SellsFields ==
    ASSUME NEW r, DOMAIN r = Fields, NEW s, NEW n, NEW back
    PROVE  AsksToSell(P!Sells(r, s, n, back), r, s, n, back)
<1>. SUFFICES ASSUME NEW c, c = P!Sells(r, s, n, back)
              PROVE  AsksToSell(c, r, s, n, back)
  OBVIOUS
<1>. DEFINE asks == [r EXCEPT !.side = s, !.asked = n, !.back = back]
            locks == P!Of(r.orders, s, "sell")
<1>1. CASE r.held[s] = 0
  BY <1>1, GoesFields DEF P!Sells, AsksToSell
<1>2. CASE r.held[s] # 0
  <2>1. /\ DOMAIN asks = Fields /\ Copies(asks, r)
        /\ asks.side = s /\ asks.asked = n /\ asks.back = back /\ asks.tried = r.tried
        /\ asks.pc = r.pc /\ asks.then = r.then /\ asks.doomed = r.doomed
        /\ asks.reload = r.reload
    BY DEF Fields, Copies
  <2>2. CASE c = P!Cancels(asks, locks, TRUE, "sell")
    <3>1. PICK a : a = asks
      OBVIOUS
    <3>2. PICK l : l = locks
      OBVIOUS
    <3>3. c = P!Cancels(a, l, TRUE, "sell") /\ DOMAIN a = Fields
      BY <2>1, <2>2, <3>1, <3>2
    <3>4. /\ Copies(c, a) /\ CopiesSale(c, a)
          /\ \/ l = {} /\ Moves(c, a, "sell")
             \/ l # {} /\ c.pc = "cancel" /\ c.then = "sell" /\ c.doomed = l /\ c.reload = TRUE
      <4>. HIDE DEF asks, locks
      <4>1. Clears(c, a, l, TRUE, "sell")
        BY <3>3, CancelsFields
      <4>. QED
        BY <4>1 DEF Clears
    <3>5. /\ Copies(a, r)
          /\ a.side = s /\ a.asked = n /\ a.back = back /\ a.tried = r.tried
          /\ a.pc = r.pc /\ a.then = r.then /\ a.doomed = r.doomed /\ a.reload = r.reload
      BY <2>1, <3>1
    <3>. HIDE DEF asks, locks
    <3>6. Copies(c, r)
      BY <3>4, <3>5 DEF Copies
    <3>7. c.side = s /\ c.asked = n /\ c.back = back /\ c.tried = r.tried
      BY <3>4, <3>5 DEF CopiesSale
    <3>8. \/ locks = {} /\ Moves(c, r, "sell")
          \/ /\ locks # {} /\ c.pc = "cancel" /\ c.then = "sell"
             /\ c.doomed = locks /\ c.reload = TRUE
      BY <3>2, <3>4, <3>5 DEF Moves
    <3>. QED
      BY <1>2, <3>6, <3>7, <3>8 DEF locks, AsksToSell
  <2>3. CASE c = P!Goes(asks, "sell") /\ ~(n > P!Sellable(r.held, r.orders, s))
    <3>1. PICK a : a = asks
      OBVIOUS
    <3>2. c = P!Goes(a, "sell") /\ DOMAIN a = Fields
      BY <2>1, <2>3, <3>1
    <3>3. Copies(c, a) /\ CopiesSale(c, a) /\ Moves(c, a, "sell")
      <4>. HIDE DEF asks, locks
      <4>. QED
        BY <3>2, GoesFields
    <3>5. /\ Copies(a, r)
          /\ a.side = s /\ a.asked = n /\ a.back = back /\ a.tried = r.tried
          /\ a.pc = r.pc /\ a.then = r.then /\ a.doomed = r.doomed /\ a.reload = r.reload
      BY <2>1, <3>1
    <3>. HIDE DEF asks, locks
    <3>6. Copies(c, r)
      BY <3>3, <3>5 DEF Copies
    <3>7. c.side = s /\ c.asked = n /\ c.back = back /\ c.tried = r.tried
      BY <3>3, <3>5 DEF CopiesSale
    <3>8. ~(n > P!Sellable(r.held, r.orders, s)) /\ Moves(c, r, "sell")
      BY <2>3, <3>3, <3>5 DEF Moves
    <3>. QED
      BY <1>2, <3>6, <3>7, <3>8 DEF AsksToSell
  <2>. QED
    BY <1>2, <2>2, <2>3 DEF P!Sells
<1>. QED
  BY <1>1, <1>2

-----------------------------------------------------------------------------
\* What each step does to the run.

LEMMA Unwrites ==
    ASSUME NEW r, P!Local(r)
    PROVE  /\ run' = r /\ held' = held /\ orders' = orders /\ market' = market
           /\ note' = note /\ last' = last
BY DEF P!Local, P!exchange

LEMMA ClearsRun ==
    ASSUME NEW os, NEW again, NEW to, P!Local(P!Cancels(run, os, again, to)), DOMAIN run = Fields
    PROVE  Still /\ Stays /\ Withdraws(os, again, to)
<1>1. run' = P!Cancels(run, os, again, to)
  BY Unwrites
<1>2. Clears(run', run, os, again, to)
  BY <1>1, CancelsFields
<1>3. Still
  BY <1>2, Unwrites DEF Clears, Copies, CopiesSale, Still, SameGiven
<1>4. Stays
  BY <1>2 DEF Clears, Copies, CopiesSale, Stays, SameSeen, SamePlan, SameSale, SameChoice, SameTerms
<1>5. Withdraws(os, again, to)
  BY <1>2 DEF Clears, Moves, Withdraws, GoesTo
<1>. QED
  BY <1>3, <1>4, <1>5

LEMMA GoesRun ==
    ASSUME NEW to, P!Local(P!Goes(run, to)), DOMAIN run = Fields
    PROVE  Still /\ Stays /\ GoesTo(to)
<1>1. run' = P!Goes(run, to)
  BY Unwrites
<1>2. Copies(run', run) /\ CopiesSale(run', run) /\ Moves(run', run, to)
  BY <1>1, GoesFields
<1>3. Still
  BY <1>2, Unwrites DEF Copies, CopiesSale, Still, SameGiven
<1>4. Stays
  BY <1>2 DEF Copies, CopiesSale, Stays, SameSeen, SamePlan, SameSale, SameChoice, SameTerms
<1>5. GoesTo(to)
  BY <1>2 DEF Moves, GoesTo
<1>. QED
  BY <1>3, <1>4, <1>5

LEMMA LoadPositionsDoes ==
    ASSUME P!LoadPositions, DOMAIN run = Fields
    PROVE  /\ run.pc = "positions" /\ Still /\ GoesTo("orders")
           /\ run'.held = held /\ run'.orders = run.orders /\ run'.view = run.view
           /\ SamePlan /\ SameSale /\ SameChoice /\ SameTerms
<1>1. run' = [run EXCEPT !.pc = "orders", !.held = held]
  BY Unwrites DEF P!LoadPositions
<1>2. run.pc = "positions" /\ held' = held /\ orders' = orders /\ market' = market
      /\ note' = note /\ last' = last
  BY Unwrites DEF P!LoadPositions, P!At
<1>. QED
  BY <1>1, <1>2 DEF Fields, Still, SameGiven, GoesTo, SamePlan, SameSale, SameChoice, SameTerms

LEMMA LoadOrdersDoes ==
    ASSUME P!LoadOrders, DOMAIN run = Fields
    PROVE  /\ run.pc = "orders" /\ Still /\ GoesTo(run.then)
           /\ run'.held = run.held /\ run'.orders = orders /\ run'.view = market
           /\ SamePlan /\ SameSale /\ SameChoice /\ SameTerms
<1>1. run' = [run EXCEPT !.pc = run.then, !.orders = orders, !.view = market]
  BY Unwrites DEF P!LoadOrders
<1>2. run.pc = "orders" /\ held' = held /\ orders' = orders /\ market' = market
      /\ note' = note /\ last' = last
  BY Unwrites DEF P!LoadOrders, P!At
<1>. QED
  BY <1>1, <1>2 DEF Fields, Still, SameGiven, GoesTo, SamePlan, SameSale, SameChoice, SameTerms

\* Reloading: the run goes to read the positions.
Rereads(to) ==
    run'.pc = "positions" /\ run'.then = to /\ run'.doomed = run.doomed /\ run'.reload = run.reload

LEMMA ReloadsRun ==
    ASSUME NEW to, P!Local(P!Reloads(run, to)), DOMAIN run = Fields
    PROVE  Still /\ Stays /\ Rereads(to)
<1>1. run' = P!Reloads(run, to)
  BY Unwrites
<1>2. /\ Copies(run', run) /\ CopiesSale(run', run)
      /\ run'.pc = "positions" /\ run'.then = to /\ run'.doomed = run.doomed
      /\ run'.reload = run.reload
  BY <1>1, ReloadsFields
<1>3. Still
  BY <1>2, Unwrites DEF Copies, CopiesSale, Still, SameGiven
<1>4. Stays
  BY <1>2 DEF Copies, CopiesSale, Stays, SameSeen, SamePlan, SameSale, SameChoice, SameTerms
<1>. QED
  BY <1>2, <1>3, <1>4 DEF Rereads

LEMMA CancelledDoes ==
    ASSUME P!Cancelled, DOMAIN run = Fields
    PROVE  /\ run.pc = "cancel" /\ run.doomed = {} /\ Still /\ Stays
           /\ \/ run.reload /\ Rereads(run.then)
              \/ ~run.reload /\ GoesTo(run.then)
<1>1. run.pc = "cancel" /\ run.doomed = {}
  BY DEF P!Cancelled, P!At
<1>2. CASE run.reload /\ P!Local(P!Reloads(run, run.then))
  BY <1>1, <1>2, ReloadsRun
<1>3. CASE ~run.reload /\ P!Local(P!Goes(run, run.then))
  BY <1>1, <1>3, GoesRun
<1>. QED
  BY <1>2, <1>3 DEF P!Cancelled

\* Writes on the exchange but not by others.
Unlasting == market' = market /\ note' = note /\ last' = last /\ held' = held
             /\ DOMAIN run' = Fields /\ SameGiven
LEMMA CancelDoes ==
    ASSUME NEW o, P!Cancel(o), DOMAIN run = Fields
    PROVE  /\ run.pc = "cancel" /\ o \in run.doomed /\ \E x \in orders : x.id = o.id
           /\ orders' = {x \in orders : x.id # o.id}
           /\ run'.pc = run.pc /\ run'.then = run.then /\ run'.reload = run.reload
           /\ run'.doomed = run.doomed \ {o}
           /\ Unlasting /\ Stays /\ run'.bought = run.bought
BY DEF P!Cancel, P!At, Fields, Unlasting, Stays, SameSeen, SameGiven, SamePlan, SameSale,
       SameChoice, SameTerms

LEMMA StartDoes ==
    ASSUME P!Start, DOMAIN run = Fields
    PROVE  /\ run.pc = "start" /\ Still /\ Stays
           /\ \/ /\ run.thesis.over
                 /\ Withdraws({o \in run.orders : o.way = "buy"}, FALSE, "end")
              \/ /\ ~run.thesis.over
                 /\ Withdraws(P!Of(run.orders, P!Opposite(run.view.side), "buy"), TRUE, "plan")
<1>1. run.pc = "start"
  BY DEF P!Start, P!At
<1>2. CASE run.thesis.over
             /\ P!Local(P!Cancels(run, {o \in run.orders : o.way = "buy"}, FALSE, "end"))
  <2>1. PICK os : os = {o \in run.orders : o.way = "buy"}
    OBVIOUS
  <2>2. PICK b : b = FALSE
    OBVIOUS
  <2>3. P!Local(P!Cancels(run, os, b, "end"))
    BY <1>2, <2>1, <2>2
  <2>4. Still /\ Stays /\ Withdraws(os, b, "end")
    BY <2>3, ClearsRun
  <2>. QED
    BY <1>1, <1>2, <2>1, <2>2, <2>4
<1>3. CASE ~run.thesis.over
           /\ P!Local(P!Cancels(run, P!Of(run.orders, P!Opposite(P!Side), "buy"), TRUE, "plan"))
  <2>1. PICK os : os = P!Of(run.orders, P!Opposite(P!Side), "buy")
    OBVIOUS
  <2>2. PICK b : b = TRUE
    OBVIOUS
  <2>3. P!Local(P!Cancels(run, os, b, "plan"))
    BY <1>3, <2>1, <2>2
  <2>4. Still /\ Stays /\ Withdraws(os, b, "plan")
    BY <2>3, ClearsRun
  <2>. QED
    BY <1>1, <1>3, <2>1, <2>2, <2>4 DEF P!Side
<1>. QED
  BY <1>2, <1>3 DEF P!Start

\* A sale is asked for: nothing is held, or sells are withdrawn first, or the
\* shares are not locked.
Offers(s, n, back) ==
    \/ run.held[s] = 0 /\ SameSale /\ GoesTo(back)
    \/ /\ run.held[s] # 0
       /\ run'.side = s /\ run'.asked = n /\ run'.back = back /\ run'.tried = run.tried
       /\ \/ P!Of(run.orders, s, "sell") # {} /\ Withdraws(P!Of(run.orders, s, "sell"), TRUE, "sell")
          \/ P!Of(run.orders, s, "sell") = {} /\ GoesTo("sell")
          \/ ~(n > P!Sellable(run.held, run.orders, s)) /\ GoesTo("sell")

LEMMA SellsRun ==
    ASSUME NEW s, NEW n, NEW back, P!Local(P!Sells(run, s, n, back)), DOMAIN run = Fields
    PROVE  /\ Still /\ SameSeen /\ SamePlan /\ SameChoice /\ SameTerms
           /\ Offers(s, n, back)
<1>1. run' = P!Sells(run, s, n, back)
  BY Unwrites
<1>2. AsksToSell(run', run, s, n, back)
  BY <1>1, SellsFields
<1>3. Still
  BY <1>2, Unwrites DEF AsksToSell, Copies, Still, SameGiven
<1>4. SameSeen /\ SamePlan /\ SameChoice /\ SameTerms
  BY <1>2 DEF AsksToSell, Copies, SameSeen, SamePlan, SameChoice, SameTerms
<1>5. Offers(s, n, back)
  BY <1>2 DEF AsksToSell, Moves, CopiesSale, Offers, SameSale, GoesTo, Withdraws
<1>. QED
  BY <1>3, <1>4, <1>5

LEMMA PlanDoes ==
    ASSUME P!Plan, DOMAIN run = Fields
    PROVE  /\ run.pc = "plan" /\ Still /\ SameSeen /\ SameChoice /\ SameTerms
           /\ run'.had = run.held[run.view.side]
           /\ run'.gap = P!Larger(P!Target(run.view.side) - run.held[run.view.side], 0)
           /\ run'.blocked <=> (P!Falls(run.view.side) /\ run'.gap > 0)
           /\ LET s == P!Opposite(run.view.side) IN Offers(s, run.held[s], "trim")
<1>. DEFINE v == run.view.side
            s == P!Opposite(v)
            gap == P!Larger(P!Target(v) - run.held[v], 0)
<1>1. PICK r : r = [run EXCEPT !.had = run.held[v], !.gap = gap,
                               !.blocked = P!Falls(v) /\ gap > 0]
  OBVIOUS
<1>2. /\ DOMAIN r = Fields /\ r.had = run.held[v] /\ r.gap = gap
      /\ r.blocked = (P!Falls(v) /\ gap > 0)
      /\ r.held = run.held /\ r.orders = run.orders /\ r.view = run.view
      /\ r.thesis = run.thesis /\ r.funds = run.funds /\ r.weather = run.weather
      /\ r.grade = run.grade /\ r.wants = run.wants /\ r.tight = run.tight
      /\ r.tier = run.tier /\ r.price = run.price /\ r.want = run.want /\ r.bought = run.bought
      /\ r.side = run.side /\ r.asked = run.asked /\ r.tried = run.tried /\ r.back = run.back
      /\ r.pc = run.pc /\ r.then = run.then /\ r.doomed = run.doomed /\ r.reload = run.reload
  BY <1>1 DEF Fields
<1>3. run.pc = "plan" /\ P!Local(P!Sells(r, s, run.held[s], "trim"))
  BY <1>1 DEF P!Plan, P!At, P!Side
<1>4. run' = P!Sells(r, s, run.held[s], "trim")
  BY <1>3, Unwrites
<1>5. PICK n : n = run.held[s]
  OBVIOUS
<1>. HIDE DEF v, s, gap
<1>6. AsksToSell(run', r, s, n, "trim")
  BY <1>2, <1>4, <1>5, SellsFields
<1>7. Still
  BY <1>2, <1>3, <1>6, Unwrites DEF AsksToSell, Copies, Still, SameGiven
<1>8. SameSeen /\ SameChoice /\ SameTerms /\ run'.had = run.held[v] /\ run'.gap = gap
      /\ run'.blocked = (P!Falls(v) /\ gap > 0)
  BY <1>2, <1>6 DEF AsksToSell, Copies, SameSeen, SameChoice, SameTerms
<1>9. Offers(s, n, "trim")
  BY <1>2, <1>6 DEF AsksToSell, Moves, CopiesSale, Offers, SameSale, GoesTo, Withdraws
<1>. QED
  BY <1>3, <1>5, <1>7, <1>8, <1>9 DEF v, s, gap

LEMMA TrimDoes ==
    ASSUME P!Trim, DOMAIN run = Fields
    PROVE  /\ run.pc = "trim" /\ Still /\ SameSeen /\ SamePlan /\ SameChoice /\ SameTerms
           /\ LET s == run.view.side IN
              \/ run.had > P!Target(s) /\ Offers(s, run.had - P!Target(s), "decide")
              \/ ~(run.had > P!Target(s)) /\ SameSale /\ GoesTo("decide")
<1>. DEFINE s == run.view.side
<1>1. run.pc = "trim"
  BY DEF P!Trim, P!At
<1>2. CASE run.had > P!Target(s) /\ P!Local(P!Sells(run, s, run.had - P!Target(s), "decide"))
  <2>1. PICK n : n = run.had - P!Target(s)
    OBVIOUS
  <2>2. P!Local(P!Sells(run, s, n, "decide"))
    BY <1>2, <2>1
  <2>. HIDE DEF s
  <2>3. Still /\ SameSeen /\ SamePlan /\ SameChoice /\ SameTerms /\ Offers(s, n, "decide")
    BY <2>2, SellsRun
  <2>. QED
    BY <1>1, <1>2, <2>1, <2>3 DEF s
<1>3. CASE ~(run.had > P!Target(s)) /\ P!Local(P!Goes(run, "decide"))
  BY <1>1, <1>3, GoesRun DEF Stays
<1>. QED
  BY <1>2, <1>3 DEF P!Trim, P!Excess, P!Side

\* An order is added, under an id that no known order has.
Adds(s, way, n, tier, price) ==
    \E x : /\ orders' = orders \cup {x}
           /\ x.id \in Nat /\ x.side = s /\ x.way = way /\ x.left = n
           /\ x.tier = tier /\ x.price = price
           /\ x = [id |-> x.id, side |-> s, way |-> way, left |-> n, tier |-> tier, price |-> price]
           /\ \A y \in orders \cup run.orders \cup run.doomed : y.id < x.id

\* The exchange takes an order under an id that no known order has.
LEMMA HighestId ==
    ASSUME NEW S, IsFiniteSet(S), \A o \in S : o.id \in Nat, S # {}
    PROVE  \E m \in S : \A y \in S : y.id <= m.id
<1>. DEFINE Bad == {k \in Nat : \E t \in SUBSET S : t # {} /\ Cardinality(t) = k
                                   /\ ~ \E m \in t : \A y \in t : y.id <= m.id}
<1>1. ASSUME Bad # {} PROVE FALSE
  <2>1. PICK k \in Bad : \A j \in Bad : k <= j
    <3>. HIDE DEF Bad
    <3>1. Bad \subseteq Nat
      BY DEF Bad
    <3>. QED
      BY <1>1, <3>1, LeastNumber
  <2>2. PICK t \in SUBSET S : t # {} /\ Cardinality(t) = k /\ ~ \E m \in t : \A y \in t : y.id <= m.id
    OBVIOUS
  <2>3. PICK x \in t : TRUE
    BY <2>2
  <2>. DEFINE u == t \ {x}
  <2>4. Cardinality(u) \in Nat /\ Cardinality(u) < k /\ u \in SUBSET S
    BY <2>2, OneLess, FS_Subset
  <2>5. CASE u = {}
    BY <2>2, <2>3, <2>5
  <2>6. CASE u # {}
    <3>1. PICK m \in u : \A y \in u : y.id <= m.id
      <4>1. CASE ~ \E m \in u : \A y \in u : y.id <= m.id
        <5>1. Cardinality(u) \in Bad
          BY <2>4, <2>6, <4>1
        <5>2. k <= Cardinality(u)
          BY <2>1, <5>1
        <5>. QED
          BY <2>4, <5>2
      <4>. QED
        BY <4>1
    <3>2. m \in t /\ x.id \in Nat /\ m.id \in Nat /\ \A y \in t : y = x \/ y \in u
      OBVIOUS
    <3>3. CASE x.id <= m.id
      BY <2>2, <3>1, <3>2, <3>3
    <3>4. CASE ~(x.id <= m.id)
      <4>1. \A y \in t : y.id <= x.id
        BY <3>1, <3>2, <3>4
      <4>. QED
        BY <2>2, <2>3, <4>1
    <3>. QED
      BY <3>3, <3>4
  <2>. QED
    BY <2>5, <2>6
<1>2. Cardinality(S) \in Nat
  BY FS_CardinalityType
<1>. QED
  BY <1>1, <1>2

LEMMA TakesDoes ==
    ASSUME PositionTypes, NEW s, NEW way, NEW n, NEW tier, NEW price, P!Takes(s, way, n, tier, price)
    PROVE  Adds(s, way, n, tier, price)
<1>. DEFINE os == orders \cup run.orders \cup run.doomed
            ids == {o.id : o \in os}
            all == ids \cup {0}
<1>1. os \subseteq P!Order /\ IsFiniteSet(os)
  BY FS_Union, FS_Subset DEF PositionTypes, Account, HasReadTypes
<1>3. all \subseteq Nat /\ all # {} /\ 0 \in all
  BY <1>1 DEF P!Order
<1>4. \E m \in all : \A k \in all : k <= m
  <2>1. CASE os = {}
    BY <2>1
  <2>2. CASE os # {}
    <3>1. \A o \in os : o.id \in Nat
      BY <1>1 DEF P!Order
    <3>2. PICK o \in os : \A y \in os : y.id <= o.id
      <4>. HIDE DEF os
      <4>. QED
        BY <1>1, <2>2, <3>1, HighestId
    <3>3. o.id \in all /\ o.id \in Nat /\ \A k \in all : k <= o.id
      BY <3>1, <3>2
    <3>. QED
      BY <3>3
  <2>. QED
    BY <2>1, <2>2
<1>5. P!Max(all) \in all /\ \A k \in all : k <= P!Max(all)
  BY <1>4 DEF P!Max
<1>6. PICK m : m = P!Max(all)
  OBVIOUS
<1>. DEFINE x == [id |-> 1 + m, side |-> s, way |-> way, left |-> n, tier |-> tier, price |-> price]
<1>7. orders' = orders \cup {x}
  BY <1>6 DEF P!Takes
<1>8. x.id \in Nat /\ x.side = s /\ x.way = way /\ x.left = n /\ x.tier = tier /\ x.price = price
  BY <1>3, <1>5, <1>6
<1>9. \A y \in os : y.id < x.id
  <2>1. \A y \in os : y.id \in all /\ y.id \in Nat
    BY <1>1 DEF P!Order
  <2>2. \A k \in all : k <= m
    BY <1>5, <1>6
  <2>3. x.id = 1 + m /\ m \in Nat
    BY <1>3, <1>5, <1>6
  <2>. HIDE DEF all, os, x
  <2>. QED
    BY <2>1, <2>2, <2>3
<1>10. x = [id |-> x.id, side |-> s, way |-> way, left |-> n, tier |-> tier, price |-> price]
  OBVIOUS
<1>. HIDE DEF x
<1>. QED
  BY <1>7, <1>8, <1>9, <1>10 DEF Adds

TooFew == P!ForSale < MinShares /\ Still /\ Stays /\ GoesTo(run.back)
Sold ==
    /\ P!ForSale >= MinShares /\ P!Fits(run.side, P!ForSale)
    /\ Adds(run.side, "sell", P!ForSale, 0, 0)
    /\ Unlasting /\ run'.bought = run.bought /\ Stays /\ GoesTo(run.back)

LEMMA TooFewDoes ==
    ASSUME P!TooFewToSell, DOMAIN run = Fields
    PROVE  TooFew
<1>1. P!ForSale < MinShares /\ P!Local(P!Goes(run, run.back))
  BY DEF P!TooFewToSell
<1>2. PICK b : b = run.back
  OBVIOUS
<1>3. Still /\ Stays /\ GoesTo(b)
  BY <1>1, <1>2, GoesRun
<1>. QED
  BY <1>1, <1>2, <1>3 DEF TooFew

LEMMA AcceptedDoes ==
    ASSUME P!Accepted, PositionTypes
    PROVE  Sold
<1>1. /\ P!ForSale >= MinShares /\ P!Fits(run.side, P!ForSale)
      /\ P!Takes(run.side, "sell", P!ForSale, 0, 0) /\ run' = P!Goes(run, run.back)
      /\ held' = held /\ market' = market /\ note' = note /\ last' = last
  BY DEF P!Accepted
<1>2. DOMAIN run = Fields
  BY DEF PositionTypes, Given
<1>3. PICK n, s : n = P!ForSale /\ s = run.side
  OBVIOUS
<1>4. Adds(s, "sell", n, 0, 0)
  BY <1>1, <1>3, TakesDoes
<1>5. PICK b : b = run.back
  OBVIOUS
<1>6. Copies(run', run) /\ CopiesSale(run', run) /\ Moves(run', run, b)
  BY <1>1, <1>2, <1>5, GoesFields
<1>7. Unlasting /\ run'.bought = run.bought
  BY <1>1, <1>6 DEF Copies, CopiesSale, Unlasting, SameGiven
<1>8. Stays
  BY <1>6 DEF Copies, CopiesSale, Stays, SameSeen, SamePlan, SameSale, SameChoice, SameTerms
<1>9. GoesTo(run.back)
  BY <1>5, <1>6 DEF Moves, GoesTo
<1>. QED
  BY <1>1, <1>3, <1>4, <1>7, <1>8, <1>9 DEF Sold

LEMMA SellDoes ==
    ASSUME P!Sell, PositionTypes
    PROVE  /\ run.pc = "sell"
           /\ \/ TooFew \/ Sold
              \/ /\ P!ForSale >= MinShares /\ ~P!Fits(run.side, P!ForSale)
                 /\ Still /\ SameSeen /\ SamePlan /\ SameChoice /\ SameTerms /\ Rereads("resell")
                 /\ run'.tried = P!ForSale /\ run'.side = run.side /\ run'.asked = run.asked
                 /\ run'.back = run.back
<1>1. run.pc = "sell" /\ DOMAIN run = Fields
  BY DEF P!Sell, P!At, PositionTypes, Given
<1>2. CASE P!TooFewToSell
  BY <1>1, <1>2, TooFewDoes
<1>3. CASE P!Accepted
  BY <1>1, <1>3, AcceptedDoes
<1>4. CASE /\ P!ForSale >= MinShares /\ ~P!Fits(run.side, P!ForSale)
           /\ P!Local(P!Reloads([run EXCEPT !.tried = P!ForSale], "resell"))
  <2>1. PICK r : r = [run EXCEPT !.tried = P!ForSale]
    OBVIOUS
  <2>2. /\ DOMAIN r = Fields /\ r.tried = P!ForSale
        /\ Copies(r, run) /\ r.side = run.side /\ r.asked = run.asked /\ r.back = run.back
        /\ r.doomed = run.doomed /\ r.reload = run.reload
    BY <1>1, <2>1 DEF Fields, Copies
  <2>3. run' = P!Reloads(r, "resell") /\ held' = held /\ orders' = orders /\ market' = market
        /\ note' = note /\ last' = last
    BY <1>4, <2>1, Unwrites
  <2>4. /\ Copies(run', r) /\ CopiesSale(run', r)
        /\ run'.pc = "positions" /\ run'.then = "resell" /\ run'.doomed = r.doomed
        /\ run'.reload = r.reload
    BY <2>2, <2>3, ReloadsFields
  <2>5. Still
    BY <2>2, <2>3, <2>4 DEF Copies, Still, SameGiven
  <2>6. SameSeen /\ SamePlan /\ SameChoice /\ SameTerms /\ Rereads("resell")
    BY <2>2, <2>4 DEF Copies, SameSeen, SamePlan, SameChoice, SameTerms, Rereads
  <2>7. run'.tried = P!ForSale /\ run'.side = run.side /\ run'.asked = run.asked /\ run'.back = run.back
    BY <2>2, <2>4 DEF CopiesSale
  <2>. QED
    BY <1>1, <1>4, <2>5, <2>6, <2>7
<1>. QED
  BY <1>2, <1>3, <1>4 DEF P!Sell

LEMMA ResellDoes ==
    ASSUME P!Resell, DOMAIN run = Fields
    PROVE  /\ run.pc = "resell" /\ Still /\ Stays
           /\ Withdraws(P!Of(run.orders, run.side, "sell"), TRUE, "retry")
<1>1. run.pc = "resell"
  BY DEF P!Resell, P!At
<1>2. PICK os : os = P!Of(run.orders, run.side, "sell")
  OBVIOUS
<1>3. PICK b : b = TRUE
  OBVIOUS
<1>4. P!Local(P!Cancels(run, os, b, "retry"))
  BY <1>2, <1>3 DEF P!Resell
<1>5. Still /\ Stays /\ Withdraws(os, b, "retry")
  BY <1>4, ClearsRun
<1>. QED
  BY <1>1, <1>2, <1>3, <1>5

LEMMA RetryDoes ==
    ASSUME P!Retry, PositionTypes
    PROVE  run.pc = "retry" /\ (TooFew \/ Sold)
<1>1. run.pc = "retry" /\ DOMAIN run = Fields
  BY DEF P!Retry, P!At, PositionTypes, Given
<1>. QED
  BY <1>1, TooFewDoes, AcceptedDoes DEF P!Retry

LEMMA DecideDoes ==
    ASSUME P!Decide, DOMAIN run = Fields
    PROVE  LET wants == run.gap > 0 /\ ~run.blocked /\ run.view.part > 0
               tight == ~run.view.strong /\ wants /\ run.view.grade = "two" /\ run.funds.rich
           IN  /\ run.pc = "decide" /\ Still /\ SameSeen /\ SamePlan /\ SameSale /\ SameTerms
               /\ run'.grade = run.view.grade
               /\ run'.wants <=> wants
               /\ run'.tight <=> tight
               /\ \/ wants /\ (run.view.strong \/ tight) /\ GoesTo("unlock")
                  \/ /\ ~(wants /\ (run.view.strong \/ tight))
                     /\ Withdraws(P!Of(run.orders, run.view.side, "buy"), FALSE, "unlock")
<1>. DEFINE wants == run.gap > 0 /\ ~run.blocked /\ run.view.part > 0
            tight == ~run.view.strong /\ wants /\ run.view.grade = "two" /\ run.funds.rich
<1>1. PICK r : r = [run EXCEPT !.grade = run.view.grade, !.wants = wants, !.tight = tight]
  OBVIOUS
<1>2. /\ DOMAIN r = Fields /\ r.grade = run.view.grade /\ r.wants = wants /\ r.tight = tight
      /\ r.held = run.held /\ r.orders = run.orders /\ r.view = run.view
      /\ r.thesis = run.thesis /\ r.funds = run.funds /\ r.weather = run.weather
      /\ r.had = run.had /\ r.gap = run.gap /\ r.blocked = run.blocked
      /\ r.tier = run.tier /\ r.price = run.price /\ r.want = run.want /\ r.bought = run.bought
      /\ r.side = run.side /\ r.asked = run.asked /\ r.tried = run.tried /\ r.back = run.back
      /\ r.pc = run.pc /\ r.then = run.then /\ r.doomed = run.doomed /\ r.reload = run.reload
  BY <1>1 DEF Fields
<1>3. run.pc = "decide"
  BY DEF P!Decide, P!At
<1>4. PICK os : os = P!Of(run.orders, run.view.side, "buy")
  OBVIOUS
<1>5. P!Local(IF wants /\ (run.view.strong \/ tight) THEN P!Goes(r, "unlock")
              ELSE P!Cancels(r, os, FALSE, "unlock"))
  BY <1>1, <1>4 DEF P!Decide, P!Side
<1>6. held' = held /\ orders' = orders /\ market' = market /\ note' = note /\ last' = last
  BY <1>5, Unwrites
<1>. HIDE DEF wants, tight
<1>7. /\ Copies(run', r) /\ CopiesSale(run', r)
      /\ \/ wants /\ (run.view.strong \/ tight) /\ Moves(run', r, "unlock")
         \/ /\ ~(wants /\ (run.view.strong \/ tight))
            /\ \/ os = {} /\ Moves(run', r, "unlock")
               \/ /\ os # {} /\ run'.pc = "cancel" /\ run'.then = "unlock"
                  /\ run'.doomed = os /\ run'.reload = FALSE
  <2>1. CASE wants /\ (run.view.strong \/ tight)
    <3>1. run' = P!Goes(r, "unlock")
      BY <1>5, <2>1, Unwrites
    <3>. QED
      BY <1>2, <2>1, <3>1, GoesFields
  <2>2. CASE ~(wants /\ (run.view.strong \/ tight))
    <3>1. run' = P!Cancels(r, os, FALSE, "unlock")
      BY <1>5, <2>2, Unwrites
    <3>2. Clears(run', r, os, FALSE, "unlock")
      BY <1>2, <3>1, CancelsFields
    <3>. QED
      BY <2>2, <3>2 DEF Clears
  <2>. QED
    BY <2>1, <2>2
<1>8. Still
  BY <1>2, <1>6, <1>7 DEF Copies, Still, SameGiven
<1>9. SameSeen /\ SamePlan /\ SameSale /\ SameTerms /\ run'.grade = run.view.grade
      /\ run'.wants = wants /\ run'.tight = tight
  BY <1>2, <1>7 DEF Copies, CopiesSale, SameSeen, SamePlan, SameSale, SameTerms
<1>10. \/ wants /\ (run.view.strong \/ tight) /\ GoesTo("unlock")
       \/ ~(wants /\ (run.view.strong \/ tight)) /\ Withdraws(os, FALSE, "unlock")
  BY <1>2, <1>7 DEF Moves, GoesTo, Withdraws
<1>. QED
  BY <1>3, <1>4, <1>8, <1>9, <1>10 DEF wants, tight

LEMMA UnlockDoes ==
    ASSUME P!Unlock, DOMAIN run = Fields
    PROVE  /\ run.pc = "unlock" /\ Still /\ Stays
           /\ LET s == run.view.side
                  frees == /\ run.view.strong \/ run.tight
                           /\ run.held[s] > 0 /\ ~(run.had > P!Target(s))
              IN  \/ frees /\ Withdraws(P!Of(run.orders, s, "sell"), TRUE, "terms")
                  \/ ~frees /\ GoesTo("terms")
<1>. DEFINE s == run.view.side
            frees == /\ run.view.strong \/ run.tight
                     /\ run.held[s] > 0 /\ ~(run.had > P!Target(s))
<1>1. run.pc = "unlock"
  BY DEF P!Unlock, P!At
<1>2. PICK os : os = P!Of(run.orders, s, "sell")
  OBVIOUS
<1>3. PICK b : b = TRUE
  OBVIOUS
<1>4. P!Local(IF frees THEN P!Cancels(run, os, b, "terms") ELSE P!Goes(run, "terms"))
  BY <1>2, <1>3 DEF P!Unlock, P!Side, P!Excess
<1>. HIDE DEF frees, s
<1>5. CASE frees
  BY <1>4, <1>5, ClearsRun, <1>1, <1>2, <1>3 DEF frees, s
<1>6. CASE ~frees
  BY <1>4, <1>6, GoesRun, <1>1 DEF frees, s
<1>. QED
  BY <1>5, <1>6

LEMMA TermsDoes ==
    ASSUME P!Terms, DOMAIN run = Fields
    PROVE  LET tier == IF run.grade = "one" /\ ~run.view.wide THEN 1
                       ELSE IF run.grade = "two" /\ run.funds.rich THEN 2 ELSE 0
           IN  /\ run.pc = "terms" /\ Still /\ SameSeen /\ SamePlan /\ SameSale /\ SameChoice
               /\ \/ (tier = 0 \/ ~run.wants) /\ SameTerms /\ GoesTo("end")
                  \/ /\ ~(tier = 0 \/ ~run.wants) /\ GoesTo("stale")
                     /\ run'.tier = tier /\ run'.price = run.view.price
                     /\ run'.want = WantOf(run.gap, run.view, run.funds)
<1>. DEFINE tier == IF run.grade = "one" /\ ~run.view.wide THEN 1
                    ELSE IF run.grade = "two" /\ run.funds.rich THEN 2 ELSE 0
            want == WantOf(run.gap, run.view, run.funds)
<1>1. run.pc = "terms"
  BY DEF P!Terms, P!At
<1>2. P!Local(IF tier = 0 \/ ~run.wants THEN P!Goes(run, "end")
              ELSE [run EXCEPT !.pc = "stale", !.tier = tier, !.price = run.view.price,
                               !.want = want])
  BY DEF P!Terms, WantOf
<1>. HIDE DEF tier, want
<1>3. CASE tier = 0 \/ ~run.wants
  BY <1>1, <1>2, <1>3, GoesRun DEF Stays, tier, want
<1>4. CASE ~(tier = 0 \/ ~run.wants)
  <2>1. run' = [run EXCEPT !.pc = "stale", !.tier = tier, !.price = run.view.price, !.want = want]
        /\ held' = held /\ orders' = orders /\ market' = market /\ note' = note /\ last' = last
    BY <1>2, <1>4, Unwrites
  <2>2. Still /\ SameSeen /\ SamePlan /\ SameSale /\ SameChoice
    BY <2>1 DEF Fields, Still, SameGiven, SameSeen, SamePlan, SameSale, SameChoice
  <2>3. GoesTo("stale") /\ run'.tier = tier /\ run'.price = run.view.price /\ run'.want = want
    BY <2>1 DEF Fields, GoesTo
  <2>. QED
    BY <1>1, <1>4, <2>2, <2>3 DEF tier, want
<1>. QED
  BY <1>3, <1>4

LEMMA StaleDoes ==
    ASSUME P!Stale, DOMAIN run = Fields
    PROVE  /\ run.pc = "stale" /\ Still /\ Stays
           /\ Withdraws(P!Of(run.orders, run.view.side, "buy") \ P!Aligned, TRUE, "oversized")
<1>1. run.pc = "stale"
  BY DEF P!Stale, P!At
<1>2. PICK os : os = P!Of(run.orders, run.view.side, "buy") \ P!Aligned
  OBVIOUS
<1>3. PICK b : b = TRUE
  OBVIOUS
<1>4. P!Local(P!Cancels(run, os, b, "oversized"))
  BY <1>2, <1>3 DEF P!Stale, P!Side
<1>5. Still /\ Stays /\ Withdraws(os, b, "oversized")
  BY <1>4, ClearsRun
<1>. QED
  BY <1>1, <1>2, <1>3, <1>5

LEMMA OversizedDoes ==
    ASSUME P!Oversized, DOMAIN run = Fields
    PROVE  /\ run.pc = "oversized" /\ Still /\ Stays
           /\ \/ P!Left(P!Aligned) > run.want /\ Withdraws(P!Aligned, TRUE, "buy")
              \/ ~(P!Left(P!Aligned) > run.want) /\ GoesTo("buy")
<1>1. run.pc = "oversized"
  BY DEF P!Oversized, P!At
<1>2. PICK os : os = P!Aligned
  OBVIOUS
<1>3. PICK b : b = TRUE
  OBVIOUS
<1>4. CASE P!Left(os) > run.want /\ P!Local(P!Cancels(run, os, b, "buy"))
  <2>1. Still /\ Stays /\ Withdraws(os, b, "buy")
    BY <1>4, ClearsRun
  <2>. QED
    BY <1>1, <1>2, <1>3, <1>4, <2>1
<1>5. CASE ~(P!Left(os) > run.want) /\ P!Local(P!Goes(run, "buy"))
  BY <1>1, <1>2, <1>5, GoesRun
<1>. QED
  BY <1>2, <1>3, <1>4, <1>5 DEF P!Oversized

LEMMA BuyDoes ==
    ASSUME P!Buy, PositionTypes
    PROVE  /\ run.pc = "buy"
           /\ \/ P!Missing < MinShares /\ Still /\ Stays /\ GoesTo("end")
              \/ /\ P!Missing >= MinShares /\ Unlasting /\ Stays /\ GoesTo("end")
                 /\ run'.bought = P!Missing
                 /\ Adds(run.view.side, "buy", P!Missing, run.tier, run.price)
              \/ run.weather # "calm" /\ Still /\ Stays /\ GoesTo("end")
<1>1. run.pc = "buy" /\ DOMAIN run = Fields
  BY DEF P!Buy, P!At, PositionTypes, Given
<1>2. CASE P!Missing < MinShares /\ P!Local(P!Goes(run, "end"))
  BY <1>1, <1>2, GoesRun
<1>3. CASE run.weather # "calm" /\ P!Local(P!Goes(run, "end"))
  BY <1>1, <1>3, GoesRun
<1>4. CASE /\ P!Missing >= MinShares
           /\ P!Takes(P!Side, "buy", P!Missing, run.tier, run.price)
           /\ run' = [run EXCEPT !.pc = "end", !.bought = P!Missing]
           /\ UNCHANGED <<held, market, trades, note, last, runs>>
  <2>1. PICK s, n, t, p : s = P!Side /\ n = P!Missing /\ t = run.tier /\ p = run.price
    OBVIOUS
  <2>2. Adds(s, "buy", n, t, p)
    BY <1>4, <2>1, TakesDoes
  <2>3. Unlasting
    BY <1>1, <1>4 DEF Fields, Unlasting, SameGiven
  <2>4. Stays /\ GoesTo("end") /\ run'.bought = P!Missing
    BY <1>1, <1>4 DEF Fields, Stays, SameSeen, SamePlan, SameSale, SameChoice, SameTerms, GoesTo
  <2>. QED
    BY <1>1, <1>4, <2>1, <2>2, <2>3, <2>4 DEF P!Side
<1>. QED
  BY <1>2, <1>3, <1>4 DEF P!Buy

-----------------------------------------------------------------------------
\* Types.

LEMMA StillTypes ==
    ASSUME PositionTypes, Still, SameSeen, run.pc # "idle", Figures', Marked', Selects',
           run'.pc \in {"positions", "orders", "cancel"} \cup Begun, run'.then \in Begun,
           run'.doomed \subseteq run.orders, run'.pc # "cancel" => run'.doomed = {}
    PROVE  PositionTypes'
<1>1. Account'
  BY DEF PositionTypes, Account, Still
<1>2. Given'
  BY DEF PositionTypes, Given, Still, SameGiven, SameSeen
<1>3. HasReadTypes'
  BY DEF PositionTypes, HasReadTypes, SameSeen
<1>4. Named'
  BY DEF PositionTypes, Named, Still, SameSeen
<1>. QED
  BY <1>1, <1>2, <1>3, <1>4 DEF PositionTypes

\* A step of the run that only goes on, or first withdraws orders.
LEMMA WithdrawingTypes ==
    ASSUME PositionTypes, Still, SameSeen, run.pc \in Begun, Figures', Selects',
           NEW os, NEW again, NEW to, Withdraws(os, again, to), to \in Cleared,
           os \subseteq run.orders,
           \A o \in os :
              /\ o.way = IF to \in {"sell", "retry", "terms"} THEN "sell" ELSE "buy"
              /\ to = "plan" => o.side # run.view.side
              /\ to \in {"sell", "retry"} => o.side = run'.side
              /\ to \in {"unlock", "terms", "oversized", "buy"} => o.side = run.view.side
              /\ to = "oversized" => o.tier # run'.tier \/ o.price # run'.price
    PROVE  PositionTypes'
<1>1. run.pc # "idle" /\ run.pc # "cancel" /\ run.doomed = {} /\ run.then \in Begun
  BY DEF PositionTypes, Begun, HasReadTypes, Given
<1>2. to \in Begun /\ to # "cancel"
  BY DEF Cleared, Begun
<1>3. run'.view = run.view
  BY DEF SameSeen
<1>4. CASE os = {} /\ GoesTo(to)
  <2>1. Marked'
    BY <1>2, <1>4 DEF Marked, GoesTo
  <2>. QED
    BY <1>1, <1>2, <1>4, <2>1, StillTypes DEF GoesTo
<1>5. CASE /\ os # {} /\ run'.pc = "cancel" /\ run'.then = to
           /\ run'.doomed = os /\ run'.reload = again
  <2>1. Marked'
    BY <1>3, <1>5 DEF Marked
  <2>. QED
    BY <1>1, <1>2, <1>5, <2>1, StillTypes
<1>. QED
  BY <1>4, <1>5 DEF Withdraws

LEMMA GoingTypes ==
    ASSUME PositionTypes, Still, SameSeen, run.pc \in Begun, Figures', Selects',
           NEW to, GoesTo(to), to \in Begun
    PROVE  PositionTypes'
<1>1. run.pc # "idle" /\ run.pc # "cancel" /\ run.doomed = {} /\ run.then \in Begun
  BY DEF PositionTypes, Begun, HasReadTypes, Given
<1>2. to # "cancel"
  BY DEF Begun
<1>3. Marked'
  BY <1>2 DEF Marked, GoesTo
<1>. QED
  BY <1>1, <1>2, <1>3, StillTypes DEF GoesTo

LEMMA LoadPositionsTypes ==
    ASSUME PositionTypes, P!LoadPositions
    PROVE  PositionTypes'
<1>1. DOMAIN run = Fields
  BY DEF PositionTypes, Given
<1>2. /\ run.pc = "positions" /\ Still /\ GoesTo("orders")
      /\ run'.held = held /\ run'.orders = run.orders /\ run'.view = run.view
      /\ SamePlan /\ SameSale /\ SameChoice /\ SameTerms
  BY <1>1, LoadPositionsDoes
<1>3. Account'
  BY <1>2 DEF PositionTypes, Account, Still
<1>4. Given'
  BY <1>2 DEF PositionTypes, Given, Still, SameGiven, GoesTo
<1>5. HasReadTypes'
  BY <1>2 DEF PositionTypes, HasReadTypes, Account, GoesTo
<1>6. Figures'
  BY <1>2 DEF PositionTypes, Figures, Still, SamePlan, SameSale, SameTerms
<1>7. Named'
  BY <1>2 DEF PositionTypes, Named, Still
<1>8. Marked'
  BY <1>2 DEF Marked, GoesTo
<1>9. Selects'
  BY <1>2 DEF PositionTypes, Selects, Selling, Ahead, Waiting, GoesTo, SameSale
<1>. QED
  BY <1>3, <1>4, <1>5, <1>6, <1>7, <1>8, <1>9 DEF PositionTypes

LEMMA LoadOrdersTypes ==
    ASSUME PositionTypes, P!LoadOrders
    PROVE  PositionTypes'
<1>1. DOMAIN run = Fields
  BY DEF PositionTypes, Given
<1>2. /\ run.pc = "orders" /\ Still /\ GoesTo(run.then)
      /\ run'.held = run.held /\ run'.orders = orders /\ run'.view = market
      /\ SamePlan /\ SameSale /\ SameChoice /\ SameTerms
  BY <1>1, LoadOrdersDoes
<1>a. run.then \in Begun /\ run.then # "cancel" /\ run.doomed = {}
  BY <1>2 DEF PositionTypes, Given, Begun, HasReadTypes
<1>3. Account'
  BY <1>2 DEF PositionTypes, Account, Still
<1>4. Given'
  BY <1>2 DEF PositionTypes, Given, Still, SameGiven, GoesTo
<1>5. HasReadTypes'
  BY <1>2, <1>a DEF PositionTypes, HasReadTypes, Account, GoesTo
<1>6. Figures'
  BY <1>2 DEF PositionTypes, Figures, Still, SamePlan, SameSale, SameTerms
<1>7. Named'
  BY <1>2 DEF PositionTypes, Named, Account, Still
<1>8. Marked'
  BY <1>2, <1>a DEF Marked, GoesTo
<1>9. Selects'
  BY <1>2, <1>a DEF PositionTypes, Selects, Selling, Ahead, Waiting, GoesTo, SameSale, Begun
<1>. QED
  BY <1>3, <1>4, <1>5, <1>6, <1>7, <1>8, <1>9 DEF PositionTypes

LEMMA CancelledTypes ==
    ASSUME PositionTypes, P!Cancelled
    PROVE  PositionTypes'
<1>1. DOMAIN run = Fields
  BY DEF PositionTypes, Given
<1>2. /\ run.pc = "cancel" /\ run.doomed = {} /\ Still /\ Stays
      /\ \/ run.reload /\ Rereads(run.then)
         \/ ~run.reload /\ GoesTo(run.then)
  BY <1>1, CancelledDoes
<1>3. run.then \in Begun /\ run.then # "cancel"
  BY DEF PositionTypes, Given, Begun
<1>4. Figures' /\ SameSeen
  BY <1>2 DEF PositionTypes, Figures, Still, Stays, SamePlan, SameSale, SameTerms
<1>5. Marked'
  BY <1>2, <1>3 DEF Marked, Rereads, GoesTo
<1>6. Selects'
  BY <1>2, <1>3 DEF PositionTypes, Selects, Selling, Ahead, Waiting, Rereads, GoesTo, Stays, SameSale, Begun
<1>7. /\ run'.pc \in {"positions", "orders", "cancel"} \cup Begun /\ run'.then \in Begun
      /\ run'.doomed = {}
  BY <1>2, <1>3 DEF Rereads, GoesTo
<1>. QED
  BY <1>2, <1>4, <1>5, <1>6, <1>7, StillTypes

LEMMA CancelTypes ==
    ASSUME PositionTypes, NEW o, P!Cancel(o)
    PROVE  PositionTypes'
<1>1. DOMAIN run = Fields
  BY DEF PositionTypes, Given
<1>2. /\ run.pc = "cancel" /\ o \in run.doomed
      /\ orders' = {x \in orders : x.id # o.id}
      /\ run'.pc = run.pc /\ run'.then = run.then /\ run'.reload = run.reload
      /\ run'.doomed = run.doomed \ {o}
      /\ Unlasting /\ Stays /\ run'.bought = run.bought
  BY <1>1, CancelDoes
<1>3. Account'
  <2>1. orders' \subseteq orders
    BY <1>2
  <2>2. IsFiniteSet(orders')
    BY <2>1, FS_Subset DEF PositionTypes, Account
  <2>. QED
    BY <1>2, <2>1, <2>2 DEF PositionTypes, Account, Unlasting
<1>4. Given'
  BY <1>2 DEF PositionTypes, Given, Unlasting, SameGiven, Stays, SameSeen
<1>5. HasReadTypes'
  BY <1>2 DEF PositionTypes, HasReadTypes, Stays, SameSeen
<1>6. Figures'
  BY <1>2 DEF PositionTypes, Figures, Stays, SamePlan, SameSale, SameTerms
<1>7. Named'
  BY <1>2 DEF PositionTypes, Named, Stays, SameSeen
<1>8. Marked'
  BY <1>2 DEF PositionTypes, Marked, Stays, SameSeen, SameTerms, SameSale
<1>9. Selects'
  BY <1>2 DEF PositionTypes, Selects, Selling, Ahead, Waiting, Stays, SameSale
<1>. QED
  BY <1>3, <1>4, <1>5, <1>6, <1>7, <1>8, <1>9 DEF PositionTypes

LEMMA StartTypes ==
    ASSUME PositionTypes, P!Start
    PROVE  PositionTypes'
<1>1. DOMAIN run = Fields
  BY DEF PositionTypes, Given
<1>2. /\ run.pc = "start" /\ Still /\ Stays
      /\ \/ Withdraws({o \in run.orders : o.way = "buy"}, FALSE, "end")
         \/ Withdraws(P!Of(run.orders, P!Opposite(run.view.side), "buy"), TRUE, "plan")
  BY <1>1, StartDoes
<1>3. Figures' /\ SameSeen
  BY <1>2 DEF PositionTypes, Figures, Still, Stays, SamePlan, SameSale, SameTerms
<1>4. run.pc \in Begun
  BY <1>2 DEF Begun
<1>5. Selects'
  BY <1>2 DEF PositionTypes, Selects, Selling, Ahead, Waiting, Stays, Withdraws, GoesTo, SameSale
<1>6. CASE Withdraws({o \in run.orders : o.way = "buy"}, FALSE, "end")
  <2>1. PICK os, b : os = {o \in run.orders : o.way = "buy"} /\ b = FALSE
    OBVIOUS
  <2>2. Withdraws(os, b, "end") /\ os \subseteq run.orders /\ \A o \in os : o.way = "buy"
    BY <1>6, <2>1
  <2>3. "end" \in Cleared
    BY DEF Cleared
  <2>. QED
    BY <1>2, <1>3, <1>4, <1>5, <2>2, <2>3, WithdrawingTypes
<1>7. CASE Withdraws(P!Of(run.orders, P!Opposite(run.view.side), "buy"), TRUE, "plan")
  <2>1. PICK os, b : os = P!Of(run.orders, P!Opposite(run.view.side), "buy") /\ b = TRUE
    OBVIOUS
  <2>2. Withdraws(os, b, "plan") /\ os \subseteq run.orders
        /\ \A o \in os : o.way = "buy" /\ o.side # run.view.side
    BY <1>7, <2>1 DEF P!Of, P!Opposite
  <2>3. "plan" \in Cleared
    BY DEF Cleared
  <2>. QED
    BY <1>2, <1>3, <1>4, <1>5, <2>2, <2>3, WithdrawingTypes
<1>. QED
  BY <1>2, <1>6, <1>7

LEMMA OffersTypes ==
    ASSUME PositionTypes, Still, SameSeen, run.pc \in {"plan", "trim"},
           run'.had \in Nat, run'.gap \in Nat, SameTerms,
           NEW s \in P!Sides, NEW n \in Nat, NEW back \in {"trim", "decide"}, Offers(s, n, back)
    PROVE  PositionTypes'
<1>1. run.pc \in Begun /\ back \in Begun /\ "sell" \in Begun /\ "sell" \in Cleared
  BY DEF Begun, Cleared
<1>2. CASE SameSale /\ GoesTo(back)
  <2>1. Figures'
    BY <1>2 DEF PositionTypes, Figures, Still, SameSale, SameTerms
  <2>2. Selects'
    BY <1>2 DEF Selects, Selling, Ahead, Waiting, GoesTo
  <2>. QED
    BY <1>1, <1>2, <2>1, <2>2, GoingTypes
<1>3. CASE run'.side = s /\ run'.asked = n /\ run'.back = back /\ run'.tried = run.tried
  <2>1. Figures'
    BY <1>3 DEF PositionTypes, Figures, Still, SameTerms
  <2>2. Selects'
    BY <1>3 DEF Selects
  <2>3. CASE GoesTo("sell")
    BY <1>1, <2>1, <2>2, <2>3, GoingTypes
  <2>4. CASE Withdraws(P!Of(run.orders, s, "sell"), TRUE, "sell")
    <3>1. PICK os, b : os = P!Of(run.orders, s, "sell") /\ b = TRUE
      OBVIOUS
    <3>2. Withdraws(os, b, "sell") /\ os \subseteq run.orders
          /\ \A o \in os : o.way = "sell" /\ o.side = run'.side
      BY <1>3, <2>4, <3>1 DEF P!Of
    <3>. QED
      BY <1>1, <2>1, <2>2, <3>2, WithdrawingTypes
  <2>. QED
    BY <2>3, <2>4, <1>2, <1>3 DEF Offers
<1>. QED
  BY <1>2, <1>3 DEF Offers

\* What the run reads, and what it works out, are numbers.
LEMMA ReadWeighs ==
    ASSUME PositionTypes, NEW os, os \subseteq run.orders
    PROVE  Weighed(os) /\ P!Left(os) \in Nat
<1>1. Weighed(os)
  BY FS_Subset DEF PositionTypes, HasReadTypes, P!Order, Weighed
<1>. QED
  BY <1>1, LeftIsNat

LEMMA ForSaleIsInt ==
    ASSUME PositionTypes
    PROVE  P!ForSale \in Int
<1>1. run.side \in P!Sides /\ run.asked \in Nat /\ run.held[run.side] \in Nat
  BY DEF PositionTypes, Figures, HasReadTypes
<1>2. P!Of(run.orders, run.side, "sell") \subseteq run.orders
  BY DEF P!Of
<1>3. P!Left(P!Of(run.orders, run.side, "sell")) \in Nat
  BY <1>2, ReadWeighs
<1>. QED
  BY <1>1, <1>3 DEF P!ForSale, P!Smaller, P!Sellable

LEMMA MissingIsInt ==
    ASSUME PositionTypes, run.pc # "idle"
    PROVE  P!Missing \in Int
<1>1. run.want \in Nat /\ run.funds.afford \in Nat
  BY PositionConstants DEF PositionTypes, Figures, Given
<1>2. P!Aligned \subseteq run.orders
  BY DEF P!Of, P!Aligned
<1>3. P!Left(P!Aligned) \in Nat
  BY <1>2, ReadWeighs
<1>. QED
  BY <1>1, <1>3 DEF P!Missing, P!Smaller

LEMMA AddsTypes ==
    ASSUME PositionTypes, NEW s \in P!Sides, NEW way \in {"buy", "sell"}, NEW n \in Nat, n > 0,
           NEW t \in 0..2, NEW p \in Nat, Adds(s, way, n, t, p), held' = held, note' = note
    PROVE  Account' /\ (run'.orders = run.orders => Named')
<1>1. PICK x : /\ orders' = orders \cup {x}
               /\ x.id \in Nat /\ x.side = s /\ x.way = way /\ x.left = n
               /\ x.tier = t /\ x.price = p
               /\ x = [id |-> x.id, side |-> s, way |-> way, left |-> n, tier |-> t, price |-> p]
               /\ \A y \in orders \cup run.orders \cup run.doomed : y.id < x.id
  BY DEF Adds
<1>2. x \in P!Order
  BY <1>1 DEF P!Order
<1>3. IsFiniteSet(orders')
  BY <1>1, FS_AddElement DEF PositionTypes, Account
<1>4. \A y \in orders : y.id \in Nat /\ y.id # x.id
  BY <1>1 DEF PositionTypes, Account, P!Order
<1>5. \A y \in run.orders : y.id \in Nat /\ y.id # x.id
  BY <1>1 DEF PositionTypes, HasReadTypes, P!Order
<1>6. orders' \subseteq P!Order /\ \A y \in orders' : y.left > 0
  BY <1>1, <1>2 DEF PositionTypes, Account
<1>7. \A y, z \in orders' : y.id = z.id => y = z
  BY <1>1, <1>4 DEF PositionTypes, Account
<1>8. Account'
  BY <1>3, <1>6, <1>7 DEF PositionTypes, Account
<1>9. ASSUME run'.orders = run.orders
      PROVE  Named'
  BY <1>1, <1>5, <1>9 DEF PositionTypes, Named
<1>. QED
  BY <1>8, <1>9

LEMMA PlanTypes ==
    ASSUME PositionTypes, P!Plan
    PROVE  PositionTypes'
<1>1. DOMAIN run = Fields
  BY DEF PositionTypes, Given
<1>2. PICK s : s = P!Opposite(run.view.side)
  OBVIOUS
<1>3. PICK n : n = run.held[s]
  OBVIOUS
<1>4. /\ run.pc = "plan" /\ Still /\ SameSeen /\ SameChoice /\ SameTerms
      /\ run'.had = run.held[run.view.side]
      /\ run'.gap = P!Larger(P!Target(run.view.side) - run.held[run.view.side], 0)
      /\ Offers(s, n, "trim")
  BY <1>1, <1>2, <1>3, PlanDoes
<1>5. run.view.side \in P!Sides /\ run.thesis \in Theses
  BY <1>4, PositionConstants DEF PositionTypes, Given
<1>6. s \in P!Sides
  BY <1>2 DEF P!Opposite, P!Sides
<1>7. n \in Nat /\ run'.had \in Nat
  BY <1>3, <1>4, <1>5, <1>6 DEF PositionTypes, HasReadTypes
<1>8. run'.gap \in Nat
  <2>1. PICK a : a = P!Target(run.view.side)
    OBVIOUS
  <2>2. a \in Nat
    BY <1>5, <2>1, TargetIsNat
  <2>. QED
    BY <1>4, <1>7, <2>1, <2>2 DEF P!Larger
<1>. QED
  BY <1>4, <1>6, <1>7, <1>8, OffersTypes

LEMMA TrimTypes ==
    ASSUME PositionTypes, P!Trim
    PROVE  PositionTypes'
<1>1. DOMAIN run = Fields
  BY DEF PositionTypes, Given
<1>2. PICK s, a, n : s = run.view.side /\ a = P!Target(s) /\ n = run.had - a
  OBVIOUS
<1>3. /\ run.pc = "trim" /\ Still /\ SameSeen /\ SamePlan /\ SameChoice /\ SameTerms
      /\ \/ run.had > a /\ Offers(s, n, "decide")
         \/ SameSale /\ GoesTo("decide")
  BY <1>1, <1>2, TrimDoes
<1>4. s \in P!Sides /\ run.thesis \in Theses
  BY <1>2, <1>3, PositionConstants DEF PositionTypes, Given
<1>5. a \in Nat
  BY <1>2, <1>4, TargetIsNat
<1>6. run'.had \in Nat /\ run'.gap \in Nat /\ run.had \in Nat
  BY <1>3 DEF PositionTypes, Figures, SamePlan
<1>7. CASE run.had > a /\ Offers(s, n, "decide")
  <2>1. n \in Nat
    BY <1>2, <1>5, <1>6, <1>7
  <2>. QED
    BY <1>3, <1>4, <1>6, <1>7, <2>1, OffersTypes
<1>8. CASE SameSale /\ GoesTo("decide")
  <2>1. Figures'
    BY <1>3, <1>8 DEF PositionTypes, Figures, Still, SamePlan, SameSale, SameTerms
  <2>2. Selects'
    BY <1>8 DEF Selects, Selling, Ahead, Waiting, GoesTo
  <2>3. run.pc \in Begun /\ "decide" \in Begun
    BY <1>3 DEF Begun
  <2>. QED
    BY <1>3, <1>8, <2>1, <2>2, <2>3, GoingTypes
<1>. QED
  BY <1>3, <1>7, <1>8

LEMMA TooFewTypes ==
    ASSUME PositionTypes, run.pc \in {"sell", "retry"}, TooFew
    PROVE  PositionTypes'
<1>1. Figures' /\ SameSeen /\ Still
  BY DEF PositionTypes, Figures, TooFew, Still, Stays, SamePlan, SameSale, SameTerms
<1>2. run.back \in {"trim", "decide"}
  BY DEF PositionTypes, Figures, Selects, Selling, Ahead, Waiting
<1>3. Selects'
  BY <1>2 DEF TooFew, Selects, Selling, Ahead, Waiting, GoesTo
<1>4. run.pc \in Begun /\ run.back \in Begun
  BY <1>2 DEF Begun
<1>5. PICK b : b = run.back
  OBVIOUS
<1>6. GoesTo(b) /\ b \in Begun
  BY <1>4, <1>5 DEF TooFew
<1>. QED
  BY <1>1, <1>3, <1>4, <1>6, GoingTypes

LEMMA SoldTypes ==
    ASSUME PositionTypes, run.pc \in {"sell", "retry"}, Sold
    PROVE  PositionTypes'
<1>1. run.back \in {"trim", "decide"}
  BY DEF PositionTypes, Figures, Selects, Selling, Ahead, Waiting
<1>2. /\ Unlasting /\ run'.bought = run.bought /\ Stays /\ run'.pc = run.back
      /\ run'.then = run.then /\ run'.doomed = run.doomed
  BY DEF Sold, GoesTo
<1>3. PICK s, n : s = run.side /\ n = P!ForSale
  OBVIOUS
<1>4. Adds(s, "sell", n, 0, 0) /\ s \in P!Sides /\ n \in Nat /\ n > 0
  BY <1>3, ForSaleIsInt, PositionConstants DEF Sold, PositionTypes, Figures
<1>5. Account' /\ Named'
  BY <1>2, <1>4, AddsTypes DEF Unlasting, Stays, SameSeen
<1>6. Given'
  BY <1>1, <1>2 DEF PositionTypes, Given, Unlasting, SameGiven, Stays, SameSeen, Begun
<1>7. HasReadTypes'
  BY <1>1, <1>2 DEF PositionTypes, HasReadTypes, Stays, SameSeen
<1>8. Figures'
  BY <1>2 DEF PositionTypes, Figures, Stays, SamePlan, SameSale, SameTerms
<1>9. Marked' /\ Selects'
  BY <1>1, <1>2 DEF Marked, Selects, Selling, Ahead, Waiting
<1>. QED
  BY <1>5, <1>6, <1>7, <1>8, <1>9 DEF PositionTypes

LEMMA SellTypes ==
    ASSUME PositionTypes, P!Sell
    PROVE  PositionTypes'
<1>1. run.pc = "sell" /\ run.pc \in Begun
  BY SellDoes DEF Begun
<1>2. CASE TooFew \/ Sold
  BY <1>1, <1>2, TooFewTypes, SoldTypes
<1>3. CASE /\ P!ForSale >= MinShares
           /\ Still /\ SameSeen /\ SamePlan /\ SameChoice /\ SameTerms /\ Rereads("resell")
           /\ run'.tried = P!ForSale /\ run'.side = run.side /\ run'.asked = run.asked
           /\ run'.back = run.back
  <2>1. P!ForSale \in Nat
    BY <1>3, ForSaleIsInt, PositionConstants
  <2>2. Figures'
    BY <1>3, <2>1 DEF PositionTypes, Figures, Still, SamePlan, SameTerms
  <2>3. Marked' /\ Selects'
    BY <1>1, <1>3 DEF PositionTypes, Marked, Selects, Selling, Ahead, Waiting, Rereads
  <2>4. run'.pc = "positions" /\ run'.then \in Begun /\ run'.doomed = {}
    BY <1>1, <1>3 DEF PositionTypes, HasReadTypes, Rereads, Begun
  <2>. QED
    BY <1>1, <1>3, <2>2, <2>3, <2>4, StillTypes
<1>. QED
  BY <1>2, <1>3, SellDoes

LEMMA RetryTypes ==
    ASSUME PositionTypes, P!Retry
    PROVE  PositionTypes'
BY RetryDoes, TooFewTypes, SoldTypes

LEMMA ResellTypes ==
    ASSUME PositionTypes, P!Resell
    PROVE  PositionTypes'
<1>1. DOMAIN run = Fields
  BY DEF PositionTypes, Given
<1>2. PICK os, b : os = P!Of(run.orders, run.side, "sell") /\ b = TRUE
  OBVIOUS
<1>3. run.pc = "resell" /\ Still /\ Stays /\ Withdraws(os, b, "retry")
  BY <1>1, <1>2, ResellDoes
<1>4. Figures' /\ SameSeen /\ run'.side = run.side
  BY <1>3 DEF PositionTypes, Figures, Still, Stays, SamePlan, SameSale, SameTerms
<1>5. Selects'
  BY <1>3 DEF PositionTypes, Selects, Selling, Ahead, Waiting, Stays, SameSale
<1>6. run.pc \in Begun /\ "retry" \in Cleared
  BY <1>3 DEF Begun, Cleared
<1>7. os \subseteq run.orders /\ \A o \in os : o.way = "sell" /\ o.side = run.side
  BY <1>2 DEF P!Of
<1>. QED
  BY <1>3, <1>4, <1>5, <1>6, <1>7, WithdrawingTypes

LEMMA DecideTypes ==
    ASSUME PositionTypes, P!Decide
    PROVE  PositionTypes'
<1>1. DOMAIN run = Fields
  BY DEF PositionTypes, Given
<1>2. PICK os, b : os = P!Of(run.orders, run.view.side, "buy") /\ b = FALSE
  OBVIOUS
<1>3. /\ run.pc = "decide" /\ Still /\ SameSeen /\ SamePlan /\ SameSale /\ SameTerms
      /\ GoesTo("unlock") \/ Withdraws(os, b, "unlock")
  BY <1>1, <1>2, DecideDoes
<1>4. Figures'
  BY <1>3 DEF PositionTypes, Figures, Still, SamePlan, SameSale, SameTerms
<1>5. Selects'
  BY <1>3 DEF Selects, Selling, Ahead, Waiting, Withdraws, GoesTo
<1>6. run.pc \in Begun /\ "unlock" \in Cleared /\ "unlock" \in Begun
  BY <1>3 DEF Begun, Cleared
<1>7. os \subseteq run.orders /\ \A o \in os : o.way = "buy" /\ o.side = run.view.side
  BY <1>2 DEF P!Of
<1>8. CASE GoesTo("unlock")
  BY <1>3, <1>4, <1>5, <1>6, <1>8, GoingTypes
<1>9. CASE Withdraws(os, b, "unlock")
  BY <1>3, <1>4, <1>5, <1>6, <1>7, <1>9, WithdrawingTypes
<1>. QED
  BY <1>3, <1>8, <1>9

LEMMA UnlockTypes ==
    ASSUME PositionTypes, P!Unlock
    PROVE  PositionTypes'
<1>1. DOMAIN run = Fields
  BY DEF PositionTypes, Given
<1>2. PICK os, b : os = P!Of(run.orders, run.view.side, "sell") /\ b = TRUE
  OBVIOUS
<1>3. /\ run.pc = "unlock" /\ Still /\ Stays
      /\ GoesTo("terms") \/ Withdraws(os, b, "terms")
  BY <1>1, <1>2, UnlockDoes
<1>4. Figures' /\ SameSeen
  BY <1>3 DEF PositionTypes, Figures, Still, Stays, SamePlan, SameSale, SameTerms
<1>5. Selects'
  BY <1>3 DEF Selects, Selling, Ahead, Waiting, Withdraws, GoesTo
<1>6. run.pc \in Begun /\ "terms" \in Cleared /\ "terms" \in Begun
  BY <1>3 DEF Begun, Cleared
<1>7. os \subseteq run.orders /\ \A o \in os : o.way = "sell" /\ o.side = run.view.side
  BY <1>2 DEF P!Of
<1>8. CASE GoesTo("terms")
  BY <1>3, <1>4, <1>5, <1>6, <1>8, GoingTypes
<1>9. CASE Withdraws(os, b, "terms")
  BY <1>3, <1>4, <1>5, <1>6, <1>7, <1>9, WithdrawingTypes
<1>. QED
  BY <1>3, <1>8, <1>9

LEMMA WantIsNat ==
    ASSUME NEW gap \in Nat, NEW v \in Views, NEW f \in Funds
    PROVE  WantOf(gap, v, f) \in Nat
<1>1. v.part \in 0..2 /\ f.afford \in Nat
  BY PositionConstants
<1>2. PICK h : h = (gap * v.part) \div 2
  OBVIOUS
<1>3. h \in Nat
  BY <1>1, <1>2, Halves
<1>. QED
  BY <1>1, <1>2, <1>3 DEF WantOf, P!Smaller

LEMMA TermsTypes ==
    ASSUME PositionTypes, P!Terms
    PROVE  PositionTypes'
<1>1. DOMAIN run = Fields
  BY DEF PositionTypes, Given
<1>2. /\ run.pc = "terms" /\ Still /\ SameSeen /\ SamePlan /\ SameSale /\ SameChoice
      /\ \/ SameTerms /\ GoesTo("end")
         \/ /\ GoesTo("stale")
            /\ run'.tier \in 0..2 /\ run'.price = run.view.price
            /\ run'.want = WantOf(run.gap, run.view, run.funds)
  BY <1>1, TermsDoes
<1>3. run.view \in Views /\ run.funds \in Funds /\ run.gap \in Nat
  BY <1>2 DEF PositionTypes, Given, Figures
<1>4. Figures'
  <2>1. CASE SameTerms
    BY <1>2, <2>1 DEF PositionTypes, Figures, Still, SamePlan, SameSale, SameTerms
  <2>2. CASE /\ run'.tier \in 0..2 /\ run'.price = run.view.price
             /\ run'.want = WantOf(run.gap, run.view, run.funds)
    <3>1. run'.want \in Nat
      BY <1>3, <2>2, WantIsNat
    <3>2. run'.price \in Nat
      BY <1>3, <2>2, PositionConstants
    <3>. QED
      BY <1>2, <2>2, <3>1, <3>2 DEF PositionTypes, Figures, Still, SamePlan, SameSale
  <2>. QED
    BY <1>2, <2>1, <2>2
<1>5. Selects'
  BY <1>2 DEF Selects, Selling, Ahead, Waiting, GoesTo
<1>6. run.pc \in Begun /\ "end" \in Begun /\ "stale" \in Begun
  BY <1>2 DEF Begun
<1>. QED
  BY <1>2, <1>4, <1>5, <1>6, GoingTypes

LEMMA StaleTypes ==
    ASSUME PositionTypes, P!Stale
    PROVE  PositionTypes'
<1>1. DOMAIN run = Fields
  BY DEF PositionTypes, Given
<1>2. PICK os, b : os = P!Of(run.orders, run.view.side, "buy") \ P!Aligned /\ b = TRUE
  OBVIOUS
<1>3. run.pc = "stale" /\ Still /\ Stays /\ Withdraws(os, b, "oversized")
  BY <1>1, <1>2, StaleDoes
<1>4. Figures' /\ SameSeen /\ SameTerms
  BY <1>3 DEF PositionTypes, Figures, Still, Stays, SamePlan, SameSale, SameTerms
<1>5. Selects'
  BY <1>3 DEF Selects, Selling, Ahead, Waiting, Withdraws, GoesTo
<1>6. run.pc \in Begun /\ "oversized" \in Cleared
  BY <1>3 DEF Begun, Cleared
<1>7. os \subseteq run.orders
      /\ \A o \in os : /\ o.way = "buy" /\ o.side = run.view.side
                       /\ o.tier # run'.tier \/ o.price # run'.price
  BY <1>2, <1>4 DEF P!Of, P!Aligned, P!NeedsUpdate, P!Side, SameTerms
<1>. QED
  BY <1>3, <1>4, <1>5, <1>6, <1>7, WithdrawingTypes

LEMMA OversizedTypes ==
    ASSUME PositionTypes, P!Oversized
    PROVE  PositionTypes'
<1>1. DOMAIN run = Fields
  BY DEF PositionTypes, Given
<1>2. PICK os, b : os = P!Aligned /\ b = TRUE
  OBVIOUS
<1>3. /\ run.pc = "oversized" /\ Still /\ Stays
      /\ GoesTo("buy") \/ Withdraws(os, b, "buy")
  BY <1>1, <1>2, OversizedDoes
<1>4. Figures' /\ SameSeen
  BY <1>3 DEF PositionTypes, Figures, Still, Stays, SamePlan, SameSale, SameTerms
<1>5. Selects'
  BY <1>3 DEF Selects, Selling, Ahead, Waiting, Withdraws, GoesTo
<1>6. run.pc \in Begun /\ "buy" \in Cleared /\ "buy" \in Begun
  BY <1>3 DEF Begun, Cleared
<1>7. os \subseteq run.orders /\ \A o \in os : o.way = "buy" /\ o.side = run.view.side
  BY <1>2 DEF P!Of, P!Aligned, P!Side
<1>8. CASE GoesTo("buy")
  BY <1>3, <1>4, <1>5, <1>6, <1>8, GoingTypes
<1>9. CASE Withdraws(os, b, "buy")
  BY <1>3, <1>4, <1>5, <1>6, <1>7, <1>9, WithdrawingTypes
<1>. QED
  BY <1>3, <1>8, <1>9

LEMMA BuyTypes ==
    ASSUME PositionTypes, P!Buy
    PROVE  PositionTypes'
<1>1. run.pc = "buy" /\ run.pc \in Begun /\ "end" \in Begun
  BY BuyDoes DEF Begun
<1>2. CASE Still /\ Stays /\ GoesTo("end")
  <2>1. Figures' /\ SameSeen
    BY <1>2 DEF PositionTypes, Figures, Still, Stays, SamePlan, SameSale, SameTerms
  <2>2. Selects'
    BY <1>2 DEF Selects, Selling, Ahead, Waiting, GoesTo
  <2>. QED
    BY <1>1, <1>2, <2>1, <2>2, GoingTypes
<1>3. CASE /\ P!Missing >= MinShares /\ Unlasting /\ Stays /\ GoesTo("end")
           /\ run'.bought = P!Missing
           /\ Adds(run.view.side, "buy", P!Missing, run.tier, run.price)
  <2>1. PICK s, n, t, p : s = run.view.side /\ n = P!Missing /\ t = run.tier /\ p = run.price
    OBVIOUS
  <2>2. n \in Nat /\ n > 0
    BY <1>1, <1>3, <2>1, MissingIsInt, PositionConstants
  <2>3. s \in P!Sides /\ t \in 0..2 /\ p \in Nat
    BY <1>1, <2>1, PositionConstants DEF PositionTypes, Given, Figures
  <2>4. Adds(s, "buy", n, t, p)
    BY <1>3, <2>1
  <2>5. Account' /\ Named'
    BY <1>3, <2>2, <2>3, <2>4, AddsTypes DEF Unlasting, Stays, SameSeen
  <2>6. run'.pc = "end" /\ run'.then = run.then /\ run'.doomed = {}
    BY <1>1, <1>3 DEF PositionTypes, HasReadTypes, GoesTo
  <2>7. Given'
    BY <1>1, <1>3, <2>6 DEF PositionTypes, Given, Unlasting, SameGiven, Stays, SameSeen
  <2>8. HasReadTypes'
    BY <1>3, <2>6 DEF PositionTypes, HasReadTypes, Stays, SameSeen
  <2>9. Figures'
    BY <1>3, <2>1, <2>2 DEF PositionTypes, Figures, Stays, SamePlan, SameSale, SameTerms
  <2>10. Marked' /\ Selects'
    BY <2>6 DEF Marked, Selects, Selling, Ahead, Waiting
  <2>. QED
    BY <2>5, <2>7, <2>8, <2>9, <2>10 DEF PositionTypes
<1>. QED
  BY <1>2, <1>3, BuyDoes

-----------------------------------------------------------------------------
\* Steps that begin or end a run, and those that others take.

LEMMA RestFields ==
    /\ DOMAIN P!AtRest = Fields
    /\ P!AtRest.pc = "idle" /\ P!AtRest.then = "start" /\ P!AtRest.thesis = P!AnyThesis
    /\ P!AtRest.held = [s \in P!Sides |-> 0] /\ P!AtRest.orders = {} /\ P!AtRest.view = P!AnyView
    /\ P!AtRest.doomed = {} /\ P!AtRest.had = 0 /\ P!AtRest.gap = 0
    /\ P!AtRest.side = "yes" /\ P!AtRest.asked = 0 /\ P!AtRest.tried = 0 /\ P!AtRest.back = "idle"
    /\ P!AtRest.tier = 0 /\ P!AtRest.price = 0 /\ P!AtRest.want = 0 /\ P!AtRest.bought = 0
BY DEF P!AtRest, Fields

LEMMA RestTypes ==
    run = P!AtRest => Given /\ HasReadTypes /\ Figures /\ Named /\ Marked /\ Selects
<1>. SUFFICES ASSUME run = P!AtRest
              PROVE  Given /\ HasReadTypes /\ Figures /\ Named /\ Marked /\ Selects
  OBVIOUS
<1>1. Given
  BY RestFields DEF Given, Begun
<1>2. HasReadTypes
  BY RestFields, FS_EmptySet DEF HasReadTypes
<1>3. Figures
  BY RestFields DEF Figures, P!Sides
<1>4. Named /\ Marked
  BY RestFields DEF Named, Marked
<1>5. Selects
  BY RestFields DEF Selects, Selling, Ahead, Waiting
<1>. QED
  BY <1>1, <1>2, <1>3, <1>4, <1>5

\* A run that returns leaves a note of its own or the one there was.
Notes(t, s) == [side |-> s, level |-> t.level, likely |-> t.likely, recent |-> TRUE]
Returned ==
    run' = P!AtRest /\ held' = held /\ orders' = orders /\ market' = market

LEMMA ReturnDoes ==
    ASSUME P!Return
    PROVE  /\ run.pc = "end" /\ Returned
           /\ note' = note \/ note' = Notes(run.thesis, run.view.side)
           /\ last' = IF run.weather = "calm" THEN P!Leaves ELSE P!NoLast
BY DEF P!Return, P!At, P!Returns, P!exchange, P!Side, Returned, Notes

LEMMA FailDoes ==
    ASSUME P!Fail
    PROVE  /\ Returned /\ last' = P!NoLast
           /\ run.pc # "idle" /\ \E s : note' = note \/ note' = Notes(run.thesis, s)
<1>1. PICK s : P!Returns(s, P!NoLast)
  BY DEF P!Fail
<1>2. run.pc # "idle"
  BY DEF P!Fail, P!At, P!GoneOrder
<1>. QED
  BY <1>1, <1>2 DEF P!Returns, P!exchange, Returned, Notes

LEMMA ReturnedTypes ==
    ASSUME PositionTypes, Returned, NEW s, note' = note \/ note' = Notes(run.thesis, s)
    PROVE  PositionTypes'
<1>1. Account'
  BY DEF PositionTypes, Account, Returned, Notes
<1>2. (Given /\ HasReadTypes /\ Figures /\ Named /\ Marked /\ Selects)'
  <2>1. (run = P!AtRest)'
    BY DEF Returned, P!AtRest, P!AnyThesis, P!AnyFunds, P!AnyView
  <2>. QED
    BY <2>1, RestTypes, PTL
<1>. QED
  BY <1>1, <1>2 DEF PositionTypes

LEMMA BeginDoes ==
    ASSUME NEW t, NEW f, NEW w, NEW v, P!Begin(t, f, w, v)
    PROVE  /\ run.pc = "idle" /\ DOMAIN run' = Fields
           /\ run'.pc = "positions" /\ run'.then = "start" /\ run'.doomed = {}
           /\ run'.thesis = t /\ run'.funds = f /\ run'.weather = w
           /\ run'.held = [s \in P!Sides |-> 0] /\ run'.orders = {} /\ run'.view = P!AnyView
           /\ run'.had = 0 /\ run'.gap = 0
           /\ run'.side = "yes" /\ run'.asked = 0 /\ run'.tried = 0 /\ run'.back = "idle"
           /\ run'.tier = 0 /\ run'.price = 0 /\ run'.want = 0 /\ run'.bought = 0
           /\ market' = v /\ held' = held /\ orders' = orders /\ last' = last
           /\ \E r : (r = note.recent \/ r = FALSE) /\ note' = [note EXCEPT !.recent = r]
<1>1. run.pc = "idle" /\ run' = [P!AtRest EXCEPT !.pc = "positions", !.thesis = t, !.funds = f, !.weather = w]
      /\ market' = v /\ held' = held /\ orders' = orders /\ last' = last
      /\ \E r \in {note.recent, FALSE} : note' = [note EXCEPT !.recent = r]
  BY DEF P!Begin, P!At
<1>2. PICK a : a = P!AtRest
  OBVIOUS
<1>3. run' = [a EXCEPT !.pc = "positions", !.thesis = t, !.funds = f, !.weather = w]
  BY <1>1, <1>2
<1>4. /\ DOMAIN a = Fields
      /\ a.then = "start" /\ a.held = [s \in P!Sides |-> 0] /\ a.orders = {} /\ a.view = P!AnyView
      /\ a.doomed = {} /\ a.had = 0 /\ a.gap = 0
      /\ a.side = "yes" /\ a.asked = 0 /\ a.tried = 0 /\ a.back = "idle"
      /\ a.tier = 0 /\ a.price = 0 /\ a.want = 0 /\ a.bought = 0
  BY <1>2, RestFields
<1>5. /\ DOMAIN run' = Fields
      /\ run'.pc = "positions" /\ run'.then = a.then /\ run'.doomed = a.doomed
      /\ run'.thesis = t /\ run'.funds = f /\ run'.weather = w
      /\ run'.held = a.held /\ run'.orders = a.orders /\ run'.view = a.view
      /\ run'.had = a.had /\ run'.gap = a.gap
      /\ run'.side = a.side /\ run'.asked = a.asked /\ run'.tried = a.tried /\ run'.back = a.back
      /\ run'.tier = a.tier /\ run'.price = a.price /\ run'.want = a.want /\ run'.bought = a.bought
  BY <1>3, <1>4 DEF Fields
<1>. QED
  BY <1>1, <1>4, <1>5

LEMMA BeginTypes ==
    ASSUME PositionTypes, NEW t \in Theses, NEW f \in Funds, NEW w \in Weathers, NEW v \in Views,
           P!Begin(t, f, w, v)
    PROVE  PositionTypes'
<1>1. P!AnyView \in Views
  BY DEF P!AnyView
<1>2. Account'
  BY BeginDoes DEF PositionTypes, Account
<1>3. Given'
  BY <1>1, BeginDoes DEF Given, Begun
<1>a. /\ run'.doomed = {} /\ run'.held = [s \in P!Sides |-> 0] /\ run'.orders = {}
      /\ run'.had = 0 /\ run'.gap = 0
      /\ run'.side = "yes" /\ run'.asked = 0 /\ run'.tried = 0 /\ run'.back = "idle"
      /\ run'.tier = 0 /\ run'.price = 0 /\ run'.want = 0 /\ run'.bought = 0
  BY BeginDoes
<1>4. HasReadTypes'
  BY <1>a, FS_EmptySet DEF HasReadTypes
<1>5. Figures'
  BY <1>a DEF Figures, P!Sides
<1>6. Named' /\ Marked'
  BY BeginDoes DEF Named, Marked
<1>7. Selects'
  BY BeginDoes DEF Selects, Selling, Ahead, Waiting
<1>. QED
  BY <1>2, <1>3, <1>4, <1>5, <1>6, <1>7 DEF PositionTypes

LEMMA IdleTypes ==
    ASSUME PositionTypes, run' = run, Account', Named', run.pc # "idle" => market' \in Views
    PROVE  PositionTypes'
<1>1. Given' /\ HasReadTypes' /\ Figures' /\ Marked' /\ Selects'
  BY DEF PositionTypes, Given, HasReadTypes, Figures, Marked, Selects, Selling, Ahead, Waiting
<1>. QED
  BY <1>1 DEF PositionTypes

\* A fill leaves less of an order, or nothing.
Filled(o, n) ==
    \/ n = o.left /\ orders' = orders \ {o}
    \/ /\ n < o.left
       /\ \E x : /\ orders' = (orders \ {o}) \cup {x}
                 /\ x \in P!Order /\ x.id = o.id /\ x.side = o.side /\ x.way = o.way
                 /\ x.tier = o.tier /\ x.price = o.price /\ x.left = o.left - n

LEMMA FillDoes ==
    ASSUME PositionTypes, NEW o \in orders, NEW n \in 1..o.left, P!Fill(o, n)
    PROVE  /\ run.pc = "idle" \/ run.weather # "calm"
           /\ n \in Nat /\ n > 0 /\ n <= o.left /\ Filled(o, n)
           /\ held' = [held EXCEPT ![o.side] = IF o.way = "buy" THEN @ + n ELSE @ - n]
           /\ run' = run /\ market' = market /\ note' = note /\ last' = P!NoLast
<1>1. o \in P!Order /\ o.left \in Nat
  BY OrderFields DEF PositionTypes, Account
<1>2. n \in Nat /\ n > 0 /\ n <= o.left
  BY <1>1
<1>3. orders' = (orders \ {o}) \cup (IF n = o.left THEN {} ELSE {[o EXCEPT !.left = @ - n]})
  BY DEF P!Fill
<1>4. Filled(o, n)
  <2>1. CASE n = o.left
    BY <1>3, <2>1 DEF Filled
  <2>2. CASE n # o.left
    <3>. DEFINE x == [o EXCEPT !.left = @ - n]
    <3>1. x \in P!Order
      BY <1>1, <1>2, <2>2 DEF P!Order
    <3>2. /\ x.id = o.id /\ x.side = o.side /\ x.way = o.way
          /\ x.tier = o.tier /\ x.price = o.price /\ x.left = o.left - n
      BY <1>1 DEF P!Order
    <3>3. orders' = (orders \ {o}) \cup {x} /\ n < o.left
      BY <1>1, <1>2, <1>3, <2>2
    <3>. HIDE DEF x
    <3>. QED
      BY <3>1, <3>2, <3>3 DEF Filled
  <2>. QED
    BY <2>1, <2>2
<1>. QED
  BY <1>2, <1>4 DEF P!Fill, P!Meanwhile, P!At

LEMMA FillTypes ==
    ASSUME PositionTypes, Covered, NEW o \in orders, NEW n \in 1..o.left, P!Fill(o, n)
    PROVE  PositionTypes'
<1>1. /\ n \in Nat /\ n > 0 /\ n <= o.left /\ Filled(o, n)
      /\ held' = [held EXCEPT ![o.side] = IF o.way = "buy" THEN @ + n ELSE @ - n]
      /\ run' = run /\ market' = market /\ note' = note
  BY FillDoes
<1>2. o \in P!Order /\ o.id \in Nat /\ o.side \in P!Sides /\ o.way \in {"buy", "sell"} /\ o.left \in Nat
  BY OrderFields DEF PositionTypes, Account
<1>3. o.way = "sell" => o.left <= held[o.side]
  <2>1. SUFFICES ASSUME o.way = "sell" PROVE o.left <= held[o.side]
    OBVIOUS
  <2>2. PICK os : os = P!Of(orders, o.side, "sell")
    OBVIOUS
  <2>3. os \subseteq orders /\ o \in os
    BY <2>1, <2>2 DEF P!Of
  <2>4. Weighed(os)
    BY <2>3, OrdersWeigh DEF PositionTypes
  <2>5. P!Left(os) = o.left + P!Left(os \ {o})
    BY <2>3, <2>4, LeftRemoves
  <2>6. PICK r : r = os \ {o}
    OBVIOUS
  <2>7. P!Left(r) \in Nat
    <3>1. Weighed(r)
      BY <2>4, <2>6, FS_Subset DEF Weighed
    <3>. QED
      BY <3>1, LeftIsNat
  <2>8. P!Left(os) <= held[o.side] /\ held[o.side] \in Nat
    BY <1>2, <2>2 DEF Covered, PositionTypes, Account
  <2>. QED
    BY <1>2, <2>5, <2>6, <2>7, <2>8
<1>4. held' \in [P!Sides -> Nat]
  <2>1. PICK h : h = held[o.side]
    OBVIOUS
  <2>2. h \in Nat /\ (IF o.way = "buy" THEN h + n ELSE h - n) \in Nat
    BY <1>1, <1>2, <1>3, <2>1 DEF PositionTypes, Account
  <2>. QED
    BY <1>1, <1>2, <2>1, <2>2 DEF PositionTypes, Account
<1>5. CASE orders' = orders \ {o}
  <2>1. IsFiniteSet(orders')
    BY <1>5, FS_Subset DEF PositionTypes, Account
  <2>2. Account'
    BY <1>1, <1>4, <1>5, <2>1 DEF PositionTypes, Account
  <2>3. Named'
    BY <1>1, <1>5 DEF PositionTypes, Named
  <2>. QED
    BY <1>1, <2>2, <2>3, IdleTypes DEF PositionTypes, Given
<1>6. ASSUME NEW x, orders' = (orders \ {o}) \cup {x}, n < o.left,
             x \in P!Order, x.id = o.id, x.side = o.side, x.way = o.way,
             x.tier = o.tier, x.price = o.price, x.left = o.left - n
      PROVE  PositionTypes'
  <2>1. IsFiniteSet(orders')
    <3>1. IsFiniteSet(orders \ {o})
      BY FS_Subset DEF PositionTypes, Account
    <3>. QED
      BY <1>6, <3>1, FS_AddElement
  <2>2. x.left > 0
    BY <1>1, <1>2, <1>6
  <2>3. \A y, z \in orders' : y.id = z.id => y = z
    BY <1>6 DEF PositionTypes, Account
  <2>4. Account'
    BY <1>1, <1>4, <1>6, <2>1, <2>2, <2>3 DEF PositionTypes, Account
  <2>5. Named'
    BY <1>1, <1>6 DEF PositionTypes, Named
  <2>. QED
    BY <1>1, <2>4, <2>5, IdleTypes DEF PositionTypes, Given
<1>. QED
  BY <1>1, <1>5, <1>6 DEF Filled

LEMMA OthersDo ==
    ASSUME P!Others
    PROVE  /\ run.pc = "idle" \/ run.weather = "storm"
           /\ last' = P!NoLast /\ held' = held /\ note' = note /\ run' = run
BY DEF P!Others, P!At

LEMMA LegacyPlaceDoes ==
    ASSUME PositionTypes, NEW s \in P!Sides, NEW v \in Views, P!LegacyPlace(s, v.price)
    PROVE  /\ P!Others /\ market' = market
           /\ \/ Adds(s, "buy", MinShares, 1, v.price)
              \/ P!Fits(s, MinShares) /\ Adds(s, "sell", MinShares, 0, 0)
<1>1. PICK n, p : n = MinShares /\ p = v.price
  OBVIOUS
<1>2. CASE P!Takes(s, "buy", MinShares, 1, v.price)
  <2>1. Adds(s, "buy", n, 1, p)
    BY <1>1, <1>2, TakesDoes
  <2>. QED
    BY <1>1, <2>1 DEF P!LegacyPlace
<1>3. CASE P!Fits(s, MinShares) /\ P!Takes(s, "sell", MinShares, 0, 0)
  <2>1. Adds(s, "sell", n, 0, 0)
    BY <1>1, <1>3, TakesDoes
  <2>. QED
    BY <1>1, <1>3, <2>1 DEF P!LegacyPlace
<1>. QED
  BY <1>2, <1>3 DEF P!LegacyPlace

LEMMA LegacyPlaceTypes ==
    ASSUME PositionTypes, NEW s \in P!Sides, NEW v \in Views, P!LegacyPlace(s, v.price)
    PROVE  PositionTypes'
<1>1. PICK n, p : n = MinShares /\ p = v.price
  OBVIOUS
<1>2. n \in Nat /\ n > 0 /\ p \in Nat
  BY <1>1, PositionConstants
<1>3. /\ held' = held /\ note' = note /\ run' = run /\ market' = market
      /\ Adds(s, "buy", n, 1, p) \/ Adds(s, "sell", n, 0, 0)
  BY <1>1, LegacyPlaceDoes, OthersDo
<1>4. Account' /\ Named'
  BY <1>2, <1>3, AddsTypes
<1>. QED
  BY <1>3, <1>4, IdleTypes DEF PositionTypes, Given

LEMMA LegacyCancelTypes ==
    ASSUME PositionTypes, NEW o \in orders, P!LegacyCancel(o)
    PROVE  PositionTypes'
<1>1. /\ held' = held /\ note' = note /\ run' = run /\ market' = market /\ orders' = orders \ {o}
  BY OthersDo DEF P!LegacyCancel
<1>2. IsFiniteSet(orders')
  BY <1>1, FS_Subset DEF PositionTypes, Account
<1>3. Account'
  BY <1>1, <1>2 DEF PositionTypes, Account
<1>4. Named'
  BY <1>1 DEF PositionTypes, Named
<1>. QED
  BY <1>1, <1>3, <1>4, IdleTypes DEF PositionTypes, Given

LEMMA MarketMovesTypes ==
    ASSUME PositionTypes, NEW v \in Views, P!MarketMoves(v)
    PROVE  PositionTypes'
<1>1. held' = held /\ note' = note /\ run' = run /\ market' = v /\ orders' = orders
  BY OthersDo DEF P!MarketMoves
<1>2. Account' /\ Named'
  BY <1>1 DEF PositionTypes, Account, Named
<1>. QED
  BY <1>1, <1>2, IdleTypes

\* A step of the run, by the disjuncts of Steps.
LEMMA StepsTypes ==
    ASSUME PositionTypes, P!Steps
    PROVE  PositionTypes'
<1>1. CASE P!Return
  BY <1>1, ReturnDoes, ReturnedTypes
<1>2. CASE P!Fail
  BY <1>2, FailDoes, ReturnedTypes
<1>3. CASE \E o \in run.doomed : P!Cancel(o)
  BY <1>3, CancelTypes
<1>. QED
  BY <1>1, <1>2, <1>3, LoadPositionsTypes, LoadOrdersTypes, CancelledTypes, StartTypes, PlanTypes,
     TrimTypes, SellTypes, ResellTypes, RetryTypes, DecideTypes, UnlockTypes, TermsTypes,
     StaleTypes, OversizedTypes, BuyTypes DEF P!Steps

LEMMA TypesStep ==
    ASSUME PositionTypes, Covered, P!Next
    PROVE  PositionTypes'
<1>1. CASE \E t \in Theses, f \in Funds, w \in Weathers, v \in Views : P!Begin(t, f, w, v)
  BY <1>1, BeginTypes
<1>2. CASE P!Steps
  BY <1>2, StepsTypes
<1>3. CASE \E o \in orders : \E n \in 1..o.left : P!Fill(o, n)
  BY <1>3, FillTypes
<1>4. CASE \E o \in orders : P!LegacyCancel(o)
  BY <1>4, LegacyCancelTypes
<1>5. CASE \E v \in Views : P!MarketMoves(v)
  BY <1>5, MarketMovesTypes
<1>6. CASE \E v \in Views : \E s \in P!Sides : P!LegacyPlace(s, v.price)
  BY <1>6, LegacyPlaceTypes
<1>. QED
  BY <1>1, <1>2, <1>3, <1>4, <1>5, <1>6 DEF P!Next

LEMMA TypesInit ==
    ASSUME P!Init
    PROVE  PositionTypes
<1>1. /\ held \in [P!Sides -> Held] /\ orders \in P!Resting /\ note = P!NoNote /\ run = P!AtRest
  BY DEF P!Init
<1>2. held \in [P!Sides -> Nat]
  BY <1>1, PositionConstants
<1>. DEFINE a == P!Rests(1, "no", "buy", 1, 1)
            b == P!Rests(2, "yes", "sell", 0, 0)
<1>3. orders \subseteq {a, b}
  BY <1>1 DEF P!Resting
<1>4. a \in P!Order /\ b \in P!Order /\ a.id = 1 /\ b.id = 2 /\ a.left > 0 /\ b.left > 0
  BY PositionConstants DEF P!Rests, P!Order, P!Sides
<1>5. IsFiniteSet(orders)
  <2>1. IsFiniteSet({a, b})
    <3>. HIDE DEF a, b
    <3>1. IsFiniteSet({a} \cup {b})
      BY FS_Singleton, FS_Union
    <3>2. {a} \cup {b} = {a, b}
      OBVIOUS
    <3>. QED
      BY <3>1, <3>2
  <2>. HIDE DEF a, b
  <2>. QED
    BY <1>3, <2>1, FS_Subset
<1>6. Account
  <2>1. DOMAIN note = {"side", "level", "likely", "recent"}
    BY <1>1 DEF P!NoNote
  <2>. HIDE DEF a, b
  <2>. QED
    BY <1>2, <1>3, <1>4, <1>5, <2>1 DEF Account
<1>. QED
  BY <1>1, <1>6, RestTypes DEF PositionTypes

-----------------------------------------------------------------------------
\* What is for sale is held.

LEMMA SellsShrink ==
    ASSUME PositionTypes, Covered, orders' \subseteq orders, held' = held
    PROVE  Covered'
<1>. SUFFICES ASSUME NEW s \in P!Sides
              PROVE  P!Left(P!Of(orders', s, "sell")) <= held[s]
  BY DEF Covered
<1>1. PICK a, b : a = P!Of(orders', s, "sell") /\ b = P!Of(orders, s, "sell")
  OBVIOUS
<1>2. a \subseteq b /\ b \subseteq orders /\ a \subseteq orders
  BY <1>1 DEF P!Of
<1>3. Weighed(a) /\ Weighed(b)
  BY <1>2, OrdersWeigh DEF PositionTypes
<1>4. P!Left(a) <= P!Left(b) /\ P!Left(a) \in Nat /\ P!Left(b) \in Nat
  BY <1>2, <1>3, LeftMonotone, LeftIsNat
<1>5. P!Left(b) <= held[s] /\ held[s] \in Nat
  BY <1>1 DEF Covered, PositionTypes, Account
<1>. QED
  BY <1>1, <1>4, <1>5

\* The sum that an order adds to, and the orders of other sides and ways.
Elsewhere(s, way) ==
    \A z, w : z # s \/ w # way => P!Of(orders', z, w) = P!Of(orders, z, w)
LEMMA AddsTo ==
    ASSUME PositionTypes, NEW s, NEW way, NEW n \in Nat, NEW t, NEW p, Adds(s, way, n, t, p)
    PROVE  /\ P!Left(P!Of(orders', s, way)) = P!Left(P!Of(orders, s, way)) + n
           /\ Elsewhere(s, way)
           /\ \E x : /\ P!Of(orders', s, way) = P!Of(orders, s, way) \cup {x}
                     /\ x.tier = t /\ x.price = p
<1>1. PICK x : /\ orders' = orders \cup {x}
               /\ x.id \in Nat /\ x.side = s /\ x.way = way /\ x.left = n
               /\ x.tier = t /\ x.price = p
               /\ \A y \in orders \cup run.orders \cup run.doomed : y.id < x.id
  BY DEF Adds
<1>2. PICK a : a = P!Of(orders, s, way)
  OBVIOUS
<1>3. a \subseteq orders /\ Weighed(a)
  <2>1. a \subseteq orders
    BY <1>2 DEF P!Of
  <2>. QED
    BY <2>1, OrdersWeigh DEF PositionTypes
<1>4. x \notin a
  BY <1>1, <1>3
<1>5. P!Of(orders', s, way) = a \cup {x}
  BY <1>1, <1>2 DEF P!Of
<1>6. P!Left(a \cup {x}) = P!Left(a) + x.left
  BY <1>1, <1>3, <1>4, LeftAdds
<1>7. Elsewhere(s, way)
  BY <1>1 DEF P!Of, Elsewhere
<1>. QED
  BY <1>1, <1>2, <1>5, <1>6, <1>7

LEMMA AddsCovered ==
    ASSUME PositionTypes, Covered, NEW s \in P!Sides, NEW way \in {"buy", "sell"}, NEW n \in Nat,
           NEW t, NEW p, Adds(s, way, n, t, p), held' = held,
           way = "sell" => P!Fits(s, n)
    PROVE  Covered'
<1>. SUFFICES ASSUME NEW z \in P!Sides
              PROVE  P!Left(P!Of(orders', z, "sell")) <= held[z]
  BY DEF Covered
<1>1. P!Left(P!Of(orders, z, "sell")) <= held[z] /\ held[z] \in Nat
  BY DEF Covered, PositionTypes, Account
<1>2. PICK a : a = P!Of(orders, z, "sell")
  OBVIOUS
<1>3. P!Left(a) \in Nat
  <2>1. a \subseteq orders
    BY <1>2 DEF P!Of
  <2>2. Weighed(a)
    BY <2>1, OrdersWeigh DEF PositionTypes
  <2>. QED
    BY <2>2, LeftIsNat
<1>4. CASE s = z /\ way = "sell"
  <2>1. P!Left(P!Of(orders', s, way)) = P!Left(P!Of(orders, s, way)) + n
    BY AddsTo
  <2>2. n <= held[z] - P!Left(a)
    BY <1>2, <1>4 DEF P!Fits, P!Sellable
  <2>. QED
    BY <1>1, <1>2, <1>3, <1>4, <2>1, <2>2
<1>5. CASE z # s \/ way # "sell"
  <2>1. Elsewhere(s, way)
    BY AddsTo
  <2>2. P!Of(orders', z, "sell") = P!Of(orders, z, "sell")
    BY <1>5, <2>1 DEF Elsewhere
  <2>. QED
    BY <1>1, <2>2
<1>. QED
  BY <1>4, <1>5

LEMMA FillCovered ==
    ASSUME PositionTypes, Covered, NEW o \in orders, NEW n \in 1..o.left, P!Fill(o, n)
    PROVE  Covered'
<1>. SUFFICES ASSUME NEW z \in P!Sides
              PROVE  P!Left(P!Of(orders', z, "sell")) <= held'[z]
  BY DEF Covered
<1>1. /\ n \in Nat /\ n > 0 /\ n <= o.left /\ Filled(o, n)
      /\ held' = [held EXCEPT ![o.side] = IF o.way = "buy" THEN @ + n ELSE @ - n]
  BY FillDoes
<1>2. o.side \in P!Sides /\ o.way \in {"buy", "sell"} /\ o.left \in Nat
  BY OrderFields DEF PositionTypes, Account
<1>3. PICK a : a = P!Of(orders, z, "sell")
  OBVIOUS
<1>4. a \subseteq orders /\ Weighed(a)
  <2>1. a \subseteq orders
    BY <1>3 DEF P!Of
  <2>. QED
    BY <2>1, OrdersWeigh DEF PositionTypes
<1>5. P!Left(a) <= held[z] /\ held[z] \in Nat /\ P!Left(a) \in Nat
  BY <1>3, <1>4, LeftIsNat DEF Covered, PositionTypes, Account
<1>6. CASE o.side # z \/ o.way # "sell"
  <2>1. P!Of(orders', z, "sell") = a
    BY <1>1, <1>3, <1>6 DEF Filled, P!Of
  <2>2. held'[z] >= held[z]
    <3>1. PICK h : h = held[o.side]
      OBVIOUS
    <3>2. h \in Nat
      BY <1>2, <3>1 DEF PositionTypes, Account
    <3>. QED
      BY <1>1, <1>2, <1>5, <1>6, <3>1, <3>2 DEF PositionTypes, Account
  <2>3. held'[z] \in Int
    <3>1. held' \in [P!Sides -> Int]
      <4>1. PICK h : h = held[o.side]
        OBVIOUS
      <4>2. h \in Nat /\ (IF o.way = "buy" THEN h + n ELSE h - n) \in Int
        BY <1>1, <1>2, <4>1 DEF PositionTypes, Account
      <4>. QED
        BY <1>1, <1>2, <4>1, <4>2 DEF PositionTypes, Account
    <3>. QED
      BY <3>1
  <2>. QED
    BY <1>5, <2>1, <2>2, <2>3
<1>7. CASE o.side = z /\ o.way = "sell"
  <2>1. o \in a
    BY <1>3, <1>7 DEF P!Of
  <2>2. PICK r : r = a \ {o}
    OBVIOUS
  <2>3. Weighed(r) /\ P!Left(r) \in Nat
    <3>1. Weighed(r)
      BY <1>4, <2>2, FS_Subset DEF Weighed
    <3>. QED
      BY <3>1, LeftIsNat
  <2>4. P!Left(a) = o.left + P!Left(r)
    BY <1>4, <2>1, <2>2, LeftRemoves
  <2>5. held'[z] = held[z] - n
    BY <1>1, <1>2, <1>7 DEF PositionTypes, Account
  <2>6. CASE n = o.left /\ orders' = orders \ {o}
    <3>1. P!Of(orders', z, "sell") = r
      BY <1>3, <1>7, <2>2, <2>6 DEF P!Of
    <3>. QED
      BY <1>2, <1>5, <2>3, <2>4, <2>5, <2>6, <3>1
  <2>7. ASSUME NEW x, orders' = (orders \ {o}) \cup {x}, x.id = o.id, x.side = o.side,
               x.way = o.way, x.left = o.left - n
        PROVE  P!Left(P!Of(orders', z, "sell")) <= held'[z]
    <3>1. P!Of(orders', z, "sell") = r \cup {x}
      BY <1>3, <1>7, <2>2, <2>7 DEF P!Of
    <3>2. x \notin r
      <4>1. \A y \in r : y \in orders /\ y # o
        BY <1>4, <2>2
      <4>. QED
        BY <2>7, <4>1 DEF PositionTypes, Account
    <3>3. x.left \in Nat
      BY <1>1, <1>2, <2>7
    <3>4. P!Left(r \cup {x}) = P!Left(r) + x.left
      BY <2>3, <3>2, <3>3, LeftAdds
    <3>5. P!Left(P!Of(orders', z, "sell")) = P!Left(r) + (o.left - n)
      BY <2>7, <3>1, <3>4
    <3>6. PICK l, h, m : l = P!Left(r) /\ h = held[z] /\ m = o.left
      OBVIOUS
    <3>7. l \in Nat /\ h \in Nat /\ m \in Nat /\ m + l <= h
      BY <1>2, <1>5, <2>3, <2>4, <3>6
    <3>8. l + (m - n) <= h - n
      BY <1>1, <3>7
    <3>. QED
      BY <2>5, <3>5, <3>6, <3>8
  <2>. QED
    BY <1>1, <2>6, <2>7 DEF Filled
<1>. QED
  BY <1>2, <1>6, <1>7

-----------------------------------------------------------------------------
\* What a step leaves for sale is held.

LEMMA CoveredStep ==
    ASSUME PositionTypes, Covered, P!Next
    PROVE  Covered'
<1>. DOMAIN run = Fields
  BY DEF PositionTypes, Given
<1>1. ASSUME orders' = orders, held' = held PROVE Covered'
  BY <1>1 DEF Covered
<1>2. ASSUME Still PROVE Covered'
  BY <1>1, <1>2 DEF Still
<1>3. ASSUME Sold PROVE Covered'
  <2>1. PICK s, n : s = run.side /\ n = P!ForSale
    OBVIOUS
  <2>2. /\ Adds(s, "sell", n, 0, 0) /\ s \in P!Sides /\ n \in Nat
        /\ held' = held /\ P!Fits(s, n)
    BY <1>3, <2>1, ForSaleIsInt, PositionConstants DEF Sold, Unlasting, PositionTypes, Figures
  <2>. QED
    BY <2>2, AddsCovered
<1>4. CASE \E t \in Theses, f \in Funds, w \in Weathers, v \in Views : P!Begin(t, f, w, v)
  BY <1>1, <1>4, BeginDoes
<1>5. CASE P!Steps
  <2>1. CASE P!Return
    BY <1>1, <2>1, ReturnDoes DEF Returned
  <2>2. CASE P!Fail
    BY <1>1, <2>2, FailDoes DEF Returned
  <2>3. ASSUME NEW o \in run.doomed, P!Cancel(o) PROVE Covered'
    <3>1. orders' = {x \in orders : x.id # o.id} /\ held' = held
      BY <2>3, CancelDoes DEF Unlasting
    <3>. QED
      BY <3>1, SellsShrink
  <2>4. CASE P!Sell
    BY <1>2, <1>3, <2>4, SellDoes DEF TooFew
  <2>5. CASE P!Retry
    BY <1>2, <1>3, <2>5, RetryDoes DEF TooFew
  <2>6. CASE P!Buy
    <3>1. CASE Still
      BY <1>2, <3>1
    <3>2. CASE P!Missing >= MinShares /\ Unlasting
               /\ Adds(run.view.side, "buy", P!Missing, run.tier, run.price)
      <4>1. PICK s, n, t, p : s = run.view.side /\ n = P!Missing /\ t = run.tier /\ p = run.price
        OBVIOUS
      <4>2. run.pc # "idle"
        BY <2>6, BuyDoes
      <4>3. n \in Nat /\ s \in P!Sides /\ Adds(s, "buy", n, t, p) /\ held' = held
        BY <3>2, <4>1, <4>2, MissingIsInt, PositionConstants DEF PositionTypes, Given, Unlasting
      <4>. QED
        BY <4>3, AddsCovered
    <3>. QED
      BY <2>6, <3>1, <3>2, BuyDoes
  <2>. QED
    BY <1>2, <1>5, <2>1, <2>2, <2>3, <2>4, <2>5, <2>6, LoadPositionsDoes, LoadOrdersDoes,
       CancelledDoes, StartDoes, PlanDoes, TrimDoes, ResellDoes, DecideDoes, UnlockDoes, TermsDoes,
       StaleDoes, OversizedDoes DEF P!Steps
<1>6. CASE \E o \in orders : \E n \in 1..o.left : P!Fill(o, n)
  BY <1>6, FillCovered
<1>7. CASE \E o \in orders : P!LegacyCancel(o)
  <2>1. orders' \subseteq orders /\ held' = held
    BY <1>7, OthersDo DEF P!LegacyCancel
  <2>. QED
    BY <2>1, SellsShrink
<1>8. CASE \E v \in Views : P!MarketMoves(v)
  BY <1>1, <1>8, OthersDo DEF P!MarketMoves
<1>9. ASSUME NEW v \in Views, NEW s \in P!Sides, P!LegacyPlace(s, v.price) PROVE Covered'
  <2>1. PICK n, p : n = MinShares /\ p = v.price
    OBVIOUS
  <2>2. /\ n \in Nat /\ held' = held
        /\ Adds(s, "buy", n, 1, p) \/ (P!Fits(s, n) /\ Adds(s, "sell", n, 0, 0))
    BY <1>9, <2>1, LegacyPlaceDoes, OthersDo, PositionConstants
  <2>. QED
    BY <2>2, AddsCovered
<1>. QED
  BY <1>4, <1>5, <1>6, <1>7, <1>8, <1>9 DEF P!Next

LEMMA CoveredInit ==
    ASSUME P!Init
    PROVE  Covered
<1>1. PositionTypes
  BY TypesInit
<1>. SUFFICES ASSUME NEW s \in P!Sides
              PROVE  P!Left(P!Of(orders, s, "sell")) <= held[s]
  BY DEF Covered
<1>2. PICK a : a = P!Of(orders, s, "sell")
  OBVIOUS
<1>3. P!Left(a) \in Nat
  <2>1. a \subseteq orders
    BY <1>2 DEF P!Of
  <2>2. Weighed(a)
    BY <1>1, <2>1, OrdersWeigh DEF PositionTypes
  <2>. QED
    BY <2>2, LeftIsNat
<1>4. P!Sellable(held, orders, s) >= 0
  BY DEF P!Init, P!Resting
<1>. QED
  BY <1>1, <1>2, <1>3, <1>4 DEF P!Sellable, PositionTypes, Account

-----------------------------------------------------------------------------
\* What a step leaves of the account, as the run sees it.

LEMMA MarketStays ==
    ASSUME market' = market, note' = note, run'.thesis = run.thesis
    PROVE  Better' = Better /\ Worse' = Worse /\ Aim' = Aim /\ Drops' = Drops
<1>1. Better' = Better /\ Worse' = Worse
  BY DEF Better, Worse, P!Opposite
<1>2. Drops' = Drops
  BY DEF Drops, Better, P!Falls, P!Remembered
<1>3. Aim' = Aim
  BY DEF Aim, Better, P!Target, P!Weakened, P!Falls, P!Remembered
<1>. QED
  BY <1>1, <1>2, <1>3

LEMMA OrdersStay ==
    ASSUME Still
    PROVE  /\ Better' = Better /\ Worse' = Worse /\ Aim' = Aim /\ (Drops' <=> Drops)
           /\ BetterBuys' = BetterBuys /\ WorseBuys' = WorseBuys
           /\ BetterSells' = BetterSells /\ WorseSells' = WorseSells
           /\ BetterBids' = BetterBids /\ BetterAsks' = BetterAsks /\ WorseAsks' = WorseAsks
<1>1. Better' = Better /\ Worse' = Worse /\ Aim' = Aim /\ (Drops' <=> Drops)
  BY MarketStays DEF Still, SameGiven
<1>2. BetterBuys' = BetterBuys /\ WorseBuys' = WorseBuys
      /\ BetterSells' = BetterSells /\ WorseSells' = WorseSells
  BY <1>1 DEF Still, BetterBuys, WorseBuys, BetterSells, WorseSells, P!Of
<1>. QED
  BY <1>1, <1>2 DEF BetterBids, BetterAsks, WorseAsks

\* The better side is one of the two, the other the worse.
LEMMA TwoSides ==
    ASSUME PositionTypes, run.pc # "idle"
    PROVE  /\ Better \in P!Sides /\ Worse \in P!Sides /\ Better # Worse
           /\ \A s \in P!Sides : s = Better \/ s = Worse
           /\ Aim \in Nat
<1>1. market.side \in P!Sides /\ run.thesis \in Theses
  BY PositionConstants DEF PositionTypes, Given
<1>2. Aim \in Nat
  BY <1>1, TargetIsNat DEF Aim
<1>. QED
  BY <1>1, <1>2 DEF Better, Worse, P!Opposite, P!Sides

-----------------------------------------------------------------------------
\* What a run knows.

LEMMA ReadingWith ==
    ASSUME PositionTypes, run.pc \in Begun \/ run.pc = "cancel"
    PROVE  HasRead /\ HasHeld /\ run.pc # "idle" /\ run.pc # "positions"
BY DEF PositionTypes, Begun, HasRead, HasHeld, Ahead, Waiting, Marked, Cleared

LEMMA StillKnows ==
    ASSUME PositionTypes, Knowledge, Still, SameSeen, run.pc \in Begun \/ run.pc = "cancel",
           run.pc # "end", run.had > Aim => run'.had > Aim
    PROVE  Knowledge'
<1>1. HasRead /\ HasHeld
  BY ReadingWith
<1>2. Aim' = Aim /\ Better' = Better /\ BetterSells' = BetterSells
  BY OrdersStay
<1>3. run'.view = run.view /\ run'.orders = run.orders /\ run'.held = run.held
      /\ orders' = orders /\ market' = market
  BY DEF Still, SameSeen
<1>4. ~TooMuch' => ~TooMuch
  BY <1>2 DEF TooMuch
<1>. QED
  BY <1>1, <1>2, <1>3, <1>4 DEF Knowledge, Read

LEMMA LoadPositionsKnows ==
    ASSUME PositionTypes, Covered, Knowledge, P!LoadPositions
    PROVE  Knowledge'
<1>1. /\ run.pc = "positions" /\ Still /\ GoesTo("orders") /\ run'.held = held
      /\ run'.orders = run.orders /\ run'.view = run.view /\ SamePlan
  BY LoadPositionsDoes DEF PositionTypes, Given
<1>2. Aim' = Aim /\ Better' = Better /\ BetterSells' = BetterSells
  BY <1>1, OrdersStay
<1>3. orders' = orders /\ market' = market /\ (TooMuch' <=> TooMuch)
  BY <1>1, <1>2 DEF Still, TooMuch, SamePlan
<1>4. HasRead' => HasRead
  BY <1>1 DEF HasRead, Ahead, Waiting, GoesTo
<1>5. held[Better] = 0 => BetterSells = {}
  <2>1. Better \in P!Sides
    BY <1>1, TwoSides
  <2>2. P!Left(BetterSells) <= held[Better]
    BY <2>1 DEF Covered, BetterSells
  <2>3. BetterSells \subseteq orders
    BY DEF BetterSells, P!Of
  <2>4. Weighed(BetterSells) /\ \A o \in BetterSells : o.left > 0
    BY <2>3, OrdersWeigh DEF PositionTypes
  <2>. QED
    BY <2>2, <2>4, NothingIsLeft
<1>. QED
  BY <1>1, <1>2, <1>3, <1>4, <1>5 DEF Knowledge, Read, GoesTo

LEMMA LoadOrdersKnows ==
    ASSUME PositionTypes, Knowledge, P!LoadOrders
    PROVE  Knowledge'
<1>1. /\ run.pc = "orders" /\ Still /\ run'.held = run.held
      /\ run'.orders = orders /\ run'.view = market /\ SamePlan
  BY LoadOrdersDoes DEF PositionTypes, Given
<1>2. Aim' = Aim /\ Better' = Better /\ BetterSells' = BetterSells
  BY <1>1, OrdersStay
<1>3. orders' = orders /\ market' = market /\ (TooMuch' <=> TooMuch) /\ HasHeld
  BY <1>1, <1>2 DEF Still, TooMuch, SamePlan, HasHeld
<1>4. BetterSells \subseteq orders
  BY DEF BetterSells, P!Of
<1>. QED
  BY <1>1, <1>2, <1>3, <1>4 DEF Knowledge, Read

\* Orders that are still there are known as they were.
LEMMA FewerKnown ==
    ASSUME Knowledge, market' = market, note' = note, run'.thesis = run.thesis,
           run'.had = run.had, run'.view = run.view, run'.orders = run.orders, run'.held = run.held,
           run'.pc = run.pc, run'.then = run.then,
           \A x \in orders' : \E y \in orders : y.id = x.id /\ y.side = x.side /\ y.way = x.way
    PROVE  Knowledge'
<1>1. Aim' = Aim /\ Better' = Better
  BY MarketStays
<1>2. (TooMuch' <=> TooMuch) /\ (HasRead' <=> HasRead) /\ (HasHeld' <=> HasHeld)
  BY <1>1 DEF TooMuch, HasRead, HasHeld, Ahead, Waiting
<1>3. \A x \in BetterSells' : \E y \in BetterSells : y.id = x.id
  BY <1>1 DEF BetterSells, P!Of
<1>4. \A x, y : x.id = y.id => (Read(x)' <=> Read(y))
  BY DEF Read
<1>5. HasRead' => run'.view = market'
  BY <1>2 DEF Knowledge
<1>6. HasRead' /\ run'.pc # "end" => \A x \in orders' : x.way = "buy" => Read(x)'
  BY <1>2, <1>4 DEF Knowledge
<1>7. HasRead' /\ ~TooMuch' => \A x \in BetterSells' : Read(x)'
  BY <1>2, <1>3, <1>4 DEF Knowledge
<1>8. HasHeld' /\ ~TooMuch' /\ run'.held[Better'] = 0 => BetterSells' = {}
  BY <1>1, <1>2, <1>3 DEF Knowledge
<1>. QED
  BY <1>5, <1>6, <1>7, <1>8 DEF Knowledge

LEMMA SoldKnows ==
    ASSUME PositionTypes, Knowledge, run.pc \in {"sell", "retry"}, Sold, SellsRight
    PROVE  Knowledge'
<1>1. HasRead /\ HasHeld /\ run.pc # "idle" /\ run.back \in {"trim", "decide"}
  BY ReadingWith DEF Begun, PositionTypes, Figures, Selects, Selling, Ahead, Waiting
<1>2. /\ market' = market /\ note' = note /\ run'.thesis = run.thesis
      /\ run'.view = run.view /\ run'.orders = run.orders /\ run'.held = run.held
      /\ run'.had = run.had
  BY DEF Sold, Unlasting, Stays, SameSeen, SamePlan, SameGiven
<1>3. Aim' = Aim /\ Better' = Better
  BY <1>2, MarketStays
<1>4. TooMuch' <=> TooMuch
  BY <1>2, <1>3 DEF TooMuch
<1>5. PICK x : /\ orders' = orders \cup {x} /\ x.side = run.side /\ x.way = "sell"
  BY DEF Sold, Adds
<1>6. \A y \in orders' : y.way = "buy" => y \in orders
  BY <1>5
<1>7. ~TooMuch => BetterSells' = BetterSells
  <2>1. SUFFICES ASSUME ~TooMuch PROVE run.side # Better
    BY <1>3, <1>5 DEF BetterSells, P!Of
  <2>2. run.side = Worse
    BY <1>1, <2>1 DEF SellsRight, Selling, Ahead, Waiting
  <2>. QED
    BY <1>1, <2>2, TwoSides
<1>. QED
  BY <1>1, <1>2, <1>3, <1>4, <1>6, <1>7 DEF Knowledge, Read

LEMMA BoughtKnows ==
    ASSUME PositionTypes, Knowledge, run.pc = "buy", Unlasting, Stays, GoesTo("end"),
           NEW s, NEW n, NEW t, NEW p, Adds(s, "buy", n, t, p)
    PROVE  Knowledge'
<1>1. HasRead /\ HasHeld
  BY ReadingWith DEF Begun
<1>2. /\ market' = market /\ note' = note /\ run'.thesis = run.thesis
      /\ run'.view = run.view /\ run'.orders = run.orders /\ run'.held = run.held
      /\ run'.had = run.had /\ run'.pc = "end"
  BY DEF Unlasting, Stays, SameSeen, SamePlan, SameGiven, GoesTo
<1>3. Aim' = Aim /\ Better' = Better
  BY <1>2, MarketStays
<1>4. TooMuch' <=> TooMuch
  BY <1>2, <1>3 DEF TooMuch
<1>5. BetterSells' = BetterSells
  BY <1>3 DEF Adds, BetterSells, P!Of
<1>. QED
  BY <1>1, <1>2, <1>3, <1>4, <1>5 DEF Knowledge, Read

-----------------------------------------------------------------------------
\* Runs that nobody disturbs but by fills: what they leave.

LEMMA GoesOnManages ==
    ASSUME PositionTypes, Manages, Still, SamePlan, SameSale, SameChoice, SameTerms,
           Waiting, run.pc = "cancel" => run.doomed = {}, run'.pc # "cancel", Ahead' = Ahead
    PROVE  Manages'
<1>1. /\ Aim' = Aim /\ (Drops' <=> Drops) /\ Better' = Better /\ Worse' = Worse
      /\ BetterBuys' = BetterBuys /\ WorseBuys' = WorseBuys /\ BetterSells' = BetterSells
  BY OrdersStay
<1>2. \A x : run.pc = "cancel" => ~Doomed(x)
  BY DEF Doomed
<1>3. market' = market /\ run'.funds = run.funds
  BY DEF Still, SameGiven
<1>4. Ahead # "end" /\ ~ (\E to : Clearing(to)')
  BY DEF Manages, Plans, Waiting, Clearing
<1>5. WorseBuys = {} \/ Ahead = "start"
  BY <1>2 DEF Manages, Plans, Clearing
<1>6. Plans'
  BY <1>1, <1>4, <1>5 DEF Manages, Plans, SamePlan, Gap
<1>7. TooMuch' <=> TooMuch
  BY <1>1 DEF TooMuch, SamePlan
<1>8. SellsRight'
  BY <1>1, <1>7 DEF Manages, SellsRight, Selling, SameSale
<1>9. Going' <=> Going
  BY <1>3 DEF Going, SameChoice
<1>10. Decides'
  BY <1>1, <1>2, <1>3, <1>4, <1>9 DEF Manages, Decides, Clearing, SamePlan, SameChoice, SameTerms
<1>. QED
  BY <1>6, <1>8, <1>10 DEF Manages

LEMMA GoesOnWinds ==
    ASSUME WindsUp, Still, Waiting, run.pc = "cancel" => run.doomed = {}, Ahead' = Ahead
    PROVE  WindsUp'
<1>1. \A x : run.pc = "cancel" => ~Doomed(x)
  BY DEF Doomed
<1>. QED
  BY <1>1 DEF WindsUp, Clearing, Still

\* Orders that are still there, and still to be withdrawn.
Fewer ==
    /\ market' = market /\ note' = note
    /\ run'.thesis = run.thesis /\ run'.funds = run.funds
    /\ run'.pc = run.pc /\ run'.then = run.then /\ Stays
    /\ \A x \in orders' : \E y \in orders :
          /\ y.id = x.id /\ y.side = x.side /\ y.way = x.way /\ (Doomed(y) => Doomed(x)')

LEMMA FewerManaged ==
    ASSUME PositionTypes, Manages, Fewer
    PROVE  Manages'
<1>1. Aim' = Aim /\ (Drops' <=> Drops) /\ Better' = Better /\ Worse' = Worse
  BY MarketStays DEF Fewer
<1>2. /\ \A x \in BetterBuys' : \E y \in BetterBuys : Doomed(y) => Doomed(x)'
      /\ \A x \in WorseBuys' : \E y \in WorseBuys : Doomed(y) => Doomed(x)'
      /\ \A x \in BetterSells' : \E y \in BetterSells : Doomed(y) => Doomed(x)'
  BY <1>1 DEF Fewer, BetterBuys, WorseBuys, BetterSells, P!Of
<1>3. \A to : Clearing(to)' <=> Clearing(to)
  BY DEF Fewer, Clearing
<1>4. Ahead' = Ahead
  BY DEF Fewer, Ahead, Waiting
<1>5. /\ market' = market /\ run'.funds = run.funds /\ run'.pc = run.pc
      /\ SamePlan /\ SameSale /\ SameChoice /\ SameTerms
  BY DEF Fewer, Stays
<1>6. Plans'
  BY <1>1, <1>2, <1>3, <1>4, <1>5 DEF Manages, Plans, SamePlan, Gap
<1>7. TooMuch' <=> TooMuch
  BY <1>1, <1>5 DEF TooMuch, SamePlan
<1>8. SellsRight'
  BY <1>1, <1>4, <1>5, <1>7 DEF Manages, SellsRight, Selling, SameSale
<1>9. Going' <=> Going
  BY <1>5 DEF Going, SameChoice
<1>10. Decides'
  BY <1>1, <1>2, <1>3, <1>4, <1>5, <1>9 DEF Manages, Decides, SamePlan, SameChoice, SameTerms
<1>. QED
  BY <1>6, <1>8, <1>10 DEF Manages

LEMMA FewerWound ==
    ASSUME WindsUp, Fewer
    PROVE  WindsUp'
<1>1. (\A to : Clearing(to)' <=> Clearing(to)) /\ Ahead' = Ahead
  BY DEF Fewer, Clearing, Ahead, Waiting
<1>. QED
  BY <1>1 DEF WindsUp, Fewer

\* Steps that leave the plan, and those that come before the run decides.
LEMMA PlansStill ==
    ASSUME Plans, Still, SamePlan, Ahead \notin {"start", "plan"}, Ahead' \notin {"start", "plan"},
           Ahead' = "end" => run'.pc = "end", run.pc # "cancel"
    PROVE  Plans'
<1>1. Aim' = Aim /\ (Drops' <=> Drops) /\ WorseBuys' = WorseBuys
  BY OrdersStay
<1>2. WorseBuys = {}
  BY DEF Plans, Clearing
<1>. QED
  BY <1>1, <1>2 DEF Plans, SamePlan, Gap

LEMMA DecidesEarly ==
    ASSUME Decides, SameTerms, Ahead \notin {"end"} \cup Trading, Ahead' \notin Decided
    PROVE  Decides'
<1>2. ~Clearing("unlock")'
  BY DEF Clearing, Ahead, Waiting, Decided
<1>3. ~(run'.tier > 0)
  BY DEF Decides, SameTerms
<1>4. Ahead' \notin {"terms", "end"} \cup Trading
  BY DEF Decided, Trading
<1>5. Ahead' \notin Trading
  BY DEF Decided, Trading
<1>. QED
  BY <1>2, <1>3, <1>4, <1>5 DEF Decides

\* The orders a run reads are those that rest, so it withdraws them all.
LEMMA WithdrawsAll ==
    ASSUME PositionTypes, NEW s, NEW way, NEW again, NEW to,
           Withdraws(P!Of(run.orders, s, way), again, to),
           \A x \in P!Of(orders, s, way) : Read(x), run.pc \in Begun
    PROVE  \A x \in P!Of(orders, s, way) :
              run'.pc = "cancel" /\ run'.then = to /\ \E o \in run'.doomed : o.id = x.id
<1>. SUFFICES ASSUME NEW x \in P!Of(orders, s, way)
              PROVE  run'.pc = "cancel" /\ run'.then = to /\ \E o \in run'.doomed : o.id = x.id
  OBVIOUS
<1>1. PICK o \in run.orders : o.id = x.id
  BY DEF Read
<1>2. o \in P!Of(run.orders, s, way)
  BY <1>1 DEF PositionTypes, Named, P!Of
<1>. QED
  BY <1>1, <1>2 DEF Withdraws

\* The step a run goes on with.
LEMMA GoesAhead ==
    ASSUME NEW to \in Begun, GoesTo(to)
    PROVE  Ahead' = to /\ run'.pc = to /\ ~Waiting' /\ \A p : ~Clearing(p)'
BY DEF GoesTo, Ahead, Waiting, Clearing, Begun

LEMMA WithdrawsAhead ==
    ASSUME NEW to \in Begun, NEW os, NEW again, Withdraws(os, again, to)
    PROVE  Ahead' = to /\ \A p : Clearing(p)' => p = to
BY DEF Withdraws, GoesTo, Ahead, Waiting, Clearing, Begun

LEMMA StartQuiet ==
    ASSUME PositionTypes, Knowledge, P!Start, IF run.thesis.over THEN WindsUp ELSE Manages
    PROVE  IF run'.thesis.over THEN WindsUp' ELSE Manages'
<1>1. /\ run.pc = "start" /\ Still /\ Stays
      /\ \/ /\ run.thesis.over
            /\ Withdraws({o \in run.orders : o.way = "buy"}, FALSE, "end")
         \/ /\ ~run.thesis.over
            /\ Withdraws(P!Of(run.orders, P!Opposite(run.view.side), "buy"), TRUE, "plan")
  BY StartDoes DEF PositionTypes, Given
<1>2. HasRead /\ Ahead = "start" /\ run'.thesis = run.thesis /\ orders' = orders
  BY <1>1 DEF HasRead, Ahead, Waiting, Still, SameGiven
<1>3. CASE /\ run.thesis.over
           /\ Withdraws({o \in run.orders : o.way = "buy"}, FALSE, "end")
  <2>1. "end" \in Begun
    BY DEF Begun
  <2>2. Ahead' = "end"
    BY <1>3, <2>1, WithdrawsAhead
  <2>3. ASSUME NEW x \in orders, x.way = "buy"
        PROVE  Clearing("end")' /\ Doomed(x)'
    <3>1. PICK o \in run.orders : o.id = x.id
      BY <1>1, <1>2, <2>3 DEF Knowledge, Read
    <3>2. o.way = "buy"
      BY <2>3, <3>1 DEF PositionTypes, Named
    <3>. QED
      BY <1>3, <3>1, <3>2 DEF Withdraws, Clearing, Doomed
  <2>. QED
    BY <1>2, <1>3, <2>2, <2>3 DEF WindsUp
<1>4. CASE /\ ~run.thesis.over
           /\ Withdraws(P!Of(run.orders, P!Opposite(run.view.side), "buy"), TRUE, "plan")
  <2>1. "plan" \in Begun
    BY DEF Begun
  <2>2. Ahead' = "plan" /\ \A p : Clearing(p)' => p = "plan"
    <3>1. PICK os, b : os = P!Of(run.orders, P!Opposite(run.view.side), "buy") /\ b = TRUE
      OBVIOUS
    <3>2. Withdraws(os, b, "plan")
      BY <1>4, <3>1
    <3>. QED
      BY <2>1, <3>2, WithdrawsAhead
  <2>3. P!Opposite(run.view.side) = Worse
    BY <1>2 DEF Knowledge, Worse
  <2>4. WorseBuys' = WorseBuys /\ Manages
    BY <1>1, <1>4, OrdersStay
  <2>5. \A x \in P!Of(orders, Worse, "buy") : Read(x)
    BY <1>1, <1>2 DEF Knowledge, P!Of
  <2>6. \A x \in WorseBuys : Clearing("plan")' /\ Doomed(x)'
    <3>1. PICK s, b : s = Worse /\ b = TRUE
      OBVIOUS
    <3>2. Withdraws(P!Of(run.orders, s, "buy"), b, "plan") /\ \A x \in P!Of(orders, s, "buy") : Read(x)
      BY <1>4, <2>3, <2>5, <3>1
    <3>3. run.pc \in Begun
      BY <1>1 DEF Begun
    <3>4. \A x \in P!Of(orders, s, "buy") :
             run'.pc = "cancel" /\ run'.then = "plan" /\ \E o \in run'.doomed : o.id = x.id
      BY <3>2, <3>3, WithdrawsAll
    <3>. QED
      BY <3>1, <3>4 DEF WorseBuys, Clearing, Doomed
  <2>7. Plans'
    BY <1>1, <1>2, <2>2, <2>4, <2>6 DEF Manages, Plans, Stays, SamePlan
  <2>8. SellsRight'
    BY <2>2 DEF SellsRight, Selling
  <2>9. Decides'
    BY <1>1, <1>2, <2>2, <2>4, DecidesEarly DEF Manages, Stays, Trading, Decided
  <2>. QED
    BY <1>2, <1>4, <2>7, <2>8, <2>9 DEF Manages
<1>. QED
  BY <1>1, <1>3, <1>4

\* The step a sale goes on with.
LEMMA OffersAhead ==
    ASSUME NEW s, NEW n, NEW back \in {"trim", "decide"}, Offers(s, n, back)
    PROVE  /\ Ahead' \in {back, "sell"} /\ \A p : Clearing(p)' => p = "sell"
           /\ Ahead' = "sell" => run'.side = s /\ run'.asked = n /\ run'.back = back
                                 /\ run.held[s] # 0
<1>1. back \in Begun /\ "sell" \in Begun /\ back # "sell"
  BY DEF Begun
<1>2. CASE GoesTo(back)
  BY <1>1, <1>2, GoesAhead
<1>3. CASE run'.side = s /\ run'.asked = n /\ run'.back = back /\ run.held[s] # 0
  <2>1. CASE GoesTo("sell")
    BY <1>1, <1>3, <2>1, GoesAhead
  <2>2. CASE Withdraws(P!Of(run.orders, s, "sell"), TRUE, "sell")
    <3>1. PICK os, b : os = P!Of(run.orders, s, "sell") /\ b = TRUE
      OBVIOUS
    <3>2. Withdraws(os, b, "sell")
      BY <2>2, <3>1
    <3>3. Ahead' = "sell" /\ \A p : Clearing(p)' => p = "sell"
      BY <1>1, <3>2, WithdrawsAhead
    <3>. QED
      BY <1>3, <3>3
  <2>. QED
    BY <1>2, <1>3, <2>1, <2>2 DEF Offers
<1>. QED
  BY <1>2, <1>3 DEF Offers

LEMMA PlanManages ==
    ASSUME PositionTypes, Knowledge, Manages, P!Plan
    PROVE  Manages'
<1>1. PICK s, n : s = P!Opposite(run.view.side) /\ n = run.held[s]
  OBVIOUS
<1>2. /\ run.pc = "plan" /\ Still /\ SameTerms
      /\ run'.had = run.held[run.view.side]
      /\ run'.gap = P!Larger(P!Target(run.view.side) - run.held[run.view.side], 0)
      /\ run'.blocked <=> (P!Falls(run.view.side) /\ run'.gap > 0)
      /\ Offers(s, n, "trim")
  BY <1>1, PlanDoes DEF PositionTypes, Given
<1>3. HasRead /\ Ahead = "plan" /\ run.view = market
  BY <1>2 DEF HasRead, Ahead, Waiting, Knowledge
<1>4. /\ Ahead' \in {"trim", "sell"} /\ \A p : Clearing(p)' => p = "sell"
      /\ Ahead' = "sell" => run'.side = s /\ run'.asked = n /\ run'.back = "trim"
  BY <1>2, OffersAhead
<1>5. Aim' = Aim /\ (Drops' <=> Drops) /\ Better' = Better /\ Worse' = Worse /\ WorseBuys' = WorseBuys
  BY <1>2, OrdersStay
<1>6. s = Worse /\ P!Target(run.view.side) = Aim /\ (P!Falls(run.view.side) <=> Drops)
  BY <1>1, <1>3 DEF Worse, Aim, Drops, Better
<1>7. WorseBuys = {}
  BY <1>2, <1>3 DEF Manages, Plans, Clearing
<1>8. Plans'
  BY <1>2, <1>4, <1>5, <1>6, <1>7 DEF Plans, Gap
<1>9. SellsRight'
  BY <1>4, <1>5, <1>6 DEF SellsRight, Selling
<1>10. Decides'
  BY <1>2, <1>3, <1>4, DecidesEarly DEF Manages, Trading, Decided
<1>. QED
  BY <1>8, <1>9, <1>10 DEF Manages

LEMMA TrimManages ==
    ASSUME PositionTypes, Knowledge, Manages, P!Trim
    PROVE  Manages'
<1>1. PICK s, a, n : s = run.view.side /\ a = P!Target(s) /\ n = run.had - a
  OBVIOUS
<1>2. /\ run.pc = "trim" /\ Still /\ SamePlan /\ SameTerms
      /\ \/ run.had > a /\ Offers(s, n, "decide")
         \/ GoesTo("decide")
  BY <1>1, TrimDoes DEF PositionTypes, Given
<1>3. HasRead /\ Ahead = "trim" /\ run.view = market /\ s = Better /\ a = Aim
  BY <1>1, <1>2 DEF HasRead, Ahead, Waiting, Knowledge, Better, Aim
<1>4. /\ Ahead' \in {"decide", "sell"}
      /\ Ahead' = "sell" => run'.side = s /\ run'.back = "decide" /\ run.had > a
  <2>1. CASE run.had > a /\ Offers(s, n, "decide")
    BY <2>1, OffersAhead
  <2>2. CASE GoesTo("decide")
    BY <2>2, GoesAhead DEF Begun
  <2>. QED
    BY <1>2, <2>1, <2>2
<1>5. Aim' = Aim /\ Better' = Better
  BY <1>2, OrdersStay
<1>6. Plans'
  BY <1>2, <1>3, <1>4, PlansStill DEF Manages
<1>7. SellsRight'
  BY <1>2, <1>3, <1>4, <1>5 DEF SellsRight, Selling, TooMuch, SamePlan
<1>8. Decides'
  BY <1>2, <1>3, <1>4, DecidesEarly DEF Manages, Trading, Decided
<1>. QED
  BY <1>6, <1>7, <1>8 DEF Manages

\* A sale that came to its end, with an order or without.
LEMMA SaleManages ==
    ASSUME PositionTypes, Manages, run.pc \in {"sell", "retry"}, TooFew \/ Sold
    PROVE  Manages'
<1>1. run.back \in {"trim", "decide"} /\ Ahead = run.pc
  BY DEF PositionTypes, Figures, Selects, Selling, Ahead, Waiting
<1>2. /\ SamePlan /\ SameTerms /\ run'.pc = run.back /\ run'.then = run.then
      /\ market' = market /\ note' = note /\ run'.thesis = run.thesis
  BY DEF TooFew, Sold, Still, Unlasting, Stays, GoesTo, SameGiven
<1>3. Ahead' = run.back
  BY <1>1, <1>2 DEF Ahead, Waiting
<1>4. Aim' = Aim /\ (Drops' <=> Drops) /\ Better' = Better /\ Worse' = Worse
  BY <1>2, MarketStays
<1>5. WorseBuys' = WorseBuys
  <2>1. CASE TooFew
    BY <2>1, OrdersStay DEF TooFew
  <2>2. CASE Sold
    BY <1>4, <2>2 DEF Sold, Adds, WorseBuys, P!Of
  <2>. QED
    BY <2>1, <2>2
<1>6. WorseBuys = {}
  BY <1>1 DEF Manages, Plans, Clearing
<1>7. Plans'
  BY <1>1, <1>2, <1>3, <1>4, <1>5, <1>6 DEF Manages, Plans, SamePlan, Gap
<1>8. SellsRight'
  BY <1>1, <1>3 DEF SellsRight, Selling
<1>9. Decides'
  BY <1>1, <1>2, <1>3, DecidesEarly DEF Manages, Trading, Decided
<1>. QED
  BY <1>7, <1>8, <1>9 DEF Manages

LEMMA SellManages ==
    ASSUME PositionTypes, Manages, P!Sell
    PROVE  Manages'
<1>1. run.pc = "sell"
  BY SellDoes
<1>2. CASE TooFew \/ Sold
  BY <1>1, <1>2, SaleManages
<1>3. CASE /\ Still /\ SamePlan /\ SameTerms /\ Rereads("resell")
           /\ run'.side = run.side /\ run'.back = run.back
  <2>1. Ahead = "sell" /\ Ahead' = "resell"
    BY <1>1, <1>3 DEF Ahead, Waiting, Rereads
  <2>2. Plans'
    BY <1>1, <1>3, <2>1, PlansStill DEF Manages
  <2>3. Aim' = Aim /\ Better' = Better /\ Worse' = Worse
    BY <1>3, OrdersStay
  <2>4. SellsRight'
    BY <1>3, <2>1, <2>3 DEF Manages, SellsRight, Selling, TooMuch, SamePlan
  <2>5. Decides'
    BY <1>3, <2>1, DecidesEarly DEF Manages, Trading, Decided
  <2>. QED
    BY <2>2, <2>4, <2>5 DEF Manages
<1>. QED
  BY <1>2, <1>3, SellDoes

LEMMA ResellManages ==
    ASSUME PositionTypes, Manages, P!Resell
    PROVE  Manages'
<1>1. PICK os, b : os = P!Of(run.orders, run.side, "sell") /\ b = TRUE
  OBVIOUS
<1>2. run.pc = "resell" /\ Still /\ Stays /\ Withdraws(os, b, "retry")
  BY <1>1, ResellDoes DEF PositionTypes, Given
<1>3. "retry" \in Begun
  BY DEF Begun
<1>4. Ahead = "resell" /\ Ahead' = "retry"
  BY <1>2, <1>3, WithdrawsAhead DEF Ahead, Waiting
<1>5. Plans'
  BY <1>2, <1>4, PlansStill DEF Manages, Stays
<1>6. Aim' = Aim /\ Better' = Better /\ Worse' = Worse
  BY <1>2, OrdersStay
<1>7. SellsRight'
  BY <1>2, <1>4, <1>6 DEF Manages, SellsRight, Selling, TooMuch, Stays, SamePlan, SameSale
<1>8. Decides'
  BY <1>2, <1>4, DecidesEarly DEF Manages, Stays, Trading, Decided
<1>. QED
  BY <1>5, <1>7, <1>8 DEF Manages

LEMMA DecideManages ==
    ASSUME PositionTypes, Knowledge, Manages, P!Decide
    PROVE  Manages'
<1>1. LET wants == run.gap > 0 /\ ~run.blocked /\ run.view.part > 0
          tight == ~run.view.strong /\ wants /\ run.view.grade = "two" /\ run.funds.rich
      IN  /\ run.pc = "decide" /\ Still /\ SamePlan /\ SameSale /\ SameTerms
          /\ run'.grade = run.view.grade
          /\ run'.wants <=> wants
          /\ run'.tight <=> tight
          /\ \/ wants /\ (run.view.strong \/ tight) /\ GoesTo("unlock")
             \/ /\ ~(wants /\ (run.view.strong \/ tight))
                /\ Withdraws(P!Of(run.orders, run.view.side, "buy"), FALSE, "unlock")
  BY DecideDoes DEF PositionTypes, Given
<1>2. HasRead /\ Ahead = "decide" /\ run.view = market /\ "unlock" \in Begun /\ run.pc \in Begun
  BY <1>1 DEF HasRead, Ahead, Waiting, Knowledge, Begun
<1>3. Ahead' = "unlock"
  <2>1. PICK os, b : os = P!Of(run.orders, run.view.side, "buy") /\ b = FALSE
    OBVIOUS
  <2>2. GoesTo("unlock") \/ Withdraws(os, b, "unlock")
    BY <1>1, <2>1
  <2>. QED
    BY <1>2, <2>2, GoesAhead, WithdrawsAhead
<1>4. BetterBuys' = BetterBuys /\ market' = market /\ run'.funds = run.funds
  BY <1>1, OrdersStay DEF Still, SameGiven
<1>5. Going' <=> (run'.wants /\ (market.strong \/ run'.tight))
  BY <1>4 DEF Going
<1>6. Clearing("unlock")' => ~Going'
  BY <1>1, <1>2, <1>5 DEF Clearing, GoesTo
<1>7. ~Going' => \A x \in BetterBuys : Clearing("unlock")' /\ Doomed(x)'
  <2>1. SUFFICES ASSUME ~Going' PROVE \A x \in BetterBuys : Clearing("unlock")' /\ Doomed(x)'
    OBVIOUS
  <2>2. PICK s, b : s = Better /\ b = FALSE
    OBVIOUS
  <2>3. Withdraws(P!Of(run.orders, s, "buy"), b, "unlock")
    BY <1>1, <1>2, <1>5, <2>1, <2>2 DEF Better
  <2>4. \A x \in P!Of(orders, s, "buy") : Read(x)
    BY <1>1, <1>2 DEF Knowledge, P!Of
  <2>5. \A x \in P!Of(orders, s, "buy") :
           run'.pc = "cancel" /\ run'.then = "unlock" /\ \E o \in run'.doomed : o.id = x.id
    BY <1>2, <2>3, <2>4, WithdrawsAll
  <2>. QED
    BY <2>2, <2>5 DEF BetterBuys, Clearing, Doomed
<1>8. Plans'
  BY <1>1, <1>2, <1>3, PlansStill DEF Manages
<1>9. SellsRight'
  BY <1>3 DEF SellsRight, Selling
<1>10. ~(run'.tier > 0)
  BY <1>1, <1>2 DEF Manages, Decides, SameTerms, Trading
<1>11. /\ run'.wants <=> (run'.gap > 0 /\ ~run'.blocked /\ market'.part > 0)
       /\ run'.grade = market'.grade
       /\ run'.tight <=> (~market'.strong /\ run'.wants /\ market'.grade = "two" /\ run'.funds.rich)
  BY <1>1, <1>2, <1>4 DEF SamePlan
<1>12. Ahead' \notin {"terms", "end"} \cup Trading /\ Ahead' \notin Trading
  BY <1>3 DEF Trading
<1>13. Decides'
  BY <1>4, <1>6, <1>7, <1>10, <1>11, <1>12 DEF Decides
<1>. QED
  BY <1>8, <1>9, <1>13 DEF Manages

\* Steps after the run decided that leave what it decided.
LEMMA SellsRightLater ==
    ASSUME Ahead' \in Decided
    PROVE  SellsRight'
BY DEF Decided, SellsRight, Selling

LEMMA DecidesLater ==
    ASSUME Decides, Still, SamePlan, SameChoice, Ahead \in Decided, Ahead' \in Decided,
           run.pc # "cancel", ~Clearing("unlock")',
           Ahead' \in {"terms", "end"} \cup Trading /\ Going =>
             \A x \in BetterSells : Clearing("terms")' /\ Doomed(x)',
           Ahead' \in Trading => Going /\ run'.tier > 0,
           run'.tier > 0 => Going /\ Ahead' \in {"end"} \cup Trading
    PROVE  Decides'
<1>1. BetterBuys' = BetterBuys /\ BetterSells' = BetterSells /\ market' = market
      /\ run'.funds = run.funds
  BY OrdersStay DEF Still, SameGiven
<1>2. Going' <=> Going
  BY <1>1 DEF Going, SameChoice
<1>3. ~Going => BetterBuys = {}
  BY DEF Decides, Clearing
<1>. QED
  BY <1>1, <1>2, <1>3 DEF Decides, SamePlan, SameChoice

LEMMA UnlockManages ==
    ASSUME PositionTypes, Knowledge, Manages, P!Unlock
    PROVE  Manages'
<1>1. LET s == run.view.side
          frees == /\ run.view.strong \/ run.tight
                   /\ run.held[s] > 0 /\ ~(run.had > P!Target(s))
      IN  /\ run.pc = "unlock" /\ Still /\ Stays
          /\ \/ frees /\ Withdraws(P!Of(run.orders, s, "sell"), TRUE, "terms")
             \/ ~frees /\ GoesTo("terms")
  BY UnlockDoes DEF PositionTypes, Given
<1>2. HasRead /\ HasHeld /\ Ahead = "unlock" /\ run.view = market /\ "terms" \in Begun /\ run.pc \in Begun
  BY <1>1 DEF HasRead, HasHeld, Ahead, Waiting, Knowledge, Begun
<1>3. Ahead' = "terms" /\ ~Clearing("unlock")'
  <2>1. PICK os, b : os = P!Of(run.orders, run.view.side, "sell") /\ b = TRUE
    OBVIOUS
  <2>2. GoesTo("terms") \/ Withdraws(os, b, "terms")
    BY <1>1, <2>1
  <2>. QED
    BY <1>2, <2>2, GoesAhead, WithdrawsAhead
<1>4. ASSUME Going
      PROVE  \A x \in BetterSells : Clearing("terms")' /\ Doomed(x)'
  <2>1. run.gap > 0 /\ run.gap = Gap(run.had)
    BY <1>2, <1>4 DEF Manages, Plans, Decides, Going, Decided
  <2>2. ~TooMuch
    <3>1. Aim \in Nat /\ run.had \in Nat
      BY <1>1, TwoSides DEF PositionTypes, Figures
    <3>. QED
      BY <2>1, <3>1 DEF Gap, P!Larger, TooMuch
  <2>3. run.view.strong \/ run.tight
    BY <1>2, <1>4 DEF Going
  <2>4. CASE run.held[Better] = 0
    BY <1>2, <2>2, <2>4 DEF Knowledge
  <2>5. CASE run.held[Better] # 0
    <3>1. run.held[Better] \in Nat
      BY <1>1, TwoSides DEF PositionTypes, HasReadTypes
    <3>2. PICK s, b : s = Better /\ b = TRUE
      OBVIOUS
    <3>a. run.view.side = Better /\ run.held[Better] > 0 /\ ~(run.had > P!Target(Better))
      BY <1>2, <2>2, <2>5, <3>1 DEF Better, TooMuch, Aim
    <3>b. \/ Withdraws(P!Of(run.orders, run.view.side, "sell"), TRUE, "terms")
          \/ ~(/\ (run.view.strong \/ run.tight)
               /\ run.held[run.view.side] > 0 /\ ~(run.had > P!Target(run.view.side)))
      BY <1>1
    <3>c. ~~(/\ (run.view.strong \/ run.tight)
               /\ run.held[run.view.side] > 0 /\ ~(run.had > P!Target(run.view.side)))
      BY <2>3, <3>a
    <3>d. Withdraws(P!Of(run.orders, run.view.side, "sell"), TRUE, "terms")
      BY <3>b, <3>c
    <3>3. Withdraws(P!Of(run.orders, s, "sell"), b, "terms")
      BY <3>a, <3>d, <3>2
    <3>4. \A x \in P!Of(orders, s, "sell") : Read(x)
      BY <1>2, <2>2, <3>2 DEF Knowledge, BetterSells
    <3>5. \A x \in P!Of(orders, s, "sell") :
             run'.pc = "cancel" /\ run'.then = "terms" /\ \E o \in run'.doomed : o.id = x.id
      BY <1>2, <3>3, <3>4, WithdrawsAll
    <3>. QED
      BY <3>2, <3>5 DEF BetterSells, Clearing, Doomed
  <2>. QED
    BY <2>4, <2>5
<1>5. Plans'
  BY <1>1, <1>2, <1>3, PlansStill DEF Manages, Stays
<1>6. ~(run'.tier > 0) /\ Ahead' \notin Trading
  BY <1>1, <1>2, <1>3 DEF Manages, Decides, Stays, SameTerms, Trading
<1>7. Decides'
  BY <1>1, <1>2, <1>3, <1>4, <1>6, DecidesLater DEF Manages, Stays, Decided
<1>. QED
  BY <1>3, <1>5, <1>7, SellsRightLater DEF Manages, Decided

LEMMA TermsManages ==
    ASSUME PositionTypes, Knowledge, Manages, P!Terms
    PROVE  Manages'
<1>1. LET tier == IF run.grade = "one" /\ ~run.view.wide THEN 1
                  ELSE IF run.grade = "two" /\ run.funds.rich THEN 2 ELSE 0
      IN  /\ run.pc = "terms" /\ Still /\ SamePlan /\ SameChoice
          /\ \/ SameTerms /\ GoesTo("end")
             \/ ~(tier = 0 \/ ~run.wants) /\ GoesTo("stale") /\ run'.tier = tier
  BY TermsDoes DEF PositionTypes, Given
<1>2. HasRead /\ Ahead = "terms" /\ run.view = market /\ "end" \in Begun /\ "stale" \in Begun
  BY <1>1 DEF HasRead, Ahead, Waiting, Knowledge, Begun
<1>3. Ahead' = run'.pc /\ Ahead' \in {"end", "stale"} /\ ~Clearing("unlock")'
  BY <1>1, <1>2, GoesAhead
<1>4. Plans'
  BY <1>1, <1>2, <1>3, PlansStill DEF Manages
<1>5. Going => BetterSells = {}
  BY <1>1, <1>2 DEF Manages, Decides, Clearing
<1>6. CASE SameTerms /\ Ahead' = "end"
  <2>1. ~(run'.tier > 0) /\ Ahead' \notin Trading
    BY <1>2, <1>6 DEF Manages, Decides, SameTerms, Trading
  <2>2. Decides'
    BY <1>1, <1>2, <1>3, <1>5, <1>6, <2>1, DecidesLater DEF Manages, Decided
  <2>. QED
    BY <1>4, <1>6, <2>2, SellsRightLater DEF Manages, Decided
<1>7. CASE /\ Ahead' = "stale" /\ run.wants /\ run'.tier # 0
           /\ run'.tier = IF run.grade = "one" /\ ~run.view.wide THEN 1
                          ELSE IF run.grade = "two" /\ run.funds.rich THEN 2 ELSE 0
  <2>1. run.grade = market.grade
        /\ (run.tight <=> (~market.strong /\ run.wants /\ market.grade = "two" /\ run.funds.rich))
    BY <1>2 DEF Manages, Decides, Decided
  <2>2. market.grade = "one" => market.strong
    BY <1>1, PositionConstants DEF PositionTypes, Given
  <2>3. Going /\ run'.tier > 0
    BY <1>7, <2>1, <2>2 DEF Going
  <2>4. Ahead' \in Trading
    BY <1>7 DEF Trading
  <2>5. Decides'
    BY <1>1, <1>2, <1>3, <1>5, <1>7, <2>3, <2>4, DecidesLater DEF Manages, Decided
  <2>. QED
    BY <1>4, <1>7, <2>5, SellsRightLater DEF Manages, Decided
<1>8. GoesTo("stale") => Ahead' = "stale"
  BY <1>2, GoesAhead
<1>9. GoesTo("end") => Ahead' = "end"
  BY <1>2, GoesAhead
<1>. QED
  BY <1>1, <1>6, <1>7, <1>8, <1>9

\* The steps of a purchase.
LEMMA TradingManages ==
    ASSUME PositionTypes, Manages, Still, Stays, run.pc \in Trading,
           Ahead' \in {"end"} \cup Trading, Ahead' = "end" => run'.pc = "end"
    PROVE  Manages'
<1>1. Ahead = run.pc /\ Ahead \in Decided /\ Ahead' \in Decided /\ Ahead \in Trading
      /\ run.pc # "cancel"
  BY DEF Ahead, Waiting, Trading, Decided
<1>2. Going /\ run.tier > 0 /\ BetterSells = {}
  BY <1>1 DEF Manages, Decides, Clearing
<1>3. ~Clearing("unlock")'
  BY DEF Clearing, Ahead, Waiting, Trading
<1>4. Plans'
  BY <1>1, PlansStill DEF Manages, Stays, Trading
<1>5. Decides'
  BY <1>1, <1>2, <1>3, DecidesLater DEF Manages, Stays, SameTerms
<1>. QED
  BY <1>1, <1>4, <1>5, SellsRightLater DEF Manages

LEMMA StaleManages ==
    ASSUME PositionTypes, Manages, P!Stale
    PROVE  Manages'
<1>1. PICK os, b : os = P!Of(run.orders, run.view.side, "buy") \ P!Aligned /\ b = TRUE
  OBVIOUS
<1>2. run.pc = "stale" /\ Still /\ Stays /\ Withdraws(os, b, "oversized")
  BY <1>1, StaleDoes DEF PositionTypes, Given
<1>3. Ahead' = "oversized"
  BY <1>2, WithdrawsAhead DEF Begun
<1>. QED
  BY <1>2, <1>3, TradingManages DEF Trading

LEMMA OversizedManages ==
    ASSUME PositionTypes, Manages, P!Oversized
    PROVE  Manages'
<1>1. PICK os, b : os = P!Aligned /\ b = TRUE
  OBVIOUS
<1>2. run.pc = "oversized" /\ Still /\ Stays /\ (Withdraws(os, b, "buy") \/ GoesTo("buy"))
  BY <1>1, OversizedDoes DEF PositionTypes, Given
<1>3. Ahead' = "buy"
  BY <1>2, WithdrawsAhead, GoesAhead DEF Begun
<1>. QED
  BY <1>2, <1>3, TradingManages DEF Trading

LEMMA BuyQuiet ==
    ASSUME PositionTypes, Knowledge, Manages, P!Buy
    PROVE  Manages' /\ Knowledge'
<1>1. run.pc = "buy" /\ GoesTo("end") /\ Stays
  BY BuyDoes
<1>2. Ahead' = "end" /\ run'.pc = "end" /\ ~Clearing("unlock")' /\ ~Clearing("plan")'
  BY <1>1, GoesAhead DEF Begun
<1>3. CASE Still
  <2>1. Manages'
    BY <1>1, <1>2, <1>3, TradingManages DEF Trading
  <2>2. Knowledge'
    BY <1>1, <1>3, StillKnows DEF Stays, SamePlan, Begun
  <2>. QED
    BY <2>1, <2>2
<1>4. ASSUME Unlasting, NEW n, Adds(run.view.side, "buy", n, run.tier, run.price)
      PROVE  Manages' /\ Knowledge'
  <2>1. Knowledge'
    <3>1. PICK s, t, p : s = run.view.side /\ t = run.tier /\ p = run.price
      OBVIOUS
    <3>2. Adds(s, "buy", n, t, p)
      BY <1>4, <3>1
    <3>. QED
      BY <1>1, <1>4, <3>2, BoughtKnows
  <2>2. Ahead = "buy" /\ Ahead \in Decided /\ Ahead \in Trading /\ HasRead
    BY <1>1 DEF Ahead, Waiting, Decided, Trading, HasRead
  <2>3. run.view = market /\ Better # Worse
    BY <1>1, <2>2, TwoSides DEF Knowledge
  <2>4. market' = market /\ note' = note /\ run'.thesis = run.thesis /\ run'.funds = run.funds
    BY <1>4 DEF Unlasting, SameGiven
  <2>5. Aim' = Aim /\ (Drops' <=> Drops) /\ Better' = Better /\ Worse' = Worse
    BY <2>4, MarketStays
  <2>6. PICK x : orders' = orders \cup {x} /\ x.side = Better /\ x.way = "buy"
    BY <1>4, <2>3 DEF Adds, Better
  <2>7. WorseBuys' = WorseBuys /\ BetterSells' = BetterSells
    BY <2>3, <2>5, <2>6 DEF WorseBuys, BetterSells, P!Of
  <2>8. WorseBuys = {} /\ BetterSells = {} /\ Going /\ run.tier > 0
    BY <1>1, <2>2 DEF Manages, Plans, Decides, Clearing
  <2>9. Going' <=> Going
    BY <1>1, <2>4 DEF Going, Stays, SameChoice
  <2>10. Plans'
    BY <1>1, <1>2, <2>2, <2>5, <2>7, <2>8 DEF Manages, Plans, Stays, SamePlan, Gap
  <2>11. SellsRight'
    BY <1>2, SellsRightLater DEF Decided
  <2>12. Ahead' \notin Trading /\ run'.tier > 0
    BY <1>1, <1>2, <2>8 DEF Trading, Stays, SameTerms
  <2>13. Decides'
    BY <1>1, <1>2, <2>2, <2>4, <2>7, <2>8, <2>9, <2>12 DEF Manages, Decides, Stays, SamePlan, SameChoice
  <2>. QED
    BY <2>1, <2>10, <2>11, <2>13 DEF Manages
<1>. QED
  BY <1>3, <1>4, BuyDoes

-----------------------------------------------------------------------------
\* A run that winds up takes no step but the first and the last.
LEMMA WorkManages ==
    ASSUME PositionTypes, QuietTrue, run.weather # "storm", run.pc \in Begun \ {"start", "end"}
    PROVE  Knowledge /\ Manages /\ ~run.thesis.over
<1>1. Ahead = run.pc /\ run.pc # "idle"
  BY DEF Ahead, Waiting, Begun
<1>2. Knowledge /\ IF run.thesis.over THEN WindsUp ELSE Manages
  BY <1>1 DEF QuietTrue
<1>3. ~WindsUp
  BY <1>1 DEF WindsUp, Begun
<1>. QED
  BY <1>2, <1>3

LEMMA WorkStaysQuiet ==
    ASSUME Knowledge', Manages', run'.thesis = run.thesis, ~run.thesis.over
    PROVE  QuietTrue'
BY DEF QuietTrue

\* What a run knows, it knows after a step of its own.
LEMMA SaleKnows ==
    ASSUME PositionTypes, Knowledge, SellsRight, P!Sell \/ P!Retry
    PROVE  Knowledge' /\ run'.thesis = run.thesis
<1>1. run.pc \in {"sell", "retry"} /\ run.pc \in Begun /\ run.pc # "end"
  BY SellDoes, RetryDoes DEF Begun
<1>2. CASE Sold
  BY <1>1, <1>2, SoldKnows DEF Sold, Unlasting, SameGiven
<1>3. CASE Still /\ SameSeen /\ SamePlan
  BY <1>1, <1>3, StillKnows DEF SamePlan, Still, SameGiven
<1>. QED
  BY <1>2, <1>3, SellDoes, RetryDoes DEF TooFew, Stays

LEMMA QuietWork ==
    ASSUME PositionTypes, QuietTrue, run.weather # "storm",
           \/ P!Plan \/ P!Trim \/ P!Sell \/ P!Resell \/ P!Retry \/ P!Decide \/ P!Unlock \/ P!Terms
           \/ P!Stale \/ P!Oversized \/ P!Buy
    PROVE  QuietTrue'
<1>d. DOMAIN run = Fields
  BY DEF PositionTypes, Given
<1>1. run.pc \in Begun \ {"start", "end"}
  BY <1>d, PlanDoes, TrimDoes, SellDoes, ResellDoes, RetryDoes, DecideDoes, UnlockDoes, TermsDoes,
     StaleDoes, OversizedDoes, BuyDoes DEF Begun
<1>2. Knowledge /\ Manages /\ ~run.thesis.over
  BY <1>1, WorkManages
<1>a. Aim \in Nat /\ run.pc # "idle"
  BY <1>1, TwoSides DEF Begun
<1>3. CASE P!Plan
  <2>1. Still /\ SameSeen /\ run.pc = "plan"
    BY <1>d, <1>3, PlanDoes
  <2>2. run.had = 0
    BY <1>2, <2>1 DEF Manages, Plans, Ahead, Waiting
  <2>3. Knowledge'
    BY <1>1, <1>2, <1>a, <2>1, <2>2, StillKnows
  <2>. QED
    BY <1>2, <1>3, <2>1, <2>3, PlanManages, WorkStaysQuiet DEF Still, SameGiven
<1>4. CASE P!Trim \/ P!Resell \/ P!Decide \/ P!Unlock \/ P!Terms \/ P!Stale \/ P!Oversized
  <2>1. Still /\ SameSeen /\ SamePlan
    BY <1>d, <1>4, TrimDoes, ResellDoes, DecideDoes, UnlockDoes, TermsDoes, StaleDoes, OversizedDoes
       DEF Stays
  <2>2. Knowledge'
    BY <1>1, <1>2, <2>1, StillKnows DEF SamePlan
  <2>3. Manages'
    BY <1>2, <1>4, TrimManages, ResellManages, DecideManages, UnlockManages, TermsManages,
       StaleManages, OversizedManages
  <2>. QED
    BY <1>2, <2>1, <2>2, <2>3, WorkStaysQuiet DEF Still, SameGiven
<1>5. CASE P!Sell \/ P!Retry
  <2>1. run.pc \in {"sell", "retry"}
    BY <1>5, SellDoes, RetryDoes
  <2>2. Manages'
    BY <1>2, <1>5, <2>1, SellManages, SaleManages, RetryDoes
  <2>. QED
    BY <1>2, <1>5, <2>2, SaleKnows, WorkStaysQuiet DEF Manages
<1>6. CASE P!Buy
  <2>1. run'.thesis = run.thesis
    BY <1>6, BuyDoes DEF Still, Unlasting, SameGiven
  <2>. QED
    BY <1>2, <1>6, <2>1, BuyQuiet, WorkStaysQuiet
<1>. QED
  BY <1>3, <1>4, <1>5, <1>6

\* Waiting for a call.
LEMMA QuietWait ==
    ASSUME PositionTypes, Covered, QuietTrue, run.weather # "storm",
           P!LoadPositions \/ P!LoadOrders \/ P!Cancelled
    PROVE  QuietTrue'
<1>d. DOMAIN run = Fields
  BY DEF PositionTypes, Given
<1>1. /\ Still /\ SamePlan /\ SameSale /\ SameChoice /\ SameTerms /\ Waiting /\ run.pc # "idle"
      /\ run.pc = "cancel" => run.doomed = {}
  BY <1>d, LoadPositionsDoes, LoadOrdersDoes, CancelledDoes DEF Stays, Waiting
<1>2. run'.pc # "cancel" /\ Ahead' = Ahead
  BY <1>d, LoadPositionsDoes, LoadOrdersDoes, CancelledDoes
     DEF GoesTo, Rereads, Waiting, Ahead, PositionTypes, Given, Begun
<1>3. Knowledge /\ IF run.thesis.over THEN WindsUp ELSE Manages
  BY <1>1 DEF QuietTrue
<1>4. Knowledge'
  <2>1. CASE P!Cancelled
    BY <1>1, <1>3, <1>d, <2>1, CancelledDoes, StillKnows DEF SamePlan, Stays
  <2>. QED
    BY <1>3, <2>1, LoadPositionsKnows, LoadOrdersKnows
<1>5. IF run.thesis.over THEN WindsUp' ELSE Manages'
  BY <1>1, <1>2, <1>3, GoesOnManages, GoesOnWinds
<1>6. run'.thesis = run.thesis
  BY <1>1 DEF Still, SameGiven
<1>. QED
  BY <1>4, <1>5, <1>6 DEF QuietTrue

LEMMA QuietStart ==
    ASSUME PositionTypes, QuietTrue, run.weather # "storm", P!Start
    PROVE  QuietTrue'
<1>1. run.pc = "start" /\ Still /\ Stays
  BY StartDoes DEF PositionTypes, Given
<1>2. Knowledge /\ IF run.thesis.over THEN WindsUp ELSE Manages
  BY <1>1 DEF QuietTrue
<1>3. Knowledge'
  BY <1>1, <1>2, StillKnows DEF SamePlan, Stays, Begun
<1>. QED
  BY <1>2, <1>3, StartQuiet DEF QuietTrue

\* An order that is withdrawn, or one that fills.
LEMMA QuietFewer ==
    ASSUME PositionTypes, QuietTrue, Fewer, run.pc # "idle", run.weather # "storm"
    PROVE  QuietTrue'
<1>1. Knowledge /\ IF run.thesis.over THEN WindsUp ELSE Manages
  BY DEF QuietTrue
<1>2. Knowledge'
  BY <1>1, FewerKnown DEF Fewer, Stays, SamePlan, SameSeen
<1>. QED
  BY <1>1, <1>2, FewerManaged, FewerWound DEF QuietTrue, Fewer

\* Orders that are withdrawn or fill, and runs that begin or end.

LEMMA CancelIsFewer ==
    ASSUME PositionTypes, NEW o, P!Cancel(o)
    PROVE  Fewer
<1>1. /\ run.pc = "cancel" /\ o \in run.doomed
      /\ orders' = {x \in orders : x.id # o.id} /\ run'.pc = run.pc /\ run'.then = run.then
      /\ run'.doomed = run.doomed \ {o} /\ Unlasting /\ Stays
  BY CancelDoes DEF PositionTypes, Given
<1>2. ASSUME NEW x \in orders'
      PROVE  \E y \in orders : y.id = x.id /\ y.side = x.side /\ y.way = x.way
                               /\ (Doomed(y) => Doomed(x)')
  <2>1. x \in orders /\ x.id # o.id
    BY <1>1
  <2>2. ASSUME NEW z \in run.doomed, z.id = x.id
        PROVE  z \in run'.doomed
    BY <1>1, <2>1, <2>2
  <2>3. Doomed(x) => Doomed(x)'
    BY <2>2 DEF Doomed
  <2>. QED
    BY <2>1, <2>3
<1>. QED
  BY <1>1, <1>2 DEF Fewer, Unlasting, SameGiven

LEMMA FillIsFewer ==
    ASSUME PositionTypes, NEW o \in orders, NEW n \in 1..o.left, P!Fill(o, n)
    PROVE  Fewer
<1>1. Filled(o, n) /\ run' = run /\ market' = market /\ note' = note
  BY FillDoes
<1>2. \A x \in orders' : \E y \in orders : y.id = x.id /\ y.side = x.side /\ y.way = x.way
  BY <1>1 DEF Filled
<1>3. ASSUME NEW x, NEW y, y.id = x.id
      PROVE  Doomed(y) => Doomed(x)'
  BY <1>1, <1>3 DEF Doomed
<1>. QED
  BY <1>1, <1>2, <1>3 DEF Fewer, Stays, SameSeen, SamePlan, SameSale, SameChoice, SameTerms

LEMMA QuietRest ==
    ASSUME run'.pc = "idle"
    PROVE  QuietTrue' /\ CalmTrue'
BY DEF QuietTrue, CalmTrue

LEMMA QuietBegin ==
    ASSUME PositionTypes, NEW t, NEW f, NEW w, NEW v, P!Begin(t, f, w, v)
    PROVE  QuietTrue'
<1>1. /\ run'.pc = "positions" /\ run'.then = "start" /\ run'.had = 0
      /\ run'.tier = 0
  BY BeginDoes
<1>2. Ahead' = "start" /\ ~HasRead' /\ ~HasHeld' /\ \A to : ~Clearing(to)'
  BY <1>1 DEF Ahead, Waiting, HasRead, HasHeld, Clearing
<1>3. Knowledge'
  BY <1>2 DEF Knowledge
<1>4. WindsUp'
  BY <1>2 DEF WindsUp
<1>5. Plans' /\ SellsRight'
  BY <1>1, <1>2 DEF Plans, SellsRight, Selling
<1>6. Decides'
  BY <1>1, <1>2 DEF Decides, Decided, Trading
<1>. QED
  BY <1>3, <1>4, <1>5, <1>6 DEF QuietTrue, Manages

\* The steps of others.
LEMMA QuietOthers ==
    ASSUME P!Others
    PROVE  QuietTrue' /\ CalmTrue'
<1>1. run' = run /\ (run.pc = "idle" \/ run.weather = "storm")
  BY OthersDo
<1>. QED
  BY <1>1 DEF QuietTrue, CalmTrue

\* A step of the run changes neither its thesis nor its weather, unless it returns.
LEMMA StepsKeep ==
    ASSUME PositionTypes, P!Steps
    PROVE  \/ run'.pc = "idle"
           \/ run'.weather = run.weather /\ run'.thesis = run.thesis
<1>d. DOMAIN run = Fields
  BY DEF PositionTypes, Given
<1>1. CASE P!LoadPositions \/ P!LoadOrders \/ P!Cancelled \/ P!Start \/ P!Plan \/ P!Trim
  BY <1>d, <1>1, LoadPositionsDoes, LoadOrdersDoes, CancelledDoes, StartDoes, PlanDoes, TrimDoes
     DEF Still, SameGiven
<1>2. CASE \/ P!Sell \/ P!Resell \/ P!Retry \/ P!Decide \/ P!Unlock \/ P!Terms
  BY <1>d, <1>2, SellDoes, ResellDoes, RetryDoes, DecideDoes, UnlockDoes, TermsDoes
     DEF Still, SameGiven, TooFew, Sold, Unlasting
<1>3. CASE P!Stale \/ P!Oversized \/ P!Buy
  BY <1>d, <1>3, StaleDoes, OversizedDoes, BuyDoes DEF Still, SameGiven, Unlasting
<1>4. CASE P!Return \/ P!Fail
  BY <1>4, ReturnDoes, FailDoes, RestFields DEF Returned
<1>5. ASSUME NEW o \in run.doomed, P!Cancel(o)
      PROVE  run'.weather = run.weather /\ run'.thesis = run.thesis
  BY <1>d, <1>5, CancelDoes DEF Unlasting, SameGiven
<1>. QED
  BY <1>1, <1>2, <1>3, <1>4, <1>5 DEF P!Steps

LEMMA QuietStep ==
    ASSUME PositionTypes, Covered, QuietTrue, P!Next
    PROVE  QuietTrue'
<1>1. CASE P!Steps
  <2>1. CASE run.weather = "storm"
    BY <1>1, <2>1, StepsKeep DEF QuietTrue
  <2>2. CASE run.weather # "storm"
    <3>1. CASE \/ P!Plan \/ P!Trim \/ P!Sell \/ P!Resell \/ P!Retry \/ P!Decide \/ P!Unlock
               \/ P!Terms \/ P!Stale \/ P!Oversized \/ P!Buy
      BY <2>2, <3>1, QuietWork
    <3>2. CASE P!LoadPositions \/ P!LoadOrders \/ P!Cancelled
      BY <2>2, <3>2, QuietWait
    <3>3. CASE P!Start
      BY <2>2, <3>3, QuietStart
    <3>4. CASE P!Return \/ P!Fail
      BY <3>4, ReturnDoes, FailDoes, RestFields, QuietRest DEF Returned
    <3>5. ASSUME NEW o \in run.doomed, P!Cancel(o)
          PROVE  QuietTrue'
      <4>1. run.pc # "idle"
        BY <3>5, CancelDoes DEF PositionTypes, Given
      <4>. QED
        BY <2>2, <3>5, <4>1, CancelIsFewer, QuietFewer
    <3>. QED
      BY <1>1, <3>1, <3>2, <3>3, <3>4, <3>5 DEF P!Steps
  <2>. QED
    BY <2>1, <2>2
<1>2. ASSUME NEW o \in orders, NEW n \in 1..o.left, P!Fill(o, n)
      PROVE  QuietTrue'
  <2>1. CASE run.pc = "idle" \/ run.weather = "storm"
    BY <1>2, <2>1, FillDoes DEF QuietTrue
  <2>. QED
    BY <1>2, <2>1, FillIsFewer, QuietFewer
<1>3. ASSUME NEW t \in Theses, NEW f \in Funds, NEW w \in Weathers, NEW v \in Views,
             P!Begin(t, f, w, v)
      PROVE  QuietTrue'
  BY <1>3, QuietBegin
<1>4. CASE P!Others
  BY <1>4, QuietOthers
<1>. QED
  BY <1>1, <1>2, <1>3, <1>4 DEF P!Next, P!LegacyCancel, P!LegacyPlace, P!MarketMoves

-----------------------------------------------------------------------------
\* Runs that nothing disturbs.
LEMMA Numbers ==
    ASSUME PositionTypes, run.pc # "idle"
    PROVE  /\ BetterBids \in Nat /\ BetterAsks \in Nat /\ WorseAsks \in Nat
           /\ held[Better] \in Nat /\ held[Worse] \in Nat /\ Aim \in Nat
           /\ run.had \in Nat /\ run.want \in Nat /\ run.gap \in Nat /\ run.asked \in Nat
           /\ MinShares \in Nat /\ MinShares > 0
<1>1. \A s, way : P!Left(P!Of(orders, s, way)) \in Nat
  <2>. TAKE s, way
  <2>1. PICK os : os = P!Of(orders, s, way)
    OBVIOUS
  <2>2. os \subseteq orders
    BY <2>1 DEF P!Of
  <2>3. P!Left(os) \in Nat
    BY <2>2, OrdersWeigh, LeftIsNat DEF PositionTypes
  <2>. QED
    BY <2>1, <2>3
<1>2. BetterBids \in Nat /\ BetterAsks \in Nat /\ WorseAsks \in Nat
  BY <1>1 DEF BetterBids, BetterAsks, WorseAsks, BetterBuys, BetterSells, WorseSells
<1>3. Better \in P!Sides /\ Worse \in P!Sides /\ Aim \in Nat
  BY TwoSides
<1>4. held[Better] \in Nat /\ held[Worse] \in Nat
  BY <1>3 DEF PositionTypes, Account
<1>. QED
  BY <1>2, <1>3, <1>4, PositionConstants DEF PositionTypes, Figures

\* While it waits for a call, it stays what it was about.
LEMMA WaitingCalm ==
    ASSUME CalmSells, CalmBuys, Still, SamePlan, SameSale, SameChoice, SameTerms,
           Waiting, run.pc = "cancel" => run.doomed = {}, run'.pc # "cancel", Ahead' = Ahead,
           run'.pc # "end"
    PROVE  CalmSells' /\ CalmBuys'
<1>1. /\ Better' = Better /\ Worse' = Worse /\ Aim' = Aim
      /\ BetterBuys' = BetterBuys /\ BetterBids' = BetterBids
      /\ BetterAsks' = BetterAsks /\ WorseAsks' = WorseAsks
  BY OrdersStay
<1>2. /\ held' = held /\ orders' = orders /\ market' = market /\ run'.funds = run.funds
      /\ run'.had = run.had /\ run'.gap = run.gap /\ run'.wants = run.wants
      /\ run'.asked = run.asked /\ run'.side = run.side /\ run'.back = run.back
      /\ run'.tier = run.tier /\ run'.price = run.price /\ run'.want = run.want
  BY DEF Still, SameGiven, SamePlan, SameSale, SameChoice, SameTerms
<1>3. \A x : run.pc = "cancel" => ~Doomed(x)
  BY DEF Doomed
<1>4. \A to : ~Clearing(to)'
  BY DEF Clearing
<1>5. run.pc # "sell" /\ run.pc # "buy"
  BY DEF Waiting
<1>6. TooMuch' <=> TooMuch
  BY <1>1, <1>2 DEF TooMuch
<1>7. CalmSells'
  <2>1. /\ Ahead \notin {"start", "plan"} => run.had = held[Better]
        /\ Ahead = "sell" =>
             /\ run.asked = IF run.back = "trim" THEN held[Worse] ELSE run.had - Aim
             /\ \A x \in orders : ~(x.way = "sell" /\ x.side = run.side)
        /\ Ahead \in {"trim"} \cup Trimmed \/ (Ahead = "sell" /\ run.back = "decide") =>
             held[Worse] - WorseAsks < MinShares
        /\ Ahead \in Trimmed /\ TooMuch => held[Better] - BetterAsks < Aim + MinShares
    BY <1>3, <1>5 DEF CalmSells, Clearing
  <2>. QED
    BY <1>1, <1>2, <1>4, <1>6, <2>1 DEF CalmSells
<1>8. \A x : Fresh(x)' <=> Fresh(x)
  BY <1>2 DEF Fresh
<1>9. CalmBuys'
  <2>1. /\ Ahead \in Trading \/ (Ahead = "end" /\ run.tier > 0) =>
             /\ run.tier = TierOf(market, run.funds) /\ run.price = market.price
             /\ run.want = WantOf(run.gap, market, run.funds)
        /\ Ahead = "end" /\ run.wants => run.tier = TierOf(market, run.funds)
        /\ Ahead = "oversized" => \A x \in BetterBuys : Fresh(x)
        /\ Ahead = "buy" => BetterBuys = {}
    BY <1>3, <1>5 DEF CalmBuys, Clearing
  <2>. QED
    BY <1>1, <1>2, <1>8, <2>1 DEF CalmBuys, TierOf, WantOf
<1>. QED
  BY <1>7, <1>9

LEMMA LoadPositionsCalm ==
    ASSUME PositionTypes, CalmReads, P!LoadPositions
    PROVE  CalmReads'
<1>1. run.pc = "positions" /\ Still /\ GoesTo("orders") /\ run'.held = held
  BY LoadPositionsDoes DEF PositionTypes, Given
<1>2. Ahead' = Ahead /\ run'.pc = "orders" /\ held' = held
  BY <1>1 DEF Still, GoesTo, Ahead, Waiting
<1>3. run'.pc \notin Decided
  BY <1>2 DEF Decided
<1>. QED
  BY <1>1, <1>2, <1>3 DEF CalmReads

LEMMA LoadOrdersCalm ==
    ASSUME PositionTypes, CalmReads, P!LoadOrders
    PROVE  CalmReads'
<1>1. /\ run.pc = "orders" /\ Still /\ GoesTo(run.then)
      /\ run'.held = run.held /\ run'.orders = orders
  BY LoadOrdersDoes DEF PositionTypes, Given
<1>2. Ahead' = Ahead /\ held' = held /\ run.held = held /\ orders' = orders /\ run'.pc # "cancel"
  BY <1>1 DEF Still, GoesTo, Ahead, Waiting, CalmReads, HasHeld, PositionTypes, Given, Begun
<1>3. \A s, way : AsRead(s, way)'
  BY <1>1, <1>2 DEF AsRead
<1>4. AsRead(Worse, "sell")' /\ AsRead(Better, "sell")' /\ AsRead(Better, "buy")'
  BY <1>3
<1>. QED
  BY <1>1, <1>2, <1>4 DEF CalmReads

LEMMA CancelledCalm ==
    ASSUME PositionTypes, CalmReads, P!Cancelled, ~run.thesis.over => Manages,
           run.thesis.over => WindsUp
    PROVE  CalmReads'
<1>1. /\ run.pc = "cancel" /\ run.doomed = {} /\ Still /\ Stays
      /\ \/ run.reload /\ Rereads(run.then)
         \/ ~run.reload /\ GoesTo(run.then)
  BY CancelledDoes DEF PositionTypes, Given
<1>2. held' = held /\ run'.held = run.held /\ run.held = held /\ Ahead = run.then
  BY <1>1 DEF Still, Stays, SameSeen, CalmReads, HasHeld, Ahead, Waiting
<1>3. CASE Rereads(run.then)
  <2>1. run'.pc = "positions" /\ run'.then = run.then /\ Ahead' = Ahead
    BY <1>1, <1>3 DEF Rereads, Ahead, Waiting
  <2>2. run'.pc \notin Decided
    BY <2>1 DEF Decided
  <2>. QED
    BY <1>2, <2>1, <2>2 DEF CalmReads
<1>4. CASE ~run.reload /\ GoesTo(run.then)
  <2>1. run.then \in {"unlock", "end"} /\ run'.pc = run.then /\ Ahead' = run.then
    BY <1>1, <1>4 DEF CalmReads, GoesTo, Ahead, Waiting
  <2>2. run.then = "unlock" => ~Going
    BY <1>1, <1>2, <2>1 DEF Manages, Decides, WindsUp, Clearing
  <2>3. Going' <=> Going
    BY <1>1 DEF Going, Stays, SameChoice, Still
  <2>. QED
    BY <1>2, <2>1, <2>2, <2>3 DEF CalmReads, Decided
<1>. QED
  BY <1>1, <1>3, <1>4

\* An order that is withdrawn is one of the side and the way the run is about.
LEMMA CancelCalm ==
    ASSUME PositionTypes, Knowledge, CalmReads, NEW o, P!Cancel(o)
    PROVE  CalmReads'
<1>1. /\ run.pc = "cancel" /\ run'.pc = run.pc /\ run'.then = run.then
      /\ run'.reload = run.reload /\ Unlasting /\ Stays
  BY CancelDoes DEF PositionTypes, Given
<1>2. HasHeld /\ HasHeld' /\ Ahead' = Ahead /\ held' = held /\ run'.held = run.held
  BY <1>1 DEF HasHeld, Ahead, Waiting, Unlasting, Stays, SameSeen
<1>3. run'.pc \notin Decided
  BY <1>1 DEF Decided
<1>. QED
  BY <1>1, <1>2, <1>3 DEF CalmReads

LEMMA CancelSpares ==
    ASSUME PositionTypes, Knowledge, Manages, CalmReads, NEW o, P!Cancel(o)
    PROVE  /\ Ahead \in {"trim"} \cup Trimmed \/ (Ahead = "sell" /\ run.back = "decide") =>
                WorseSells' = WorseSells
           /\ Ahead \in Trimmed /\ TooMuch => Clearing("terms") \/ BetterSells' = BetterSells
<1>1. /\ run.pc = "cancel" /\ o \in run.doomed /\ \E x \in orders : x.id = o.id
      /\ orders' = {x \in orders : x.id # o.id} /\ Unlasting
  BY CancelDoes DEF PositionTypes, Given
<1>2. Better' = Better /\ Worse' = Worse
  BY <1>1, MarketStays DEF Unlasting, SameGiven
<1>3. PICK x \in orders : x.id = o.id
  BY <1>1
<1>4. orders' = orders \ {x}
  BY <1>1, <1>3 DEF PositionTypes, Account
<1>5. x.side = o.side /\ x.way = o.way
  BY <1>1, <1>3 DEF PositionTypes, HasReadTypes, Named
<1>6. \A s, way : (x.side # s \/ x.way # way) => P!Of(orders', s, way) = P!Of(orders, s, way)
  BY <1>4 DEF P!Of
<1>7. Ahead = run.then /\ HasRead /\ run.view = market
  BY <1>1, ReadingWith DEF Ahead, Waiting, Knowledge
<1>8. Better # Worse
  BY <1>1, TwoSides
<1>9. /\ run.then \in Cleared
      /\ x.way = IF run.then \in {"sell", "retry", "terms"} THEN "sell" ELSE "buy"
      /\ run.then \in {"sell", "retry"} => x.side = run.side
      /\ run.then \in {"unlock", "terms", "oversized", "buy"} => x.side = Better
  BY <1>1, <1>5, <1>7 DEF PositionTypes, Marked, Better
<1>10. ASSUME Ahead \in {"trim"} \cup Trimmed \/ (Ahead = "sell" /\ run.back = "decide")
       PROVE  WorseSells' = WorseSells
  <2>1. CASE Ahead = "sell" /\ run.back = "decide"
    <3>1. x.side = Better
      BY <1>7, <1>9, <2>1 DEF Manages, SellsRight, Selling
    <3>. QED
      BY <1>2, <1>6, <1>8, <3>1 DEF WorseSells
  <2>2. CASE Ahead = "terms"
    BY <1>2, <1>6, <1>7, <1>8, <1>9, <2>2 DEF WorseSells
  <2>3. CASE Ahead \notin {"sell", "terms"}
    <3>1. x.way = "buy"
      BY <1>7, <1>9, <1>10, <2>3 DEF Trimmed, Decided
    <3>. QED
      BY <1>2, <1>6, <3>1 DEF WorseSells
  <2>. QED
    BY <1>10, <2>1, <2>2, <2>3 DEF Trimmed, Decided
<1>11. ASSUME Ahead \in Trimmed, ~Clearing("terms")
       PROVE  BetterSells' = BetterSells
  <2>1. x.way = "buy"
    BY <1>1, <1>7, <1>9, <1>11 DEF Trimmed, Decided, Clearing
  <2>. QED
    BY <1>2, <1>6, <2>1 DEF BetterSells
<1>. QED
  BY <1>10, <1>11

LEMMA CancelCalms ==
    ASSUME PositionTypes, Knowledge, Manages, CalmReads, CalmSells, CalmBuys, NEW o, P!Cancel(o)
    PROVE  CalmSells' /\ CalmBuys'
<1>1. /\ run.pc = "cancel" /\ orders' = {x \in orders : x.id # o.id}
      /\ run'.pc = run.pc /\ run'.then = run.then /\ Unlasting /\ Stays
  BY CancelDoes DEF PositionTypes, Given
<1>2. Fewer
  BY CancelIsFewer
<1>3. Better' = Better /\ Worse' = Worse /\ Aim' = Aim
  BY <1>1, MarketStays DEF Unlasting, SameGiven
<1>4. /\ held' = held /\ market' = market /\ run'.funds = run.funds
      /\ run'.had = run.had /\ run'.gap = run.gap /\ run'.wants = run.wants
      /\ run'.asked = run.asked /\ run'.side = run.side /\ run'.back = run.back
      /\ run'.tier = run.tier /\ run'.price = run.price /\ run'.want = run.want
  BY <1>1 DEF Unlasting, SameGiven, Stays, SamePlan, SameSale, SameChoice, SameTerms
<1>5. Ahead' = Ahead /\ \A to : Clearing(to)' <=> Clearing(to)
  BY <1>1 DEF Ahead, Waiting, Clearing
<1>6. \A x \in orders' : x \in orders /\ (Doomed(x) => Doomed(x)')
  <2>. TAKE x \in orders'
  <2>1. x \in orders /\ x.id # o.id
    BY <1>1
  <2>2. run'.doomed = run.doomed \ {o}
    BY CancelDoes DEF PositionTypes, Given
  <2>3. ASSUME NEW z \in run.doomed, z.id = x.id
        PROVE  z \in run'.doomed
    BY <2>1, <2>2, <2>3
  <2>. QED
    BY <2>1, <2>3 DEF Doomed
<1>7. TooMuch' <=> TooMuch
  BY <1>3, <1>4 DEF TooMuch
<1>8. /\ Ahead \in {"trim"} \cup Trimmed \/ (Ahead = "sell" /\ run.back = "decide") =>
           WorseAsks' = WorseAsks
      /\ Ahead \in Trimmed /\ TooMuch => BetterAsks' = BetterAsks
  BY CancelSpares DEF CalmSells, WorseAsks, BetterAsks
<1>9. CalmSells'
  BY <1>1, <1>3, <1>4, <1>5, <1>6, <1>7, <1>8 DEF CalmSells
<1>10. \A x \in BetterBuys' : x \in BetterBuys
  BY <1>3, <1>6 DEF BetterBuys, P!Of
<1>11. \A x : Fresh(x)' <=> Fresh(x)
  BY <1>4 DEF Fresh
<1>12. BetterBuys' \subseteq orders'
  BY DEF BetterBuys, P!Of
<1>13. CalmBuys'
  BY <1>1, <1>3, <1>4, <1>5, <1>6, <1>10, <1>11, <1>12 DEF CalmBuys, TierOf, WantOf
<1>. QED
  BY <1>9, <1>13

LEMMA WithdrawsTo ==
    ASSUME NEW os, NEW again, NEW to, Withdraws(os, again, to)
    PROVE  run'.pc = to \/ (run'.pc = "cancel" /\ run'.then = to /\ run'.reload = again)
BY DEF Withdraws, GoesTo

\* Withdrawing buys of the other side.
LEMMA StartCalm ==
    ASSUME PositionTypes, CalmReads, P!Start
    PROVE  CalmReads' /\ (~run.thesis.over => CalmSells' /\ CalmBuys')
<1>1. PICK os, ps, f, t : /\ os = {o \in run.orders : o.way = "buy"}
                          /\ ps = P!Of(run.orders, P!Opposite(run.view.side), "buy")
                          /\ f = FALSE /\ t = TRUE
  OBVIOUS
<1>2. /\ run.pc = "start" /\ Still /\ Stays
      /\ \/ run.thesis.over /\ Withdraws(os, f, "end")
         \/ ~run.thesis.over /\ Withdraws(ps, t, "plan")
  BY <1>1, StartDoes DEF PositionTypes, Given
<1>3. /\ held' = held /\ orders' = orders /\ run'.held = run.held /\ run'.orders = run.orders
      /\ run.held = held /\ run.orders = orders
  BY <1>2 DEF Still, Stays, SameSeen, CalmReads, HasHeld
<1>4. "end" \in Begun /\ "plan" \in Begun
  BY DEF Begun
<1>5. CASE Withdraws(os, f, "end") /\ run.thesis.over
  <2>1. Ahead' = "end"
    BY <1>4, <1>5, WithdrawsAhead
  <2>2. run'.pc = "end" \/ (run'.pc = "cancel" /\ run'.then = "end")
    BY <1>5, WithdrawsTo
  <2>. QED
    BY <1>3, <1>5, <2>1, <2>2 DEF CalmReads, Decided
<1>6. CASE Withdraws(ps, t, "plan")
  <2>1. Ahead' = "plan" /\ \A p : Clearing(p)' => p = "plan"
    BY <1>4, <1>6, WithdrawsAhead
  <2>2. run'.pc = "plan" \/ (run'.pc = "cancel" /\ run'.reload = t)
    BY <1>6, WithdrawsTo
  <2>3. CalmReads'
    BY <1>1, <1>3, <2>1, <2>2 DEF CalmReads, Decided
  <2>4. CalmSells'
    BY <2>1 DEF CalmSells, Trimmed, Decided
  <2>5. CalmBuys'
    BY <2>1, <2>2 DEF CalmBuys, Trading
  <2>. QED
    BY <2>3, <2>4, <2>5
<1>. QED
  BY <1>2, <1>5, <1>6

\* A sale that is asked for: of what no order locks, or after the orders that
\* lock it were withdrawn.
Asked(s, n, back) ==
    /\ Ahead' = "sell" /\ run'.side = s /\ run'.asked = n /\ run'.back = back
    /\ \/ run'.pc = "sell"
       \/ run'.pc = "cancel" /\ run'.reload /\ run'.then = "sell"
    /\ \/ \A x \in orders : x.way = "sell" /\ x.side = s =>
            run'.pc = "cancel" /\ run'.then = "sell" /\ \E o \in run'.doomed : o.id = x.id
       \/ run'.pc = "sell" /\ n <= held[s] - P!Left(P!Of(orders, s, "sell"))

LEMMA SellsLeft ==
    ASSUME PositionTypes, NEW s \in P!Sides
    PROVE  /\ held[s] - P!Left(P!Of(orders, s, "sell")) \in Int
           /\ P!Left(P!Of(orders, s, "sell")) \in Nat /\ held[s] \in Nat
<1>1. PICK os : os = P!Of(orders, s, "sell")
  OBVIOUS
<1>2. os \subseteq orders
  BY <1>1 DEF P!Of
<1>3. P!Left(os) \in Nat
  BY <1>2, OrdersWeigh, LeftIsNat DEF PositionTypes
<1>. QED
  BY <1>1, <1>3 DEF PositionTypes, Account

LEMMA OffersAsk ==
    ASSUME PositionTypes, NEW s \in P!Sides, NEW n \in Nat, NEW back \in {"trim", "decide"},
           Offers(s, n, back), run.held = held, AsRead(s, "sell")
    PROVE  \/ held[s] = 0 /\ GoesTo(back)
           \/ Asked(s, n, back)
<1>1. CASE run.held[s] = 0 /\ GoesTo(back)
  BY <1>1
<1>2. CASE /\ run.held[s] # 0 /\ run'.side = s /\ run'.asked = n /\ run'.back = back
           /\ \/ P!Of(run.orders, s, "sell") # {} /\ Withdraws(P!Of(run.orders, s, "sell"), TRUE, "sell")
              \/ P!Of(run.orders, s, "sell") = {} /\ GoesTo("sell")
              \/ ~(n > P!Sellable(run.held, run.orders, s)) /\ GoesTo("sell")
  <2>1. PICK os, t : os = P!Of(orders, s, "sell") /\ t = TRUE
    OBVIOUS
  <2>2. P!Of(run.orders, s, "sell") = os
    BY <2>1 DEF AsRead
  <2>3. P!Sellable(run.held, run.orders, s) = held[s] - P!Left(os)
    BY <2>2 DEF P!Sellable
  <2>4. \/ os # {} /\ Withdraws(os, t, "sell")
        \/ os = {} /\ GoesTo("sell")
        \/ ~(n > held[s] - P!Left(os)) /\ GoesTo("sell")
    BY <1>2, <2>1, <2>2, <2>3
  <2>5. \A x \in orders : x.way = "sell" /\ x.side = s => x \in os
    BY <2>1 DEF P!Of
  <2>6. CASE os # {} /\ Withdraws(os, t, "sell")
    <3>1. run'.pc = "cancel" /\ run'.then = "sell" /\ run'.doomed = os /\ run'.reload = t
      BY <2>6 DEF Withdraws
    <3>2. Ahead' = "sell"
      BY <3>1 DEF Ahead, Waiting
    <3>3. run'.reload
      BY <2>1, <3>1
    <3>. QED
      BY <1>2, <2>5, <3>1, <3>2, <3>3 DEF Asked
  <2>7. CASE GoesTo("sell") /\ (os = {} \/ ~(n > held[s] - P!Left(os)))
    <3>1. run'.pc = "sell" /\ Ahead' = "sell"
      BY <2>7 DEF GoesTo, Ahead, Waiting
    <3>2. os = {} \/ n <= held[s] - P!Left(os)
      BY <2>1, <2>7, SellsLeft
    <3>3. CASE os = {}
      BY <1>2, <2>5, <3>1, <3>3 DEF Asked
    <3>4. CASE n <= held[s] - P!Left(os)
      BY <1>2, <2>1, <3>1, <3>4 DEF Asked
    <3>. QED
      BY <3>2, <3>3, <3>4
  <2>. QED
    BY <2>4, <2>6, <2>7
<1>. QED
  BY <1>1, <1>2 DEF Offers

LEMMA PlanCalm ==
    ASSUME PositionTypes, Knowledge, Manages, CalmReads, P!Plan
    PROVE  CalmReads' /\ CalmSells' /\ CalmBuys'
<1>1. PICK s, n : s = P!Opposite(run.view.side) /\ n = run.held[s]
  OBVIOUS
<1>2. /\ run.pc = "plan" /\ Still /\ SameSeen /\ SameTerms
      /\ run'.had = run.held[run.view.side] /\ Offers(s, n, "trim")
  BY <1>1, PlanDoes DEF PositionTypes, Given
<1>3. HasRead /\ HasHeld /\ Ahead = "plan" /\ run.view = market /\ run.pc # "idle"
  BY <1>2 DEF HasRead, HasHeld, Ahead, Waiting, Knowledge
<1>4. s = Worse /\ run.held = held /\ run.orders = orders /\ n = held[Worse]
      /\ run'.had = held[Better]
  BY <1>1, <1>2, <1>3 DEF Worse, Better, CalmReads
<1>5. Better \in P!Sides /\ Worse \in P!Sides /\ n \in Nat
  BY <1>3, <1>4, TwoSides, Numbers
<1>6. AsRead(s, "sell")
  BY <1>4 DEF AsRead
<1>7. (held[s] = 0 /\ GoesTo("trim")) \/ Asked(s, n, "trim")
  BY <1>2, <1>4, <1>5, <1>6, OffersAsk
<1>8. /\ Better' = Better /\ Worse' = Worse /\ held' = held /\ orders' = orders
      /\ WorseAsks' = WorseAsks /\ run'.held = held /\ run'.orders = orders'
  BY <1>2, <1>4, OrdersStay DEF Still, SameSeen
<1>9. AsRead(Worse, "sell")' /\ AsRead(Better, "sell")' /\ AsRead(Better, "buy")'
  BY <1>8 DEF AsRead
<1>10. CASE held[s] = 0 /\ GoesTo("trim")
  <2>1. run'.pc = "trim" /\ Ahead' = "trim" /\ \A to : ~Clearing(to)'
    BY <1>10 DEF GoesTo, Ahead, Waiting, Clearing
  <2>2. held[Worse] - WorseAsks < MinShares
    BY <1>3, <1>4, <1>10, Numbers
  <2>3. CalmReads'
    BY <1>8, <1>9, <2>1 DEF CalmReads, Decided
  <2>4. CalmSells'
    BY <1>4, <1>8, <2>1, <2>2 DEF CalmSells, Trimmed, Decided
  <2>. QED
    BY <2>1, <2>3, <2>4 DEF CalmBuys, Trading
<1>11. CASE Asked(s, n, "trim")
  <2>1. /\ Ahead' = "sell" /\ run'.side = Worse /\ run'.asked = n /\ run'.back = "trim"
        /\ run'.pc = "sell" \/ (run'.pc = "cancel" /\ run'.reload)
        /\ \/ \A x \in orders : x.way = "sell" /\ x.side = Worse =>
                run'.pc = "cancel" /\ run'.then = "sell" /\ \E o \in run'.doomed : o.id = x.id
           \/ run'.pc = "sell" /\ n <= held[Worse] - WorseAsks
    BY <1>4, <1>11 DEF Asked, WorseAsks, WorseSells
  <2>2. \/ \A x \in orders' : x.way = "sell" /\ x.side = run'.side =>
             Clearing("sell")' /\ Doomed(x)'
        \/ run'.pc = "sell" /\ run'.back = "trim" /\ run'.asked <= held'[Worse'] - WorseAsks'
    BY <1>8, <2>1 DEF Clearing, Doomed
  <2>3. ~Clearing("terms")'
    BY <2>1 DEF Clearing, Ahead, Waiting
  <2>4. CalmReads'
    BY <1>8, <1>9, <2>1 DEF CalmReads, Decided
  <2>5. CalmSells'
    BY <1>4, <1>8, <2>1, <2>2, <2>3 DEF CalmSells, Trimmed, Decided
  <2>6. CalmBuys'
    BY <2>1 DEF CalmBuys, Trading
  <2>. QED
    BY <2>4, <2>5, <2>6
<1>. QED
  BY <1>7, <1>10, <1>11

LEMMA TrimCalm ==
    ASSUME PositionTypes, Knowledge, Manages, CalmReads, CalmSells, P!Trim
    PROVE  CalmReads' /\ CalmSells' /\ CalmBuys'
<1>1. PICK s, n : s = run.view.side /\ n = run.had - P!Target(s)
  OBVIOUS
<1>2. /\ run.pc = "trim" /\ Still /\ SameSeen /\ SamePlan /\ SameTerms
      /\ \/ run.had > P!Target(s) /\ Offers(s, n, "decide")
         \/ ~(run.had > P!Target(s)) /\ GoesTo("decide")
  BY <1>1, TrimDoes DEF PositionTypes, Given
<1>3. HasRead /\ HasHeld /\ Ahead = "trim" /\ run.view = market /\ run.pc # "idle"
  BY <1>2 DEF HasRead, HasHeld, Ahead, Waiting, Knowledge
<1>4. /\ s = Better /\ run.held = held /\ run.had = held[Better] /\ n = run.had - Aim
      /\ AsRead(Better, "sell") /\ AsRead(Better, "buy")
      /\ held[Worse] - WorseAsks < MinShares
  BY <1>1, <1>2, <1>3 DEF Better, Aim, CalmReads, CalmSells
<1>5. Better \in P!Sides /\ run.had \in Nat /\ Aim \in Nat /\ BetterAsks \in Nat
  BY <1>3, TwoSides, Numbers
<1>6. /\ Better' = Better /\ Worse' = Worse /\ Aim' = Aim /\ held' = held /\ orders' = orders
      /\ WorseAsks' = WorseAsks /\ BetterAsks' = BetterAsks
      /\ run'.held = held /\ run'.orders = run.orders /\ run'.had = run.had
  BY <1>2, <1>4, OrdersStay DEF Still, SameSeen, SamePlan
<1>7. AsRead(Better, "sell")' /\ AsRead(Better, "buy")'
  BY <1>4, <1>6 DEF AsRead
<1>8. CASE GoesTo("decide") /\ (held[Better] = 0 \/ ~(run.had > Aim))
  <2>1. run'.pc = "decide" /\ Ahead' = "decide" /\ \A to : ~Clearing(to)'
    BY <1>8 DEF GoesTo, Ahead, Waiting, Clearing
  <2>2. ~(run.had > Aim)
    BY <1>4, <1>5, <1>8
  <2>3. CalmReads'
    BY <1>6, <1>7, <2>1 DEF CalmReads, Decided
  <2>4. CalmSells'
    BY <1>4, <1>6, <2>1, <2>2 DEF CalmSells, Trimmed, Decided, TooMuch
  <2>. QED
    BY <2>1, <2>3, <2>4 DEF CalmBuys, Trading
<1>9. CASE run.had > Aim /\ Asked(s, n, "decide")
  <2>1. /\ Ahead' = "sell" /\ run'.side = Better /\ run'.asked = n /\ run'.back = "decide"
        /\ run'.pc = "sell" \/ (run'.pc = "cancel" /\ run'.reload)
        /\ \/ \A x \in orders : x.way = "sell" /\ x.side = Better =>
                run'.pc = "cancel" /\ run'.then = "sell" /\ \E o \in run'.doomed : o.id = x.id
           \/ run'.pc = "sell" /\ n <= held[Better] - BetterAsks
    BY <1>4, <1>9 DEF Asked, BetterAsks, BetterSells
  <2>2. \/ \A x \in orders' : x.way = "sell" /\ x.side = run'.side =>
             Clearing("sell")' /\ Doomed(x)'
        \/ run'.pc = "sell" /\ run'.back = "decide" /\ run'.asked <= held'[Better'] - BetterAsks'
    BY <1>6, <2>1 DEF Clearing, Doomed
  <2>3. ~Clearing("terms")'
    BY <2>1 DEF Clearing, Ahead, Waiting
  <2>4. CalmReads'
    BY <1>6, <1>7, <2>1 DEF CalmReads, Decided
  <2>5. CalmSells'
    BY <1>4, <1>6, <2>1, <2>2, <2>3 DEF CalmSells, Trimmed, Decided
  <2>6. CalmBuys'
    BY <2>1 DEF CalmBuys, Trading
  <2>. QED
    BY <2>4, <2>5, <2>6
<1>10. CASE run.had > Aim /\ Offers(s, n, "decide")
  <2>1. n \in Nat
    BY <1>4, <1>5, <1>10
  <2>2. (held[s] = 0 /\ GoesTo("decide")) \/ Asked(s, n, "decide")
    BY <1>4, <1>5, <1>10, <2>1, OffersAsk
  <2>. QED
    BY <1>4, <1>8, <1>9, <1>10, <2>2
<1>11. P!Target(s) = Aim
  BY <1>4 DEF Aim
<1>. QED
  BY <1>2, <1>8, <1>10, <1>11

\* What is asked for can be sold, and is.
LEMMA SaleFits ==
    ASSUME PositionTypes, Covered, Knowledge, Manages, CalmReads, CalmSells, run.pc = "sell"
    PROVE  /\ P!ForSale = run.asked /\ P!Fits(run.side, P!ForSale)
           /\ run.back \in {"trim", "decide"}
           /\ run.side = IF run.back = "trim" THEN Worse ELSE Better
<1>1. HasRead /\ HasHeld /\ Ahead = "sell" /\ run.view = market /\ run.pc # "idle"
  BY DEF HasRead, HasHeld, Ahead, Waiting, Knowledge
<1>2. /\ run.back \in {"trim", "decide"}
      /\ run.side = IF run.back = "trim" THEN Worse ELSE Better
      /\ run.back = "decide" => TooMuch
  BY <1>1 DEF PositionTypes, Figures, Selects, Selling, Manages, SellsRight
<1>3. run.held = held /\ AsRead(run.side, "sell")
  BY <1>1, <1>2 DEF CalmReads
<1>4. PICK s, n : s = run.side /\ n = P!Left(P!Of(orders, s, "sell"))
  OBVIOUS
<1>5. s \in P!Sides /\ n \in Nat /\ held[s] \in Nat /\ n <= held[s] /\ run.asked \in Nat
  BY <1>1, <1>2, <1>4, TwoSides, SellsLeft, Numbers DEF Covered
<1>6. P!Sellable(run.held, run.orders, run.side) = held[s] - n
      /\ P!Sellable(held, orders, run.side) = held[s] - n
  BY <1>3, <1>4 DEF P!Sellable, AsRead
<1>7. ASSUME \A x \in orders : ~(x.way = "sell" /\ x.side = run.side)
      PROVE  n = 0
  <2>1. P!Of(orders, s, "sell") = {}
    BY <1>4, <1>7 DEF P!Of
  <2>. QED
    BY <1>4, <2>1, LeftNone
<1>8. run.asked <= held[s]
  BY <1>1, <1>2, <1>4, <1>5, Numbers DEF CalmSells
<1>9. run.asked <= held[s] - n
  <2>1. \/ \A x \in orders : ~(x.way = "sell" /\ x.side = run.side)
        \/ run.back = "trim" /\ run.asked <= held[Worse] - WorseAsks
        \/ run.back = "decide" /\ run.asked <= held[Better] - BetterAsks
    BY <1>1 DEF CalmSells, Clearing
  <2>2. CASE \A x \in orders : ~(x.way = "sell" /\ x.side = run.side)
    BY <1>5, <1>7, <1>8, <2>2
  <2>. QED
    BY <1>2, <1>4, <2>1, <2>2 DEF WorseAsks, WorseSells, BetterAsks, BetterSells
<1>10. P!ForSale = run.asked
  BY <1>5, <1>6, <1>9 DEF P!ForSale, P!Smaller
<1>. QED
  BY <1>2, <1>6, <1>9, <1>10 DEF P!Fits

LEMMA SellCalm ==
    ASSUME PositionTypes, Covered, Knowledge, Manages, CalmReads, CalmSells, P!Sell
    PROVE  CalmReads' /\ CalmSells' /\ CalmBuys'
<1>1. run.pc = "sell" /\ (TooFew \/ Sold)
  BY SellDoes, SaleFits
<1>2. HasHeld /\ Ahead = "sell" /\ run.pc # "idle"
  BY <1>1 DEF HasHeld, Ahead, Waiting
<1>3. /\ P!ForSale = run.asked /\ run.back \in {"trim", "decide"}
      /\ run.side = IF run.back = "trim" THEN Worse ELSE Better
  BY <1>1, SaleFits
<1>4. /\ Stays /\ GoesTo(run.back) /\ market' = market /\ note' = note /\ held' = held
      /\ run'.thesis = run.thesis
  BY <1>1 DEF TooFew, Sold, Still, Unlasting, SameGiven
<1>5. Better' = Better /\ Worse' = Worse /\ Aim' = Aim
  BY <1>4, MarketStays
<1>6. run'.pc = run.back /\ Ahead' = run.back /\ \A to : ~Clearing(to)'
  BY <1>3, <1>4 DEF GoesTo, Ahead, Waiting, Clearing
<1>7. /\ run.held = held /\ AsRead(Better, "sell") /\ AsRead(Better, "buy")
      /\ run.had = held[Better]
      /\ run.asked = IF run.back = "trim" THEN held[Worse] ELSE run.had - Aim
      /\ run.back = "decide" => held[Worse] - WorseAsks < MinShares
  BY <1>1, <1>2 DEF CalmReads, CalmSells
<1>8. /\ WorseAsks \in Nat /\ BetterAsks \in Nat /\ held[Better] \in Nat /\ held[Worse] \in Nat
      /\ Aim \in Nat /\ MinShares \in Nat /\ MinShares > 0 /\ run.asked \in Nat /\ run.had \in Nat
  BY <1>2, Numbers
<1>9. Better # Worse
  BY <1>2, TwoSides
<1>10. /\ run.back = "trim" => held[Worse] - WorseAsks' < MinShares
                               /\ P!Of(orders', Better, "sell") = BetterSells
       /\ run.back = "decide" => held[Better] - BetterAsks' < Aim + MinShares
                                 /\ WorseAsks' = WorseAsks
       /\ P!Of(orders', Better, "buy") = BetterBuys
  <2>1. CASE TooFew
    <3>1. orders' = orders /\ WorseAsks' = WorseAsks /\ BetterAsks' = BetterAsks
      BY <2>1, OrdersStay DEF TooFew, Still
    <3>2. run.asked < MinShares
      BY <1>3, <2>1 DEF TooFew
    <3>. QED
      BY <1>7, <1>8, <3>1, <3>2 DEF BetterSells, BetterBuys
  <2>2. CASE Sold
    <3>1. PICK n : n = run.asked
      OBVIOUS
    <3>2. Adds(run.side, "sell", n, 0, 0)
      BY <1>3, <2>2, <3>1 DEF Sold
    <3>3. n \in Nat
      BY <1>8, <3>1
    <3>4. /\ P!Left(P!Of(orders', run.side, "sell")) = P!Left(P!Of(orders, run.side, "sell")) + n
          /\ Elsewhere(run.side, "sell")
      BY <3>2, <3>3, AddsTo
    <3>5. P!Of(orders', Better, "buy") = BetterBuys
      BY <3>4 DEF Elsewhere, BetterBuys
    <3>6. CASE run.back = "trim"
      <4>1. WorseAsks' = WorseAsks + n
        BY <1>3, <1>5, <3>4, <3>6 DEF WorseAsks, WorseSells
      <4>2. P!Of(orders', Better, "sell") = BetterSells
        BY <1>3, <1>9, <3>4, <3>6 DEF Elsewhere, BetterSells
      <4>3. held[Worse] - WorseAsks' < MinShares
        BY <1>7, <1>8, <3>1, <3>6, <4>1
      <4>. QED
        BY <3>5, <3>6, <4>2, <4>3
    <3>7. CASE run.back = "decide"
      <4>1. BetterAsks' = BetterAsks + n
        BY <1>3, <1>5, <3>4, <3>7 DEF BetterAsks, BetterSells
      <4>2. WorseAsks' = WorseAsks
        BY <1>3, <1>5, <1>9, <3>4, <3>7 DEF Elsewhere, WorseAsks, WorseSells
      <4>3. held[Better] - BetterAsks' < Aim + MinShares
        BY <1>7, <1>8, <3>1, <3>7, <4>1
      <4>. QED
        BY <3>5, <3>7, <4>2, <4>3
    <3>. QED
      BY <1>3, <3>6, <3>7
  <2>. QED
    BY <1>1, <2>1, <2>2
<1>11. run'.held = held /\ run'.orders = run.orders /\ run'.had = run.had
  BY <1>4, <1>7 DEF Stays, SameSeen, SamePlan
<1>12. AsRead(Better, "buy")' /\ (run.back = "trim" => AsRead(Better, "sell")')
  BY <1>5, <1>7, <1>10, <1>11 DEF AsRead, BetterBuys, BetterSells
<1>13. CalmReads'
  BY <1>3, <1>4, <1>6, <1>11, <1>12 DEF CalmReads, Decided
<1>14. run.back = "decide" => held[Worse] - WorseAsks' < MinShares
  BY <1>7, <1>10
<1>15. CalmSells'
  <2>1. held'[Better'] = held[Better] /\ held'[Worse'] = held[Worse]
    BY <1>4, <1>5
  <2>. QED
    BY <1>3, <1>5, <1>6, <1>7, <1>10, <1>11, <1>14, <2>1 DEF CalmSells, Trimmed, Decided
<1>16. CalmBuys'
  BY <1>3, <1>6 DEF CalmBuys, Trading
<1>. QED
  BY <1>13, <1>15, <1>16

\* Steps after the sales leave what is for sale, and what was read.
LEMMA AfterSales ==
    ASSUME CalmSells, Still, SamePlan, Ahead \in Trimmed, Ahead' \in Trimmed,
           Clearing("terms")' => ~TooMuch
    PROVE  CalmSells'
<1>1. /\ Better' = Better /\ Worse' = Worse /\ Aim' = Aim
      /\ BetterAsks' = BetterAsks /\ WorseAsks' = WorseAsks
  BY OrdersStay
<1>2. held' = held /\ run'.had = run.had
  BY DEF Still, SamePlan
<1>3. TooMuch' <=> TooMuch
  BY <1>1, <1>2 DEF TooMuch
<1>4. Ahead' \notin {"start", "plan", "sell"} /\ Ahead \notin {"start", "plan"}
  BY DEF Trimmed, Decided
<1>. QED
  BY <1>1, <1>2, <1>3, <1>4 DEF CalmSells

LEMMA DecideCalm ==
    ASSUME PositionTypes, Knowledge, Manages, CalmReads, CalmSells, P!Decide
    PROVE  CalmReads' /\ CalmSells' /\ CalmBuys'
<1>1. PICK os, f : os = P!Of(run.orders, run.view.side, "buy") /\ f = FALSE
  OBVIOUS
<1>2. /\ run.pc = "decide" /\ Still /\ SameSeen /\ SamePlan
      /\ GoesTo("unlock") \/ Withdraws(os, f, "unlock")
  BY <1>1, DecideDoes DEF PositionTypes, Given
<1>3. "unlock" \in Begun /\ HasHeld /\ Ahead = "decide"
  BY <1>2 DEF Begun, HasHeld, Ahead, Waiting
<1>4. Ahead' = "unlock" /\ \A p : Clearing(p)' => p = "unlock"
  BY <1>2, <1>3, GoesAhead, WithdrawsAhead
<1>5. run'.pc = "unlock" \/ (run'.pc = "cancel" /\ run'.then = "unlock")
  BY <1>2, WithdrawsTo DEF GoesTo
<1>6. /\ run'.held = held /\ held' = held /\ run'.orders = run.orders /\ orders' = orders
      /\ Better' = Better /\ AsRead(Better, "buy")
  BY <1>2, <1>3, OrdersStay DEF Still, SameSeen, CalmReads
<1>7. AsRead(Better, "buy")'
  BY <1>6 DEF AsRead
<1>8. CalmReads'
  BY <1>4, <1>5, <1>6, <1>7 DEF CalmReads
<1>9. CalmSells'
  BY <1>2, <1>3, <1>4, AfterSales DEF Trimmed, Decided
<1>. QED
  BY <1>4, <1>5, <1>8, <1>9 DEF CalmBuys, Trading

\* What it read of the buys, as it goes on to trade.
LEMMA LaterReads ==
    ASSUME CalmReads, Still, SameSeen, SameChoice, run.pc \in Decided \ {"end"}, HasHeld,
           Ahead' \in Decided,
           \/ run'.pc \in Decided
           \/ run'.pc = "cancel" /\ run'.reload
    PROVE  CalmReads'
<1>1. /\ run'.held = held /\ held' = held /\ run'.orders = run.orders /\ orders' = orders
      /\ Better' = Better /\ market' = market
  BY OrdersStay DEF Still, SameSeen, CalmReads
<1>2. Going' <=> Going
  BY <1>1 DEF Going, SameChoice
<1>3. Going => AsRead(Better, "buy")'
  BY <1>1 DEF CalmReads, AsRead
<1>. QED
  BY <1>1, <1>2, <1>3 DEF CalmReads, Decided

LEMMA UnlockCalm ==
    ASSUME PositionTypes, Knowledge, Manages, CalmReads, CalmSells, P!Unlock
    PROVE  CalmReads' /\ CalmSells' /\ CalmBuys'
<1>1. PICK os, t : os = P!Of(run.orders, run.view.side, "sell") /\ t = TRUE
  OBVIOUS
<1>2. /\ run.pc = "unlock" /\ Still /\ Stays
      /\ \/ ~(run.had > P!Target(run.view.side)) /\ Withdraws(os, t, "terms")
         \/ GoesTo("terms")
  BY <1>1, UnlockDoes DEF PositionTypes, Given
<1>3. "terms" \in Begun /\ HasHeld /\ HasRead /\ Ahead = "unlock" /\ run.view = market
  BY <1>2 DEF Begun, HasHeld, HasRead, Ahead, Waiting, Knowledge
<1>4. Ahead' = "terms" /\ \A p : Clearing(p)' => p = "terms"
  BY <1>2, <1>3, GoesAhead, WithdrawsAhead
<1>5. run'.pc = "terms" \/ (run'.pc = "cancel" /\ run'.reload)
  <2>1. run'.pc = "terms" \/ (run'.pc = "cancel" /\ run'.reload = t)
    BY <1>2, WithdrawsTo DEF GoesTo
  <2>. QED
    BY <1>1, <2>1
<1>6. CalmReads'
  BY <1>2, <1>3, <1>4, <1>5, LaterReads DEF Stays, Decided
<1>7. Clearing("terms")' => ~TooMuch
  <2>1. Aim = P!Target(run.view.side)
    BY <1>3 DEF Aim, Better
  <2>2. GoesTo("terms") => ~Clearing("terms")'
    BY <1>3, GoesAhead
  <2>. QED
    BY <1>2, <2>1, <2>2 DEF TooMuch
<1>8. CalmSells'
  BY <1>2, <1>3, <1>4, <1>7, AfterSales DEF Trimmed, Decided, Stays
<1>9. run'.pc # "end"
  BY <1>4 DEF Ahead, Waiting
<1>. QED
  BY <1>4, <1>6, <1>8, <1>9 DEF CalmBuys, Trading

LEMMA TermsCalm ==
    ASSUME PositionTypes, Knowledge, Manages, CalmReads, CalmSells, P!Terms
    PROVE  CalmReads' /\ CalmSells' /\ CalmBuys'
<1>1. PICK tier : tier = IF run.grade = "one" /\ ~run.view.wide THEN 1
                         ELSE IF run.grade = "two" /\ run.funds.rich THEN 2 ELSE 0
  OBVIOUS
<1>2. /\ run.pc = "terms" /\ Still /\ SameSeen /\ SamePlan /\ SameChoice
      /\ \/ (tier = 0 \/ ~run.wants) /\ SameTerms /\ GoesTo("end")
         \/ /\ GoesTo("stale") /\ run'.tier = tier /\ run'.price = run.view.price
            /\ run'.want = WantOf(run.gap, run.view, run.funds)
  BY <1>1, TermsDoes DEF PositionTypes, Given
<1>3. /\ "end" \in Begun /\ "stale" \in Begun /\ HasHeld /\ HasRead /\ Ahead = "terms"
      /\ run.view = market
  BY <1>2 DEF Begun, HasHeld, HasRead, Ahead, Waiting, Knowledge
<1>4. Ahead' = run'.pc /\ Ahead' \in {"end", "stale"} /\ \A p : ~Clearing(p)'
  BY <1>2, <1>3, GoesAhead
<1>5. CalmReads'
  BY <1>2, <1>3, <1>4, LaterReads DEF Decided
<1>6. CalmSells'
  BY <1>2, <1>3, <1>4, AfterSales DEF Trimmed, Decided
<1>7. /\ market' = market /\ run'.funds = run.funds /\ run'.gap = run.gap
      /\ run'.wants = run.wants
  BY <1>2 DEF Still, SameGiven, SamePlan, SameChoice
<1>8. tier = TierOf(market, run.funds)
  BY <1>1, <1>3 DEF TierOf, Manages, Decides, Decided
<1>9. run.tier = 0
  BY <1>3 DEF Manages, Decides, Trading, PositionTypes, Figures
<1>10. CASE GoesTo("end") /\ SameTerms /\ (tier = 0 \/ ~run.wants)
  <2>1. run'.tier = 0 /\ Ahead' = "end"
    BY <1>3, <1>9, <1>10, GoesAhead DEF SameTerms
  <2>2. ~(run'.tier > 0)
    BY <2>1
  <2>3. run'.wants => run'.tier = TierOf(market', run'.funds)
    BY <1>7, <1>8, <1>10, <2>1 DEF TierOf
  <2>. QED
    BY <1>5, <1>6, <2>1, <2>2, <2>3 DEF CalmBuys, Trading
<1>11. CASE /\ GoesTo("stale") /\ run'.tier = tier /\ run'.price = run.view.price
            /\ run'.want = WantOf(run.gap, run.view, run.funds)
  <2>1. Ahead' = "stale" /\ run'.pc = "stale"
    BY <1>3, <1>11, GoesAhead
  <2>2. /\ run'.tier = TierOf(market', run'.funds) /\ run'.price = market'.price
        /\ run'.want = WantOf(run'.gap, market', run'.funds)
    BY <1>3, <1>7, <1>8, <1>11 DEF TierOf, WantOf
  <2>3. CalmBuys'
    BY <2>1, <2>2 DEF CalmBuys, Trading, TierOf, WantOf
  <2>. QED
    BY <1>5, <1>6, <2>3
<1>. QED
  BY <1>2, <1>10, <1>11

\* The orders of the terms a run goes by, as it reads them.
LEMMA AlignedAre ==
    ASSUME PositionTypes, Knowledge, Manages, CalmReads, run.pc \in Trading
    PROVE  /\ run.view = market /\ Going /\ Ahead = run.pc /\ HasHeld
           /\ P!Aligned = {x \in BetterBuys : Fresh(x)}
           /\ P!Of(run.orders, run.view.side, "buy") = BetterBuys
<1>1. HasRead /\ HasHeld /\ Ahead = run.pc
  BY DEF HasRead, HasHeld, Ahead, Waiting, Trading
<1>2. run.view = market
  BY <1>1 DEF Knowledge
<1>3. Going
  BY <1>1 DEF Manages, Decides
<1>4. AsRead(Better, "buy")
  BY <1>3 DEF CalmReads, Decided, Trading
<1>5. P!Of(run.orders, run.view.side, "buy") = BetterBuys
  BY <1>2, <1>4 DEF AsRead, Better, BetterBuys
<1>6. P!Aligned = {x \in BetterBuys : Fresh(x)}
  BY <1>5 DEF P!Aligned, P!NeedsUpdate, P!Side, Fresh
<1>. QED
  BY <1>1, <1>2, <1>3, <1>5, <1>6

\* The terms stay, as a run trades by them.
SameDeal ==
    /\ run'.tier = run.tier /\ run'.price = run.price /\ run'.want = run.want
    /\ run'.gap = run.gap /\ run'.funds = run.funds /\ market' = market

LEMMA DealStands ==
    ASSUME CalmBuys, Ahead \in Trading, SameDeal
    PROVE  /\ run'.tier = TierOf(market', run'.funds) /\ run'.price = market'.price
           /\ run'.want = WantOf(run'.gap, market', run'.funds)
           /\ \A x : Fresh(x)' <=> Fresh(x)
BY DEF CalmBuys, SameDeal, TierOf, WantOf, Fresh

LEMMA StillDeals ==
    ASSUME Still, Stays
    PROVE  SameDeal
BY DEF Still, Stays, SameTerms, SamePlan, SameGiven, SameDeal

LEMMA StaleCalm ==
    ASSUME PositionTypes, Knowledge, Manages, CalmReads, CalmSells, CalmBuys, P!Stale
    PROVE  CalmReads' /\ CalmSells' /\ CalmBuys'
<1>1. PICK os, t : os = P!Of(run.orders, run.view.side, "buy") \ P!Aligned /\ t = TRUE
  OBVIOUS
<1>2. run.pc = "stale" /\ Still /\ Stays /\ Withdraws(os, t, "oversized")
  BY <1>1, StaleDoes DEF PositionTypes, Given
<1>3. run.pc \in Trading /\ "oversized" \in Begun /\ run.pc \in Decided \ {"end"}
  BY <1>2 DEF Trading, Begun, Decided
<1>4. HasHeld /\ Ahead = "stale" /\ os = {x \in BetterBuys : ~Fresh(x)}
  BY <1>1, <1>2, <1>3, AlignedAre
<1>5. Ahead' = "oversized" /\ \A p : Clearing(p)' => p = "oversized"
  BY <1>2, <1>3, WithdrawsAhead
<1>6. run'.pc = "oversized" \/ (run'.pc = "cancel" /\ run'.reload = t)
  BY <1>2, WithdrawsTo
<1>7. CalmReads'
  BY <1>1, <1>2, <1>3, <1>4, <1>5, <1>6, LaterReads DEF Stays, Decided
<1>8. CalmSells'
  BY <1>2, <1>4, <1>5, AfterSales DEF Trimmed, Decided, Stays
<1>9. \A x \in BetterBuys : Fresh(x) \/ (Clearing("oversized")' /\ Doomed(x)')
  BY <1>2, <1>4 DEF Withdraws, Clearing, Doomed
<1>10. BetterBuys' = BetterBuys
  BY <1>2, OrdersStay
<1>11. SameDeal /\ Ahead \in Trading
  BY <1>2, <1>4, StillDeals DEF Trading
<1>12. /\ run'.tier = TierOf(market', run'.funds) /\ run'.price = market'.price
       /\ run'.want = WantOf(run'.gap, market', run'.funds)
       /\ \A x : Fresh(x)' <=> Fresh(x)
  BY <1>11, DealStands
<1>13. \A x \in BetterBuys' : Fresh(x)' \/ (Clearing("oversized")' /\ Doomed(x)')
  BY <1>9, <1>10, <1>12
<1>14. run'.pc # "end"
  BY <1>5 DEF Ahead, Waiting
<1>15. CalmBuys'
  BY <1>5, <1>12, <1>13, <1>14 DEF CalmBuys, TierOf, WantOf
<1>. QED
  BY <1>7, <1>8, <1>15

LEMMA OversizedCalm ==
    ASSUME PositionTypes, Knowledge, Manages, CalmReads, CalmSells, CalmBuys, P!Oversized
    PROVE  CalmReads' /\ CalmSells' /\ CalmBuys'
<1>1. PICK os, t : os = P!Aligned /\ t = TRUE
  OBVIOUS
<1>2. /\ run.pc = "oversized" /\ Still /\ Stays
      /\ \/ Withdraws(os, t, "buy")
         \/ ~(P!Left(os) > run.want) /\ GoesTo("buy")
  BY <1>1, OversizedDoes DEF PositionTypes, Given
<1>3. run.pc \in Trading /\ "buy" \in Begun /\ run.pc \in Decided \ {"end"}
  BY <1>2 DEF Trading, Begun, Decided
<1>4. HasHeld /\ Ahead = "oversized" /\ os = {x \in BetterBuys : Fresh(x)}
  BY <1>1, <1>2, <1>3, AlignedAre
<1>5. \A x \in BetterBuys : Fresh(x)
  BY <1>2, <1>4 DEF CalmBuys, Clearing
<1>6. os = BetterBuys
  BY <1>4, <1>5
<1>7. Ahead' = "buy" /\ \A p : Clearing(p)' => p = "buy"
  BY <1>2, <1>3, WithdrawsAhead, GoesAhead
<1>8. run'.pc = "buy" \/ (run'.pc = "cancel" /\ run'.reload = t)
  BY <1>2, WithdrawsTo DEF GoesTo
<1>9. CalmReads'
  BY <1>1, <1>2, <1>3, <1>4, <1>7, <1>8, LaterReads DEF Stays, Decided
<1>10. CalmSells'
  BY <1>2, <1>4, <1>7, AfterSales DEF Trimmed, Decided, Stays
<1>11. BetterBuys' = BetterBuys /\ BetterBids' = BetterBids
  BY <1>2, OrdersStay
<1>12. SameDeal /\ Ahead \in Trading
  BY <1>2, <1>4, StillDeals DEF Trading
<1>13. /\ run'.tier = TierOf(market', run'.funds) /\ run'.price = market'.price
       /\ run'.want = WantOf(run'.gap, market', run'.funds)
       /\ \A x : Fresh(x)' <=> Fresh(x)
  BY <1>12, DealStands
<1>14. \/ \A x \in BetterBuys' : Clearing("buy")' /\ Doomed(x)'
       \/ run'.pc = "buy" /\ Met' /\ \A x \in BetterBuys' : Fresh(x)'
  <2>1. CASE Withdraws(os, t, "buy")
    BY <1>6, <1>11, <2>1 DEF Withdraws, Clearing, Doomed
  <2>2. CASE ~(P!Left(os) > run.want) /\ GoesTo("buy")
    <3>1. BetterBids \in Nat /\ run.want \in Nat
      BY <1>2, Numbers
    <3>2. BetterBids <= run.want
      BY <1>6, <2>2, <3>1 DEF BetterBids
    <3>3. Met'
      BY <1>11, <1>12, <3>2 DEF Met, SameDeal
    <3>. QED
      BY <1>5, <1>11, <1>13, <2>2, <3>3 DEF GoesTo
  <2>. QED
    BY <1>2, <2>1, <2>2
<1>15. run'.pc # "end"
  BY <1>7 DEF Ahead, Waiting
<1>16. CalmBuys'
  BY <1>7, <1>13, <1>14, <1>15 DEF CalmBuys, TierOf, WantOf
<1>. QED
  BY <1>9, <1>10, <1>16

LEMMA FundsBound ==
    ASSUME NEW n \in Nat, NEW v, NEW f \in Funds, f.afford > 0, WantOf(n, v, f) \in Nat, v.part \in 0..2
    PROVE  WantOf(n, v, f) <= f.afford
<1>1. PICK half : half = (n * v.part) \div 2
  OBVIOUS
<1>2. half \in Nat
  BY <1>1, Halves
<1>3. WantOf(n, v, f) = P!Smaller(half, f.afford)
  BY <1>1 DEF WantOf
<1>4. f.afford \in Nat
  BY PositionConstants
<1>. QED
  BY <1>2, <1>3, <1>4 DEF P!Smaller

\* What a buy lacks, and what the orders there are would buy.
LEMMA BuyReads ==
    ASSUME PositionTypes, Knowledge, Manages, CalmReads, CalmBuys, run.pc = "buy"
    PROVE  /\ Met /\ \A x \in BetterBuys : Fresh(x)
           /\ run.view = market /\ P!Missing \in Int /\ P!Missing <= run.want - BetterBids
           /\ run.funds.afford > 0 => P!Missing = run.want - BetterBids
<1>1. run.pc \in Trading /\ run.pc # "idle"
  BY DEF Trading
<1>2. Ahead = "buy" /\ P!Aligned = {x \in BetterBuys : Fresh(x)} /\ run.view = market
  BY <1>1, AlignedAre
<1>3. BetterBuys = {} \/ (Met /\ \A x \in BetterBuys : Fresh(x))
  BY <1>2 DEF CalmBuys, Clearing
<1>4. BetterBids \in Nat /\ run.want \in Nat /\ run.gap \in Nat
  BY <1>1, Numbers
<1>5. BetterBuys = {} => BetterBids = 0
  BY LeftNone DEF BetterBids
<1>6. Met /\ \A x \in BetterBuys : Fresh(x)
  BY <1>3, <1>4, <1>5 DEF Met
<1>7. P!Aligned = BetterBuys
  BY <1>2, <1>6
<1>8. P!Missing = P!Smaller(run.want - BetterBids, run.funds.afford)
  BY <1>7 DEF P!Missing, BetterBids
<1>9. run.funds \in Funds /\ run.funds.afford \in Nat /\ market.part \in 0..2
  BY <1>1, PositionConstants DEF PositionTypes, Given
<1>10. run.want = WantOf(run.gap, market, run.funds)
  BY <1>2 DEF CalmBuys, Trading
<1>11. run.funds.afford > 0 => run.want <= run.funds.afford
  BY <1>4, <1>9, <1>10, FundsBound
<1>12. P!Missing \in Int /\ P!Missing <= run.want - BetterBids
  BY <1>4, <1>8, <1>9 DEF P!Smaller
<1>13. run.funds.afford > 0 => P!Missing = run.want - BetterBids
  BY <1>4, <1>8, <1>9, <1>11 DEF P!Smaller
<1>. QED
  BY <1>2, <1>6, <1>12, <1>13

LEMMA BuyCalm ==
    ASSUME PositionTypes, Knowledge, Manages, CalmReads, CalmSells, CalmBuys,
           run.weather = "calm", P!Buy
    PROVE  CalmReads' /\ CalmSells' /\ CalmBuys'
<1>1. PICK n, s : n = P!Missing /\ s = Better
  OBVIOUS
<1>2. run.pc = "buy" /\ run.pc # "idle"
  BY BuyDoes
<1>3. /\ Met /\ \A x \in BetterBuys : Fresh(x)
      /\ run.view = market /\ n \in Int /\ n <= run.want - BetterBids
      /\ run.funds.afford > 0 => n = run.want - BetterBids
  BY <1>1, <1>2, BuyReads
<1>4. /\ Stays /\ GoesTo("end") /\ run'.thesis = run.thesis /\ market' = market /\ note' = note
      /\ held' = held /\ run'.funds = run.funds
      /\ \/ n < MinShares /\ orders' = orders
         \/ n >= MinShares /\ Adds(s, "buy", n, run.tier, run.price)
  BY <1>1, <1>3, BuyDoes DEF Still, Unlasting, SameGiven, Better
<1>5. Better' = Better /\ Worse' = Worse /\ Aim' = Aim
  BY <1>4, MarketStays
<1>6. run'.pc = "end" /\ Ahead' = "end" /\ \A p : ~Clearing(p)'
  BY <1>4 DEF GoesTo, Ahead, Waiting, Clearing
<1>7. HasHeld /\ Ahead = "buy"
  BY <1>2 DEF HasHeld, Ahead, Waiting
<1>8. /\ BetterBids \in Nat /\ run.want \in Nat /\ MinShares \in Nat /\ MinShares > 0
  BY <1>2, Numbers
<1>9. SameDeal /\ Ahead \in Trading
  BY <1>4, <1>7 DEF SameDeal, Stays, SameTerms, SamePlan, Trading
<1>10. /\ run'.tier = TierOf(market', run'.funds) /\ run'.price = market'.price
       /\ run'.want = WantOf(run'.gap, market', run'.funds)
       /\ \A x : Fresh(x)' <=> Fresh(x)
  BY <1>9, DealStands
<1>11. /\ \A x \in BetterBuys' : Fresh(x)
       /\ BetterBids' <= run.want
       /\ run.funds.afford > 0 => run.want - BetterBids' < MinShares
       /\ P!Of(orders', Better, "sell") = BetterSells /\ P!Of(orders', Worse, "sell") = WorseSells
  <2>1. CASE n < MinShares /\ orders' = orders
    <3>1. BetterBuys' = BetterBuys /\ BetterBids' = BetterBids
      BY <1>5, <2>1 DEF BetterBuys, BetterBids
    <3>. QED
      BY <1>3, <1>8, <2>1, <3>1 DEF Met, BetterSells, WorseSells
  <2>2. CASE n >= MinShares /\ Adds(s, "buy", n, run.tier, run.price)
    <3>1. n \in Nat
      BY <1>3, <1>8, <2>2
    <3>2. /\ P!Left(P!Of(orders', s, "buy")) = P!Left(P!Of(orders, s, "buy")) + n
          /\ Elsewhere(s, "buy")
          /\ \E x : /\ P!Of(orders', s, "buy") = P!Of(orders, s, "buy") \cup {x}
                    /\ x.tier = run.tier /\ x.price = run.price
      BY <2>2, <3>1, AddsTo
    <3>3. BetterBids' = BetterBids + n
      BY <1>1, <1>5, <3>2 DEF BetterBids, BetterBuys
    <3>4. \A x \in BetterBuys' : Fresh(x)
      BY <1>1, <1>3, <1>5, <3>2 DEF BetterBuys, Fresh
    <3>5. P!Of(orders', Better, "sell") = BetterSells /\ P!Of(orders', Worse, "sell") = WorseSells
      BY <3>2 DEF Elsewhere, BetterSells, WorseSells
    <3>. QED
      BY <1>3, <1>8, <3>3, <3>4, <3>5
  <2>. QED
    BY <1>4, <2>1, <2>2
<1>12. BetterAsks' = BetterAsks /\ WorseAsks' = WorseAsks
  BY <1>5, <1>11 DEF BetterAsks, WorseAsks, BetterSells, WorseSells
<1>13. run'.held = held' /\ run'.had = run.had
  BY <1>4, <1>7 DEF CalmReads, Stays, SameSeen, SamePlan
<1>14. CalmReads'
  BY <1>6, <1>13 DEF CalmReads
<1>15. CalmSells'
  BY <1>4, <1>5, <1>6, <1>7, <1>12, <1>13 DEF CalmSells, Trimmed, Decided, TooMuch
<1>16. Met' /\ Enough'
  BY <1>4, <1>11 DEF Met, Enough, Stays, SameTerms
<1>17. CalmBuys'
  BY <1>6, <1>10, <1>11, <1>16 DEF CalmBuys, Trading, TierOf, WantOf
<1>. QED
  BY <1>14, <1>15, <1>17

LEMMA CalmWork ==
    ASSUME PositionTypes, Covered, QuietTrue, CalmTrue, run.weather = "calm",
           \/ P!Plan \/ P!Trim \/ P!Sell \/ P!Resell \/ P!Retry \/ P!Decide \/ P!Unlock \/ P!Terms
           \/ P!Stale \/ P!Oversized \/ P!Buy
    PROVE  CalmReads' /\ CalmSells' /\ CalmBuys'
<1>d. DOMAIN run = Fields
  BY DEF PositionTypes, Given
<1>1. run.pc \in Begun \ {"start", "end"}
  BY <1>d, PlanDoes, TrimDoes, SellDoes, ResellDoes, RetryDoes, DecideDoes, UnlockDoes, TermsDoes,
     StaleDoes, OversizedDoes, BuyDoes DEF Begun
<1>2. run.pc # "idle" /\ run.weather # "storm" /\ Ahead = run.pc
  BY <1>1 DEF Begun, Ahead, Waiting
<1>3. Knowledge /\ Manages /\ ~run.thesis.over
  BY <1>1, <1>2, WorkManages
<1>4. CalmReads /\ CalmSells /\ CalmBuys
  BY <1>2, <1>3 DEF CalmTrue
<1>5. ~P!Resell /\ ~P!Retry
  BY <1>2, <1>4, <1>d, ResellDoes, RetryDoes DEF CalmReads
<1>. QED
  BY <1>3, <1>4, <1>5, PlanCalm, TrimCalm, SellCalm, DecideCalm, UnlockCalm, TermsCalm, StaleCalm,
     OversizedCalm, BuyCalm

LEMMA CalmWait ==
    ASSUME PositionTypes, QuietTrue, CalmTrue, run.weather = "calm",
           P!LoadPositions \/ P!LoadOrders \/ P!Cancelled
    PROVE  CalmReads' /\ (~run.thesis.over => CalmSells' /\ CalmBuys')
<1>d. DOMAIN run = Fields
  BY DEF PositionTypes, Given
<1>1. /\ Still /\ SamePlan /\ SameSale /\ SameChoice /\ SameTerms /\ Waiting /\ run.pc # "idle"
      /\ run.pc = "cancel" => run.doomed = {}
  BY <1>d, LoadPositionsDoes, LoadOrdersDoes, CancelledDoes DEF Stays, Waiting
<1>2. run'.pc # "cancel" /\ Ahead' = Ahead /\ (run'.pc = "end" => Ahead = "end")
  BY <1>d, LoadPositionsDoes, LoadOrdersDoes, CancelledDoes
     DEF GoesTo, Rereads, Waiting, Ahead, PositionTypes, Given, Begun
<1>3. Knowledge /\ (run.thesis.over => WindsUp) /\ (~run.thesis.over => Manages)
  BY <1>1 DEF QuietTrue
<1>4. CalmReads /\ (~run.thesis.over => CalmSells /\ CalmBuys)
  BY <1>1 DEF CalmTrue
<1>5. CalmReads'
  BY <1>3, <1>4, LoadPositionsCalm, LoadOrdersCalm, CancelledCalm
<1>6. ASSUME ~run.thesis.over
      PROVE  CalmSells' /\ CalmBuys'
  <2>1. run'.pc # "end"
    BY <1>1, <1>2, <1>3, <1>6 DEF Manages, Plans, Waiting
  <2>. QED
    BY <1>1, <1>2, <1>4, <1>6, <2>1, WaitingCalm
<1>. QED
  BY <1>5, <1>6

LEMMA CalmBegin ==
    ASSUME NEW t, NEW f, NEW w, NEW v, P!Begin(t, f, w, v)
    PROVE  CalmTrue'
<1>1. run'.pc = "positions" /\ run'.then = "start"
  BY BeginDoes
<1>2. Ahead' = "start" /\ ~HasHeld' /\ \A to : ~Clearing(to)'
  BY <1>1 DEF Ahead, Waiting, HasHeld, Clearing
<1>3. CalmReads'
  BY <1>1, <1>2 DEF CalmReads, Decided
<1>4. CalmSells' /\ CalmBuys'
  BY <1>1, <1>2 DEF CalmSells, CalmBuys, Trimmed, Decided, Trading
<1>. QED
  BY <1>3, <1>4 DEF CalmTrue

LEMMA CalmStep ==
    ASSUME PositionTypes, Covered, QuietTrue, CalmTrue, P!Next
    PROVE  CalmTrue'
<1>1. CASE P!Steps
  <2>1. CASE run.weather # "calm" \/ run'.pc = "idle"
    BY <1>1, <2>1, StepsKeep DEF CalmTrue
  <2>2. CASE run.weather = "calm" /\ run'.pc # "idle"
    <3>1. CASE \/ P!Plan \/ P!Trim \/ P!Sell \/ P!Resell \/ P!Retry \/ P!Decide \/ P!Unlock
               \/ P!Terms \/ P!Stale \/ P!Oversized \/ P!Buy
      BY <2>2, <3>1, CalmWork DEF CalmTrue
    <3>2. CASE P!LoadPositions \/ P!LoadOrders \/ P!Cancelled
      BY <1>1, <2>2, <3>2, CalmWait, StepsKeep DEF CalmTrue
    <3>3. CASE P!Start
      <4>1. run.pc = "start"
        BY <3>3, StartDoes DEF PositionTypes, Given
      <4>2. CalmReads
        BY <2>2, <4>1 DEF CalmTrue
      <4>. QED
        BY <1>1, <2>2, <3>3, <4>2, StartCalm, StepsKeep DEF CalmTrue
    <3>4. CASE P!Return \/ P!Fail
      BY <2>2, <3>4, ReturnDoes, FailDoes, RestFields DEF Returned
    <3>5. ASSUME NEW o \in run.doomed, P!Cancel(o)
          PROVE  CalmTrue'
      <4>1. run.pc = "cancel"
        BY <3>5, CancelDoes DEF PositionTypes, Given
      <4>2. Knowledge /\ (~run.thesis.over => Manages)
        BY <2>2, <4>1 DEF QuietTrue
      <4>3. CalmReads /\ (~run.thesis.over => CalmSells /\ CalmBuys)
        BY <2>2, <4>1 DEF CalmTrue
      <4>4. CalmReads'
        BY <3>5, <4>2, <4>3, CancelCalm
      <4>5. ~run.thesis.over => CalmSells' /\ CalmBuys'
        BY <3>5, <4>2, <4>3, CancelCalms
      <4>. QED
        BY <1>1, <2>2, <4>4, <4>5, StepsKeep DEF CalmTrue
    <3>. QED
      BY <1>1, <3>1, <3>2, <3>3, <3>4, <3>5 DEF P!Steps
  <2>. QED
    BY <2>1, <2>2
<1>2. ASSUME NEW o \in orders, NEW n \in 1..o.left, P!Fill(o, n)
      PROVE  CalmTrue'
  <2>1. (run.pc = "idle" \/ run.weather # "calm") /\ run' = run
    BY <1>2, FillDoes
  <2>. QED
    BY <2>1 DEF CalmTrue
<1>3. ASSUME NEW t \in Theses, NEW f \in Funds, NEW w \in Weathers, NEW v \in Views,
             P!Begin(t, f, w, v)
      PROVE  CalmTrue'
  BY <1>3, CalmBegin
<1>4. CASE P!Others
  BY <1>4, QuietOthers
<1>. QED
  BY <1>1, <1>2, <1>3, <1>4 DEF P!Next, P!LegacyCancel, P!LegacyPlace, P!MarketMoves

-----------------------------------------------------------------------------
\* A run with the same inputs as the one before.
LEMMA AgainFields ==
    ASSUME Again
    PROVE  /\ last.is /\ last.thesis = run.thesis /\ last.funds = run.funds
           /\ last.view = market /\ last.target = Aim
BY DEF Again

SameLast ==
    /\ last' = last /\ note' = note /\ market' = market /\ held' = held
    /\ run'.thesis = run.thesis /\ run'.funds = run.funds /\ run'.weather = run.weather

LEMMA AgainBefore ==
    ASSUME SameLast, run.pc # "idle", AgainIn'
    PROVE  AgainIn
<1>1. Aim' = Aim
  BY MarketStays DEF SameLast
<1>. QED
  BY <1>1 DEF SameLast, AgainIn, Again

LEMMA NeedsStill ==
    ASSUME Again, SameLast, BetterBuys' = BetterBuys
    PROVE  /\ NeedsNothing(last) => NeedsNothing(last)'
           /\ \A w : LeftEnough(w, last) => LeftEnough(w, last)'
<1>1. P!Of(orders', last.view.side, "buy") = P!Of(orders, last.view.side, "buy")
  BY AgainFields DEF SameLast, BetterBuys, Better
<1>2. \A w : LeftEnough(w, last) => LeftEnough(w, last)'
  BY <1>1 DEF SameLast, LeftEnough, TierOf
<1>3. LastGap(last)' = LastGap(last)
  BY DEF LastGap, SameLast
<1>4. \A t, s : (Fell(t, s)' <=> Fell(t, s)) /\ (Weak(t, s)' <=> Weak(t, s))
  BY DEF Fell, Weak, SameLast, P!Remembered
<1>5. last' = last
  BY DEF SameLast
<1>. QED
  BY <1>2, <1>3, <1>4, <1>5 DEF NeedsNothing, TierOf, WantOf

\* A step that leaves the buys and what the run decided.
LEMMA LastGoesOn ==
    ASSUME LastTrue, SameLast, run.pc \notin {"idle", "end"}, run'.pc # "idle",
           run'.bought = run.bought, BetterBuys' = BetterBuys,
           Ahead \in Decided => Ahead' \in Decided /\ run'.wants = run.wants /\ run'.gap = run.gap,
           Ahead' \in Decided => Ahead \in Decided,
           ~Clearing("buy") => ~Clearing("buy")'
    PROVE  LastTrue'
<1>1. ASSUME AgainIn'
      PROVE  AgainTrue'
  <2>1. AgainIn /\ Again
    BY <1>1, AgainBefore DEF AgainIn
  <2>2. AgainTrue
    BY <2>1 DEF LastTrue
  <2>3. market' = market /\ run'.funds = run.funds /\ last' = last
    BY DEF SameLast
  <2>4. /\ NeedsNothing(last) => NeedsNothing(last)'
        /\ \A w : LeftEnough(w, last) => LeftEnough(w, last)'
    BY <2>1, NeedsStill
  <2>5. Ahead' \notin Decided => NeedsNothing(last)'
    BY <2>2, <2>4 DEF AgainTrue
  <2>6. ASSUME Ahead' \in Decided, run'.wants, TierOf(market', run'.funds) > 0
        PROVE  LeftEnough(WantOf(run.gap, market, run.funds), last) /\ ~Clearing("buy")
    BY <2>2, <2>3, <2>6 DEF AgainTrue, TierOf
  <2>7. PICK w : w = WantOf(run.gap, market, run.funds)
    OBVIOUS
  <2>8. Ahead' \in Decided => WantOf(run.gap, market, run.funds)' = w
    BY <2>3, <2>7 DEF WantOf
  <2>9. ASSUME Ahead' \in Decided, run'.wants, TierOf(market', run'.funds) > 0
        PROVE  LeftEnough(WantOf(run.gap, market, run.funds), last)' /\ ~Clearing("buy")'
    <3>1. LeftEnough(w, last)'
      BY <2>4, <2>6, <2>7, <2>9
    <3>. QED
      BY <2>6, <2>8, <2>9, <3>1
  <2>. QED
    BY <2>2, <2>5, <2>9 DEF AgainTrue, TierOf
<1>2. ~(run'.bought > 0)
  BY DEF LastTrue
<1>. QED
  BY <1>1, <1>2 DEF LastTrue

LEMMA StillLast ==
    ASSUME Still
    PROVE  SameLast /\ run'.bought = run.bought /\ BetterBuys' = BetterBuys
BY OrdersStay DEF Still, SameGiven, SameLast

\* A run waits, or works before it decides.
LEMMA LastEarly ==
    ASSUME PositionTypes, LastTrue,
           \/ P!Plan \/ P!Trim \/ P!Sell \/ P!Resell \/ P!Retry
    PROVE  LastTrue'
<1>d. DOMAIN run = Fields
  BY DEF PositionTypes, Given
<1>1. /\ run.pc \in {"plan", "trim", "sell", "resell", "retry"}
      /\ Still \/ Sold
  BY <1>d, PlanDoes, TrimDoes, SellDoes, ResellDoes, RetryDoes DEF TooFew
<1>2. Ahead = run.pc /\ Ahead \notin Decided /\ run.pc \notin {"idle", "end"}
  BY <1>1 DEF Ahead, Waiting, Decided
<1>3. run.back \in {"idle", "trim", "decide"} /\ (run.pc \in {"sell", "retry"} => run.back # "idle")
  BY <1>1, <1>2 DEF PositionTypes, Figures, Selects, Selling
<1>4. Ahead' \notin Decided /\ run'.pc # "idle" /\ ~Clearing("buy")'
  <2>0. "trim" \in Begun /\ "decide" \in Begun /\ "retry" \in Begun
    BY DEF Begun
  <2>1. CASE P!Plan
    <3>1. PICK s, n : Offers(s, n, "trim")
      BY <1>d, <2>1, PlanDoes
    <3>2. Ahead' \in {"trim", "sell"} /\ \A p : Clearing(p)' => p = "sell"
      BY <3>1, OffersAhead
    <3>. QED
      BY <3>2 DEF Decided, Ahead, Waiting
  <2>2. CASE P!Trim
    <3>1. (\E s, n : Offers(s, n, "decide")) \/ GoesTo("decide")
      BY <1>d, <2>2, TrimDoes
    <3>2. Ahead' \in {"decide", "sell"} /\ \A p : Clearing(p)' => p = "sell"
      BY <2>0, <3>1, OffersAhead, GoesAhead
    <3>. QED
      BY <3>2 DEF Decided, Ahead, Waiting
  <2>3. CASE P!Sell \/ P!Retry
    <3>1. (GoesTo(run.back) /\ run.back \in {"trim", "decide"}) \/ Rereads("resell")
      BY <1>3, <2>3, SellDoes, RetryDoes DEF TooFew, Sold
    <3>. QED
      BY <3>1 DEF GoesTo, Rereads, Decided, Ahead, Waiting, Clearing
  <2>4. CASE P!Resell
    <3>1. PICK os, t : os = P!Of(run.orders, run.side, "sell") /\ t = TRUE
      OBVIOUS
    <3>2. Withdraws(os, t, "retry")
      BY <1>d, <2>4, <3>1, ResellDoes
    <3>3. Ahead' = "retry" /\ \A p : Clearing(p)' => p = "retry"
      BY <2>0, <3>2, WithdrawsAhead
    <3>. QED
      BY <3>3 DEF Decided, Ahead, Waiting
  <2>. QED
    BY <2>1, <2>2, <2>3, <2>4
<1>5. SameLast /\ run'.bought = run.bought /\ BetterBuys' = BetterBuys
  <2>1. CASE Sold
    <3>1. SameLast /\ run'.bought = run.bought
      BY <2>1 DEF Sold, Unlasting, SameGiven, SameLast
    <3>2. Better' = Better
      BY <3>1, MarketStays DEF SameLast
    <3>3. BetterBuys' = BetterBuys
      BY <2>1, <3>2 DEF Sold, Adds, BetterBuys, P!Of
    <3>. QED
      BY <3>1, <3>3
  <2>. QED
    BY <1>1, <2>1, StillLast
<1>. QED
  BY <1>2, <1>4, <1>5, LastGoesOn

LEMMA LastWait ==
    ASSUME PositionTypes, LastTrue, run.weather # "storm",
           QuietTrue, ~run.thesis.over, P!LoadPositions \/ P!LoadOrders \/ P!Cancelled
    PROVE  LastTrue'
<1>d. DOMAIN run = Fields
  BY DEF PositionTypes, Given
<1>1. /\ Still /\ SamePlan /\ SameChoice /\ run.pc \in {"positions", "orders", "cancel"}
  BY <1>d, LoadPositionsDoes, LoadOrdersDoes, CancelledDoes DEF Stays
<1>2. run'.pc \notin {"cancel", "idle"} /\ Ahead' = Ahead
  BY <1>d, LoadPositionsDoes, LoadOrdersDoes, CancelledDoes
     DEF GoesTo, Rereads, Waiting, Ahead, PositionTypes, Given, Begun
<1>3. SameLast /\ run'.bought = run.bought /\ BetterBuys' = BetterBuys
  BY <1>1, StillLast
<1>4. ~Clearing("buy")'
  BY <1>2 DEF Clearing
<1>5. run'.wants = run.wants /\ run'.gap = run.gap
  BY <1>1 DEF SamePlan, SameChoice
<1>. QED
  BY <1>1, <1>2, <1>3, <1>4, <1>5, LastGoesOn

LEMMA LastStart ==
    ASSUME PositionTypes, LastTrue, P!Start, ~run.thesis.over
    PROVE  LastTrue'
<1>1. PICK os, t : os = P!Of(run.orders, P!Opposite(run.view.side), "buy") /\ t = TRUE
  OBVIOUS
<1>2. run.pc = "start" /\ Still /\ Withdraws(os, t, "plan")
  BY <1>1, StartDoes DEF PositionTypes, Given
<1>3. "plan" \in Begun /\ Ahead = "start"
  BY <1>2 DEF Begun, Ahead, Waiting
<1>4. Ahead' = "plan" /\ \A p : Clearing(p)' => p = "plan"
  BY <1>2, <1>3, WithdrawsAhead
<1>5. run'.pc # "idle"
  BY <1>4 DEF Ahead, Waiting
<1>6. Ahead \notin Decided /\ Ahead' \notin Decided /\ ~Clearing("buy")'
  BY <1>3, <1>4 DEF Decided
<1>. QED
  BY <1>2, <1>5, <1>6, StillLast, LastGoesOn

\* After it decided, until it trades.
LEMMA LastLater ==
    ASSUME PositionTypes, LastTrue, P!Unlock \/ P!Terms \/ P!Stale
    PROVE  LastTrue'
<1>d. DOMAIN run = Fields
  BY DEF PositionTypes, Given
<1>1. PICK us, os, t : /\ us = P!Of(run.orders, run.view.side, "sell")
                       /\ os = P!Of(run.orders, run.view.side, "buy") \ P!Aligned
                       /\ t = TRUE
  OBVIOUS
<1>2. /\ run.pc \in {"unlock", "terms", "stale"} /\ Still /\ SamePlan /\ SameChoice
      /\ \/ Withdraws(us, t, "terms") \/ GoesTo("terms") \/ GoesTo("end") \/ GoesTo("stale")
         \/ Withdraws(os, t, "oversized")
  BY <1>1, <1>d, UnlockDoes, TermsDoes, StaleDoes DEF Stays
<1>3. "terms" \in Begun /\ "end" \in Begun /\ "stale" \in Begun /\ "oversized" \in Begun
  BY DEF Begun
<1>4. /\ Ahead' \in {"terms", "end", "stale", "oversized"}
      /\ \A p : Clearing(p)' => p \in {"terms", "oversized"}
  BY <1>2, <1>3, WithdrawsAhead, GoesAhead
<1>5. Ahead \in Decided /\ Ahead' \in Decided /\ ~Clearing("buy")' /\ run'.pc # "idle"
  BY <1>2, <1>4 DEF Ahead, Waiting, Decided
<1>6. run'.wants = run.wants /\ run'.gap = run.gap
  BY <1>2 DEF SamePlan, SameChoice
<1>. QED
  BY <1>2, <1>5, <1>6, StillLast, LastGoesOn

\* A quarter of the target is half of it only where both are nothing.
LEMMA QuarterIsHalf ==
    ASSUME NEW n \in Nat, n \div 2 = n \div 4
    PROVE  n \div 2 = 0
OBVIOUS

\* A run that decides to buy what the one before decided on finds its orders.
LEMMA FindsEnough ==
    ASSUME PositionTypes, Knowledge, Manages, CalmReads, CalmSells, Again, NeedsNothing(last),
           run.pc = "decide", run.gap > 0, ~run.blocked, market.part > 0,
           TierOf(market, run.funds) > 0
    PROVE  LeftEnough(WantOf(run.gap, market, run.funds), last)
<1>1. Ahead = "decide" /\ run.pc # "idle"
  BY DEF Ahead, Waiting
<1>2. run.had = held[Better] /\ run.gap = Gap(run.had) /\ (run.blocked <=> (Drops /\ run.gap > 0))
  BY <1>1 DEF CalmSells, Manages, Plans
<1>3. /\ last.thesis = run.thesis /\ last.funds = run.funds /\ last.view = market
      /\ last.target = Aim
  BY AgainFields
<1>4. LastGap(last) = run.gap
  BY <1>2, <1>3 DEF LastGap, Gap, Better
<1>5. ~Drops
  BY <1>2
<1>6. ~Fell(run.thesis, Better)
  BY <1>5 DEF Fell, Drops, P!Falls
<1>7. ASSUME ~Weak(run.thesis, Better), Aim = (run.thesis.cap * run.thesis.level) \div 4
      PROVE  FALSE
  <2>1. PICK n : n = run.thesis.cap * run.thesis.level
    OBVIOUS
  <2>2. n \in Nat
    BY <1>1, <2>1, PositionConstants, Halves DEF PositionTypes, Given
  <2>3. ~P!Weakened(Better)
    BY <1>7 DEF Weak, Fell, P!Weakened, P!Falls
  <2>4. Aim = n \div 2
    BY <2>1, <2>3 DEF Aim, P!Target
  <2>5. Aim = n \div 4
    BY <1>7, <2>1
  <2>6. Aim = 0
    BY <2>2, <2>4, <2>5, QuarterIsHalf
  <2>7. run.had \in Nat
    BY DEF PositionTypes, Figures
  <2>. QED
    BY <1>2, <2>6, <2>7 DEF Gap, P!Larger
<1>8. TierOf(last.view, last.funds) = TierOf(market, run.funds)
  BY <1>3
<1>9. WantOf(LastGap(last), last.view, last.funds) = WantOf(run.gap, market, run.funds)
  BY <1>3, <1>4
<1>10. ~(LastGap(last) = 0 \/ last.view.part = 0 \/ TierOf(last.view, last.funds) = 0)
  BY <1>3, <1>4, <1>8
<1>11. ~(/\ Fell(last.thesis, last.view.side) \/ ~Weak(last.thesis, last.view.side)
         /\ last.target = (last.thesis.cap * last.thesis.level) \div 4)
  BY <1>3, <1>6, <1>7 DEF Better
<1>. QED
  BY <1>9, <1>10, <1>11 DEF NeedsNothing

LEMMA LastDecide ==
    ASSUME PositionTypes, Knowledge, Manages, CalmReads, CalmSells, LastTrue, P!Decide
    PROVE  LastTrue'
<1>1. PICK os, f : os = P!Of(run.orders, run.view.side, "buy") /\ f = FALSE
  OBVIOUS
<1>2. /\ run.pc = "decide" /\ Still /\ SamePlan
      /\ GoesTo("unlock") \/ Withdraws(os, f, "unlock")
  BY <1>1, DecideDoes DEF PositionTypes, Given
<1>3. run'.wants => run.gap > 0 /\ ~run.blocked /\ run.view.part > 0
  BY DecideDoes DEF PositionTypes, Given
<1>4. "unlock" \in Begun /\ HasRead /\ Ahead = "decide" /\ Ahead \notin Decided /\ run.view = market
  BY <1>2 DEF Begun, HasRead, Ahead, Waiting, Decided, Knowledge
<1>5. Ahead' = "unlock" /\ Ahead' \in Decided /\ \A p : Clearing(p)' => p = "unlock"
  BY <1>2, <1>4, GoesAhead, WithdrawsAhead DEF Decided
<1>6. SameLast /\ run'.bought = run.bought /\ BetterBuys' = BetterBuys
  BY <1>2, StillLast
<1>7. ~(run'.bought > 0)
  BY <1>2, <1>6 DEF LastTrue
<1>8. run'.pc # "idle"
  BY <1>5 DEF Ahead, Waiting
<1>9. ASSUME AgainIn'
      PROVE  AgainTrue'
  <2>1. AgainIn /\ Again
    BY <1>2, <1>6, <1>9, AgainBefore DEF AgainIn
  <2>2. AgainTrue /\ NeedsNothing(last)
    BY <1>4, <2>1 DEF LastTrue, AgainTrue
  <2>3. market' = market /\ run'.funds = run.funds /\ last' = last /\ run'.gap = run.gap
    BY <1>2, <1>6 DEF SameLast, SamePlan
  <2>4. PICK w : w = WantOf(run.gap, market, run.funds)
    OBVIOUS
  <2>5. ASSUME run'.wants, TierOf(market, run.funds) > 0
        PROVE  LeftEnough(w, last)'
    <3>1. LeftEnough(w, last)
      BY <1>2, <1>3, <1>4, <2>1, <2>2, <2>4, <2>5, FindsEnough
    <3>. QED
      BY <1>6, <2>1, <3>1, NeedsStill
  <2>6. WantOf(run.gap, market, run.funds)' = w
    BY <2>3, <2>4 DEF WantOf
  <2>7. TierOf(market, run.funds)' = TierOf(market, run.funds)
    BY <2>3 DEF TierOf
  <2>8. ~Clearing("buy")'
    BY <1>5
  <2>. QED
    BY <1>5, <1>6, <2>2, <2>5, <2>6, <2>7, <2>8 DEF AgainTrue
<1>. QED
  BY <1>7, <1>8, <1>9 DEF LastTrue

\* A run that may trade on the terms of the one before.
LEMMA WantsGoes ==
    ASSUME Knowledge, Manages, Ahead \in Decided, run.wants, TierOf(market, run.funds) > 0,
           run.pc # "idle", PositionTypes
    PROVE  Going
<1>1. market.grade = "one" => market.strong
  BY PositionConstants DEF PositionTypes, Given
<1>. QED
  BY <1>1 DEF Manages, Decides, Going, TierOf

LEMMA TradesAgain ==
    ASSUME PositionTypes, Knowledge, Manages, CalmBuys, AgainIn, LastTrue, run.pc \in Trading \/ Clearing("oversized")
    PROVE  /\ LeftEnough(run.want, last)
           /\ \A x \in BetterBuys : Fresh(x)
           /\ BetterBids <= run.want
           /\ run.funds.afford > 0 => run.want - BetterBids < MinShares
<1>1. Ahead \in Trading /\ Ahead \in Decided
  BY DEF Ahead, Waiting, Clearing, Trading, Decided
<1>2. run.wants /\ run.tier > 0
  BY <1>1 DEF Manages, Decides, Going
<1>3. /\ run.tier = TierOf(market, run.funds) /\ run.price = market.price
      /\ run.want = WantOf(run.gap, market, run.funds)
  BY <1>1 DEF CalmBuys
<1>4. Again /\ AgainTrue
  BY DEF LastTrue, AgainIn
<1>5. LeftEnough(WantOf(run.gap, market, run.funds), last)
  BY <1>1, <1>2, <1>3, <1>4 DEF AgainTrue
<1>6. PICK w : w = run.want
  OBVIOUS
<1>7. LeftEnough(w, last)
  BY <1>3, <1>5, <1>6
<1>8. last.view = market /\ last.funds = run.funds
  BY <1>4, AgainFields
<1>9. P!Of(orders, last.view.side, "buy") = BetterBuys
  BY <1>8 DEF BetterBuys, Better
<1>10. /\ \A x \in BetterBuys : x.tier = run.tier /\ x.price = run.price
       /\ BetterBids <= w
       /\ run.funds.afford > 0 => w - BetterBids < MinShares
  BY <1>3, <1>7, <1>8, <1>9 DEF LeftEnough, BetterBids
<1>. QED
  BY <1>6, <1>7, <1>10 DEF Fresh

LEMMA LastOversized ==
    ASSUME PositionTypes, Knowledge, Manages, CalmReads, CalmBuys, LastTrue, P!Oversized
    PROVE  LastTrue'
<1>1. PICK os, t : os = P!Aligned /\ t = TRUE
  OBVIOUS
<1>2. /\ run.pc = "oversized" /\ Still /\ Stays
      /\ \/ P!Left(os) > run.want /\ Withdraws(os, t, "buy")
         \/ GoesTo("buy")
  BY <1>1, OversizedDoes DEF PositionTypes, Given
<1>3. "buy" \in Begun /\ Ahead = "oversized" /\ Ahead \in Decided /\ run.pc \in Trading
  BY <1>2 DEF Begun, Ahead, Waiting, Decided, Trading
<1>4. Ahead' = "buy" /\ Ahead' \in Decided
  BY <1>2, <1>3, GoesAhead, WithdrawsAhead DEF Decided
<1>5. SameLast /\ run'.bought = run.bought /\ BetterBuys' = BetterBuys
  BY <1>2, StillLast
<1>6. run'.wants = run.wants /\ run'.gap = run.gap
  BY <1>2 DEF Stays, SameChoice, SamePlan
<1>7. run'.pc # "idle"
  BY <1>4 DEF Ahead, Waiting
<1>8. CASE ~Clearing("buy")'
  BY <1>2, <1>3, <1>4, <1>5, <1>6, <1>7, <1>8, LastGoesOn
<1>9. CASE ~AgainIn'
  <2>1. ~(run'.bought > 0)
    BY <1>2, <1>5 DEF LastTrue
  <2>. QED
    BY <1>7, <1>9, <2>1 DEF LastTrue
<1>10. CASE AgainIn' /\ Clearing("buy")'
  <2>1. AgainIn
    BY <1>2, <1>5, <1>10, AgainBefore
  <2>2. (\A x \in BetterBuys : Fresh(x)) /\ BetterBids <= run.want
    BY <1>3, <2>1, TradesAgain
  <2>3. os = BetterBuys
    BY <1>1, <1>3, <2>2, AlignedAre
  <2>4. BetterBids \in Nat /\ run.want \in Nat
    BY <1>2, Numbers
  <2>5. ~(P!Left(os) > run.want)
    BY <2>2, <2>3, <2>4 DEF BetterBids
  <2>6. ~Clearing("buy")'
    BY <1>2, <1>3, <2>5, GoesAhead
  <2>. QED
    BY <1>10, <2>6
<1>. QED
  BY <1>8, <1>9, <1>10

LEMMA LastBuy ==
    ASSUME PositionTypes, Knowledge, Manages, CalmReads, CalmBuys, LastTrue,
           run.weather = "calm", ~run.thesis.over, P!Buy
    PROVE  LastTrue'
<1>1. run.pc = "buy" /\ Ahead = "buy" /\ run.pc # "idle" /\ run.pc \in Trading
  BY BuyDoes DEF Ahead, Waiting, Trading
<1>2. P!Missing \in Int /\ (run.funds.afford > 0 => P!Missing = run.want - BetterBids)
      /\ P!Missing <= run.want - BetterBids
  BY <1>1, BuyReads
<1>3. MinShares \in Nat /\ MinShares > 0 /\ run.funds.afford \in Nat /\ run.want \in Nat
      /\ BetterBids \in Nat
  BY <1>1, Numbers, PositionConstants DEF PositionTypes, Given
<1>4. P!Missing < MinShares \/ P!Missing >= MinShares
  BY <1>2, <1>3
<1>5. /\ run'.pc = "end" /\ Ahead' = "end" /\ \A p : ~Clearing(p)'
      /\ SameLast /\ run'.wants = run.wants /\ run'.gap = run.gap
  BY BuyDoes DEF GoesTo, Ahead, Waiting, Clearing, Still, Unlasting, SameGiven, SameLast, Stays,
     SameChoice, SamePlan
<1>6. Ahead \in Decided /\ Ahead' \in Decided
  BY <1>1, <1>5 DEF Decided
<1>7. CASE Still
  BY <1>1, <1>5, <1>6, <1>7, StillLast, LastGoesOn
<1>8. CASE ~Still
  <2>1. P!Missing >= MinShares
    BY <1>8, BuyDoes
  <2>2. ~AgainIn
    <3>1. SUFFICES ASSUME AgainIn
                   PROVE  FALSE
      OBVIOUS
    <3>2. run.funds.afford > 0 => run.want - BetterBids < MinShares
      BY <1>1, <3>1, TradesAgain
    <3>3. run.funds.afford > 0
      <4>1. P!Aligned = BetterBuys
        BY <1>1, BuyReads, AlignedAre
      <4>2. P!Missing = P!Smaller(run.want - BetterBids, run.funds.afford)
        BY <4>1 DEF P!Missing, BetterBids
      <4>. QED
        BY <1>3, <2>1, <4>2 DEF P!Smaller
    <3>. QED
      BY <1>2, <1>3, <2>1, <3>2, <3>3
  <2>3. ~AgainIn'
    BY <1>1, <1>5, <2>2, AgainBefore
  <2>. QED
    BY <1>5, <2>3 DEF LastTrue
<1>. QED
  BY <1>7, <1>8

\* An order that is withdrawn is none of those a run before has left.
LEMMA LastCancel ==
    ASSUME PositionTypes, Knowledge, Manages, CalmReads, CalmBuys, LastTrue,
           ~run.thesis.over, NEW o, P!Cancel(o)
    PROVE  LastTrue'
<1>1. /\ run.pc = "cancel" /\ o \in run.doomed /\ \E x \in orders : x.id = o.id
      /\ orders' = {x \in orders : x.id # o.id} /\ Unlasting /\ Stays
      /\ run'.pc = run.pc /\ run'.then = run.then /\ run'.bought = run.bought
  BY CancelDoes DEF PositionTypes, Given
<1>2. SameLast
  BY <1>1 DEF Unlasting, SameGiven, SameLast
<1>3. Better' = Better
  BY <1>2, MarketStays DEF SameLast
<1>4. PICK x \in orders : x.id = o.id
  BY <1>1
<1>5. orders' = orders \ {x}
  BY <1>1, <1>4 DEF PositionTypes, Account
<1>6. x.side = o.side /\ x.way = o.way /\ x.tier = o.tier /\ x.price = o.price
  BY <1>1, <1>4 DEF PositionTypes, HasReadTypes, Named
<1>7. Ahead = run.then /\ Ahead' = Ahead /\ HasRead /\ run.view = market
      /\ \A p : Clearing(p)' <=> Clearing(p)
  BY <1>1, ReadingWith DEF Ahead, Waiting, Knowledge, Clearing
<1>8. /\ run.then \in Cleared
      /\ x.way = IF run.then \in {"sell", "retry", "terms"} THEN "sell" ELSE "buy"
      /\ run.then = "plan" => x.side # Better
      /\ run.then = "oversized" => x.tier # run.tier \/ x.price # run.price
  BY <1>1, <1>6, <1>7 DEF PositionTypes, Marked, Better
<1>9. run'.wants = run.wants /\ run'.gap = run.gap
  BY <1>1 DEF Stays, SameChoice, SamePlan
<1>10. CASE x.side # Better \/ x.way # "buy"
  <2>1. BetterBuys' = BetterBuys
    BY <1>3, <1>5, <1>10 DEF BetterBuys, P!Of
  <2>. QED
    BY <1>1, <1>2, <1>7, <1>9, <2>1, LastGoesOn
<1>11. CASE x.side = Better /\ x.way = "buy"
  <2>1. x \in BetterBuys
    BY <1>11 DEF BetterBuys, P!Of
  <2>2. run.then \in {"unlock", "oversized", "buy"} /\ Ahead \in Decided
    BY <1>1, <1>7, <1>8, <1>11 DEF Cleared, Manages, Plans, Decided
  <2>3. ASSUME AgainIn, run.wants, TierOf(market, run.funds) > 0
        PROVE  FALSE
    <3>1. Going /\ run.then # "unlock"
      BY <1>1, <1>7, <2>2, <2>3, WantsGoes DEF Manages, Decides, Clearing
    <3>2. run.then # "oversized"
      BY <1>1, <1>8, <2>1, <2>3, TradesAgain DEF Clearing, Fresh
    <3>3. ~Clearing("buy")
      BY <2>2, <2>3 DEF LastTrue, AgainTrue
    <3>. QED
      BY <1>1, <2>2, <3>1, <3>2, <3>3 DEF Clearing
  <2>4. market' = market /\ run'.funds = run.funds
    BY <1>2 DEF SameLast
  <2>5. TierOf(market, run.funds)' = TierOf(market, run.funds)
    BY <2>4 DEF TierOf
  <2>6. ~(run'.bought > 0)
    BY <1>1 DEF LastTrue
  <2>7. ASSUME AgainIn'
        PROVE  AgainTrue'
    <3>1. AgainIn
      BY <1>1, <1>2, <2>7, AgainBefore
    <3>2. ~(run.wants /\ TierOf(market, run.funds) > 0) /\ run.bought = 0
      BY <2>3, <3>1 DEF LastTrue, AgainTrue
    <3>. QED
      BY <1>1, <1>7, <1>9, <2>2, <2>5, <3>2 DEF AgainTrue
  <2>. QED
    BY <1>1, <2>6, <2>7 DEF LastTrue
<1>. QED
  BY <1>10, <1>11

\* What a run leaves when it returns.
LEMMA LeavesNothing ==
    ASSUME PositionTypes, Knowledge, Manages, CalmReads, CalmSells, CalmBuys, P!Return,
           run.weather = "calm"
    PROVE  NeedsNothing(last)'
<1>1. /\ run.pc = "end" /\ Ahead = "end" /\ run.pc # "idle" /\ Returned
      /\ last' = P!Leaves
      /\ note' = note \/ note' = Notes(run.thesis, run.view.side)
  BY ReturnDoes DEF Ahead, Waiting
<1>2. HasRead /\ run.view = market
  BY <1>1 DEF HasRead, Knowledge
<1>3. /\ last'.is /\ last'.thesis = run.thesis /\ last'.funds = run.funds
      /\ last'.view = market /\ last'.target = Aim
  BY <1>1, <1>2 DEF P!Leaves, P!Side, Aim, Better
<1>4. /\ run.had = held[Better] /\ run.gap = Gap(run.had)
      /\ (run.blocked <=> (Drops /\ run.gap > 0))
      /\ (run.wants <=> (run.gap > 0 /\ ~run.blocked /\ market.part > 0))
  BY <1>1 DEF CalmSells, Manages, Plans, Decides, Decided
<1>5. held' = held /\ orders' = orders
  BY <1>1 DEF Returned
<1>6. LastGap(last)' = run.gap
  BY <1>3, <1>4, <1>5 DEF LastGap, Gap, Better
<1>7. run.gap \in Nat /\ market.part \in 0..2 /\ run.tier \in 0..2
  BY <1>1, PositionConstants DEF PositionTypes, Figures, Given
<1>8. CASE run.gap = 0 \/ market.part = 0
  BY <1>3, <1>6, <1>8 DEF NeedsNothing
<1>9. CASE run.wants
  <2>1. run.tier = TierOf(market, run.funds)
    BY <1>1, <1>9 DEF CalmBuys
  <2>2. TierOf(last.view, last.funds)' = TierOf(market, run.funds)
    BY <1>3 DEF TierOf
  <2>3. CASE run.tier = 0
    BY <2>1, <2>2, <2>3 DEF NeedsNothing
  <2>4. CASE run.tier > 0
    <3>1. /\ Met /\ Enough /\ \A x \in BetterBuys : Fresh(x)
          /\ run.want = WantOf(run.gap, market, run.funds) /\ run.price = market.price
      BY <1>1, <2>4 DEF CalmBuys
    <3>2. PICK w : w = run.want
      OBVIOUS
    <3>3. WantOf(LastGap(last), last.view, last.funds)' = w
      BY <1>3, <1>6, <3>1, <3>2 DEF WantOf
    <3>4. P!Of(orders', last'.view.side, "buy") = BetterBuys
      BY <1>3, <1>5 DEF BetterBuys, Better
    <3>5. LeftEnough(w, last)'
      BY <1>3, <2>1, <2>2, <3>1, <3>2, <3>4 DEF LeftEnough, Met, Enough, Fresh, BetterBids
    <3>. QED
      BY <3>3, <3>5 DEF NeedsNothing
  <2>. QED
    BY <1>7, <2>3, <2>4
<1>10. CASE run.blocked
  <2>1. Drops
    BY <1>4, <1>10
  <2>2. P!Weakened(Better) /\ Fell(run.thesis, Better)
    BY <2>1 DEF Drops, P!Weakened, P!Falls, Fell
  <2>3. Aim = (run.thesis.cap * run.thesis.level) \div 4
    BY <2>2 DEF Aim, P!Target
  <2>4. PICK t, z : t = run.thesis /\ z = Better
    OBVIOUS
  <2>5. Fell(t, z)' \/ ~Weak(t, z)'
    <3>1. CASE note' = note
      BY <2>2, <2>4, <3>1 DEF Fell, P!Remembered
    <3>2. CASE note' = Notes(run.thesis, run.view.side)
      <4>1. note'.likely = t.likely /\ note'.level = t.level
        BY <2>4, <3>2 DEF Notes
      <4>2. t.level \in 0..2
        BY <1>1, <2>4, PositionConstants DEF PositionTypes, Given
      <4>. QED
        BY <4>1, <4>2 DEF Weak, Fell
    <3>. QED
      BY <1>1, <3>1, <3>2
  <2>6. last'.thesis = t /\ last'.view.side = z
    BY <1>3, <2>4 DEF Better
  <2>7. last'.target = (t.cap * t.level) \div 4
    BY <1>3, <2>3, <2>4
  <2>. QED
    BY <2>5, <2>6, <2>7 DEF NeedsNothing
<1>. QED
  BY <1>4, <1>7, <1>8, <1>9, <1>10

LEMMA LastReturn ==
    ASSUME PositionTypes, QuietTrue, CalmTrue, LastTrue, P!Return \/ P!Fail
    PROVE  LastTrue'
<1>1. run'.pc = "idle" /\ run'.bought = 0
  BY ReturnDoes, FailDoes, RestFields DEF Returned
<1>2. ~AgainIn' /\ ~(run'.bought > 0)
  BY <1>1 DEF AgainIn
<1>3. CASE P!Fail
  <2>1. last' = P!NoLast
    BY <1>3, FailDoes
  <2>2. ~last'.is
    BY <2>1 DEF P!NoLast
  <2>. QED
    BY <1>2, <2>2 DEF LastTrue
<1>4. CASE P!Return
  <2>1. run.pc = "end" /\ last' = IF run.weather = "calm" THEN P!Leaves ELSE P!NoLast
    BY <1>4, ReturnDoes
  <2>2. CASE run.weather # "calm"
    <3>1. ~last'.is
      BY <2>1, <2>2 DEF P!NoLast
    <3>. QED
      BY <1>2, <3>1 DEF LastTrue
  <2>3. CASE run.weather = "calm" /\ run.thesis.over
    <3>1. last'.thesis = run.thesis
      BY <2>1, <2>3 DEF P!Leaves
    <3>. QED
      BY <1>2, <2>3, <3>1 DEF LastTrue
  <2>4. CASE run.weather = "calm" /\ ~run.thesis.over
    <3>1. Knowledge /\ Manages
      BY <2>1, <2>4 DEF QuietTrue
    <3>2. CalmReads /\ CalmSells /\ CalmBuys
      BY <2>1, <2>4 DEF CalmTrue
    <3>3. NeedsNothing(last)'
      BY <1>4, <2>4, <3>1, <3>2, LeavesNothing
    <3>. QED
      BY <1>2, <3>3 DEF LastTrue
  <2>. QED
    BY <2>2, <2>3, <2>4
<1>. QED
  BY <1>3, <1>4

LEMMA LastBegin ==
    ASSUME Account, LastTrue, NEW t, NEW f, NEW w, NEW v, P!Begin(t, f, w, v)
    PROVE  LastTrue'
<1>1. /\ run.pc = "idle" /\ run'.pc = "positions" /\ run'.then = "start" /\ run'.bought = 0
      /\ held' = held /\ orders' = orders /\ last' = last
  BY BeginDoes
<1>2. PICK r : (r = note.recent \/ r = FALSE) /\ note' = [note EXCEPT !.recent = r]
  BY BeginDoes
<1>3. Ahead' = "start"
  BY <1>1 DEF Ahead, Waiting
<1>4. ~(run'.bought > 0)
  BY <1>1
<1>5. ASSUME AgainIn'
      PROVE  AgainTrue'
  <2>1. last.is /\ ~last.thesis.over
    BY <1>1, <1>5 DEF AgainIn, Again
  <2>2. NeedsNothing(last)
    BY <1>1, <2>1 DEF LastTrue
  <2>3. \A x, s : (Fell(x, s) \/ ~Weak(x, s)) => (Fell(x, s)' \/ ~Weak(x, s)')
    <3>. TAKE x, s
    <3>1. /\ note'.side = note.side /\ note'.likely = note.likely /\ note'.level = note.level
          /\ note'.recent = note.recent \/ note'.recent = FALSE
      BY <1>2 DEF Account
    <3>. QED
      BY <3>1 DEF Fell, Weak, P!Remembered
  <2>4. NeedsNothing(last)'
    BY <1>1, <2>2, <2>3 DEF NeedsNothing, LeftEnough, LastGap, TierOf, WantOf
  <2>. QED
    BY <1>1, <1>3, <2>4 DEF AgainTrue, Decided
<1>. QED
  BY <1>1, <1>4, <1>5 DEF LastTrue

LEMMA LastOthers ==
    ASSUME LastTrue, last' = P!NoLast, run' = run
    PROVE  LastTrue'
<1>1. ~last'.is
  BY DEF P!NoLast
<1>2. ~AgainIn'
  BY <1>1 DEF AgainIn, Again
<1>. QED
  BY <1>1, <1>2 DEF LastTrue

\* What a run buys it buys at its end.
LEMMA BuysAtEnd ==
    ASSUME PositionTypes, LastTrue, P!Steps
    PROVE  run'.bought > 0 => run'.pc = "end"
<1>d. DOMAIN run = Fields
  BY DEF PositionTypes, Given
<1>1. CASE P!LoadPositions \/ P!LoadOrders \/ P!Cancelled \/ P!Start \/ P!Plan \/ P!Trim
  BY <1>d, <1>1, LoadPositionsDoes, LoadOrdersDoes, CancelledDoes, StartDoes, PlanDoes, TrimDoes
     DEF Still, LastTrue
<1>2. CASE \/ P!Sell \/ P!Resell \/ P!Retry \/ P!Decide \/ P!Unlock \/ P!Terms
  BY <1>d, <1>2, SellDoes, ResellDoes, RetryDoes, DecideDoes, UnlockDoes, TermsDoes
     DEF Still, TooFew, Sold, LastTrue
<1>3. CASE P!Stale \/ P!Oversized
  BY <1>d, <1>3, StaleDoes, OversizedDoes DEF Still, LastTrue
<1>4. CASE P!Buy
  BY <1>4, BuyDoes DEF GoesTo
<1>5. CASE P!Return \/ P!Fail
  BY <1>5, ReturnDoes, FailDoes, RestFields DEF Returned
<1>6. ASSUME NEW o \in run.doomed, P!Cancel(o)
      PROVE  run'.bought = run.bought /\ run.pc = "cancel"
  BY <1>d, <1>6, CancelDoes
<1>. QED
  BY <1>1, <1>2, <1>3, <1>4, <1>5, <1>6 DEF P!Steps, LastTrue

\* Only a run that returns is over.
LEMMA StepsGoOn ==
    ASSUME PositionTypes, P!Steps, ~P!Return, ~P!Fail
    PROVE  run'.pc # "idle"
<1>d. DOMAIN run = Fields
  BY DEF PositionTypes, Given
<1>1. CASE P!LoadPositions \/ P!LoadOrders \/ P!Cancelled
  BY <1>d, <1>1, LoadPositionsDoes, LoadOrdersDoes, CancelledDoes
     DEF GoesTo, Rereads, PositionTypes, Given, Begun
<1>2. CASE P!Plan \/ P!Trim
  <2>1. PICK s, n, back : back \in {"trim", "decide"} /\ (Offers(s, n, back) \/ GoesTo(back))
    BY <1>d, <1>2, PlanDoes, TrimDoes
  <2>2. back \in Begun
    BY <2>1 DEF Begun
  <2>3. Ahead' \in {back, "sell"}
    BY <2>1, <2>2, OffersAhead, GoesAhead
  <2>. QED
    BY <2>1, <2>3 DEF Ahead, Waiting
<1>3. CASE P!Sell \/ P!Retry
  <2>1. run.pc \in {"sell", "retry"} /\ (GoesTo(run.back) \/ Rereads("resell"))
    BY <1>3, SellDoes, RetryDoes DEF TooFew, Sold
  <2>2. run.back # "idle"
    BY <2>1 DEF PositionTypes, Selects, Selling, Ahead, Waiting
  <2>. QED
    BY <2>1, <2>2 DEF GoesTo, Rereads
<1>4. CASE P!Start \/ P!Resell \/ P!Decide \/ P!Unlock \/ P!Terms \/ P!Stale \/ P!Oversized \/ P!Buy
  <2>1. \E to \in Begun : (\E os, b : Withdraws(os, b, to)) \/ GoesTo(to)
    BY <1>d, <1>4, StartDoes, ResellDoes, DecideDoes, UnlockDoes, TermsDoes, StaleDoes,
       OversizedDoes, BuyDoes DEF Begun
  <2>2. PICK to \in Begun : (\E os, b : Withdraws(os, b, to)) \/ GoesTo(to)
    BY <2>1
  <2>3. run'.pc = to \/ run'.pc = "cancel"
    BY <2>2, WithdrawsTo DEF GoesTo
  <2>. QED
    BY <2>2, <2>3 DEF Begun
<1>5. ASSUME NEW o \in run.doomed, P!Cancel(o)
      PROVE  run'.pc # "idle"
  BY <1>d, <1>5, CancelDoes
<1>. QED
  BY <1>1, <1>2, <1>3, <1>4, <1>5 DEF P!Steps

LEMMA LastWork ==
    ASSUME PositionTypes, QuietTrue, CalmTrue, LastTrue, run.weather = "calm", ~run.thesis.over,
           P!Decide \/ P!Unlock \/ P!Terms \/ P!Stale \/ P!Oversized \/ P!Buy
    PROVE  LastTrue'
<1>d. DOMAIN run = Fields
  BY DEF PositionTypes, Given
<1>1. run.pc # "idle"
  BY <1>d, DecideDoes, UnlockDoes, TermsDoes, StaleDoes, OversizedDoes, BuyDoes
<1>2. Knowledge /\ Manages /\ CalmReads /\ CalmSells /\ CalmBuys
  BY <1>1 DEF QuietTrue, CalmTrue
<1>. QED
  BY <1>2, LastDecide, LastLater, LastOversized, LastBuy

LEMMA LastStep ==
    ASSUME PositionTypes, Covered, QuietTrue, CalmTrue, LastTrue, P!Next
    PROVE  LastTrue'
<1>1. CASE P!Steps
  <2>1. CASE P!Return \/ P!Fail
    BY <2>1, LastReturn
  <2>2. CASE run'.pc # "idle" /\ (run.weather # "calm" \/ run.thesis.over)
    <3>1. ~AgainIn'
      BY <1>1, <2>2, StepsKeep DEF AgainIn
    <3>. QED
      BY <1>1, <2>2, <3>1, BuysAtEnd DEF LastTrue
  <2>3. CASE run.weather = "calm" /\ ~run.thesis.over
    <3>1. CASE P!Decide \/ P!Unlock \/ P!Terms \/ P!Stale \/ P!Oversized \/ P!Buy
      BY <2>3, <3>1, LastWork
    <3>2. CASE P!Plan \/ P!Trim \/ P!Sell \/ P!Resell \/ P!Retry
      BY <3>2, LastEarly
    <3>3. CASE P!LoadPositions \/ P!LoadOrders \/ P!Cancelled
      BY <2>3, <3>3, LastWait
    <3>4. CASE P!Start
      BY <2>3, <3>4, LastStart
    <3>5. ASSUME NEW o \in run.doomed, P!Cancel(o)
          PROVE  LastTrue'
      <4>1. run.pc = "cancel"
        BY <3>5, CancelDoes DEF PositionTypes, Given
      <4>2. Knowledge /\ Manages /\ CalmReads /\ CalmBuys
        BY <2>3, <4>1 DEF QuietTrue, CalmTrue
      <4>. QED
        BY <2>3, <3>5, <4>2, LastCancel
    <3>. QED
      BY <1>1, <2>1, <3>1, <3>2, <3>3, <3>4, <3>5 DEF P!Steps
  <2>4. P!Return \/ P!Fail \/ run'.pc # "idle"
    BY <1>1, StepsGoOn
  <2>. QED
    BY <2>1, <2>2, <2>3, <2>4
<1>2. ASSUME NEW o \in orders, NEW n \in 1..o.left, P!Fill(o, n)
      PROVE  LastTrue'
  BY <1>2, FillDoes, LastOthers
<1>3. ASSUME NEW t \in Theses, NEW f \in Funds, NEW w \in Weathers, NEW v \in Views,
             P!Begin(t, f, w, v)
      PROVE  LastTrue'
  BY <1>3, LastBegin DEF PositionTypes
<1>4. CASE P!Others
  BY <1>4, OthersDo, LastOthers
<1>. QED
  BY <1>1, <1>2, <1>3, <1>4 DEF P!Next, P!LegacyCancel, P!LegacyPlace, P!MarketMoves

-----------------------------------------------------------------------------
\* What the invariant says of a run at its end.
LEMMA EndSays ==
    ASSUME PositionInvariant, run.pc = "end", run.weather # "storm"
    PROVE  /\ run.view = market /\ P!Side = Better
           /\ run.thesis.over => \A x \in orders : x.way # "buy"
           /\ ~run.thesis.over =>
                /\ Manages /\ WorseBuys = {} /\ (~Going => BetterBuys = {})
                /\ Going => BetterSells = {}
<1>1. HasRead /\ Ahead = "end" /\ run.pc # "idle" /\ \A p : ~Clearing(p)
  BY DEF HasRead, Ahead, Waiting, Clearing
<1>2. Knowledge /\ IF run.thesis.over THEN WindsUp ELSE Manages
  BY <1>1 DEF PositionInvariant, QuietTrue
<1>3. run.view = market /\ P!Side = Better
  BY <1>1, <1>2 DEF Knowledge, P!Side, Better
<1>4. run.thesis.over => \A x \in orders : x.way # "buy"
  BY <1>1, <1>2 DEF WindsUp
<1>5. ~run.thesis.over =>
        /\ Manages /\ WorseBuys = {} /\ (~Going => BetterBuys = {})
        /\ Going => BetterSells = {}
  BY <1>1, <1>2 DEF Manages, Plans, Decides, Decided
<1>. QED
  BY <1>3, <1>4, <1>5

LEMMA TypesSay == PositionInvariant => P!PositionTypeOK
BY DEF PositionInvariant, PositionTypes, Account, HasReadTypes, Figures, P!PositionTypeOK

LEMMA AgainstItself == PositionInvariant => P!NeverAgainstItself
<1>. SUFFICES ASSUME PositionInvariant, run.pc = "end", run.weather # "storm"
              PROVE  IF run.thesis.over THEN \A s \in P!Sides : P!Buys(s) = 0
                     ELSE P!Buys(P!Opposite(P!Side)) = 0
                          /\ (P!Buys(P!Side) = 0 \/ P!Sales(P!Side) = 0)
  BY DEF P!NeverAgainstItself, P!At
<1>1. CASE run.thesis.over
  <2>1. \A s \in P!Sides : P!Of(orders, s, "buy") = {}
    BY <1>1, EndSays DEF P!Of
  <2>. QED
    BY <1>1, <2>1, LeftNone DEF P!Buys
<1>2. CASE ~run.thesis.over
  <2>1. P!Side = Better /\ WorseBuys = {} /\ (BetterBuys = {} \/ BetterSells = {})
    BY <1>2, EndSays
  <2>2. /\ P!Of(orders, P!Opposite(P!Side), "buy") = {}
        /\ P!Of(orders, P!Side, "buy") = {} \/ P!Of(orders, P!Side, "sell") = {}
    BY <2>1 DEF WorseBuys, BetterBuys, BetterSells, Worse, Better
  <2>. QED
    BY <1>2, <2>2, LeftNone DEF P!Buys, P!Sales
<1>. QED
  BY <1>1, <1>2

\* What it says of one that nothing disturbed.
LEMMA CalmEnd ==
    ASSUME PositionInvariant, P!Ended, P!Calm
    PROVE  /\ run.pc = "end" /\ Ahead = "end" /\ run.pc # "idle" /\ ~run.thesis.over
           /\ run.weather # "storm" /\ Manages /\ CalmSells /\ CalmBuys
           /\ P!Side = Better /\ P!Opposite(P!Side) = Worse /\ P!Target(P!Side) = Aim
           /\ P!Buys(P!Side) = BetterBids
           /\ P!Sales(P!Side) = BetterAsks /\ P!Sales(P!Opposite(P!Side)) = WorseAsks
<1>1. run.pc = "end" /\ ~run.thesis.over /\ run.weather = "calm"
  BY DEF P!Ended, P!At, P!Calm
<1>2. Ahead = "end" /\ run.pc # "idle" /\ run.weather # "storm"
  BY <1>1 DEF Ahead, Waiting
<1>3. CalmSells /\ CalmBuys
  BY <1>1, <1>2 DEF PositionInvariant, CalmTrue
<1>4. Manages /\ P!Side = Better
  BY <1>1, <1>2, EndSays
<1>5. P!Opposite(P!Side) = Worse /\ P!Target(P!Side) = Aim
  BY <1>4 DEF Worse, Aim, Better
<1>. QED
  BY <1>1, <1>2, <1>3, <1>4, <1>5 DEF P!Buys, P!Sales, BetterBids, BetterAsks, WorseAsks,
     BetterBuys, BetterSells, WorseSells

LEMMA ForSaleSays == PositionInvariant => P!ExcessIsForSale
<1>. SUFFICES ASSUME PositionInvariant, P!Ended, P!Calm
              PROVE  /\ held[P!Opposite(P!Side)] - P!Sales(P!Opposite(P!Side)) < MinShares
                     /\ held[P!Side] - P!Sales(P!Side) < P!Target(P!Side) + MinShares
  BY DEF P!ExcessIsForSale
<1>1. /\ Ahead = "end" /\ run.pc # "idle" /\ CalmSells
      /\ P!Side = Better /\ P!Opposite(P!Side) = Worse /\ P!Target(P!Side) = Aim
      /\ P!Sales(P!Side) = BetterAsks /\ P!Sales(P!Opposite(P!Side)) = WorseAsks
  BY CalmEnd
<1>2. held[Worse] - WorseAsks < MinShares /\ run.had = held[Better]
      /\ (TooMuch => held[Better] - BetterAsks < Aim + MinShares)
  BY <1>1 DEF CalmSells, Trimmed, Decided
<1>3. /\ BetterAsks \in Nat /\ held[Better] \in Nat /\ Aim \in Nat /\ MinShares \in Nat
      /\ MinShares > 0
  BY <1>1, Numbers DEF PositionInvariant
<1>4. held[Better] - BetterAsks < Aim + MinShares
  BY <1>2, <1>3 DEF TooMuch
<1>. QED
  BY <1>1, <1>2, <1>4

LEMMA WantBound ==
    ASSUME NEW n \in Nat, NEW v \in Views, NEW f \in Funds
    PROVE  WantOf(n, v, f) <= n
<1>1. v.part \in 0..2 /\ f.afford \in Nat
  BY PositionConstants
<1>2. PICK half : half = (n * v.part) \div 2
  OBVIOUS
<1>3. half \in Nat /\ half <= n
  <2>1. half \in Nat
    BY <1>1, <1>2, Halves
  <2>2. CASE v.part = 0
    BY <1>2, <2>2
  <2>3. CASE v.part = 1
    BY <1>2, <2>3
  <2>4. CASE v.part = 2
    BY <1>2, <2>4
  <2>. QED
    BY <1>1, <2>1, <2>2, <2>3, <2>4
<1>. QED
  BY <1>1, <1>2, <1>3 DEF WantOf, P!Smaller

LEMMA TargetSays == PositionInvariant => P!WithinTarget
<1>. SUFFICES ASSUME PositionInvariant, P!Ended, P!Calm, run.wants => run.tier > 0
              PROVE  held[P!Side] + P!Buys(P!Side) <= P!Larger(held[P!Side], P!Target(P!Side))
  BY DEF P!WithinTarget
<1>1. /\ run.pc = "end" /\ Ahead = "end" /\ run.pc # "idle" /\ CalmSells /\ CalmBuys /\ Manages
      /\ ~run.thesis.over /\ run.weather # "storm"
      /\ P!Side = Better /\ P!Target(P!Side) = Aim /\ P!Buys(P!Side) = BetterBids
  BY CalmEnd
<1>2. /\ BetterBids \in Nat /\ held[Better] \in Nat /\ Aim \in Nat /\ run.want \in Nat
      /\ run.gap \in Nat
  BY <1>1, Numbers DEF PositionInvariant
<1>3. CASE ~Going
  <2>1. BetterBuys = {}
    BY <1>1, <1>3, EndSays
  <2>2. BetterBids = 0
    BY <2>1, LeftNone DEF BetterBids
  <2>. QED
    BY <1>1, <1>2, <2>2 DEF P!Larger
<1>4. CASE Going
  <2>1. run.tier > 0
    BY <1>4 DEF Going
  <2>2. BetterBids <= run.want /\ run.want = WantOf(run.gap, market, run.funds)
    BY <1>1, <2>1 DEF CalmBuys, Met
  <2>3. run.want <= run.gap
    BY <1>1, <1>2, <2>2, WantBound DEF PositionInvariant, PositionTypes, Given
  <2>4. run.gap = Gap(held[Better])
    BY <1>1 DEF CalmSells, Manages, Plans
  <2>5. BetterBids <= run.gap
    BY <1>2, <2>2, <2>3
  <2>. QED
    BY <1>1, <1>2, <2>4, <2>5 DEF Gap, P!Larger
<1>. QED
  BY <1>3, <1>4

LEMMA LacksSays == PositionInvariant => P!BuysWhatItLacks
<1>. SUFFICES ASSUME PositionInvariant, P!Ended, P!Calm, run.tier > 0, run.funds.afford > 0
              PROVE  run.want - P!Buys(P!Side) < MinShares
  BY DEF P!BuysWhatItLacks
<1>1. run.pc = "end" /\ CalmBuys /\ P!Buys(P!Side) = BetterBids
  BY CalmEnd
<1>. QED
  BY <1>1 DEF CalmBuys, Enough

LEMMA ReRunSays == PositionInvariant => P!ReRunBuysNothing
<1>. SUFFICES ASSUME PositionInvariant, P!Ended, P!Calm, last = P!Leaves
              PROVE  run.bought = 0
  BY DEF P!ReRunBuysNothing
<1>1. run.pc # "idle" /\ ~run.thesis.over /\ P!Side = Better /\ P!Target(P!Side) = Aim
      /\ run.pc = "end" /\ run.weather # "storm"
  BY CalmEnd
<1>2. run.view = market
  BY <1>1, EndSays
<1>3. Again
  BY <1>1, <1>2 DEF P!Leaves, Again
<1>. QED
  BY <1>1, <1>3 DEF PositionInvariant, LastTrue, AgainIn, AgainTrue, P!Calm

PositionsStay ==
    /\ held' = held /\ orders' = orders /\ market' = market /\ note' = note
    /\ run' = run /\ last' = last

LEMMA Unmoved ==
    ASSUME PositionsStay
    PROVE  /\ Ahead' = Ahead /\ (Waiting' <=> Waiting) /\ Better' = Better /\ Worse' = Worse
           /\ Aim' = Aim /\ (Drops' <=> Drops) /\ BetterBuys' = BetterBuys
           /\ WorseBuys' = WorseBuys /\ BetterSells' = BetterSells /\ WorseSells' = WorseSells
           /\ BetterBids' = BetterBids /\ BetterAsks' = BetterAsks /\ WorseAsks' = WorseAsks
           /\ (HasRead' <=> HasRead) /\ (HasHeld' <=> HasHeld) /\ (TooMuch' <=> TooMuch)
           /\ (Going' <=> Going)
           /\ \A p : Clearing(p)' <=> Clearing(p)
           /\ \A x : (Doomed(x)' <=> Doomed(x)) /\ (Read(x)' <=> Read(x)) /\ (Fresh(x)' <=> Fresh(x))
BY DEF PositionsStay, Ahead, Waiting, Better, Worse, Aim, Drops, BetterBuys, WorseBuys, BetterSells,
   WorseSells, BetterBids, BetterAsks, WorseAsks, HasRead, HasHeld, TooMuch, Going, Clearing,
   Doomed, Read, Fresh, P!Target, P!Weakened, P!Falls, P!Remembered

LEMMA InvariantStays ==
    ASSUME PositionsStay, PositionInvariant
    PROVE  PositionInvariant'
<1>1. PositionTypes'
  BY Unmoved DEF PositionsStay, PositionInvariant, PositionTypes, Account, Given, HasReadTypes, Figures,
     Named, Marked, Selects, Selling
<1>2. Covered'
  BY DEF PositionsStay, PositionInvariant, Covered
<1>3. Knowledge' <=> Knowledge
  BY Unmoved DEF PositionsStay, Knowledge
<1>4. (WindsUp' <=> WindsUp) /\ (Manages' <=> Manages)
  BY Unmoved DEF PositionsStay, WindsUp, Manages, Plans, SellsRight, Selling, Decides, Gap
<1>5. QuietTrue'
  BY <1>3, <1>4 DEF PositionsStay, PositionInvariant, QuietTrue
<1>6. CalmReads' <=> CalmReads
  BY Unmoved DEF PositionsStay, CalmReads, AsRead
<1>7. (CalmSells' <=> CalmSells) /\ (CalmBuys' <=> CalmBuys)
  BY Unmoved DEF PositionsStay, CalmSells, CalmBuys, Met, Enough, TierOf, WantOf
<1>8. CalmTrue'
  BY <1>6, <1>7 DEF PositionsStay, PositionInvariant, CalmTrue
<1>9. LastTrue'
  <2>1. Again' <=> Again
    BY Unmoved DEF PositionsStay, Again
  <2>2. NeedsNothing(last)' <=> NeedsNothing(last)
    BY DEF PositionsStay, NeedsNothing, LeftEnough, LastGap, Fell, Weak, P!Remembered, TierOf, WantOf
  <2>3. \A w : LeftEnough(w, last)' <=> LeftEnough(w, last)
    BY DEF PositionsStay, LeftEnough, TierOf
  <2>4. PICK w : w = WantOf(run.gap, market, run.funds)
    OBVIOUS
  <2>5. WantOf(run.gap, market, run.funds)' = w
    BY <2>4 DEF PositionsStay, WantOf
  <2>6. TierOf(market, run.funds)' = TierOf(market, run.funds)
    BY DEF PositionsStay, TierOf
  <2>7. AgainIn' <=> AgainIn
    BY <2>1 DEF PositionsStay, AgainIn
  <2>8. LeftEnough(w, last)' <=> LeftEnough(w, last)
    BY <2>3
  <2>9. AgainTrue' <=> AgainTrue
    BY Unmoved, <2>2, <2>4, <2>5, <2>6, <2>8 DEF PositionsStay, AgainTrue
  <2>10. LastTrue
    BY DEF PositionInvariant
  <2>. QED
    BY <2>2, <2>7, <2>9, <2>10 DEF PositionsStay, LastTrue
<1>. QED
  BY <1>1, <1>2, <1>5, <1>8, <1>9 DEF PositionInvariant

LEMMA InvariantBegins ==
    ASSUME P!Init
    PROVE  PositionInvariant
<1>1. run = P!AtRest /\ last = P!NoLast
  BY DEF P!Init
<1>2. run.pc = "idle" /\ run.bought = 0
  BY <1>1, RestFields
<1>3. ~last.is
  BY <1>1 DEF P!NoLast
<1>4. QuietTrue /\ CalmTrue
  BY <1>2 DEF QuietTrue, CalmTrue
<1>5. LastTrue
  BY <1>2, <1>3 DEF LastTrue, AgainIn
<1>. QED
  BY <1>4, <1>5, TypesInit, CoveredInit DEF PositionInvariant

LEMMA InvariantKeeps ==
    ASSUME PositionInvariant, P!Next
    PROVE  PositionInvariant'
BY TypesStep, CoveredStep, QuietStep, CalmStep, LastStep DEF PositionInvariant

\* Any number of runs on one account, with any theses and funds, fills and
\* trades of others between and during them, and the market on the move: a run
\* leaves the account not trading against itself, its excess for sale and its
\* buys within the target; one that repeats another buys nothing
\* (pipelines_builtin_methods_manage_position.go: pipelineBuiltinPolymarketManagePosition).
THEOREM PositionsHoldAlone == P!Spec => []PositionInv
<1>1. P!Init => PositionInvariant
  BY InvariantBegins
<1>2. PositionInvariant /\ [P!Next]_P!vars => PositionInvariant'
  BY InvariantKeeps, InvariantStays DEF P!vars, P!exchange, PositionsStay
<1>3. PositionInvariant => PositionInv
  BY TypesSay, AgainstItself, ForSaleSays, TargetSays, LacksSays, ReRunSays DEF PositionInv
<1>. QED
  BY <1>1, <1>2, <1>3, PTL DEF P!Spec

\* The same of the runs that are checked beside the webhooks.
THEOREM PositionsHold == ServicesSpec => []PositionInv
<1>1. ServicesInit => PositionInvariant
  BY InvariantBegins DEF ServicesInit
<1>2. ASSUME PositionInvariant, [EventsPart \/ PositionPart]_allVars
      PROVE  PositionInvariant'
  <2>1. CASE PositionPart
    BY <1>2, <2>1, InvariantKeeps DEF PositionPart
  <2>2. CASE EventsPart \/ UNCHANGED allVars
    BY <1>2, <2>2, InvariantStays DEF EventsPart, allVars, positionVars, PositionsStay
  <2>. QED
    BY <1>2, <2>1, <2>2
<1>3. PositionInvariant => PositionInv
  BY TypesSay, AgainstItself, ForSaleSays, TargetSays, LacksSays, ReRunSays DEF PositionInv
<1>. QED
  BY <1>1, <1>2, <1>3, PTL DEF ServicesSpec
=============================================================================

---------------------- MODULE OrderIdempotency_proofs ----------------------
(***************************************************************************)
(* Proofs about OrderIdempotency, for any requests, keys and bodies and    *)
(* any number of faults.                                                   *)
(***************************************************************************)
EXTENDS OrderIdempotency, TLAPS

-----------------------------------------------------------------------------
(* Type correctness. *)

\* Answering a request keeps pc and reply well formed.
LEMMA AnswerType ==
    ASSUME TypeOK, NEW r \in Requests, NEW code \in Codes,
           NEW of \in Requests \cup {NoRequest}, Answer(r, code, of)
    PROVE  /\ pc' \in [Requests -> {"new", "audit", "exec", "post", "done"}]
           /\ reply' \in [Requests -> [code : Codes, of : Requests \cup {NoRequest}]]
BY DEF Answer, TypeOK

\* Releasing a claim keeps the store well formed.
LEMMA ReleaseClaimType ==
    ASSUME TypeOK, NEW k \in Keys, ReleaseClaim(k)
    PROVE  /\ hot' \in [Keys -> {"none", "claim", "result"}]
           /\ faults' \in 0..MaxFaults
           /\ hotOf' = hotOf /\ coldOf' = coldOf /\ expired' = expired
BY BoundAssumption DEF ReleaseClaim, Fault, TypeOK

\* Replaying a stored response answers the request.
LEMMA ReplayAnswers ==
    ASSUME NEW r \in Requests, NEW x, Replay(r, x)
    PROVE  \/ Answer(r, "422", NoRequest)
           \/ Fingerprint[x] = Fingerprint[r] /\ Answer(r, "replay", x)
BY DEF Replay

\* The initial state is well formed.
LEMMA InitTypeOK == Init => TypeOK
BY BoundAssumption DEF Init, TypeOK, Codes

\* No step leaves a result in Redis without its row: the row is inserted before
\* Redis is written, warming copies a row that is there, and no row is deleted.
LEMMA HotHasRow ==
    ASSUME TypeOK, [Next]_vars, NEW k \in Keys, hot'[k] = "result"
    PROVE  coldOf'[k] \in Requests
<1>1. (hot[k] = "result" => coldOf[k] \in Requests) /\ \A r \in Requests : Key[r] \in Keys
  BY KeyAssumption DEF TypeOK
<1>2. CASE hot[k] = "result" /\ coldOf' = coldOf
  BY <1>1, <1>2
<1>3. ASSUME NEW r \in Requests, LookupCold(r) PROVE coldOf'[k] \in Requests
  BY <1>1, <1>3, NoRequestAssumption DEF LookupCold, ColdHit, TypeOK
<1>4. ASSUME NEW r \in Requests, StoreResult(r) PROVE coldOf'[k] \in Requests
  BY <1>1, <1>4, NoRequestAssumption DEF StoreResult, store, TypeOK
<1>5. CASE hot' = hot /\ coldOf' = coldOf
  BY <1>1, <1>5
<1>6. ASSUME NEW j \in Keys, hot' = [hot EXCEPT ![j] = "none"] \/ hot' = [hot EXCEPT ![j] = "claim"],
             coldOf' = coldOf
      PROVE  coldOf'[k] \in Requests
  BY <1>1, <1>6 DEF TypeOK
<1>7. ASSUME NEW j \in Keys, ReleaseClaim(j) PROVE coldOf'[k] \in Requests
  BY <1>1, <1>7 DEF ReleaseClaim, TypeOK
<1>8. ASSUME NEW r \in Requests,
             LookupHot(r) \/ Claim(r) \/ StoreDown(r) \/ PreAudit(r) \/ Execute(r) \/ ExecuteNothing(r)
             \/ StoreResultFails(r)
      PROVE  coldOf'[k] \in Requests
  BY <1>1, <1>5, <1>6, <1>8
     DEF LookupHot, Claim, StoreDown, PreAudit, Execute, ExecuteNothing, StoreResultFails, store
<1>9. ASSUME NEW r \in Requests, PreAuditFails(r) \/ ExecuteFails(r) \/ PostAuditFails(r)
      PROVE  coldOf'[k] \in Requests
  BY <1>1, <1>7, <1>9 DEF PreAuditFails, ExecuteFails, PostAuditFails
<1>10. ASSUME NEW j \in Keys, ClaimExpires(j) \/ ResultEvicted(j) \/ ResultExpires(j)
       PROVE  coldOf'[k] \in Requests
  <2>1. hot[k] = "result" /\ coldOf' = coldOf
    BY <1>10 DEF ClaimExpires, ResultEvicted, ResultExpires, TypeOK
  <2> QED
    BY <1>2, <2>1
<1>11. CASE Crash \/ UNCHANGED vars
  BY <1>5, <1>11 DEF Crash, store, vars
<1> QED
  BY <1>3, <1>4, <1>8, <1>9, <1>10, <1>11 DEF Next

\* Every step keeps the state well formed.
LEMMA NextTypeOK == TypeOK /\ [Next]_vars => TypeOK'
<1> SUFFICES ASSUME TypeOK, [Next]_vars PROVE TypeOK'
  OBVIOUS
<1>k. \A r \in Requests : Key[r] \in Keys
  BY KeyAssumption
<1>f. MaxFaults \in Nat
  BY BoundAssumption
<1>h. \A k \in Keys : hot'[k] = "result" => coldOf'[k] \in Requests
  BY HotHasRow
<1>0. CASE UNCHANGED vars
  BY <1>h, <1>0 DEF vars, TypeOK
<1>1. ASSUME NEW r \in Requests, LookupHot(r) PROVE TypeOK'
  <2>1. hotOf[Key[r]] \in Requests \cup {NoRequest}
    BY <1>k DEF TypeOK
  <2>2. \E code \in Codes, of \in Requests \cup {NoRequest} : Answer(r, code, of)
    BY <1>1, <2>1, ReplayAnswers DEF LookupHot, Codes
  <2>3. /\ pc' \in [Requests -> {"new", "audit", "exec", "post", "done"}]
        /\ reply' \in [Requests -> [code : Codes, of : Requests \cup {NoRequest}]]
    BY <2>2, AnswerType
  <2> QED
    BY <1>h, <1>1, <2>3 DEF LookupHot, store, TypeOK
<1>2. ASSUME NEW r \in Requests, LookupCold(r) PROVE TypeOK'
  <2>1. coldOf[Key[r]] \in Requests \cup {NoRequest}
    BY <1>k DEF TypeOK
  <2>2. \E code \in Codes, of \in Requests \cup {NoRequest} : Answer(r, code, of)
    BY <1>2, <2>1, ReplayAnswers DEF LookupCold, Codes
  <2>3. /\ pc' \in [Requests -> {"new", "audit", "exec", "post", "done"}]
        /\ reply' \in [Requests -> [code : Codes, of : Requests \cup {NoRequest}]]
    BY <2>2, AnswerType
  <2>4. /\ hot' \in [Keys -> {"none", "claim", "result"}]
        /\ hotOf' \in [Keys -> Requests \cup {NoRequest}]
        /\ faults' \in 0..MaxFaults
    BY <1>2, <2>1, <1>f DEF LookupCold, Fault, TypeOK
  <2> QED
    BY <1>h, <1>2, <2>3, <2>4 DEF LookupCold, TypeOK
<1>3. ASSUME NEW r \in Requests, Claim(r) PROVE TypeOK'
  <2>1. CASE hot[Key[r]] = "claim"
    <3>1. Answer(r, "409", NoRequest)
      BY <1>3, <2>1 DEF Claim
    <3>2. /\ pc' \in [Requests -> {"new", "audit", "exec", "post", "done"}]
          /\ reply' \in [Requests -> [code : Codes, of : Requests \cup {NoRequest}]]
      BY <3>1, AnswerType DEF Codes
    <3> QED
      BY <1>h, <1>3, <2>1, <3>2 DEF Claim, TypeOK
  <2>2. CASE hot[Key[r]] # "claim"
    BY <1>h, <1>3, <2>2 DEF Claim, TypeOK
  <2> QED
    BY <2>1, <2>2
<1>4. ASSUME NEW r \in Requests, StoreDown(r) PROVE TypeOK'
  <2>1. Answer(r, "503", NoRequest)
    BY <1>4 DEF StoreDown
  <2>2. /\ pc' \in [Requests -> {"new", "audit", "exec", "post", "done"}]
        /\ reply' \in [Requests -> [code : Codes, of : Requests \cup {NoRequest}]]
    BY <2>1, AnswerType DEF Codes
  <2>3. hot' \in [Keys -> {"none", "claim", "result"}] /\ faults' \in 0..MaxFaults
    BY <1>4, <1>f DEF StoreDown, Fault, TypeOK
  <2> QED
    BY <1>h, <1>4, <2>2, <2>3 DEF StoreDown, TypeOK
<1>5. ASSUME NEW r \in Requests, PreAudit(r) PROVE TypeOK'
  BY <1>h, <1>5 DEF PreAudit, store, TypeOK
<1>6. ASSUME NEW r \in Requests, PreAuditFails(r) PROVE TypeOK'
  <2>1. Answer(r, "503", NoRequest) /\ ReleaseClaim(Key[r])
    BY <1>6 DEF PreAuditFails
  <2>2. /\ pc' \in [Requests -> {"new", "audit", "exec", "post", "done"}]
        /\ reply' \in [Requests -> [code : Codes, of : Requests \cup {NoRequest}]]
    BY <2>1, AnswerType DEF Codes
  <2> QED
    BY <1>h, <1>6, <1>k, <2>1, <2>2, ReleaseClaimType DEF PreAuditFails, TypeOK
<1>7. ASSUME NEW r \in Requests, Execute(r) PROVE TypeOK'
  BY <1>h, <1>7 DEF Execute, store, TypeOK
<1>8. ASSUME NEW r \in Requests, ExecuteNothing(r) PROVE TypeOK'
  BY <1>h, <1>8 DEF ExecuteNothing, store, TypeOK
<1>9. ASSUME NEW r \in Requests, ExecuteFails(r) PROVE TypeOK'
  <2>1. Answer(r, "failed", NoRequest) /\ ReleaseClaim(Key[r])
    BY <1>9 DEF ExecuteFails
  <2>2. /\ pc' \in [Requests -> {"new", "audit", "exec", "post", "done"}]
        /\ reply' \in [Requests -> [code : Codes, of : Requests \cup {NoRequest}]]
    BY <2>1, AnswerType DEF Codes
  <2>3. placed' \subseteq Requests /\ excused' \subseteq Keys
    BY <1>9, <1>k DEF ExecuteFails, Excuse, TypeOK
  <2> QED
    BY <1>h, <1>k, <2>1, <2>2, <2>3, ReleaseClaimType DEF TypeOK
<1>10. ASSUME NEW r \in Requests, StoreResult(r) PROVE TypeOK'
  <2>1. \E code \in Codes : Answer(r, code, r)
    BY <1>10 DEF StoreResult, Codes
  <2>2. /\ pc' \in [Requests -> {"new", "audit", "exec", "post", "done"}]
        /\ reply' \in [Requests -> [code : Codes, of : Requests \cup {NoRequest}]]
    BY <2>1, AnswerType
  <2>3. /\ hot' \in [Keys -> {"none", "claim", "result"}]
        /\ hotOf' \in [Keys -> Requests \cup {NoRequest}]
        /\ coldOf' \in [Keys -> Requests \cup {NoRequest}]
        /\ faults' \in 0..MaxFaults
        /\ expired' = expired
    BY <1>10, <1>f DEF StoreResult, store, Fault, TypeOK
  <2> QED
    BY <1>h, <1>10, <2>2, <2>3 DEF StoreResult, TypeOK
<1>11. ASSUME NEW r \in Requests, StoreResultFails(r) PROVE TypeOK'
  <2>1. /\ pc' \in [Requests -> {"new", "audit", "exec", "post", "done"}]
        /\ reply' \in [Requests -> [code : Codes, of : Requests \cup {NoRequest}]]
    BY <1>11, AnswerType DEF StoreResultFails, Codes
  <2> QED
    BY <1>h, <1>11, <1>k, <1>f, <2>1 DEF StoreResultFails, Fault, Excuse, store, TypeOK
<1>12. ASSUME NEW r \in Requests, PostAuditFails(r) PROVE TypeOK'
  <2>1. /\ pc' \in [Requests -> {"new", "audit", "exec", "post", "done"}]
        /\ reply' \in [Requests -> [code : Codes, of : Requests \cup {NoRequest}]]
    BY <1>12, AnswerType DEF PostAuditFails, Codes
  <2>2. ReleaseClaim(Key[r])
    BY <1>12 DEF PostAuditFails
  <2> QED
    BY <1>h, <1>12, <1>k, <2>1, <2>2, ReleaseClaimType DEF PostAuditFails, Excuse, TypeOK
<1>13. ASSUME NEW k \in Keys, ClaimExpires(k) PROVE TypeOK'
  BY <1>h, <1>13 DEF ClaimExpires, Excuse, TypeOK
<1>14. ASSUME NEW k \in Keys, ResultEvicted(k) PROVE TypeOK'
  BY <1>h, <1>14, <1>f DEF ResultEvicted, Fault, TypeOK
<1>15. ASSUME NEW k \in Keys, ResultExpires(k) PROVE TypeOK'
  BY <1>h, <1>15, <1>f DEF ResultExpires, Fault, Excuse, TypeOK
<1>16. ASSUME Crash PROVE TypeOK'
  <2>1. PICK lost \in SUBSET {r \in Requests : pc[r] = "exec"} :
          /\ placed' = placed \cup lost
          /\ Excuse({Key[r] : r \in lost \cup {x \in Requests : pc[x] = "post"}})
    BY <1>16 DEF Crash
  <2>2. placed' \subseteq Requests /\ excused' \subseteq Keys
    BY <1>k, <2>1 DEF Excuse, TypeOK
  <2>3. pc' \in [Requests -> {"new", "audit", "exec", "post", "done"}]
    BY <1>16 DEF Crash, TypeOK
  <2> QED
    BY <1>h, <1>16, <1>f, <2>2, <2>3 DEF Crash, Fault, store, TypeOK
<1> QED
  BY <1>0, <1>1, <1>2, <1>3, <1>4, <1>5, <1>6, <1>7, <1>8, <1>9, <1>10, <1>11, <1>12,
     <1>13, <1>14, <1>15, <1>16 DEF Next

\* The state of create_order and of its two-tier store is always well formed, and
\* Redis never holds a result that the database does not have a row for.
THEOREM TypeCorrect == Spec => []TypeOK
BY InitTypeOK, NextTypeOK, PTL DEF Spec

-----------------------------------------------------------------------------
(* One key executes once, unless something on the list at Excuse happened. *)
(*                                                                         *)
(* AtMostOnceUnlessExcused is not inductive: nothing in it stops a second  *)
(* request while the first is running, or after it. For a key that is not  *)
(* excused, a running request holds the marker, is alone, and finds no     *)
(* order and no row of its key; an order that was placed is either being   *)
(* recorded or has its row in the database.                                *)

Running(r) == pc[r] \in {"audit", "exec", "post"}

HoldsMarker ==
    \A r \in Requests : Running(r) /\ Key[r] \notin excused =>
        hot[Key[r]] = "claim" /\ coldOf[Key[r]] = NoRequest

IsAlone ==
    \A r, s \in Requests :
        Running(r) /\ Running(s) /\ Key[r] = Key[s] /\ Key[r] \notin excused => r = s

IsRecorded ==
    \A r \in placed : Key[r] \notin excused => pc[r] = "post" \/ coldOf[Key[r]] # NoRequest

ExpiryIsExcused == expired \subseteq excused

OnceInv == /\ TypeOK
           /\ HoldsMarker
           /\ IsAlone
           /\ IsRecorded
           /\ ExpiryIsExcused
           /\ AtMostOnceUnlessExcused

\* Nothing is running or placed at the start.
LEMMA InitOnce == Init => OnceInv
BY InitTypeOK DEF Init, OnceInv, HoldsMarker, IsAlone, IsRecorded, ExpiryIsExcused,
   AtMostOnceUnlessExcused, Running

\* A request that ends without an order, or with an excuse, keeps the invariant,
\* whatever happens to its marker.
LEMMA EndKeepsOnce ==
    ASSUME OnceInv, TypeOK', NEW r \in Requests, Running(r),
           pc' = [pc EXCEPT ![r] = "done"],
           hot' = hot \/ hot' = [hot EXCEPT ![Key[r]] = IF @ = "claim" THEN "none" ELSE @],
           coldOf' = coldOf, expired' = expired,
           \/ placed' = placed /\ excused' = excused /\ pc[r] # "post"
           \/ placed' \in {placed, placed \cup {r}} /\ excused' = excused \cup {Key[r]}
    PROVE  OnceInv'
<1>k. \A x \in Requests : Key[x] \in Keys
  BY KeyAssumption
<1>p. placed \subseteq Requests
  BY DEF OnceInv, TypeOK
<1>1. \A x \in Requests : Running(x)' => x # r /\ Running(x)
  BY DEF OnceInv, TypeOK, Running
<1>2. \A x \in Requests : Running(x)' /\ Key[x] \notin excused' => Key[x] # Key[r]
  BY <1>1 DEF OnceInv, IsAlone
<1>3. HoldsMarker'
  BY <1>1, <1>2, <1>k DEF OnceInv, HoldsMarker, TypeOK
<1>4. IsAlone'
  BY <1>1 DEF OnceInv, IsAlone
<1>5. IsRecorded' /\ AtMostOnceUnlessExcused'
  BY <1>k, <1>p DEF OnceInv, IsRecorded, AtMostOnceUnlessExcused, TypeOK
<1>6. ExpiryIsExcused'
  BY DEF OnceInv, ExpiryIsExcused
<1> QED
  BY <1>3, <1>4, <1>5, <1>6 DEF OnceInv

\* Every step keeps the invariant.
LEMMA NextOnce == OnceInv /\ [Next]_vars => OnceInv'
<1> SUFFICES ASSUME OnceInv, [Next]_vars PROVE OnceInv'
  OBVIOUS
<1>t. TypeOK /\ TypeOK'
  BY NextTypeOK DEF OnceInv
<1>k. \A r \in Requests : Key[r] \in Keys
  BY KeyAssumption
<1>p. placed \subseteq Requests
  BY <1>t DEF TypeOK
<1>0. CASE UNCHANGED vars
  BY <1>0 DEF vars, OnceInv, TypeOK, HoldsMarker, IsAlone, IsRecorded, ExpiryIsExcused,
     AtMostOnceUnlessExcused, Running
<1>1. ASSUME NEW r \in Requests, LookupHot(r) PROVE OnceInv'
  <2>1. pc[r] = "new" /\ pc' = [pc EXCEPT ![r] = "done"]
    BY <1>1 DEF LookupHot, Replay, Answer
  <2>2. \A x \in Requests : Running(x)' <=> Running(x)
    BY <1>t, <2>1 DEF Running, TypeOK
  <2>3. \A x \in Requests : pc[x] = "post" => pc'[x] = "post"
    BY <1>t, <2>1 DEF TypeOK
  <2> QED
    BY <1>1, <1>t, <1>p, <2>2, <2>3 DEF LookupHot, store, OnceInv, HoldsMarker, IsAlone,
       IsRecorded, ExpiryIsExcused, AtMostOnceUnlessExcused
<1>2. ASSUME NEW r \in Requests, LookupCold(r) PROVE OnceInv'
  <2>1. pc[r] = "new" /\ pc' = [pc EXCEPT ![r] = "done"] /\ coldOf[Key[r]] # NoRequest
    BY <1>2 DEF LookupCold, Replay, Answer, ColdHit
  <2>2. \A x \in Requests : Running(x)' <=> Running(x)
    BY <1>t, <2>1 DEF Running, TypeOK
  <2>3. \A x \in Requests : pc[x] = "post" => pc'[x] = "post"
    BY <1>t, <2>1 DEF TypeOK
  <2>4. HoldsMarker'
    <3>1. \A x \in Requests : Running(x) /\ Key[x] \notin excused => Key[x] # Key[r]
      BY <2>1 DEF OnceInv, HoldsMarker
    <3>2. \A k \in Keys : k # Key[r] => hot'[k] = hot[k]
      BY <1>2, <1>t DEF LookupCold, TypeOK
    <3> QED
      BY <1>2, <1>k, <2>2, <3>1, <3>2 DEF LookupCold, OnceInv, HoldsMarker
  <2> QED
    BY <1>2, <1>t, <1>p, <2>2, <2>3, <2>4 DEF LookupCold, OnceInv, IsAlone,
       IsRecorded, ExpiryIsExcused, AtMostOnceUnlessExcused
<1>3. ASSUME NEW r \in Requests, Claim(r) PROVE OnceInv'
  <2>1. CASE hot[Key[r]] = "claim"
    <3>1. pc[r] = "new" /\ pc' = [pc EXCEPT ![r] = "done"] /\ hot' = hot
      BY <1>3, <2>1 DEF Claim, Answer
    <3>2. \A x \in Requests : Running(x)' <=> Running(x)
      BY <1>t, <3>1 DEF Running, TypeOK
    <3>3. \A x \in Requests : pc[x] = "post" => pc'[x] = "post"
      BY <1>t, <3>1 DEF TypeOK
    <3> QED
      BY <1>3, <1>t, <1>p, <3>1, <3>2, <3>3 DEF Claim, OnceInv, HoldsMarker, IsAlone,
         IsRecorded, ExpiryIsExcused, AtMostOnceUnlessExcused
  <2>2. CASE hot[Key[r]] # "claim"
    <3>1. /\ pc[r] = "new" /\ pc' = [pc EXCEPT ![r] = "audit"]
          /\ hot' = [hot EXCEPT ![Key[r]] = "claim"]
          /\ coldOf[Key[r]] = NoRequest \/ Key[r] \in expired
      BY <1>3, <2>2 DEF Claim, ColdHit
    <3>2. \A x \in Requests : Running(x)' <=> Running(x) \/ x = r
      BY <1>t, <3>1 DEF Running, TypeOK
    <3>3. \A x \in Requests : pc[x] = "post" => pc'[x] = "post"
      BY <1>t, <3>1 DEF TypeOK
    <3>4. \A x \in Requests : Running(x) /\ Key[x] \notin excused => Key[x] # Key[r]
      BY <2>2 DEF OnceInv, HoldsMarker
    <3>5. Key[r] \notin excused => coldOf[Key[r]] = NoRequest
      BY <3>1 DEF OnceInv, ExpiryIsExcused
    <3>6. /\ coldOf' = coldOf /\ expired' = expired /\ placed' = placed /\ excused' = excused
      BY <1>3 DEF Claim
    <3>7. HoldsMarker'
      BY <1>t, <1>k, <3>1, <3>2, <3>4, <3>5, <3>6 DEF OnceInv, HoldsMarker, TypeOK
    <3>8. IsAlone'
      BY <3>2, <3>4, <3>6 DEF OnceInv, IsAlone
    <3> QED
      BY <1>t, <1>p, <3>3, <3>6, <3>7, <3>8 DEF OnceInv, IsRecorded, ExpiryIsExcused,
         AtMostOnceUnlessExcused
  <2> QED
    BY <2>1, <2>2
<1>4. ASSUME NEW r \in Requests, StoreDown(r) PROVE OnceInv'
  <2>1. pc[r] = "new" /\ pc' = [pc EXCEPT ![r] = "done"]
    BY <1>4 DEF StoreDown, Answer
  <2>2. \A x \in Requests : Running(x)' <=> Running(x)
    BY <1>t, <2>1 DEF Running, TypeOK
  <2>3. \A x \in Requests : pc[x] = "post" => pc'[x] = "post"
    BY <1>t, <2>1 DEF TypeOK
  <2>4. \A k \in Keys : hot[k] = "claim" => hot'[k] = "claim"
    BY <1>4, <1>t DEF StoreDown, TypeOK
  <2> QED
    BY <1>4, <1>t, <1>p, <1>k, <2>2, <2>3, <2>4 DEF StoreDown, OnceInv, HoldsMarker, IsAlone,
       IsRecorded, ExpiryIsExcused, AtMostOnceUnlessExcused
<1>5. ASSUME NEW r \in Requests, PreAudit(r) PROVE OnceInv'
  <2>1. \A x \in Requests : Running(x)' <=> Running(x)
    BY <1>5, <1>t DEF PreAudit, Running, TypeOK
  <2>2. \A x \in Requests : pc[x] = "post" => pc'[x] = "post"
    BY <1>5, <1>t DEF PreAudit, TypeOK
  <2> QED
    BY <1>5, <1>t, <1>p, <2>1, <2>2 DEF PreAudit, store, OnceInv, HoldsMarker, IsAlone,
       IsRecorded, ExpiryIsExcused, AtMostOnceUnlessExcused
<1>6. ASSUME NEW r \in Requests, PreAuditFails(r) PROVE OnceInv'
  BY <1>6, <1>t, EndKeepsOnce DEF PreAuditFails, Answer, ReleaseClaim, Running
<1>7. ASSUME NEW r \in Requests, Execute(r) PROVE OnceInv'
  <2>1. \A x \in Requests : Running(x)' <=> Running(x)
    BY <1>7, <1>t DEF Execute, Running, TypeOK
  <2>2. \A x \in Requests : pc[x] = "post" => pc'[x] = "post"
    BY <1>7, <1>t DEF Execute, TypeOK
  <2>3. Running(r) /\ pc[r] # "post" /\ pc'[r] = "post" /\ placed' = placed \cup {r}
    BY <1>7, <1>t DEF Execute, Running, TypeOK
  <2>4. Key[r] \notin excused => \A x \in placed : Key[x] = Key[r] => x = r
    <3>1. SUFFICES ASSUME Key[r] \notin excused, NEW x \in placed, Key[x] = Key[r] PROVE x = r
      OBVIOUS
    <3>2. coldOf[Key[r]] = NoRequest
      BY <2>3, <3>1 DEF OnceInv, HoldsMarker
    <3>3. pc[x] = "post"
      BY <3>1, <3>2 DEF OnceInv, IsRecorded
    <3>4. Running(x)
      BY <3>3 DEF Running
    <3> QED
      BY <1>p, <2>3, <3>1, <3>4 DEF OnceInv, IsAlone
  <2> QED
    BY <1>7, <1>t, <1>p, <2>1, <2>2, <2>3, <2>4 DEF Execute, store, OnceInv, HoldsMarker,
       IsAlone, IsRecorded, ExpiryIsExcused, AtMostOnceUnlessExcused
<1>8. ASSUME NEW r \in Requests, ExecuteNothing(r) PROVE OnceInv'
  <2>1. \A x \in Requests : Running(x)' <=> Running(x)
    BY <1>8, <1>t DEF ExecuteNothing, Running, TypeOK
  <2>2. \A x \in Requests : pc[x] = "post" => pc'[x] = "post"
    BY <1>8, <1>t DEF ExecuteNothing, TypeOK
  <2> QED
    BY <1>8, <1>t, <1>p, <2>1, <2>2 DEF ExecuteNothing, store, OnceInv, HoldsMarker,
       IsAlone, IsRecorded, ExpiryIsExcused, AtMostOnceUnlessExcused
<1>9. ASSUME NEW r \in Requests, ExecuteFails(r) PROVE OnceInv'
  <2>1. \/ placed' = placed /\ excused' = excused
        \/ placed' = placed \cup {r} /\ excused' = excused \cup {Key[r]}
    BY <1>9 DEF ExecuteFails, Excuse
  <2> QED
    BY <1>9, <1>t, <2>1, EndKeepsOnce DEF ExecuteFails, Answer, ReleaseClaim, Running
<1>10. ASSUME NEW r \in Requests, StoreResult(r) PROVE OnceInv'
  <2>1. /\ pc[r] = "post" /\ pc' = [pc EXCEPT ![r] = "done"]
        /\ expired' = expired /\ placed' = placed /\ excused' = excused
    BY <1>10 DEF StoreResult, Answer, store
  <2>2. \A k \in Keys : k # Key[r] => hot'[k] = hot[k] /\ coldOf'[k] = coldOf[k]
    BY <1>10, <1>t DEF StoreResult, store, TypeOK
  <2>3. coldOf'[Key[r]] # NoRequest
    BY <1>10, <1>t, <1>k, NoRequestAssumption DEF StoreResult, store, TypeOK
  <2>4. \A x \in Requests : Running(x)' => x # r /\ Running(x)
    BY <1>t, <2>1 DEF Running, TypeOK
  <2>5. Running(r)
    BY <2>1 DEF Running
  <2>6. \A x \in Requests : Running(x)' /\ Key[x] \notin excused => Key[x] # Key[r]
    BY <2>4, <2>5 DEF OnceInv, IsAlone
  <2>7. HoldsMarker'
    BY <1>k, <2>1, <2>2, <2>4, <2>6 DEF OnceInv, HoldsMarker
  <2>8. IsAlone'
    BY <2>1, <2>4 DEF OnceInv, IsAlone
  <2>9. IsRecorded'
    <3>1. SUFFICES ASSUME NEW x \in placed, Key[x] \notin excused
                   PROVE  pc'[x] = "post" \/ coldOf'[Key[x]] # NoRequest
      BY <2>1 DEF IsRecorded
    <3>2. pc[x] = "post" \/ coldOf[Key[x]] # NoRequest
      BY <3>1 DEF OnceInv, IsRecorded
    <3>3. x \in Requests
      BY <1>p
    <3>4. CASE Key[x] = Key[r]
      BY <2>3, <3>4
    <3>5. CASE Key[x] # Key[r]
      BY <1>t, <1>k, <2>1, <2>2, <3>2, <3>3, <3>5 DEF TypeOK
    <3> QED
      BY <3>4, <3>5
  <2> QED
    BY <1>t, <2>1, <2>7, <2>8, <2>9 DEF OnceInv, ExpiryIsExcused, AtMostOnceUnlessExcused
<1>11. ASSUME NEW r \in Requests, StoreResultFails(r) PROVE OnceInv'
  BY <1>11, <1>t, EndKeepsOnce DEF StoreResultFails, Answer, Excuse, Running, store
<1>12. ASSUME NEW r \in Requests, PostAuditFails(r) PROVE OnceInv'
  BY <1>12, <1>t, EndKeepsOnce DEF PostAuditFails, Answer, Excuse, ReleaseClaim, Running
<1>13. ASSUME NEW k \in Keys, ClaimExpires(k) PROVE OnceInv'
  <2>1. \A x \in Requests : Running(x)' <=> Running(x)
    BY <1>13 DEF ClaimExpires, Running
  <2>2. \A x \in Requests : Running(x) /\ Key[x] \notin excused' => Key[x] # k
    BY <1>13 DEF ClaimExpires, Excuse, Active, Running
  <2>3. excused \subseteq excused'
    BY <1>13 DEF ClaimExpires, Excuse
  <2>4. \A j \in Keys : j # k => hot'[j] = hot[j]
    BY <1>13, <1>t DEF ClaimExpires, TypeOK
  <2>5. HoldsMarker'
    BY <1>13, <1>k, <2>1, <2>2, <2>3, <2>4 DEF ClaimExpires, OnceInv, HoldsMarker
  <2> QED
    BY <1>13, <1>t, <1>p, <2>1, <2>3, <2>5 DEF ClaimExpires, OnceInv, IsAlone,
       IsRecorded, ExpiryIsExcused, AtMostOnceUnlessExcused
<1>14. ASSUME NEW k \in Keys, ResultEvicted(k) PROVE OnceInv'
  <2>1. \A x \in Requests : Running(x)' <=> Running(x)
    BY <1>14 DEF ResultEvicted, Running
  <2>2. \A j \in Keys : hot[j] = "claim" => hot'[j] = "claim"
    BY <1>14, <1>t DEF ResultEvicted, TypeOK
  <2> QED
    BY <1>14, <1>t, <1>p, <1>k, <2>1, <2>2 DEF ResultEvicted, OnceInv, HoldsMarker, IsAlone,
       IsRecorded, ExpiryIsExcused, AtMostOnceUnlessExcused
<1>15. ASSUME NEW k \in Keys, ResultExpires(k) PROVE OnceInv'
  <2>1. \A x \in Requests : Running(x)' <=> Running(x)
    BY <1>15 DEF ResultExpires, Running
  <2>2. \A j \in Keys : hot[j] = "claim" => hot'[j] = "claim"
    BY <1>15, <1>t DEF ResultExpires, TypeOK
  <2>3. excused' = excused \cup {k}
    BY <1>15 DEF ResultExpires, Excuse
  <2> QED
    BY <1>15, <1>t, <1>p, <1>k, <2>1, <2>2, <2>3 DEF ResultExpires, OnceInv, HoldsMarker,
       IsAlone, IsRecorded, ExpiryIsExcused, AtMostOnceUnlessExcused
<1>16. ASSUME Crash PROVE OnceInv'
  <2>1. PICK lost \in SUBSET {r \in Requests : pc[r] = "exec"} :
          /\ placed' = placed \cup lost
          /\ excused' = excused \cup {Key[r] : r \in lost \cup {x \in Requests : pc[x] = "post"}}
    BY <1>16 DEF Crash, Excuse
  <2>2. \A x \in Requests : ~Running(x)'
    BY <1>16, <1>t DEF Crash, Running, TypeOK
  <2>3. \A x \in Requests : x \in lost \/ pc[x] = "post" => Key[x] \in excused'
    BY <2>1
  <2>4. hot' = hot /\ coldOf' = coldOf /\ expired' = expired
    BY <1>16 DEF Crash, store
  <2>5. HoldsMarker' /\ IsAlone'
    BY <2>2 DEF HoldsMarker, IsAlone
  <2>6. \A x \in placed' : Key[x] \notin excused' => x \in placed /\ pc[x] # "post" /\ Key[x] \notin excused
    BY <1>p, <2>1, <2>3
  <2>7. IsRecorded' /\ AtMostOnceUnlessExcused'
    BY <2>4, <2>6 DEF OnceInv, IsRecorded, AtMostOnceUnlessExcused
  <2> QED
    BY <1>t, <2>1, <2>4, <2>5, <2>7 DEF OnceInv, ExpiryIsExcused
<1> QED
  BY <1>0, <1>1, <1>2, <1>3, <1>4, <1>5, <1>6, <1>7, <1>8, <1>9, <1>10, <1>11, <1>12,
     <1>13, <1>14, <1>15, <1>16 DEF Next

\* Retries, concurrent requests, store outages, evictions and failed audits never
\* make a key execute twice; only the events listed at Excuse do.
THEOREM ExecutesOnce == Spec => []AtMostOnceUnlessExcused
<1>1. OnceInv => AtMostOnceUnlessExcused
  BY DEF OnceInv
<1> QED
  BY <1>1, InitOnce, NextOnce, PTL DEF Spec

-----------------------------------------------------------------------------
(* What is replayed is what was answered.                                  *)
(*                                                                         *)
(* Both tiers hold only responses of requests of their key that were       *)
(* answered with them, and an answered request is never answered again.    *)

Kept(x, k) == x \in Requests /\ Key[x] = k /\ reply[x].code = "ok"

TiersHoldAnswers ==
    \A k \in Keys : /\ coldOf[k] # NoRequest => Kept(coldOf[k], k)
                    /\ hot[k] = "result" => Kept(hotOf[k], k)

AnsweredIsDone == \A r \in Requests : reply[r].code # "none" => pc[r] = "done"

ReplayInv == TypeOK /\ TiersHoldAnswers /\ AnsweredIsDone /\ ReplayIsFaithful

\* An answer, other than a replay, changes no other reply.
LEMMA AnswerKeepsReplies ==
    ASSUME ReplayInv, TypeOK', NEW r \in Requests, pc[r] # "done",
           NEW code \in Codes \ {"none", "replay"}, NEW of, Answer(r, code, of)
    PROVE  /\ AnsweredIsDone' /\ ReplayIsFaithful'
           /\ \A x, k : Kept(x, k) => Kept(x, k)'
           /\ code = "ok" => Kept(r, Key[r])'
<1>1. reply[r].code = "none"
  BY DEF ReplayInv, AnsweredIsDone
<1>2. reply' = [reply EXCEPT ![r] = [code |-> code, of |-> of]] /\ pc' = [pc EXCEPT ![r] = "done"]
  BY DEF Answer
<1>3. \A x \in Requests : x # r => reply'[x] = reply[x] /\ pc'[x] = pc[x]
  BY <1>2 DEF ReplayInv, TypeOK
<1>4. reply'[r].code = code /\ pc'[r] = "done"
  BY <1>2 DEF ReplayInv, TypeOK
<1>5. AnsweredIsDone'
  BY <1>3, <1>4 DEF ReplayInv, AnsweredIsDone
<1>6. \A x, k : Kept(x, k) => Kept(x, k)'
  BY <1>1, <1>3 DEF Kept
<1>7. ReplayIsFaithful'
  <2>1. SUFFICES ASSUME NEW s \in Requests, reply'[s].code = "replay"
                 PROVE  /\ reply'[s].of \in Requests
                        /\ reply'[reply'[s].of].code = "ok"
                        /\ Key[reply'[s].of] = Key[s]
                        /\ Fingerprint[reply'[s].of] = Fingerprint[s]
    BY DEF ReplayIsFaithful
  <2>2. s # r /\ reply'[s] = reply[s]
    BY <1>3, <1>4, <2>1
  <2>4. /\ reply[s].of \in Requests
        /\ reply[reply[s].of].code = "ok"
        /\ Key[reply[s].of] = Key[s]
        /\ Fingerprint[reply[s].of] = Fingerprint[s]
    BY <2>1, <2>2 DEF ReplayInv, ReplayIsFaithful
  <2>5. reply[s].of # r
    BY <1>1, <2>4
  <2>6. reply'[reply[s].of] = reply[reply[s].of]
    BY <1>2, <2>4, <2>5 DEF ReplayInv, TypeOK
  <2> QED
    BY <2>2, <2>4, <2>6
<1> QED
  BY <1>4, <1>5, <1>6, <1>7 DEF Kept

\* A replay of a kept response is faithful.
LEMMA ReplayKeepsInv ==
    ASSUME ReplayInv, TypeOK', NEW r \in Requests, pc[r] = "new",
           NEW x, Kept(x, Key[r]), Replay(r, x)
    PROVE  /\ AnsweredIsDone' /\ ReplayIsFaithful'
           /\ \A y, k : Kept(y, k) => Kept(y, k)'
<1>1. CASE Answer(r, "422", NoRequest)
  BY <1>1, AnswerKeepsReplies DEF Codes
<1>2. CASE Fingerprint[x] = Fingerprint[r] /\ Answer(r, "replay", x)
  <2>1. reply[r].code = "none" /\ x # r /\ x \in Requests
    BY DEF ReplayInv, AnsweredIsDone, Kept
  <2>2. reply' = [reply EXCEPT ![r] = [code |-> "replay", of |-> x]] /\ pc' = [pc EXCEPT ![r] = "done"]
    BY <1>2 DEF Answer
  <2>3. \A s \in Requests : s # r => reply'[s] = reply[s] /\ pc'[s] = pc[s]
    BY <2>2 DEF ReplayInv, TypeOK
  <2>4. reply'[r].code = "replay" /\ reply'[r].of = x /\ pc'[r] = "done"
    BY <2>2 DEF ReplayInv, TypeOK
  <2>5. \A y, k : Kept(y, k) => Kept(y, k)'
    BY <2>1, <2>3 DEF Kept
  <2>6. \A s \in Requests : s # r /\ reply'[s].code = "replay" =>
          /\ reply'[s].of \in Requests
          /\ reply'[reply'[s].of].code = "ok"
          /\ Key[reply'[s].of] = Key[s]
          /\ Fingerprint[reply'[s].of] = Fingerprint[s]
    BY <2>1, <2>3 DEF ReplayInv, ReplayIsFaithful
  <2>7. /\ reply'[x].code = "ok" /\ Key[x] = Key[r]
    BY <2>5 DEF Kept
  <2>8. ReplayIsFaithful'
    BY <1>2, <2>1, <2>4, <2>6, <2>7 DEF ReplayIsFaithful
  <2> QED
    BY <2>3, <2>4, <2>5, <2>8 DEF ReplayInv, AnsweredIsDone
<1> QED
  BY <1>1, <1>2, ReplayAnswers

\* Nothing is stored or answered at the start.
LEMMA InitReplay == Init => ReplayInv
BY InitTypeOK DEF Init, ReplayInv, TiersHoldAnswers, AnsweredIsDone, ReplayIsFaithful

\* Every step keeps the invariant.
LEMMA NextReplay == ReplayInv /\ [Next]_vars => ReplayInv'
<1> SUFFICES ASSUME ReplayInv, [Next]_vars PROVE ReplayInv'
  OBVIOUS
<1>t. TypeOK /\ TypeOK'
  BY NextTypeOK DEF ReplayInv
<1>k. \A r \in Requests : Key[r] \in Keys
  BY KeyAssumption
<1>n. NoRequest \notin Requests
  BY NoRequestAssumption
\* A step that ends request r, and at most forgets Redis entries, is harmless.
<1>e. ASSUME NEW r \in Requests, pc[r] # "done", NEW code \in Codes \ {"none", "replay"}, NEW of,
             Answer(r, code, of), hotOf' = hotOf, coldOf' = coldOf,
             \A k \in Keys : hot'[k] = "result" => hot[k] = "result"
      PROVE  ReplayInv'
  <2>1. /\ AnsweredIsDone' /\ ReplayIsFaithful'
        /\ \A x, k : Kept(x, k) => Kept(x, k)'
    BY <1>e, <1>t, AnswerKeepsReplies
  <2> QED
    BY <1>e, <1>t, <2>1 DEF ReplayInv, TiersHoldAnswers
\* Nor is one that answers nobody.
<1>q. ASSUME reply' = reply, hotOf' = hotOf, coldOf' = coldOf,
             \A k \in Keys : hot'[k] = "result" => hot[k] = "result",
             \A r \in Requests : pc[r] = "done" => pc'[r] = "done"
      PROVE  ReplayInv'
  <2>1. AnsweredIsDone' /\ ReplayIsFaithful'
    BY <1>q DEF ReplayInv, AnsweredIsDone, ReplayIsFaithful
  <2>2. TiersHoldAnswers'
    BY <1>q DEF ReplayInv, TiersHoldAnswers, Kept
  <2> QED
    BY <1>t, <2>1, <2>2 DEF ReplayInv
<1>0. CASE UNCHANGED vars
  BY <1>0, <1>q DEF vars
<1>1. ASSUME NEW r \in Requests, LookupHot(r) PROVE ReplayInv'
  <2>1. Kept(hotOf[Key[r]], Key[r]) /\ pc[r] = "new" /\ Replay(r, hotOf[Key[r]])
    BY <1>1, <1>k DEF LookupHot, ReplayInv, TiersHoldAnswers
  <2>2. /\ AnsweredIsDone' /\ ReplayIsFaithful'
        /\ \A x, k : Kept(x, k) => Kept(x, k)'
    BY <1>t, <2>1, ReplayKeepsInv
  <2> QED
    BY <1>1, <1>t, <2>2 DEF LookupHot, store, ReplayInv, TiersHoldAnswers
<1>2. ASSUME NEW r \in Requests, LookupCold(r) PROVE ReplayInv'
  <2>1. Kept(coldOf[Key[r]], Key[r]) /\ pc[r] = "new" /\ Replay(r, coldOf[Key[r]])
    BY <1>2, <1>k DEF LookupCold, ColdHit, ReplayInv, TiersHoldAnswers
  <2>2. /\ AnsweredIsDone' /\ ReplayIsFaithful'
        /\ \A x, k : Kept(x, k) => Kept(x, k)'
    BY <1>t, <2>1, ReplayKeepsInv
  <2>3. /\ coldOf' = coldOf
        /\ \A k \in Keys : \/ hot'[k] = hot[k] /\ hotOf'[k] = hotOf[k]
                           \/ k = Key[r] /\ hotOf'[k] = coldOf[k]
    <3>1. \/ /\ hot' = [hot EXCEPT ![Key[r]] = "result"]
             /\ hotOf' = [hotOf EXCEPT ![Key[r]] = coldOf[Key[r]]]
          \/ hot' = hot /\ hotOf' = hotOf
      BY <1>2 DEF LookupCold
    <3>2. coldOf' = coldOf
      BY <1>2 DEF LookupCold
    <3>3. hot \in [Keys -> {"none", "claim", "result"}] /\ hotOf \in [Keys -> Requests \cup {NoRequest}]
      BY <1>t DEF TypeOK
    <3>4. SUFFICES ASSUME NEW k \in Keys
                   PROVE  \/ hot'[k] = hot[k] /\ hotOf'[k] = hotOf[k]
                          \/ k = Key[r] /\ hotOf'[k] = coldOf[k]
      BY <3>2
    <3>5. CASE k = Key[r]
      BY <3>1, <3>3, <3>5
    <3>6. CASE k # Key[r]
      BY <3>1, <3>3, <3>6
    <3> QED
      BY <3>5, <3>6
  <2>4. TiersHoldAnswers'
    BY <2>1, <2>2, <2>3 DEF ReplayInv, TiersHoldAnswers
  <2> QED
    BY <1>t, <2>2, <2>4 DEF ReplayInv
<1>3. ASSUME NEW r \in Requests, Claim(r) PROVE ReplayInv'
  <2>1. CASE hot[Key[r]] = "claim"
    BY <1>3, <1>e, <2>1 DEF Claim, Codes
  <2>2. CASE hot[Key[r]] # "claim"
    <3>1. \A k \in Keys : hot'[k] = "result" => hot[k] = "result"
      BY <1>3, <1>t, <2>2 DEF Claim, TypeOK
    <3>2. \A x \in Requests : pc[x] = "done" => pc'[x] = "done"
      BY <1>3, <1>t, <2>2 DEF Claim, TypeOK
    <3> QED
      BY <1>3, <1>q, <2>2, <3>1, <3>2 DEF Claim
  <2> QED
    BY <2>1, <2>2
<1>4. ASSUME NEW r \in Requests, StoreDown(r) PROVE ReplayInv'
  <2>1. \A k \in Keys : hot'[k] = "result" => hot[k] = "result"
    BY <1>4, <1>t DEF StoreDown, TypeOK
  <2> QED
    BY <1>4, <1>e, <2>1 DEF StoreDown, Codes
<1>5. ASSUME NEW r \in Requests, PreAudit(r) \/ Execute(r) \/ ExecuteNothing(r) PROVE ReplayInv'
  <2>1. \A x \in Requests : pc[x] = "done" => pc'[x] = "done"
    BY <1>5, <1>t DEF PreAudit, Execute, ExecuteNothing, TypeOK
  <2> QED
    BY <1>5, <1>q, <2>1 DEF PreAudit, Execute, ExecuteNothing, store
<1>6. ASSUME NEW r \in Requests, PreAuditFails(r) \/ ExecuteFails(r) \/ PostAuditFails(r)
      PROVE  ReplayInv'
  <2>1. ReleaseClaim(Key[r])
    BY <1>6 DEF PreAuditFails, ExecuteFails, PostAuditFails
  <2>2. \A k \in Keys : hot'[k] = "result" => hot[k] = "result"
    BY <1>t, <2>1 DEF ReleaseClaim, TypeOK
  <2>3. pc[r] # "done" /\ \E code \in Codes \ {"none", "replay"}, of \in {r, NoRequest} : Answer(r, code, of)
    BY <1>6 DEF PreAuditFails, ExecuteFails, PostAuditFails, Codes
  <2> QED
    BY <1>e, <2>1, <2>2, <2>3 DEF ReleaseClaim
<1>7. ASSUME NEW r \in Requests, StoreResult(r) PROVE ReplayInv'
  <2>1. CASE /\ Answer(r, "500", r) /\ UNCHANGED <<store, faults>>
    BY <1>7, <1>e, <2>1 DEF StoreResult, Codes, store
  <2>2. CASE /\ Answer(r, "ok", r)
             /\ coldOf' = [coldOf EXCEPT ![Key[r]] = IF @ = NoRequest THEN r ELSE @]
             /\ \/ hot' = [hot EXCEPT ![Key[r]] = "result"] /\ hotOf' = [hotOf EXCEPT ![Key[r]] = r]
                \/ hot' = hot /\ hotOf' = hotOf
    <3>1. pc[r] # "done"
      BY <1>7 DEF StoreResult
    <3>2. /\ AnsweredIsDone' /\ ReplayIsFaithful'
          /\ \A x, k : Kept(x, k) => Kept(x, k)'
          /\ Kept(r, Key[r])'
      BY <1>t, <2>2, <3>1, AnswerKeepsReplies DEF Codes
    <3>3. \A k \in Keys : /\ coldOf'[k] = coldOf[k] \/ (k = Key[r] /\ coldOf'[k] = r)
                          /\ \/ hot'[k] = hot[k] /\ hotOf'[k] = hotOf[k]
                             \/ k = Key[r] /\ hotOf'[k] = r
      BY <1>t, <2>2 DEF TypeOK
    <3>4. TiersHoldAnswers'
      BY <3>2, <3>3 DEF ReplayInv, TiersHoldAnswers
    <3> QED
      BY <1>t, <3>2, <3>4 DEF ReplayInv
  <2> QED
    BY <1>7, <2>1, <2>2 DEF StoreResult
<1>8. ASSUME NEW r \in Requests, StoreResultFails(r) PROVE ReplayInv'
  BY <1>8, <1>e DEF StoreResultFails, Codes, store
<1>9. ASSUME NEW k \in Keys, ClaimExpires(k) \/ ResultEvicted(k) \/ ResultExpires(k)
      PROVE  ReplayInv'
  <2>1. \A j \in Keys : hot'[j] = "result" => hot[j] = "result"
    BY <1>9, <1>t DEF ClaimExpires, ResultEvicted, ResultExpires, TypeOK
  <2> QED
    BY <1>9, <1>q, <2>1 DEF ClaimExpires, ResultEvicted, ResultExpires
<1>10. ASSUME Crash PROVE ReplayInv'
  <2>1. \A x \in Requests : pc[x] = "done" => pc'[x] = "done"
    BY <1>10, <1>t DEF Crash, TypeOK
  <2> QED
    BY <1>10, <1>q, <2>1 DEF Crash, store
<1> QED
  BY <1>0, <1>1, <1>2, <1>3, <1>4, <1>5, <1>6, <1>7, <1>8, <1>9, <1>10 DEF Next

\* A retry gets the response its key and body were answered with, from either tier.
THEOREM ReplaysAreFaithful == Spec => []ReplayIsFaithful
<1>1. ReplayInv => ReplayIsFaithful
  BY DEF ReplayInv
<1> QED
  BY <1>1, InitReplay, NextReplay, PTL DEF Spec
=============================================================================

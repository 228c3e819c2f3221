-------------------------- MODULE OrderIdempotency --------------------------
(***************************************************************************)
(* POST /api/orders with an Idempotency-Key: create_order and              *)
(* create_batch_orders of api/routes/orders.py over the two-tier store     *)
(* (Redis in front of PostgreSQL) of core/idempotency.                     *)
(*                                                                         *)
(* The API runs as one process with one event loop, and the store is       *)
(* called synchronously, so what a request does between two awaits is one  *)
(* action: lookup and claim; the pre-flight audit; the execution; the      *)
(* post-execution audit together with store_result. A client retry is      *)
(* another request with the same key.                                      *)
(***************************************************************************)
EXTENDS Integers, FiniteSets

CONSTANTS
    Requests,       \* HTTP requests
    Keys,           \* Idempotency-Key values (with user and route)
    Key,            \* [Requests -> Keys]
    Fingerprint,    \* [Requests -> hashes of the body]
    Composite,      \* requests made of several orders: batch, TWAP, VWAP
    NoRequest,      \* the owner of no result
    MaxFaults       \* bound: failed calls, crashes and evictions

ASSUME KeyAssumption == Key \in [Requests -> Keys]
ASSUME NoRequestAssumption == NoRequest \notin Requests
ASSUME CompositeAssumption == Composite \subseteq Requests
ASSUME BoundAssumption == MaxFaults \in Nat

VARIABLES
    pc,         \* where each request is: "new", "audit", "exec", "post", "done"
    reply,      \* what it was answered: code, and the request whose response it is
    hot,        \* Redis, per key: "none", "claim" (the marker) or "result"
    hotOf,      \* whose response the Redis result holds
    coldOf,     \* whose response the order_idempotency_keys row holds
    expired,    \* keys whose row is past expires_at (nothing ever deletes it)
    placed,     \* requests whose order the broker accepted
    excused,    \* history: keys on which an event listed at Excuse happened
    faults

vars == <<pc, reply, hot, hotOf, coldOf, expired, placed, excused, faults>>
store == <<hot, hotOf, coldOf, expired>>

-----------------------------------------------------------------------------
Active(k) == {r \in Requests : Key[r] = k /\ pc[r] \in {"audit", "exec", "post"}}

Fault == faults < MaxFaults /\ faults' = faults + 1

\* History only. After any of these the code lets the same key execute again:
\*   - the claim expires while its request is still executing;
\*   - the audit, the answer of the broker, or the INSERT of the result is lost
\*     after the broker accepted the order; the process dies in between;
\*   - 24 hours pass and the result expires.
Excuse(ks) == excused' = excused \cup ks

Answer(r, code, of) ==
    /\ pc' = [pc EXCEPT ![r] = "done"]
    /\ reply' = [reply EXCEPT ![r] = [code |-> code, of |-> of]]

\* PgOrderIdempotencyStore.lookup treats an expired row as missing.
ColdHit(k) == coldOf[k] # NoRequest /\ k \notin expired

\* RedisOrderIdempotencyStore.release_claim: deletes the marker, whoever set it.
\* The routes ignore its failure, and then the marker lives until its TTL.
ReleaseClaim(k) ==
    /\ \/ /\ hot' = [hot EXCEPT ![k] = IF @ = "claim" THEN "none" ELSE @]
          /\ UNCHANGED faults
       \/ Fault /\ UNCHANGED hot
    /\ UNCHANGED <<hotOf, coldOf, expired>>

-----------------------------------------------------------------------------
Init ==
    /\ pc = [r \in Requests |-> "new"]
    /\ reply = [r \in Requests |-> [code |-> "none", of |-> NoRequest]]
    /\ hot = [k \in Keys |-> "none"]
    /\ hotOf = [k \in Keys |-> NoRequest]
    /\ coldOf = [k \in Keys |-> NoRequest]
    /\ expired = {}
    /\ placed = {}
    /\ excused = {}
    /\ faults = 0

\* Variant for testing the properties: the body is not compared.
ReplayUnchecked(r, x) == Answer(r, "replay", x)

\* The stored response of x: 422 if it belongs to another body, else replay.
Replay(r, x) ==
    IF Fingerprint[x] # Fingerprint[r]
    THEN Answer(r, "422", NoRequest)
    ELSE Answer(r, "replay", x)

\* store.lookup finds a result in Redis.
LookupHot(r) ==
    /\ pc[r] = "new" /\ hot[Key[r]] = "result"
    /\ Replay(r, hotOf[Key[r]])
    /\ UNCHANGED <<store, placed, excused, faults>>

\* store.lookup finds it only in the database, and warms Redis: the write
\* replaces whatever is there, a claim marker too. Its failure is ignored.
LookupCold(r) ==
    /\ pc[r] = "new" /\ hot[Key[r]] # "result" /\ ColdHit(Key[r])
    /\ Replay(r, coldOf[Key[r]])
    /\ \/ /\ hot' = [hot EXCEPT ![Key[r]] = "result"]
          /\ hotOf' = [hotOf EXCEPT ![Key[r]] = coldOf[Key[r]]]
          /\ UNCHANGED faults
       \/ Fault /\ UNCHANGED <<hot, hotOf>>
    /\ UNCHANGED <<coldOf, expired, placed, excused>>

\* Variant for testing the properties: SET without NX.
ClaimNoNX(r) ==
    /\ pc[r] = "new" /\ hot[Key[r]] # "result" /\ ~ColdHit(Key[r])
    /\ hot' = [hot EXCEPT ![Key[r]] = "claim"]
    /\ pc' = [pc EXCEPT ![r] = "audit"]
    /\ UNCHANGED <<reply, hotOf, coldOf, expired, placed, excused, faults>>

\* Nothing stored: SET NX, 409 if another request holds the marker.
Claim(r) ==
    /\ pc[r] = "new" /\ hot[Key[r]] # "result" /\ ~ColdHit(Key[r])
    /\ IF hot[Key[r]] = "claim"
       THEN Answer(r, "409", NoRequest) /\ UNCHANGED hot
       ELSE /\ hot' = [hot EXCEPT ![Key[r]] = "claim"]
            /\ pc' = [pc EXCEPT ![r] = "audit"]
            /\ UNCHANGED reply
    /\ UNCHANGED <<hotOf, coldOf, expired, placed, excused, faults>>

\* Redis or the database fails during lookup or try_claim: 503, fail-closed. A
\* SET NX whose answer timed out has left its marker behind.
StoreDown(r) ==
    /\ pc[r] = "new"
    /\ Fault
    /\ Answer(r, "503", NoRequest)
    /\ \/ UNCHANGED hot
       \/ /\ hot[Key[r]] = "none" /\ ~ColdHit(Key[r])
          /\ hot' = [hot EXCEPT ![Key[r]] = "claim"]
    /\ UNCHANGED <<hotOf, coldOf, expired, placed, excused>>

\* ORDER_REQUESTED is written before anything is sent to the broker.
PreAudit(r) ==
    /\ pc[r] = "audit"
    /\ pc' = [pc EXCEPT ![r] = "exec"]
    /\ UNCHANGED <<reply, store, placed, excused, faults>>

PreAuditFails(r) ==
    /\ pc[r] = "audit"
    /\ Answer(r, "503", NoRequest)
    /\ ReleaseClaim(Key[r])
    /\ UNCHANGED <<placed, excused>>

\* execute_order: the broker accepts.
Execute(r) ==
    /\ pc[r] = "exec"
    /\ placed' = placed \cup {r}
    /\ pc' = [pc EXCEPT ![r] = "post"]
    /\ UNCHANGED <<reply, store, excused, faults>>

\* A batch, TWAP or VWAP swallows the failure of each of its orders: it returns
\* normally even when the broker accepted none of them.
ExecuteNothing(r) ==
    /\ pc[r] = "exec" /\ r \in Composite
    /\ pc' = [pc EXCEPT ![r] = "post"]
    /\ UNCHANGED <<reply, store, placed, excused, faults>>

\* execute_order raises: refused by a guard or the broker, or (lost) the order
\* was accepted and the answer never came back. The claim is released either way.
ExecuteFails(r) ==
    /\ pc[r] = "exec"
    /\ Answer(r, "failed", NoRequest)
    /\ \E lost \in BOOLEAN :
         /\ placed' = IF lost THEN placed \cup {r} ELSE placed
         /\ Excuse(IF lost THEN {Key[r]} ELSE {})
    /\ ReleaseClaim(Key[r])

\* ORDER_CREATED is written and store_result runs: INSERT, then SETEX. The row of
\* another request with this key violates UNIQUE; create_order does not catch the
\* IdempotencyConflict or IdempotencyInProgress this raises.
StoreResult(r) ==
    LET k == Key[r]
    IN  /\ pc[r] = "post"
        /\ IF coldOf[k] # NoRequest /\ (k \in expired \/ Fingerprint[coldOf[k]] # Fingerprint[r])
           THEN Answer(r, "500", r) /\ UNCHANGED <<store, faults>>
           ELSE /\ Answer(r, "ok", r)
                /\ coldOf' = [coldOf EXCEPT ![k] = IF @ = NoRequest THEN r ELSE @]
                /\ \/ /\ hot' = [hot EXCEPT ![k] = "result"]
                      /\ hotOf' = [hotOf EXCEPT ![k] = r]
                      /\ UNCHANGED faults
                   \/ Fault /\ UNCHANGED <<hot, hotOf>>
                /\ UNCHANGED expired
        /\ UNCHANGED <<placed, excused>>

\* Variant for testing the properties: SETEX before the INSERT that fails.
StoreResultHotFirst(r) ==
    /\ pc[r] = "post"
    /\ Fault
    /\ Answer(r, "ok", r)
    /\ Excuse({Key[r]})
    /\ hot' = [hot EXCEPT ![Key[r]] = "result"]
    /\ hotOf' = [hotOf EXCEPT ![Key[r]] = r]
    /\ UNCHANGED <<coldOf, expired, placed>>

\* The INSERT fails: logged, answered normally, nothing stored.
StoreResultFails(r) ==
    /\ pc[r] = "post"
    /\ Fault
    /\ Answer(r, "ok", r)
    /\ Excuse({Key[r]})
    /\ UNCHANGED <<store, placed>>

\* ORDER_CREATED cannot be written: 503 and the claim is released, although the
\* broker has the order.
PostAuditFails(r) ==
    /\ pc[r] = "post"
    /\ Answer(r, "503", r)
    /\ Excuse({Key[r]})
    /\ ReleaseClaim(Key[r])
    /\ UNCHANGED placed

-----------------------------------------------------------------------------
\* Variant for testing the properties: SET without EX.
ClaimHasNoTTL(k) == FALSE /\ UNCHANGED vars

\* The marker's TTL of 30 seconds ends, be it under a running request: TWAP and
\* VWAP take 25 minutes, and a single order is retried by the KIS client.
ClaimExpires(k) ==
    /\ hot[k] = "claim"
    /\ hot' = [hot EXCEPT ![k] = "none"]
    /\ Excuse(IF Active(k) # {} THEN {k} ELSE {})
    /\ UNCHANGED <<pc, reply, hotOf, coldOf, expired, placed, faults>>

\* Redis evicts a result, or restarts without it.
ResultEvicted(k) ==
    /\ hot[k] = "result"
    /\ Fault
    /\ hot' = [hot EXCEPT ![k] = "none"]
    /\ UNCHANGED <<pc, reply, hotOf, coldOf, expired, placed, excused>>

\* 24 hours later: both tiers forget the result, but the row stays.
ResultExpires(k) ==
    /\ coldOf[k] # NoRequest /\ k \notin expired
    /\ Fault
    /\ hot' = [hot EXCEPT ![k] = IF @ = "result" THEN "none" ELSE @]
    /\ expired' = expired \cup {k}
    /\ Excuse({k})
    /\ UNCHANGED <<pc, reply, hotOf, coldOf, placed>>

\* The API process dies, maybe while the broker accepts what was just sent (lost);
\* markers stay in Redis until their TTL.
Crash ==
    /\ Fault
    /\ pc' = [r \in Requests |-> IF pc[r] \in {"audit", "exec", "post"} THEN "done" ELSE pc[r]]
    /\ \E lost \in SUBSET {r \in Requests : pc[r] = "exec"} :
         /\ placed' = placed \cup lost
         /\ Excuse({Key[r] : r \in lost \cup {x \in Requests : pc[x] = "post"}})
    /\ UNCHANGED <<reply, store>>

Next ==
    \/ \E r \in Requests :
         \/ LookupHot(r) \/ LookupCold(r) \/ Claim(r) \/ StoreDown(r)
         \/ PreAudit(r) \/ PreAuditFails(r) \/ Execute(r) \/ ExecuteNothing(r)
         \/ ExecuteFails(r) \/ StoreResult(r) \/ StoreResultFails(r) \/ PostAuditFails(r)
    \/ \E k \in Keys : ClaimExpires(k) \/ ResultEvicted(k) \/ ResultExpires(k)
    \/ Crash

Spec == Init /\ [][Next]_vars

\* A request that was let in keeps running, and Redis enforces the TTL.
Fairness ==
    /\ \A r \in Requests : WF_vars(PreAudit(r) \/ PreAuditFails(r) \/ Execute(r)
                                   \/ ExecuteFails(r) \/ StoreResult(r) \/ PostAuditFails(r))
    /\ \A k \in Keys : WF_vars(ClaimExpires(k))

FairSpec == Spec /\ Fairness

-----------------------------------------------------------------------------
(* Properties. *)

Codes == {"none", "replay", "ok", "failed", "409", "422", "500", "503"}

\* Types of the state; and Redis holds a result only for a key that has its row
\* in the database, the tier that store_result writes first and Redis is the
\* cache of, through failed writes, evictions and overlapping executions.
TypeOK ==
    /\ pc \in [Requests -> {"new", "audit", "exec", "post", "done"}]
    /\ reply \in [Requests -> [code : Codes, of : Requests \cup {NoRequest}]]
    /\ hot \in [Keys -> {"none", "claim", "result"}]
    /\ hotOf \in [Keys -> Requests \cup {NoRequest}]
    /\ coldOf \in [Keys -> Requests \cup {NoRequest}]
    /\ \A k \in Keys : hot[k] = "result" => coldOf[k] \in Requests
    /\ expired \subseteq Keys
    /\ placed \subseteq Requests
    /\ excused \subseteq Keys
    /\ faults \in 0..MaxFaults

\* One key, at most one execution at the broker, through retries, concurrent requests,
\* store outages, evictions and failed audits: only the events listed at Excuse
\* let a key execute a second time.
AtMostOnceUnlessExcused ==
    \A r, s \in placed : Key[r] = Key[s] /\ Key[r] \notin excused => r = s

\* A replayed response is the one its original request was answered with, under the
\* same key and for the same body, whichever tier it came from, through evictions,
\* expiries, lost writes and an overlapping second execution of the key.
ReplayIsFaithful ==
    \A r \in Requests :
        reply[r].code = "replay" =>
            /\ reply[r].of \in Requests
            /\ reply[reply[r].of].code = "ok"
            /\ Key[reply[r].of] = Key[r]
            /\ Fingerprint[reply[r].of] = Fingerprint[r]

\* No key answers 409 for ever: a marker left behind goes away.
ClaimGoesAway == \A k \in Keys : hot[k] = "claim" ~> hot[k] # "claim"

\* order_idempotency.py lines 6-7: a client's retry never leads to a second
\* order.
AtMostOnce == \A r, s \in placed : Key[r] = Key[s] => r = s
=============================================================================

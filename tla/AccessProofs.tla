---------------------------- MODULE AccessProofs ----------------------------
(***************************************************************************)
(* Proofs about Access: types, that a bound proof store never holds a      *)
(* revoked grant once the record is applied, and that no request is        *)
(* authorized through a grant whose revocation had been applied when it    *)
(* came, but for grants that could still be used when the process lost     *)
(* track of their revocation.                                              *)
(***************************************************************************)
EXTENDS Access, SequenceTheorems, TLAPS

(* What a Hilt write is doing, that the consumer is never ahead of the *)
(* firehose, and that a request with an answer has a grant.            *)
Ordered ==
  /\ grant # 0 => published <= grant
  /\ write # "none" => grant # 0 /\ published = grant
  /\ write = "rotate" => grant < MaxGrants
  /\ consumer.record <= published
  /\ \A r \in Requests : req[r].at \in {"add", "fill"} => req[r].grant # 0

(* StoreClean with the exception it needs: the record whose holders are *)
(* being looked for.                                                    *)
Applied == IF consumer.at = "scan" THEN revoked \ {consumer.record} ELSE revoked
Swept   == bound # 0 => stores[bound].grants \cap Applied = {}

(* The record the consumer has in hand is remembered as revoked, and what *)
(* is remembered has been applied.                                        *)
Recorded ==
  /\ consumer.at \in {"scan", "revoke", "advance"} =>
       consumer.record \in revoked /\ consumer.record \in {since, since + 1}
  /\ consumer.at = "off" => since = 0
  /\ revoked \subseteq applied

(* A grant that is served, in use and carried by nobody. *)
Gone(g) ==
  /\ grant = 0 \/ g < grant
  /\ \A i \in InUse : g \notin stores[i].grants
  /\ \A r \in Requests : Carries(r) => req[r].grant # g

(* The records up to the consumer's place are remembered, lapsed, or of     *)
(* grants that are gone; the ones up to the saved cursor have been applied, *)
(* or the same.                                                             *)
Forgotten == \A g \in Grants : g <= since => g \in revoked \/ g \in lapsed \/ Gone(g)
Passed    == \A g \in Grants : g <= saved => g \in applied \/ g \in lapsed \/ Gone(g)

(* A chain was chosen among grants that were not revoked when the request *)
(* came, or that have lapsed.                                             *)
Chosen ==
  \A r \in Requests :
    /\ req[r].past <= since
    /\ req[r].at \in {"tenant", "local"} => req[r].grant > req[r].past \/ req[r].grant \in lapsed

-----------------------------------------------------------------------------
(* What an update of one store of the sequence is. *)
LEMMA StoreUpdate ==
  ASSUME stores \in Seq(Store), NEW i \in 1..Len(stores), NEW e \in Store
  PROVE  /\ [stores EXCEPT ![i] = e] \in Seq(Store)
         /\ Len([stores EXCEPT ![i] = e]) = Len(stores)
         /\ \A j \in 1..Len(stores) : [stores EXCEPT ![i] = e][j] = IF j = i THEN e ELSE stores[j]
  BY ExceptSeq

(* What a new store at the end of the sequence is. *)
LEMMA StoreAppend ==
  ASSUME stores \in Seq(Store)
  PROVE  /\ Append(stores, NewStore) \in Seq(Store)
         /\ Len(Append(stores, NewStore)) = Len(stores) + 1
         /\ \A j \in 1..Len(stores) : Append(stores, NewStore)[j] = stores[j]
         /\ Append(stores, NewStore)[Len(stores) + 1] = NewStore
<1>1. NewStore \in Store
  BY DEF NewStore, Store
<1>2. QED
  BY <1>1, AppendProperties

(* An answer is added to one store, and to no other. *)
LEMMA AddStores ==
  ASSUME TypeOK, NEW r \in Requests, ~At(r, "idle"), NEW gs \in SUBSET Grants, Add(r, gs)
  PROVE  /\ stores' \in Seq(Store) /\ Len(stores') = Len(stores)
         /\ \A j \in 1..Len(stores) :
              stores'[j].grants = IF j = req[r].store THEN stores[j].grants \cup gs ELSE stores[j].grants
<1> DEFINE i == req[r].store
           e == [stores[i] EXCEPT !.grants = @ \cup gs]
<1>1. i \in 1..Len(stores)
  BY DEF TypeOK
<1>2. stores[i] \in Store
  BY <1>1, ElementOfSeq DEF TypeOK
<1>3. e \in Store /\ e.grants = stores[i].grants \cup gs
  BY <1>2 DEF Store
<1>4. stores' = [stores EXCEPT ![i] = e]
  BY DEF Add
<1>5. stores \in Seq(Store)
  BY DEF TypeOK
<1> HIDE DEF i, e
<1>6. /\ stores' \in Seq(Store) /\ Len(stores') = Len(stores)
      /\ \A j \in 1..Len(stores) : stores'[j] = IF j = i THEN e ELSE stores[j]
  BY <1>1, <1>3, <1>4, <1>5, StoreUpdate
<1>7. QED
  BY <1>3, <1>6 DEF i

(* PutPermissions changes the grants of no store. *)
LEMMA SetStores ==
  ASSUME TypeOK, NEW r \in Requests, PutPermissions(r)
  PROVE  /\ stores' \in Seq(Store) /\ Len(stores') = Len(stores)
         /\ \A j \in 1..Len(stores) : stores'[j].grants = stores[j].grants
<1> DEFINE i == req[r].store
           e == [stores[i] EXCEPT !.set = TRUE]
<1>0. ~At(r, "idle")
  BY DEF PutPermissions, At
<1>1. i \in 1..Len(stores)
  BY <1>0 DEF TypeOK
<1>2. stores[i] \in Store
  BY <1>1, ElementOfSeq DEF TypeOK
<1>3. e \in Store /\ e.grants = stores[i].grants
  BY <1>2 DEF Store
<1>4. stores' = [stores EXCEPT ![i] = e]
  BY DEF PutPermissions
<1>5. stores \in Seq(Store)
  BY DEF TypeOK
<1> HIDE DEF i, e
<1>6. /\ stores' \in Seq(Store) /\ Len(stores') = Len(stores)
      /\ \A j \in 1..Len(stores) : stores'[j] = IF j = i THEN e ELSE stores[j]
  BY <1>1, <1>3, <1>4, <1>5, StoreUpdate
<1>7. QED
  BY <1>3, <1>6

-----------------------------------------------------------------------------
(* The steps of a request that change nothing but the request. *)
Quiet(r) ==
  \/ Local(r) \/ Authorize(r) \/ AuthorizeFails(r) \/ Probe(r)
  \/ BucketInfo(r) \/ BucketInfoFails(r)

(* What a request's record becomes when its step, grant or all of it changes. *)
LEMMA ReqUpdate ==
  ASSUME TypeOK, NEW r \in Requests, NEW q \in Request, req' = [req EXCEPT ![r] = q]
  PROVE  /\ req' = [req EXCEPT ![r] = req'[r]] /\ req'[r] = q
         /\ req' \in [Requests -> Request]
         /\ \A p \in Requests : p # r => req'[p] = req[p]
  BY DEF TypeOK

(* The record of a request that is over. *)
LEMMA ReqDone ==
  ASSUME TypeOK, NEW r \in Requests, Done(r)
  PROVE  req' = [req EXCEPT ![r] = Idle] /\ Idle \in Request
  BY GrantsAssumption, StoresAssumption DEF Done, Idle, Request, Steps

(* The record of a request that has to ask Hilt. *)
LEMMA ReqAsk ==
  ASSUME TypeOK, NEW r \in Requests, Ask(r)
  PROVE  \E q \in Request : /\ req' = [req EXCEPT ![r] = q]
                            /\ q.at = "ask" /\ q.store = req[r].store /\ q.past = 0 /\ q.grant = 0
<1>1. req[r] \in Request
  BY DEF TypeOK
<1> DEFINE q == [Idle EXCEPT !.at = "ask", !.store = req[r].store]
<1>2. q \in Request /\ q.at = "ask" /\ q.store = req[r].store /\ q.past = 0 /\ q.grant = 0
  <2>1. Idle \in Request /\ Idle.grant = 0 /\ Idle.past = 0
    BY GrantsAssumption, StoresAssumption DEF Idle, Request, Steps
  <2>2. QED
    BY <1>1, <2>1 DEF Request, Steps
<1>3. req' = [req EXCEPT ![r] = q]
  BY DEF Ask
<1>4. QED
  BY <1>2, <1>3

(* The record of a request that only goes on to another step. *)
LEMMA ReqGo ==
  ASSUME TypeOK, NEW r \in Requests, NEW step \in Steps, Go(r, step)
  PROVE  \E q \in Request : /\ req' = [req EXCEPT ![r] = q]
                            /\ q.at = step /\ q.store = req[r].store
                            /\ q.past = req[r].past /\ q.grant = req[r].grant
<1>1. req[r] \in Request
  BY DEF TypeOK
<1> DEFINE q == [req[r] EXCEPT !.at = step]
<1>2. q \in Request /\ q.at = step /\ q.store = req[r].store /\ q.past = req[r].past /\ q.grant = req[r].grant
  BY <1>1 DEF Request
<1>3. req' = [req EXCEPT ![r] = q]
  BY DEF Go
<1>4. QED
  BY <1>2, <1>3

(* A request goes on to another step with a grant. *)
GoWith(r, step, g) == req' = [req EXCEPT ![r].at = step, ![r].grant = g]

(* The record of such a request. *)
LEMMA ReqGrant ==
  ASSUME TypeOK, NEW r \in Requests, NEW step \in Steps, NEW g \in 0..MaxGrants,
         GoWith(r, step, g)
  PROVE  \E q \in Request : /\ req' = [req EXCEPT ![r] = q]
                            /\ q.at = step /\ q.store = req[r].store
                            /\ q.past = req[r].past /\ q.grant = g
<1>1. req[r] \in Request /\ req \in [Requests -> Request]
  BY DEF TypeOK
<1> DEFINE q == [req[r] EXCEPT !.at = step, !.grant = g]
<1>2. q \in Request /\ q.at = step /\ q.store = req[r].store /\ q.past = req[r].past /\ q.grant = g
  BY <1>1 DEF Request
<1>3. req' = [req EXCEPT ![r] = q]
  BY <1>1 DEF GoWith
<1>4. QED
  BY <1>2, <1>3

(* What a request's record is after one of its quiet steps: the store stays, *)
(* and a grant comes from Hilt or from a chain of the store.                 *)
Quieted(r, q) ==
  /\ q.past \in {0, req[r].past}
  /\ q.store \in {0, req[r].store}
  /\ q.store = 0 <=> q.at = "idle"
  /\ q.at \in {"add", "fill"} => grant # 0 /\ q.grant = grant
  /\ q.at = "tenant" => q.grant \in Chains(Held(r)) /\ q.past = req[r].past
  /\ q.at = "local" => At(r, "tenant") /\ q.grant = req[r].grant /\ q.past = req[r].past

(* Every quiet step is of that kind. *)
LEMMA QuietMoves ==
  ASSUME TypeOK, NEW r \in Requests, Quiet(r)
  PROVE  /\ ~At(r, "idle") /\ UNCHANGED <<hilt, caches, reader, history>>
         /\ \E q \in Request : req' = [req EXCEPT ![r] = q] /\ Quieted(r, q)
<1>1. ~At(r, "idle") /\ UNCHANGED <<hilt, caches, reader, history>>
  BY DEF Quiet, Local, Permits, ProofChainVia, CheckTenant, Serve, Authorize,
         AuthorizeFails, Probe, BucketInfo, BucketInfoFails, At
<1>2. req[r] \in Request /\ req[r].store # 0 /\ req[r].store \in 1..Len(stores)
  BY <1>1 DEF TypeOK
<1> DEFINE G == \E q \in Request : req' = [req EXCEPT ![r] = q] /\ Quieted(r, q)
<1>3. ASSUME Done(r) PROVE G
  <2>1. Quieted(r, Idle)
    BY DEF Quieted, Idle
  <2>2. QED
    BY <1>3, <2>1, ReqDone
<1>4. ASSUME Ask(r) PROVE G
  <2>1. PICK q \in Request : /\ req' = [req EXCEPT ![r] = q]
                             /\ q.at = "ask" /\ q.store = req[r].store /\ q.past = 0 /\ q.grant = 0
    BY <1>4, ReqAsk
  <2>2. Quieted(r, q)
    BY <1>2, <2>1 DEF Quieted
  <2>3. QED
    BY <2>1, <2>2
<1>5. ASSUME NEW step \in {"chain", "info", "put"}, Go(r, step) PROVE G
  <2>1. PICK q \in Request : /\ req' = [req EXCEPT ![r] = q]
                             /\ q.at = step /\ q.store = req[r].store
                             /\ q.past = req[r].past /\ q.grant = req[r].grant
    <3>1. step \in Steps
      BY DEF Steps
    <3>2. QED
      BY <1>5, <3>1, ReqGo
  <2>2. Quieted(r, q)
    BY <1>2, <2>1 DEF Quieted
  <2>3. QED
    BY <2>1, <2>2
<1>6. ASSUME At(r, "tenant"), Go(r, "local") PROVE G
  <2>1. PICK q \in Request : /\ req' = [req EXCEPT ![r] = q]
                             /\ q.at = "local" /\ q.store = req[r].store
                             /\ q.past = req[r].past /\ q.grant = req[r].grant
    <3>1. "local" \in Steps
      BY DEF Steps
    <3>2. QED
      BY <1>6, <3>1, ReqGo
  <2>2. Quieted(r, q)
    BY <1>2, <1>6, <2>1 DEF Quieted
  <2>3. QED
    BY <2>1, <2>2
<1>7. ASSUME NEW step \in {"add", "fill"}, grant # 0,
             GoWith(r, step, grant)
      PROVE  G
  <2>1. PICK q \in Request : /\ req' = [req EXCEPT ![r] = q]
                             /\ q.at = step /\ q.store = req[r].store
                             /\ q.past = req[r].past /\ q.grant = grant
    <3>1. step \in Steps /\ grant \in 0..MaxGrants
      BY DEF Steps, TypeOK
    <3>2. QED
      BY <1>7, <3>1, ReqGrant
  <2>2. Quieted(r, q)
    BY <1>2, <1>7, <2>1 DEF Quieted
  <2>3. QED
    BY <2>1, <2>2
<1>8. ASSUME NEW g \in Chains(Held(r)), GoWith(r, "tenant", g)
      PROVE  G
  <2>1. PICK q \in Request : /\ req' = [req EXCEPT ![r] = q]
                             /\ q.at = "tenant" /\ q.store = req[r].store
                             /\ q.past = req[r].past /\ q.grant = g
    <3>1. stores[req[r].store] \in Store
      BY <1>2, ElementOfSeq DEF TypeOK
    <3>2. "tenant" \in Steps /\ g \in 0..MaxGrants
      BY <3>1, GrantsAssumption DEF Steps, Store, Chains, Held, Grants
    <3>3. QED
      BY <1>8, <3>2, ReqGrant
  <2>2. Quieted(r, q)
    BY <1>2, <2>1 DEF Quieted
  <2>3. QED
    BY <2>1, <2>2
<1>9. G
  <2>1. CASE Permits(r)
    BY <2>1, <1>3, <1>4, <1>5 DEF Permits
  <2>2. CASE ProofChainVia(r)
    BY <2>2, <1>4, <1>8 DEF ProofChainVia, GoWith
  <2>3. CASE CheckTenant(r)
    BY <2>3, <1>4, <1>6 DEF CheckTenant
  <2>4. CASE Serve(r) \/ AuthorizeFails(r)
    BY <2>4, <1>3 DEF Serve, AuthorizeFails
  <2>5. CASE Authorize(r)
    BY <2>5, <1>7 DEF Authorize, GoWith
  <2>6. CASE Probe(r)
    BY <2>6, <1>5 DEF Probe
  <2>7. CASE BucketInfo(r)
    BY <2>7, <1>7 DEF BucketInfo, GoWith
  <2>8. CASE BucketInfoFails(r)
    BY <2>8, <1>5 DEF BucketInfoFails
  <2>9. QED
    BY <2>1, <2>2, <2>3, <2>4, <2>5, <2>6, <2>7, <2>8 DEF Quiet, Local
<1>10. QED
  BY <1>1, <1>9

(* What a step of a request may change: its own record, the keys cached, and *)
(* the stores by a grant that it carries and that is not revoked.            *)
Moved(r) ==
  /\ ~At(r, "idle")
  /\ UNCHANGED <<hilt, bound, revoked, reader, history>> /\ cached' \in BOOLEAN
  /\ \E q \in Request : req' = [req EXCEPT ![r] = q] /\ Quieted(r, q)
  /\ stores' \in Seq(Store) /\ Len(stores') = Len(stores)
  /\ \A j \in 1..Len(stores) : \A g \in stores'[j].grants :
        \/ g \in stores[j].grants
        \/ g \notin revoked /\ Carries(r) /\ g = req[r].grant

(* A request that has cached an answer, or could not, carries nothing on. *)
LEMMA CachedMoves ==
  ASSUME TypeOK, NEW r \in Requests, ~At(r, "idle"), NEW step \in {"probe", "put"},
         Done(r) \/ GoWith(r, step, 0)
  PROVE  \E q \in Request : req' = [req EXCEPT ![r] = q] /\ Quieted(r, q)
<1>1. CASE Done(r)
  <2>1. Quieted(r, Idle)
    BY DEF Quieted, Idle
  <2>2. QED
    BY <1>1, <2>1, ReqDone
<1>2. CASE GoWith(r, step, 0)
  <2>1. PICK q \in Request : /\ req' = [req EXCEPT ![r] = q]
                             /\ q.at = step /\ q.store = req[r].store
                             /\ q.past = req[r].past /\ q.grant = 0
    <3>1. step \in Steps
      BY DEF Steps
    <3>2. 0 \in 0..MaxGrants
      BY GrantsAssumption
    <3>3. QED
      BY <1>2, <3>1, <3>2, ReqGrant
  <2>2. req[r].store # 0
    BY DEF TypeOK
  <2>3. Quieted(r, q)
    BY <2>1, <2>2 DEF Quieted
  <2>4. QED
    BY <2>1, <2>3
<1>3. QED
  BY <1>1, <1>2

(* Every step of a request after its arrival is of that kind. *)
LEMMA RequestMoves ==
  ASSUME TypeOK, Ordered, NEW r \in Requests, Local(r) \/ Remote(r)
  PROVE  Moved(r)
<1>1. stores \in Seq(Store) /\ cached \in BOOLEAN
  BY DEF TypeOK
<1>2. CASE Quiet(r)
  BY <1>1, <1>2, QuietMoves DEF Moved, caches, hilt, reader
<1>3. ASSUME NEW gs \in SUBSET {req[r].grant}, CacheAnswer(r, gs) PROVE Moved(r)
  <2>1. ~At(r, "idle") /\ Carries(r)
    BY <1>3 DEF CacheAnswer, At, Carries
  <2>2. gs \in SUBSET Grants
    <3>1. req[r] \in Request /\ req[r].grant # 0
      BY <1>3 DEF CacheAnswer, At, TypeOK, Ordered
    <3>2. req[r].grant \in Grants
      BY <3>1, GrantsAssumption DEF Request, Grants
    <3>3. QED
      BY <3>2
  <2>3. \E q \in Request : req' = [req EXCEPT ![r] = q] /\ Quieted(r, q)
    <3>1. Done(r) \/ GoWith(r, "probe", 0)
      BY <1>3 DEF CacheAnswer, GoWith
    <3>2. QED
      BY <2>1, <3>1, CachedMoves
  <2>4. CASE AddAllowed(gs)
    <3>1. Add(r, gs)
      BY <1>3, <2>4 DEF CacheAnswer
    <3>2. /\ stores' \in Seq(Store) /\ Len(stores') = Len(stores)
          /\ \A j \in 1..Len(stores) :
               stores'[j].grants = IF j = req[r].store THEN stores[j].grants \cup gs ELSE stores[j].grants
      BY <2>1, <2>2, <3>1, AddStores
    <3>3. \A g \in gs : g \notin revoked /\ g = req[r].grant
      BY <2>4 DEF AddAllowed
    <3>4. QED
      BY <1>1, <1>3, <2>1, <2>3, <3>2, <3>3 DEF Moved, CacheAnswer
  <2>5. CASE ~AddAllowed(gs)
    BY <1>1, <1>3, <2>1, <2>3, <2>5 DEF Moved, CacheAnswer
  <2>6. QED
    BY <2>4, <2>5
<1>4. CASE CacheInfo(r)
  <2> DEFINE gs == {req[r].grant}
  <2>1. ~At(r, "idle") /\ Carries(r)
    BY <1>4 DEF CacheInfo, At, Carries
  <2>2. gs \in SUBSET Grants
    <3>1. req[r] \in Request /\ req[r].grant # 0
      BY <1>4 DEF CacheInfo, At, TypeOK, Ordered
    <3>2. req[r].grant \in Grants
      BY <3>1, GrantsAssumption DEF Request, Grants
    <3>3. QED
      BY <3>2
  <2>3. \E q \in Request : req' = [req EXCEPT ![r] = q] /\ Quieted(r, q)
    <3>1. Done(r) \/ GoWith(r, "put", 0)
      BY <1>4 DEF CacheInfo, GoWith
    <3>2. QED
      BY <2>1, <3>1, CachedMoves
  <2>4. CASE AddAllowed(gs)
    <3>1. Add(r, gs)
      BY <1>4, <2>4 DEF CacheInfo
    <3>2. /\ stores' \in Seq(Store) /\ Len(stores') = Len(stores)
          /\ \A j \in 1..Len(stores) :
               stores'[j].grants = IF j = req[r].store THEN stores[j].grants \cup gs ELSE stores[j].grants
      BY <2>1, <2>2, <3>1, AddStores
    <3>3. \A g \in gs : g \notin revoked /\ g = req[r].grant
      BY <2>4 DEF AddAllowed
    <3>4. QED
      BY <1>1, <1>4, <2>1, <2>3, <3>2, <3>3 DEF Moved, CacheInfo
  <2>5. CASE ~AddAllowed(gs)
    BY <1>1, <1>4, <2>1, <2>3, <2>5 DEF Moved, CacheInfo
  <2>6. QED
    BY <2>4, <2>5
<1>5. CASE PutKey(r)
  <2>1. ~At(r, "idle") /\ Go(r, "put set") /\ "put set" \in Steps /\ req[r].store # 0
    BY <1>5 DEF PutKey, At, Steps, TypeOK
  <2>2. PICK q \in Request : /\ req' = [req EXCEPT ![r] = q]
                             /\ q.at = "put set" /\ q.store = req[r].store
                             /\ q.past = req[r].past /\ q.grant = req[r].grant
    BY <2>1, ReqGo
  <2>3. Quieted(r, q)
    BY <2>1, <2>2 DEF Quieted
  <2>4. QED
    BY <1>1, <1>5, <2>1, <2>2, <2>3 DEF Moved, PutKey
<1>6. CASE PutPermissions(r)
  <2>1. ~At(r, "idle") /\ Done(r)
    BY <1>6 DEF PutPermissions, At
  <2>2. \E q \in Request : req' = [req EXCEPT ![r] = q] /\ Quieted(r, q)
    BY <2>1, CachedMoves
  <2>3. /\ stores' \in Seq(Store) /\ Len(stores') = Len(stores)
        /\ \A j \in 1..Len(stores) : stores'[j].grants = stores[j].grants
    BY <1>6, SetStores
  <2>4. QED
    BY <1>1, <1>6, <2>1, <2>2, <2>3 DEF Moved, PutPermissions
<1>7. QED
  <2>1. {} \in SUBSET {req[r].grant} /\ {req[r].grant} \in SUBSET {req[r].grant}
    OBVIOUS
  <2>2. QED
    BY <1>2, <1>3, <1>4, <1>5, <1>6, <2>1 DEF Quiet, Local, Remote

-----------------------------------------------------------------------------
(* Types. *)

(* The type invariant's part about requests, after a step of one of them. *)
LEMMA MovedReqs ==
  ASSUME TypeOK, Ordered, NEW r \in Requests, Moved(r)
  PROVE  /\ req' \in [Requests -> Request]
         /\ \A p \in Requests : /\ req'[p].store \in 0..Len(stores')
                                /\ req'[p].store = 0 <=> req'[p].at = "idle"
                                /\ req'[p].at \in {"add", "fill"} => req'[p].grant # 0
<1>1. PICK q \in Request : req' = [req EXCEPT ![r] = q] /\ Quieted(r, q)
  BY DEF Moved
<1>2. req'[r] = q /\ req' \in [Requests -> Request] /\ \A p \in Requests : p # r => req'[p] = req[p]
  BY <1>1, ReqUpdate
<1>3. Len(stores') = Len(stores) /\ Len(stores) \in Nat
  BY LenProperties DEF Moved, TypeOK
<1>4. \A p \in Requests : /\ req[p].store \in 0..Len(stores)
                          /\ req[p].store = 0 <=> req[p].at = "idle"
                          /\ req[p].at \in {"add", "fill"} => req[p].grant # 0
  BY DEF TypeOK, Ordered, At
<1>5. /\ q.store \in 0..Len(stores)
      /\ q.store = 0 <=> q.at = "idle"
      /\ q.at \in {"add", "fill"} => q.grant # 0
  BY <1>1, <1>3, <1>4 DEF Quieted
<1>6. ASSUME NEW p \in Requests
      PROVE  /\ req'[p].store \in 0..Len(stores')
             /\ req'[p].store = 0 <=> req'[p].at = "idle"
             /\ req'[p].at \in {"add", "fill"} => req'[p].grant # 0
  <2>1. CASE p = r
    BY <1>2, <1>3, <1>5, <2>1
  <2>2. CASE p # r
    BY <1>2, <1>3, <1>4, <2>2
  <2>3. QED
    BY <2>1, <2>2
<1>7. QED
  BY <1>2, <1>6

(* Arrival: the record and the store of a request that comes. *)
LEMMA ArriveMoves ==
  ASSUME TypeOK, NEW r \in Requests, Arrive(r)
  PROVE  /\ UNCHANGED <<hilt, revoked, cached, reader, history>>
         /\ \E q \in Request : /\ req' = [req EXCEPT ![r] = q]
                               /\ q.at = "key" /\ q.store = bound' /\ q.past = since
         /\ stores' \in Seq(Store) /\ Len(stores') \in Len(stores)..MaxStores
         /\ bound' \in 1..Len(stores')
         /\ \A j \in 1..Len(stores') :
              stores'[j].grants = IF j <= Len(stores) THEN stores[j].grants ELSE {}
<1>1. stores \in Seq(Store) /\ Len(stores) \in Nat /\ Len(stores) <= MaxStores /\ bound \in 0..Len(stores)
  BY LenProperties DEF TypeOK
<1>2. /\ stores' \in Seq(Store) /\ Len(stores') \in Len(stores)..MaxStores
      /\ bound' \in 1..Len(stores')
      /\ \A j \in 1..Len(stores') :
           stores'[j].grants = IF j <= Len(stores) THEN stores[j].grants ELSE {}
  <2>1. CASE bound # 0
    <3>1. stores' = stores /\ bound' = bound
      BY <2>1 DEF Arrive, For
    <3>2. QED
      BY <1>1, <2>1, <3>1, StoresAssumption
  <2>2. CASE bound = 0
    <3>1. Len(stores) < MaxStores /\ stores' = Append(stores, NewStore) /\ bound' = Len(stores) + 1
      BY <2>2 DEF Arrive, For
    <3>2. /\ stores' \in Seq(Store)
          /\ Len(stores') = Len(stores) + 1
          /\ \A j \in 1..Len(stores) : stores'[j] = stores[j]
          /\ stores'[Len(stores) + 1] = NewStore
      BY <1>1, <3>1, StoreAppend
    <3>3. NewStore.grants = {}
      BY DEF NewStore
    <3>4. \A j \in 1..Len(stores') : j <= Len(stores) \/ j = Len(stores) + 1
      BY <1>1, <3>2
    <3>5. Len(stores') \in Len(stores)..MaxStores /\ bound' \in 1..Len(stores')
      BY <1>1, <3>1, <3>2, StoresAssumption
    <3>6. ASSUME NEW j \in 1..Len(stores')
          PROVE  stores'[j].grants = IF j <= Len(stores) THEN stores[j].grants ELSE {}
      <4>1. CASE j <= Len(stores)
        BY <1>1, <3>2, <4>1
      <4>2. CASE ~(j <= Len(stores))
        BY <3>2, <3>3, <3>4, <4>2
      <4>3. QED
        BY <4>1, <4>2
    <3>7. QED
      BY <3>2, <3>5, <3>6
  <2>3. QED
    BY <2>1, <2>2
<1>3. \E q \in Request : req' = [req EXCEPT ![r] = q] /\ q.at = "key" /\ q.store = bound' /\ q.past = since
  <2> DEFINE q == [Idle EXCEPT !.at = "key", !.store = bound', !.past = since]
  <2>1. Idle \in Request
    BY GrantsAssumption, StoresAssumption DEF Idle, Request, Steps
  <2>2. bound' \in 0..MaxStores
    BY <1>1, <1>2, StoresAssumption
  <2>3. since \in 0..MaxGrants
    BY GrantsAssumption DEF TypeOK
  <2>4. q \in Request /\ q.at = "key" /\ q.store = bound' /\ q.past = since
    BY <2>1, <2>2, <2>3 DEF Request, Steps
  <2>5. req' = [req EXCEPT ![r] = q]
    BY DEF Arrive
  <2>6. QED
    BY <2>4, <2>5
<1>4. QED
  BY <1>2, <1>3 DEF Arrive

(* The request that comes has a store, and the others keep theirs. *)
LEMMA ArriveReqs ==
  ASSUME TypeOK, Ordered, NEW r \in Requests, Arrive(r)
  PROVE  /\ req' \in [Requests -> Request]
         /\ \A p \in Requests : /\ req'[p].store \in 0..Len(stores')
                                /\ req'[p].store = 0 <=> req'[p].at = "idle"
                                /\ req'[p].at \in {"add", "fill"} => req'[p].grant # 0
<1>1. PICK q \in Request : req' = [req EXCEPT ![r] = q] /\ q.at = "key" /\ q.store = bound' /\ q.past = since
  BY ArriveMoves
<1>2. req'[r] = q /\ req' \in [Requests -> Request] /\ \A p \in Requests : p # r => req'[p] = req[p]
  BY <1>1, ReqUpdate
<1>3. Len(stores) \in Nat /\ Len(stores') \in Nat /\ Len(stores) <= Len(stores') /\ bound' \in 1..Len(stores')
  <2>1. stores' \in Seq(Store) /\ stores \in Seq(Store)
    BY ArriveMoves DEF TypeOK
  <2>2. Len(stores) \in Nat /\ Len(stores') \in Nat
    BY <2>1, LenProperties
  <2>3. QED
    BY <2>2, ArriveMoves, StoresAssumption
<1>4. \A p \in Requests : /\ req[p].store \in 0..Len(stores)
                          /\ req[p].store = 0 <=> req[p].at = "idle"
                          /\ req[p].at \in {"add", "fill"} => req[p].grant # 0
  BY DEF TypeOK, Ordered, At
<1>5. ASSUME NEW p \in Requests
      PROVE  /\ req'[p].store \in 0..Len(stores')
             /\ req'[p].store = 0 <=> req'[p].at = "idle"
             /\ req'[p].at \in {"add", "fill"} => req'[p].grant # 0
  <2>1. CASE p = r
    BY <1>1, <1>2, <1>3, <2>1
  <2>2. CASE p # r
    <3>1. req'[p] = req[p]
      BY <1>2, <2>2
    <3>2. QED
      BY <1>3, <1>4, <3>1
  <2>3. QED
    BY <2>1, <2>2
<1>6. QED
  BY <1>2, <1>5

(* Hilt's writes keep the order of grants and records. *)
LEMMA TypeHilt ==
  ASSUME TypeOK, Ordered, Hilt
  PROVE  TypeOK' /\ Ordered'
<1>1. UNCHANGED <<caches, req, reader, history>>
  BY DEF Hilt, HiltPublishes, HiltCommits, HiltFails
<1>2. /\ grant' \in 0..MaxGrants /\ published' \in 0..MaxGrants
      /\ write' \in {"none", "rotate", "delete"} /\ published <= published'
  <2>1. CASE \E kind \in {"rotate", "delete"} : HiltPublishes(kind)
    BY <2>1, GrantsAssumption DEF HiltPublishes, TypeOK, Ordered
  <2>2. CASE HiltCommits
    BY <2>2, GrantsAssumption DEF HiltCommits, TypeOK, Ordered
  <2>3. CASE HiltFails
    BY <2>3, GrantsAssumption DEF HiltFails, TypeOK
  <2>4. QED
    BY <2>1, <2>2, <2>3 DEF Hilt
<1>3. TypeOK'
  <2>1. since' \in 0..published' /\ saved' \in 0..published'
    BY <1>1, <1>2, GrantsAssumption DEF TypeOK, reader
  <2>2. QED
    BY <1>1, <1>2, <2>1 DEF TypeOK, caches, reader, history, At
<1>4. Ordered'
  <2>1. /\ grant' # 0 => published' <= grant'
        /\ write' # "none" => grant' # 0 /\ published' = grant'
        /\ write' = "rotate" => grant' < MaxGrants
    <3>1. CASE \E kind \in {"rotate", "delete"} : HiltPublishes(kind)
      BY <3>1, GrantsAssumption DEF HiltPublishes, TypeOK, Ordered
    <3>2. CASE HiltCommits
      BY <3>2, GrantsAssumption DEF HiltCommits, TypeOK, Ordered
    <3>3. CASE HiltFails
      BY <3>3 DEF HiltFails, Ordered
    <3>4. QED
      BY <3>1, <3>2, <3>3 DEF Hilt
  <2>2. consumer'.record <= published'
    <3>1. consumer.record \in 0..MaxGrants
      BY DEF TypeOK
    <3>2. QED
      BY <1>1, <1>2, <3>1, GrantsAssumption DEF TypeOK, Ordered, reader
  <2>3. QED
    BY <1>1, <2>1, <2>2 DEF Ordered
<1>5. QED
  BY <1>3, <1>4

(* The consumer keeps its place within the firehose. *)
LEMMA TypeConsume ==
  ASSUME TypeOK, Ordered, Consume
  PROVE  TypeOK' /\ Ordered'
<1>1. UNCHANGED <<hilt, stores, req, restarts>>
  BY DEF Consume, LoadFrom, Deliver, InvalidateHolders, Revoke, Advance, Forget, caches, reader
<1>2. consumer.record \in 0..MaxGrants /\ published \in 0..MaxGrants /\ published \in Nat
  BY GrantsAssumption DEF TypeOK
<1>3. /\ consumer' \in [at : {"off", "rest", "scan", "revoke", "advance"}, record : 0..MaxGrants]
      /\ consumer'.record <= published
  <2>1. CASE \E from \in 0..MaxGrants : LoadFrom(from)
    BY <1>2, <2>1, GrantsAssumption DEF LoadFrom, Resting
  <2>2. CASE \E g \in Grants : Deliver(g)
    BY <1>2, <2>2, GrantsAssumption DEF Deliver, Grants
  <2>3. CASE InvalidateHolders
    BY <2>3 DEF InvalidateHolders, TypeOK, Ordered
  <2>4. CASE Revoke
    BY <2>4 DEF Revoke, TypeOK, Ordered
  <2>5. CASE Advance
    BY <1>2, <2>5, GrantsAssumption DEF Advance, Resting
  <2>6. CASE \E g \in Grants : Forget(g)
    BY <2>6 DEF Forget, TypeOK, Ordered, reader
  <2>7. QED
    BY <2>1, <2>2, <2>3, <2>4, <2>5, <2>6 DEF Consume
<1>4. since' \in 0..published /\ saved' \in 0..published
  <2>1. CASE \E from \in 0..MaxGrants : LoadFrom(from)
    BY <1>2, <2>1 DEF LoadFrom, TypeOK
  <2>2. CASE \E g \in Grants : Deliver(g)
    BY <2>2 DEF Deliver, TypeOK
  <2>3. CASE InvalidateHolders \/ Revoke
    BY <2>3 DEF InvalidateHolders, Revoke, TypeOK
  <2>4. CASE Advance
    BY <1>2, <2>4, GrantsAssumption DEF Advance, TypeOK, Ordered
  <2>5. CASE \E g \in Grants : Forget(g)
    BY <2>5 DEF Forget, TypeOK, reader
  <2>6. QED
    BY <2>1, <2>2, <2>3, <2>4, <2>5 DEF Consume
<1>5. /\ bound' \in {0, bound} /\ cached' \in {FALSE, cached} /\ revoked' \subseteq Grants
      /\ applied' \subseteq Grants /\ lapsed' \subseteq Grants
  <2>1. CASE \E from \in 0..MaxGrants : LoadFrom(from)
    BY <2>1 DEF LoadFrom, TypeOK, Known, caches
  <2>2. CASE \E g \in Grants : Deliver(g)
    BY <2>2 DEF Deliver, TypeOK
  <2>3. CASE InvalidateHolders
    BY <2>3 DEF InvalidateHolders, TypeOK, history
  <2>4. CASE Revoke
    BY <2>4 DEF Revoke, TypeOK, history
  <2>5. CASE Advance
    BY <2>5 DEF Advance, TypeOK, caches, history
  <2>6. CASE \E g \in Grants : Forget(g)
    BY <2>6 DEF Forget, TypeOK, Known
  <2>7. QED
    BY <2>1, <2>2, <2>3, <2>4, <2>5, <2>6 DEF Consume
<1>6. TypeOK'
  <2>1. Len(stores) \in Nat
    BY LenProperties DEF TypeOK
  <2>2. bound' \in 0..Len(stores)
    BY <1>5, <2>1 DEF TypeOK
  <2>3. cached' \in BOOLEAN
    BY <1>5, Zenon DEF TypeOK
  <2>4. QED
    BY <1>1, <1>3, <1>4, <1>5, <2>2, <2>3 DEF TypeOK, At, hilt
<1>7. QED
  BY <1>1, <1>3, <1>6 DEF Ordered, hilt

(* Types and the order of grants and records are inductive. *)
LEMMA TypeStep ==
  ASSUME TypeOK, Ordered, [Next]_vars
  PROVE  TypeOK' /\ Ordered'
<1>1. CASE Hilt
  BY <1>1, TypeHilt
<1>2. ASSUME NEW r \in Requests, Arrive(r) PROVE TypeOK' /\ Ordered'
  <2>1. UNCHANGED <<hilt, revoked, cached, reader, history>>
    BY <1>2, ArriveMoves
  <2>2. stores' \in Seq(Store) /\ Len(stores') \in Len(stores)..MaxStores /\ bound' \in 1..Len(stores')
    BY <1>2, ArriveMoves
  <2>3. Len(stores') \in Nat /\ Len(stores') <= MaxStores /\ bound' \in 0..Len(stores')
    <3>1. Len(stores') \in Nat /\ Len(stores) \in Nat
      BY <2>2, LenProperties DEF TypeOK
    <3>2. QED
      BY <2>2, <3>1, StoresAssumption
  <2>4. /\ req' \in [Requests -> Request]
        /\ \A p \in Requests : /\ req'[p].store \in 0..Len(stores')
                               /\ req'[p].store = 0 <=> req'[p].at = "idle"
                               /\ req'[p].at \in {"add", "fill"} => req'[p].grant # 0
    BY <1>2, ArriveReqs
  <2>5. TypeOK'
    BY <2>1, <2>2, <2>3, <2>4 DEF TypeOK, At, hilt, reader, history
  <2>6. Ordered'
    BY <2>1, <2>4 DEF Ordered, hilt, reader
  <2>7. QED
    BY <2>5, <2>6
<1>3. ASSUME NEW r \in Requests, Local(r) \/ Remote(r) PROVE TypeOK' /\ Ordered'
  <2>1. Moved(r)
    BY <1>3, RequestMoves
  <2>2. UNCHANGED <<hilt, bound, revoked, reader, history>> /\ cached' \in BOOLEAN
    BY <2>1 DEF Moved
  <2>3. stores' \in Seq(Store) /\ Len(stores') = Len(stores)
    BY <2>1 DEF Moved
  <2>4. /\ req' \in [Requests -> Request]
        /\ \A p \in Requests : /\ req'[p].store \in 0..Len(stores')
                               /\ req'[p].store = 0 <=> req'[p].at = "idle"
                               /\ req'[p].at \in {"add", "fill"} => req'[p].grant # 0
    BY <2>1, MovedReqs
  <2>5. TypeOK'
    BY <2>2, <2>3, <2>4 DEF TypeOK, At, hilt, reader, history
  <2>6. Ordered'
    BY <2>2, <2>4 DEF Ordered, hilt, reader
  <2>7. QED
    BY <2>5, <2>6
<1>4. CASE EvictIdle \/ Restart
  <2>1. stores' = << >> /\ bound' = 0 /\ cached' = FALSE /\ UNCHANGED hilt
    BY <1>4 DEF EvictIdle, Restart
  <2>2. stores' \in Seq(Store) /\ Len(stores') = 0
    BY <2>1
  <2>3. Idle \in Request /\ Idle.at = "idle" /\ Idle.store = 0
    BY GrantsAssumption, StoresAssumption DEF Idle, Request, Steps
  <2>4. /\ req' \in [Requests -> Request]
        /\ \A p \in Requests : req'[p].store = 0 /\ req'[p].at = "idle"
    <3>1. CASE EvictIdle
      BY <3>1 DEF EvictIdle, TypeOK, At
    <3>2. CASE Restart
      BY <2>3, <3>2 DEF Restart
    <3>3. QED
      BY <1>4, <3>1, <3>2
  <2>5. /\ consumer' \in [at : {"off", "rest", "scan", "revoke", "advance"}, record : 0..MaxGrants]
        /\ consumer'.record <= published
        /\ since' \in 0..published /\ saved' \in 0..published /\ restarts' \in 0..MaxRestarts
        /\ revoked' \subseteq Grants /\ applied' \subseteq Grants /\ lapsed' \subseteq Grants
    <3>1. CASE EvictIdle
      BY <3>1 DEF EvictIdle, TypeOK, Ordered, reader, history
    <3>2. CASE Restart
      BY <3>2, RestartsAssumption, GrantsAssumption DEF Restart, Off, TypeOK, history
    <3>3. QED
      BY <1>4, <3>1, <3>2
  <2>6. TypeOK'
    <3>0. cached' \in BOOLEAN
      BY <2>1
    <3>1. Len(stores') <= MaxStores /\ bound' \in 0..Len(stores')
      BY <2>1, <2>2, StoresAssumption
    <3>2. \A p \in Requests : req'[p].store \in 0..Len(stores')
      BY <2>2, <2>4
    <3>3. grant' = grant /\ write' = write /\ published' = published
      BY <2>1 DEF hilt
    <3>4. QED
      BY <2>2, <2>4, <2>5, <3>0, <3>1, <3>2, <3>3 DEF TypeOK, At
  <2>7. Ordered'
    BY <2>1, <2>4, <2>5 DEF Ordered, hilt
  <2>8. QED
    BY <2>6, <2>7
<1>5. CASE Consume
  BY <1>5, TypeConsume
<1>6. CASE UNCHANGED vars
  BY <1>6 DEF TypeOK, Ordered, At, vars, hilt, caches, reader, history
<1>7. QED
  BY <1>1, <1>2, <1>3, <1>4, <1>5, <1>6 DEF Next

(* They hold at first. *)
LEMMA TypeInit == Init => TypeOK /\ Ordered
<1> SUFFICES ASSUME Init PROVE TypeOK /\ Ordered
  OBVIOUS
<1>1. Idle \in Request /\ Idle.at = "idle" /\ Idle.store = 0
  BY GrantsAssumption, StoresAssumption DEF Idle, Request, Steps
<1>2. req \in [Requests -> Request] /\ \A r \in Requests : req[r] = Idle
  BY <1>1 DEF Init
<1>3. stores \in Seq(Store) /\ Len(stores) = 0
  BY DEF Init
<1>4. /\ consumer \in [at : {"off", "rest", "scan", "revoke", "advance"}, record : 0..MaxGrants]
      /\ consumer.record = 0
  BY GrantsAssumption DEF Init, Off
<1>5. /\ grant = 1 /\ write = "none" /\ published = 0 /\ bound = 0 /\ revoked = {}
      /\ cached \in BOOLEAN /\ since = 0 /\ saved = 0 /\ restarts = 0
      /\ applied = {} /\ lapsed = {}
  BY DEF Init
<1>6. TypeOK
  BY <1>1, <1>2, <1>3, <1>4, <1>5, GrantsAssumption, StoresAssumption, RestartsAssumption DEF TypeOK, At
<1>7. Ordered
  BY <1>1, <1>2, <1>4, <1>5 DEF Ordered
<1>8. QED
  BY <1>6, <1>7

(* The authorization caches, the requests and the revocation consumer stay *)
(* within their types: every request in flight has a proof store that the  *)
(* process made, and the consumer's cursor never passes the firehose.      *)
THEOREM AccessTypeCorrect == Spec => []TypeOK
<1>1. Init => TypeOK /\ Ordered
  BY TypeInit
<1>2. TypeOK /\ Ordered /\ [Next]_vars => TypeOK' /\ Ordered'
  BY TypeStep
<1>3. QED
  BY <1>1, <1>2, PTL DEF Spec

-----------------------------------------------------------------------------
(* The bound store. *)

(* The bound store is swept clean of what is revoked, by every step. *)
LEMMA SweptStep ==
  ASSUME TypeOK, Ordered, Swept, [Next]_vars
  PROVE  Swept'
<1>1. CASE Hilt
  <2>1. UNCHANGED <<caches, reader>>
    BY <1>1 DEF Hilt, HiltPublishes, HiltCommits, HiltFails
  <2>2. QED
    BY <2>1 DEF Swept, Applied, caches, reader
<1>2. ASSUME NEW r \in Requests, Arrive(r) PROVE Swept'
  <2>1. UNCHANGED <<revoked, consumer>>
    BY <1>2, ArriveMoves DEF reader
  <2>2. CASE bound # 0
    <3>1. UNCHANGED <<stores, bound>>
      BY <1>2, <2>2 DEF Arrive, For
    <3>2. QED
      BY <2>1, <3>1 DEF Swept, Applied
  <2>3. CASE bound = 0
    <3>1. stores' = Append(stores, NewStore) /\ bound' = Len(stores) + 1 /\ stores \in Seq(Store)
      BY <1>2, <2>3 DEF Arrive, For, TypeOK
    <3>2. stores'[bound'] = NewStore
      BY <3>1, StoreAppend
    <3>3. stores'[bound'].grants = {}
      BY <3>2 DEF NewStore
    <3>4. QED
      BY <3>3 DEF Swept
  <2>4. QED
    BY <2>2, <2>3
<1>3. ASSUME NEW r \in Requests, Local(r) \/ Remote(r) PROVE Swept'
  <2>1. Moved(r)
    BY <1>3, RequestMoves
  <2>2. UNCHANGED <<bound, revoked, consumer>>
    BY <2>1 DEF Moved, reader
  <2>3. SUFFICES ASSUME bound # 0 PROVE stores'[bound].grants \cap Applied = {}
    BY <2>2 DEF Swept, Applied
  <2>4. bound \in 1..Len(stores)
    BY <2>3 DEF TypeOK
  <2>5. \A g \in stores'[bound].grants : g \in stores[bound].grants \/ g \notin revoked
    BY <2>1, <2>4 DEF Moved
  <2>6. QED
    BY <2>3, <2>5 DEF Swept, Applied
<1>4. CASE EvictIdle \/ Restart
  BY <1>4 DEF EvictIdle, Restart, Swept
<1>5. CASE Consume
  <2>1. CASE \E from \in 0..MaxGrants : LoadFrom(from)
    BY <2>1 DEF LoadFrom, Swept, Applied, caches, Resting
  <2>2. CASE \E g \in Grants : Deliver(g)
    BY <2>2 DEF Deliver, Swept, Applied, Resting
  <2>3. CASE InvalidateHolders
    <3>1. consumer \in [at : {"off", "rest", "scan", "revoke", "advance"}, record : 0..MaxGrants]
      BY DEF TypeOK
    <3>2. consumer'.at # "scan" /\ consumer'.record = consumer.record /\ UNCHANGED <<stores, revoked>>
      BY <2>3, <3>1 DEF InvalidateHolders
    <3>3. bound' # 0 => bound' = bound /\ consumer.record \notin stores[bound].grants
      BY <2>3 DEF InvalidateHolders
    <3>4. QED
      BY <2>3, <3>2, <3>3 DEF Swept, Applied, InvalidateHolders
  <2>4. CASE Revoke
    <3>1. consumer'.at # "scan" /\ consumer.at # "scan" /\ UNCHANGED <<stores, bound, revoked>>
      BY <2>4 DEF Revoke, TypeOK
    <3>2. QED
      BY <3>1 DEF Swept, Applied
  <2>5. CASE Advance
    BY <2>5 DEF Advance, Swept, Applied, caches, Resting
  <2>6. CASE \E g \in Grants : Forget(g)
    BY <2>6 DEF Forget, Swept, Applied, reader
  <2>7. QED
    BY <1>5, <2>1, <2>2, <2>3, <2>4, <2>5, <2>6 DEF Consume
<1>6. CASE UNCHANGED vars
  BY <1>6 DEF Swept, Applied, vars, caches, reader
<1>7. QED
  BY <1>1, <1>2, <1>3, <1>4, <1>5, <1>6 DEF Next

(* Once a revocation is applied, the proof store of the key does not hold   *)
(* the delegation, however many requests are caching answers meanwhile      *)
(* (iam/proofcache.go Add, iam/keyproofs.go InvalidateHolders).             *)
THEOREM StoreStaysClean == Spec => []StoreClean
<1>1. Init => TypeOK /\ Ordered /\ Swept
  BY TypeInit DEF Init, Swept
<1>2. TypeOK /\ Ordered /\ Swept /\ [Next]_vars => TypeOK' /\ Ordered' /\ Swept'
  BY TypeStep, SweptStep
<1>3. Swept => StoreClean
  BY DEF Swept, Applied, StoreClean
<1>4. QED
  BY <1>1, <1>2, <1>3, PTL DEF Spec

-----------------------------------------------------------------------------
(* What a request is authorized through. *)

(* What is kept about records and grants: the record in hand, what may be *)
(* forgotten or passed over, and what a chain was chosen from.            *)
Remembered == Recorded /\ Forgotten /\ Passed /\ Chosen

(* A published grant that nobody can use any more is gone. *)
LEMMA UnknownGone ==
  ASSUME TypeOK, Ordered, NEW g \in Grants, g <= published, g \notin Known
  PROVE  Gone(g)
<1>1. g # grant
  BY DEF Known
<1>2. grant = 0 \/ g < grant
  BY <1>1, GrantsAssumption DEF TypeOK, Ordered, Grants
<1>3. QED
  BY <1>2 DEF Known, Gone

(* A step of a request brings back no grant that is gone. *)
LEMMA MovedGone ==
  ASSUME TypeOK, Ordered, NEW r \in Requests, Moved(r), NEW g \in Grants, Gone(g)
  PROVE  Gone(g)'
<1>1. PICK q \in Request : req' = [req EXCEPT ![r] = q] /\ Quieted(r, q)
  BY DEF Moved
<1>2. req'[r] = q /\ \A p \in Requests : p # r => req'[p] = req[p]
  BY <1>1, ReqUpdate
<1>3. grant' = 0 \/ g < grant'
  BY DEF Gone, Moved, hilt
<1>4. ASSUME NEW i \in InUse' PROVE g \notin stores'[i].grants
  <2>0. i \in 1..Len(stores) /\ i # 0 /\ bound' = bound
    BY DEF InUse, Moved
  <2>1. i \in InUse
    <3>1. ASSUME NEW p \in Requests, req'[p].store = i PROVE req[p].store = i
      <4>1. CASE p = r
        BY <1>1, <1>2, <2>0, <3>1, <4>1 DEF Quieted
      <4>2. CASE p # r
        BY <1>2, <3>1, <4>2
      <4>3. QED
        BY <4>1, <4>2
    <3>2. QED
      BY <2>0, <3>1 DEF InUse
  <2>2. g \notin stores[i].grants /\ (Carries(r) => req[r].grant # g)
    BY <2>1 DEF Gone
  <2>3. QED
    BY <2>0, <2>2 DEF Moved
<1>5. q.at \in {"add", "fill"} => q.grant # g
  BY <1>1, GrantsAssumption DEF Quieted, Gone, TypeOK, Grants
<1>6. ASSUME NEW p \in Requests, req'[p].at \in {"add", "fill"}
      PROVE  req'[p].grant # g
  <2>1. CASE p = r
    BY <1>2, <1>5, <1>6, <2>1
  <2>2. CASE p # r
    BY <1>2, <1>6, <2>2 DEF Gone, Carries
  <2>3. QED
    BY <2>1, <2>2
<1>7. QED
  BY <1>3, <1>4, <1>6 DEF Gone, Carries

(* A step of a request keeps what is remembered: a chain it chooses hangs   *)
(* from a grant that is neither revoked nor gone.                           *)
LEMMA RememberedRequest ==
  ASSUME TypeOK, Ordered, Remembered, NEW r \in Requests, Moved(r)
  PROVE  Remembered'
<1>1. UNCHANGED <<hilt, revoked, consumer, since, saved, applied, lapsed>>
  BY DEF Moved, reader, history
<1>2. Recorded'
  BY <1>1 DEF Remembered, Recorded
<1>3. Forgotten' /\ Passed'
  BY <1>1, MovedGone DEF Remembered, Forgotten, Passed
<1>4. Chosen'
  <2>1. PICK q \in Request : req' = [req EXCEPT ![r] = q] /\ Quieted(r, q)
    BY DEF Moved
  <2>2. req'[r] = q /\ \A p \in Requests : p # r => req'[p] = req[p]
    BY <2>1, ReqUpdate
  <2>3. req[r] \in Request /\ since \in Nat /\ req[r].past <= since
    BY GrantsAssumption DEF TypeOK, Remembered, Chosen
  <2>4. q.past <= since
    BY <2>1, <2>3 DEF Quieted
  <2>5. q.at \in {"tenant", "local"} => q.grant > q.past \/ q.grant \in lapsed
    <3>1. CASE q.at = "local"
      BY <2>1, <3>1 DEF Quieted, At, Remembered, Chosen
    <3>2. CASE q.at = "tenant"
      <4>1. req[r].store \in InUse
        BY DEF TypeOK, Moved, InUse
      <4>2. q.grant \in stores[req[r].store].grants /\ q.grant \notin revoked /\ q.past = req[r].past
        BY <2>1, <3>2 DEF Quieted, Chains, Held
      <4>3. q.grant \in Grants
        <5>1. stores[req[r].store] \in Store
          BY <4>1, ElementOfSeq DEF TypeOK, InUse
        <5>2. QED
          BY <4>2, <5>1 DEF Store
      <4>4. ~Gone(q.grant)
        BY <4>1, <4>2 DEF Gone
      <4>5. ~(q.grant <= since) \/ q.grant \in lapsed
        BY <4>2, <4>3, <4>4 DEF Remembered, Forgotten
      <4>6. QED
        BY <2>3, <2>4, <4>3, <4>5, GrantsAssumption DEF Grants, Request
    <3>3. QED
      BY <3>1, <3>2
  <2>6. ASSUME NEW p \in Requests
        PROVE  /\ req'[p].past <= since
               /\ req'[p].at \in {"tenant", "local"} => req'[p].grant > req'[p].past \/ req'[p].grant \in lapsed
    <3>1. CASE p = r
      BY <2>2, <2>4, <2>5, <3>1
    <3>2. CASE p # r
      BY <2>2, <3>2 DEF Remembered, Chosen
    <3>3. QED
      BY <3>1, <3>2
  <2>7. QED
    BY <1>1, <2>6 DEF Chosen
<1>5. QED
  BY <1>2, <1>3, <1>4 DEF Remembered

(* A Hilt write keeps it: a grant that is gone is not served again. *)
LEMMA RememberedHilt ==
  ASSUME TypeOK, Ordered, Remembered, Hilt
  PROVE  Remembered'
<1>1. UNCHANGED <<stores, bound, revoked, req, consumer, since, saved, applied, lapsed>>
  BY DEF Hilt, HiltPublishes, HiltCommits, HiltFails, caches, reader, history
<1>2. ASSUME NEW g \in Grants, Gone(g) PROVE Gone(g)'
  <2>1. grant' = 0 \/ g < grant'
    BY <1>2, GrantsAssumption DEF Gone, Hilt, HiltPublishes, HiltCommits, HiltFails, TypeOK, Ordered, Grants
  <2>2. QED
    BY <1>1, <1>2, <2>1 DEF Gone, Carries, InUse
<1>3. QED
  BY <1>1, <1>2 DEF Remembered, Recorded, Forgotten, Passed, Chosen

(* A request that comes keeps it: its chains are chosen after what the *)
(* consumer has applied by now.                                        *)
LEMMA RememberedArrive ==
  ASSUME TypeOK, Remembered, NEW r \in Requests, Arrive(r)
  PROVE  Remembered'
<1>1. UNCHANGED <<hilt, revoked, consumer, since, saved, applied, lapsed>>
  BY ArriveMoves DEF reader, history
<1>2. PICK q \in Request : req' = [req EXCEPT ![r] = q] /\ q.at = "key" /\ q.store = bound' /\ q.past = since
  BY ArriveMoves
<1>3. req'[r] = q /\ \A p \in Requests : p # r => req'[p] = req[p]
  BY <1>2, ReqUpdate
<1>4. Len(stores) \in Nat /\ stores \in Seq(Store) /\ bound \in 0..Len(stores)
  BY LenProperties DEF TypeOK
<1>5. ASSUME NEW g \in Grants, Gone(g) PROVE Gone(g)'
  <2>1. ASSUME NEW i \in InUse' PROVE g \notin stores'[i].grants
    <3>1. i \in 1..Len(stores') /\ stores'[i].grants = IF i <= Len(stores) THEN stores[i].grants ELSE {}
      BY ArriveMoves DEF InUse
    <3>2. CASE i <= Len(stores)
      <4>1. i \in 1..Len(stores)
        BY <1>4, <3>1, <3>2
      <4>2. bound' = i => bound = i
        <5>1. bound = 0 => bound' = Len(stores) + 1
          BY DEF Arrive, For
        <5>2. bound # 0 => bound' = bound
          BY DEF Arrive, For
        <5>3. QED
          BY <1>4, <3>2, <4>1, <5>1, <5>2
      <4>3. i = bound' \/ \E p \in Requests : req'[p].store = i
        BY DEF InUse
      <4>4. i = bound \/ \E p \in Requests : req[p].store = i
        BY <1>2, <1>3, <4>2, <4>3
      <4>5. i \in InUse
        BY <4>1, <4>4 DEF InUse
      <4>6. QED
        BY <1>5, <3>1, <3>2, <4>5 DEF Gone
    <3>3. CASE ~(i <= Len(stores))
      BY <3>1, <3>3
    <3>4. QED
      BY <3>2, <3>3
  <2>2. ASSUME NEW p \in Requests, req'[p].at \in {"add", "fill"}
        PROVE  req'[p].grant # g
    <3>1. p # r
      BY <1>2, <1>3, <2>2
    <3>2. QED
      BY <1>3, <1>5, <2>2, <3>1 DEF Gone, Carries
  <2>3. grant' = 0 \/ g < grant'
    BY <1>1, <1>5 DEF Gone, hilt
  <2>4. QED
    BY <2>1, <2>2, <2>3 DEF Gone, Carries
<1>6. Chosen'
  <2>1. since \in Nat
    BY GrantsAssumption DEF TypeOK
  <2>2. ASSUME NEW p \in Requests
        PROVE  /\ req'[p].past <= since
               /\ req'[p].at \in {"tenant", "local"} => req'[p].grant > req'[p].past \/ req'[p].grant \in lapsed
    <3>1. CASE p = r
      BY <1>2, <1>3, <2>1, <3>1
    <3>2. CASE p # r
      BY <1>3, <3>2 DEF Remembered, Chosen
    <3>3. QED
      BY <3>1, <3>2
  <2>3. QED
    BY <1>1, <2>2 DEF Chosen
<1>7. Recorded'
  BY <1>1 DEF Remembered, Recorded
<1>8. Forgotten' /\ Passed'
  BY <1>1, <1>5 DEF Remembered, Forgotten, Passed
<1>9. QED
  BY <1>6, <1>7, <1>8 DEF Remembered

(* The eviction of an idle key's store keeps it, and so does a restart: the *)
(* saved cursor hides only records that were applied, lapsed or are of      *)
(* grants that are gone.                                                    *)
LEMMA RememberedEnds ==
  ASSUME TypeOK, Ordered, Remembered, EvictIdle \/ Restart
  PROVE  Remembered'
<1>1. stores' = << >> /\ Len(stores') = 0 /\ UNCHANGED <<hilt, saved, applied, lapsed>>
  BY DEF EvictIdle, Restart, reader, history
<1>2. InUse' = {}
  BY <1>1 DEF InUse
<1>3. \A r \in Requests : req'[r].at = "idle"
  <2>1. Idle.at = "idle"
    BY DEF Idle
  <2>2. QED
    BY <2>1 DEF EvictIdle, Restart, At
<1>4. \A g \in Grants : Gone(g) => Gone(g)'
  BY <1>1, <1>2, <1>3 DEF Gone, Carries, hilt
<1>5. Passed'
  BY <1>1, <1>4 DEF Remembered, Passed
<1>6. CASE EvictIdle
  <2>1. UNCHANGED <<revoked, req, consumer, since>>
    BY <1>6 DEF EvictIdle, reader
  <2>2. QED
    BY <1>1, <1>4, <1>5, <2>1 DEF Remembered, Recorded, Forgotten, Chosen
<1>7. CASE Restart
  <2>1. \A r \in Requests : req'[r] = Idle
    BY <1>7 DEF Restart
  <2>2. consumer'.at = "off" /\ since' = 0 /\ revoked' = {}
    BY <1>7 DEF Restart, Off
  <2>3. Chosen'
    BY <2>1, <2>2 DEF Chosen, Idle
  <2>4. Recorded'
    BY <2>2 DEF Recorded
  <2>5. Forgotten'
    BY <2>2, GrantsAssumption DEF Forgotten, Grants
  <2>6. QED
    BY <1>5, <2>3, <2>4, <2>5 DEF Remembered
<1>8. QED
  BY <1>6, <1>7

(* The consumer's steps keep it: it goes on past a record only when that is *)
(* in the revoked set, and what it passes over or forgets has lapsed or is  *)
(* gone.                                                                    *)
LEMMA RememberedConsume ==
  ASSUME TypeOK, Ordered, Remembered, Consume
  PROVE  Remembered'
<1>1. UNCHANGED <<hilt, stores, req>> /\ bound' \in {0, bound}
  BY DEF Consume, LoadFrom, Deliver, InvalidateHolders, Revoke, Advance, Forget, caches
<1>2. ASSUME NEW g \in Grants, Gone(g) PROVE Gone(g)'
  <2>1. InUse' \subseteq InUse
    BY <1>1 DEF InUse
  <2>2. QED
    BY <1>1, <1>2, <2>1 DEF Gone, Carries, hilt
<1>3. since \in Nat /\ published \in Nat /\ since <= published /\ saved \in Nat /\ saved <= published
  BY GrantsAssumption DEF TypeOK
<1>4. consumer \in [at : {"off", "rest", "scan", "revoke", "advance"}, record : 0..MaxGrants]
  BY DEF TypeOK
<1>5. \A r \in Requests : req[r] \in Request
  BY DEF TypeOK
<1>6. CASE \E from \in 0..MaxGrants : LoadFrom(from)
  <2>1. PICK from \in 0..MaxGrants : LoadFrom(from)
    BY <1>6
  <2>2. /\ consumer.at = "off" /\ consumer'.at = "rest" /\ since' = from
        /\ from <= published /\ from \in Nat
        /\ UNCHANGED <<revoked, saved, applied>> /\ lapsed \subseteq lapsed'
    BY <1>3, <2>1, GrantsAssumption DEF LoadFrom, Resting, caches
  <2>3. since = 0
    BY <2>2 DEF Remembered, Recorded
  <2>4. Forgotten'
    <3>1. ASSUME NEW g \in Grants, g <= from PROVE g \in lapsed' \/ Gone(g)
      <4>1. g \in 1..from /\ g <= published /\ (g \in Known \/ Gone(g))
        BY <1>3, <2>2, <3>1, UnknownGone, GrantsAssumption DEF Grants
      <4>2. CASE lapsed' = lapsed \cup (Known \cap 1..from)
        BY <4>1, <4>2
      <4>3. CASE from = saved /\ lapsed' = lapsed \cup (Known \cap applied \cap 1..from)
        BY <3>1, <4>1, <4>3 DEF Remembered, Passed
      <4>4. QED
        BY <2>1, <4>2, <4>3 DEF LoadFrom
    <3>2. QED
      BY <1>2, <2>2, <3>1 DEF Forgotten
  <2>5. Chosen'
    <3>1. \A r \in Requests : req[r].past <= since'
      BY <1>5, <2>2, <2>3, GrantsAssumption DEF Remembered, Chosen, Request
    <3>2. QED
      BY <1>1, <2>2, <3>1 DEF Remembered, Chosen
  <2>6. Recorded'
    BY <2>2 DEF Remembered, Recorded
  <2>7. Passed'
    BY <1>2, <2>2 DEF Remembered, Passed
  <2>8. QED
    BY <2>4, <2>5, <2>6, <2>7 DEF Remembered
<1>7. CASE \E g \in Grants : Deliver(g)
  <2>1. PICK g \in Grants : Deliver(g)
    BY <1>7
  <2>2. /\ consumer.at = "rest" /\ consumer'.at = "scan" /\ consumer'.record = g
        /\ g \in {since, since + 1} /\ revoked' = revoked \cup {g} /\ since' = since
        /\ applied' = applied \cup {g} /\ UNCHANGED <<saved, lapsed>>
    BY <2>1 DEF Deliver, Resting
  <2>3. Recorded'
    BY <2>2 DEF Remembered, Recorded
  <2>4. Forgotten' /\ Passed'
    BY <1>2, <2>2 DEF Remembered, Forgotten, Passed
  <2>5. Chosen'
    BY <1>1, <2>2 DEF Remembered, Chosen
  <2>6. QED
    BY <2>3, <2>4, <2>5 DEF Remembered
<1>8. CASE InvalidateHolders \/ Revoke
  <2>1. /\ consumer.at \in {"scan", "revoke"} /\ consumer'.at \in {"revoke", "advance"}
        /\ consumer'.record = consumer.record
        /\ UNCHANGED <<revoked, since, saved, applied, lapsed>>
    BY <1>4, <1>8 DEF InvalidateHolders, Revoke, history
  <2>2. Recorded'
    BY <2>1 DEF Remembered, Recorded
  <2>3. Forgotten' /\ Passed'
    BY <1>2, <2>1 DEF Remembered, Forgotten, Passed
  <2>4. Chosen'
    BY <1>1, <2>1 DEF Remembered, Chosen
  <2>5. QED
    BY <2>2, <2>3, <2>4 DEF Remembered
<1>9. CASE Advance
  <2>1. /\ consumer.at = "advance" /\ consumer'.at = "rest"
        /\ since' = consumer.record /\ saved' \in {saved, consumer.record}
        /\ UNCHANGED <<revoked, applied, lapsed>>
    BY <1>9 DEF Advance, Resting, caches, history
  <2>2. consumer.record \in revoked /\ consumer.record \in {since, since + 1} /\ revoked \subseteq applied
    BY <2>1 DEF Remembered, Recorded
  <2>3. ASSUME NEW g \in Grants, g <= consumer.record PROVE g \in revoked \/ g \in lapsed \/ Gone(g)
    <3>1. g <= since \/ g = consumer.record
      BY <1>3, <2>2, <2>3, GrantsAssumption DEF Grants
    <3>2. QED
      BY <2>2, <3>1 DEF Remembered, Forgotten
  <2>4. Forgotten'
    BY <1>2, <2>1, <2>3 DEF Forgotten
  <2>5. Passed'
    <3>1. CASE saved' = saved
      BY <1>2, <2>1, <3>1 DEF Remembered, Passed
    <3>2. CASE saved' = consumer.record
      BY <1>2, <2>1, <2>2, <2>3, <3>2 DEF Passed
    <3>3. QED
      BY <2>1, <3>1, <3>2
  <2>6. Chosen'
    <3>1. \A r \in Requests : req[r].past <= since'
      BY <1>3, <1>5, <2>1, <2>2, GrantsAssumption DEF Remembered, Chosen, Request
    <3>2. QED
      BY <1>1, <2>1, <3>1 DEF Remembered, Chosen
  <2>7. Recorded'
    BY <2>1, <2>2 DEF Recorded
  <2>8. QED
    BY <2>4, <2>5, <2>6, <2>7 DEF Remembered
<1>10. CASE \E g \in Grants : Forget(g)
  <2>1. PICK f \in Grants : Forget(f)
    BY <1>10
  <2>2. /\ f # consumer.record /\ revoked' = revoked \ {f} /\ lapsed' = lapsed \cup (Known \cap {f})
        /\ UNCHANGED <<consumer, since, saved, applied>>
    BY <2>1 DEF Forget, reader
  <2>3. Forgotten'
    <3>1. ASSUME NEW g \in Grants, g <= since PROVE g \in revoked' \/ g \in lapsed' \/ Gone(g)
      <4>1. g <= published
        BY <1>3, <3>1, GrantsAssumption DEF Grants
      <4>2. g \in Known \/ Gone(g)
        BY <4>1, UnknownGone
      <4>3. QED
        BY <2>2, <3>1, <4>2 DEF Remembered, Forgotten
    <3>2. QED
      BY <1>2, <2>2, <3>1 DEF Forgotten
  <2>4. Passed'
    BY <1>2, <2>2 DEF Remembered, Passed
  <2>5. Chosen' /\ Recorded'
    BY <1>1, <2>2 DEF Remembered, Chosen, Recorded
  <2>6. QED
    BY <2>3, <2>4, <2>5 DEF Remembered
<1>11. QED
  BY <1>6, <1>7, <1>8, <1>9, <1>10 DEF Consume

(* What is remembered is inductive. *)
LEMMA RememberedStep ==
  ASSUME TypeOK, Ordered, Remembered, [Next]_vars
  PROVE  Remembered'
<1>1. ASSUME NEW r \in Requests, Local(r) \/ Remote(r) PROVE Remembered'
  BY <1>1, RequestMoves, RememberedRequest
<1>2. ASSUME NEW r \in Requests, Arrive(r) PROVE Remembered'
  BY <1>2, RememberedArrive
<1>3. CASE UNCHANGED vars
  BY <1>3 DEF Remembered, Recorded, Forgotten, Passed, Gone, Carries, InUse, Chosen,
              vars, hilt, caches, reader, history
<1>4. QED
  BY <1>1, <1>2, <1>3, RememberedHilt, RememberedEnds, RememberedConsume DEF Next

(* A request that comes after a revocation is applied, by this process or    *)
(* by one before it whose cursor was saved, is never authorized locally      *)
(* through the grant it revokes, whatever was cached, evicted or on its way  *)
(* from Hilt: the only exceptions are grants that could still be used when   *)
(* their entry expired or when a new process began after their record        *)
(* (iam/revoker.go Revoke, iam/keyproofs.go revokedTTL, iam/service.go       *)
(* authorizeLocal, revocation/consumer.go loadFrom).                         *)
THEOREM RevokedStaysRefused == Spec => []RevokedRefused
<1>1. Init => TypeOK /\ Ordered /\ Remembered
  <2> SUFFICES ASSUME Init PROVE Remembered
    BY TypeInit
  <2>1. \A r \in Requests : req[r] = Idle
    BY DEF Init
  <2>2. consumer.at = "off" /\ since = 0 /\ saved = 0 /\ revoked = {}
    BY DEF Init, Off
  <2>3. Chosen
    BY <2>1, <2>2 DEF Chosen, Idle
  <2>4. Forgotten /\ Passed
    BY <2>2, GrantsAssumption DEF Forgotten, Passed, Grants
  <2>5. Recorded
    BY <2>2 DEF Recorded
  <2>6. QED
    BY <2>3, <2>4, <2>5 DEF Remembered
<1>2. TypeOK /\ Ordered /\ Remembered /\ [Next]_vars => TypeOK' /\ Ordered' /\ Remembered'
  BY TypeStep, RememberedStep
<1>3. Remembered => RevokedRefused
  BY DEF Remembered, Chosen, RevokedRefused, At
<1>4. QED
  BY <1>1, <1>2, <1>3, PTL DEF Spec

=============================================================================

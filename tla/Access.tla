------------------------------- MODULE Access -------------------------------
(***************************************************************************)
(* How one access key is authorized, against its revocation.  A request is *)
(* first tried against what the process has cached for the key: a          *)
(* verification key, an action set, a chain of delegations and a tenant    *)
(* (iam/service.go authorizeLocal).  Without all of them Hilt is asked,    *)
(* and its answer is cached: a leaf to this process, the grant it hangs    *)
(* from, fetched by a second call when the answer lacks it, and the action *)
(* set.  Meanwhile the revocation consumer applies the firehose's records  *)
(* to the same caches (iam/keyproofs.go, revoker.go, revocation/).         *)
(*                                                                         *)
(* Hilt and the firehose are external.  A Hilt write rotates the key's     *)
(* grant (a policy change) or deletes the key; it publishes the revocation *)
(* of the old grant before it commits, and its commit may fail.  Grants    *)
(* are numbered as they are issued, so that the firehose's records are     *)
(* 1..published and a record's time is its grant's number.                 *)
(*                                                                         *)
(* The revoked set is memory that lasts for revokedTTL and for the life of *)
(* the process, so a revocation of a grant that can still come from Hilt   *)
(* may be lost track of.  The history variables lapsed and applied say of  *)
(* which grants that has happened.                                         *)
(***************************************************************************)
EXTENDS Naturals, Sequences, FiniteSets

CONSTANTS Requests,     \* requests of the key in flight
          MaxGrants,    \* bound: grants Hilt issues
          MaxStores,    \* bound: proof stores a process makes for the key
          MaxRestarts   \* bound: restarts of the process

ASSUME GrantsAssumption == MaxGrants \in Nat \ {0}
ASSUME StoresAssumption == MaxStores \in Nat \ {0}
ASSUME RestartsAssumption == MaxRestarts \in Nat

VARIABLES
  grant,      \* the grant Hilt serves, 0 once the key is deleted
  write,      \* the Hilt write between its revocation and its commit
  published,  \* the firehose: the grants 1..published are revoked
  stores,     \* the proof stores made for the key since the process began
  bound,      \* the one KeyProofs.byKey has, 0 for none
  revoked,    \* KeyProofs.revoked
  cached,     \* whether the key's verification key and tenant are cached
  req,        \* the requests
  consumer,   \* the revocation consumer: what it does, and its record
  since,      \* the last record the consumer applied, or began from
  saved,      \* the revocation_cursor row, 0 for none
  restarts,
  applied,    \* history: the records some process has applied
  lapsed      \* history: the grants whose revocation a process lost track
              \* of while they could still reach it

hilt   == <<grant, write, published>>
caches == <<stores, bound, revoked, cached>>
reader == <<consumer, since, saved, restarts>>
history == <<applied, lapsed>>
vars   == <<hilt, caches, req, reader, history>>

Grants == 1..MaxGrants

(* A proof store: the grants it has, with the leaves that hang from them, *)
(* and whether it has an action set.                                      *)
Store    == [grants : SUBSET Grants, set : BOOLEAN]
NewStore == [grants |-> {}, set |-> FALSE]

(* A request: its step, the proof store it was given, the grant Hilt       *)
(* answered with or its chain hangs from, and, as long as it may be        *)
(* authorized locally, the last record the consumer had applied when it    *)
(* came.                                                                   *)
Steps   == {"idle", "key", "chain", "tenant", "ask", "add", "probe", "info", "fill",
            "put", "put set", "local"}
Request == [at : Steps, store : 0..MaxStores, grant : 0..MaxGrants, past : 0..MaxGrants]
Idle    == [at |-> "idle", store |-> 0, grant |-> 0, past |-> 0]

Resting == [at |-> "rest", record |-> 0]
Off     == [at |-> "off", record |-> 0]

Init ==
  /\ grant = 1 /\ write = "none" /\ published = 0
  /\ stores = << >> /\ bound = 0 /\ revoked = {} /\ cached = FALSE
  /\ req = [r \in Requests |-> Idle]
  /\ consumer = Off /\ since = 0 /\ saved = 0
  /\ restarts = 0
  /\ applied = {} /\ lapsed = {}

(* Whether the consumer has KeyProofs.mu, between the record and the scan. *)
Locked == consumer.at = "scan"

(* The grants that can still be used: what Hilt serves, what a store that *)
(* is bound or that a request was given has, and what a request brings    *)
(* from Hilt.                                                             *)
InUse      == {i \in 1..Len(stores) : i = bound \/ \E r \in Requests : req[r].store = i}
Carries(r) == req[r].at \in {"add", "fill"}
Known      == {g \in Grants : \/ g = grant
                              \/ \E i \in InUse : g \in stores[i].grants
                              \/ \E r \in Requests : Carries(r) /\ req[r].grant = g}

-----------------------------------------------------------------------------
(* Hilt and the firehose (external). *)

(* A write publishes the revocation of the grant it retires, which a   *)
(* retry after a failed commit has published already.                  *)
HiltPublishes(kind) ==
  /\ grant # 0 /\ write = "none"
  /\ kind = "rotate" => grant < MaxGrants
  /\ write' = kind
  /\ published' = grant
  /\ UNCHANGED <<grant, caches, req, reader, history>>

HiltCommits ==
  /\ write # "none"
  /\ grant' = IF write = "rotate" THEN grant + 1 ELSE 0
  /\ write' = "none"
  /\ UNCHANGED <<published, caches, req, reader, history>>

(* The commit fails: Hilt goes on serving what it revoked. *)
HiltFails ==
  /\ write # "none"
  /\ write' = "none"
  /\ UNCHANGED <<grant, published, caches, req, reader, history>>

-----------------------------------------------------------------------------
(* The proof store. *)

At(r, step) == req[r].at = step
Go(r, step) == req' = [req EXCEPT ![r].at = step]
Ask(r)      == req' = [req EXCEPT ![r] = [Idle EXCEPT !.at = "ask", !.store = req[r].store]]
Done(r)     == req' = [req EXCEPT ![r] = Idle]
Held(r)     == stores[req[r].store]

(* ProofChainVia, listDelegations: the grants a chain may hang from, none *)
(* of them revoked since it was cached.                                   *)
Chains(store) == store.grants \ revoked

(* Mutant: the store does not look at the revoked set. *)
AddAlways(grants) == TRUE

(* DelegationCache.Add refuses a batch that names a revoked delegation. *)
AddAllowed(grants) == grants \cap revoked = {}

(* Add caches a batch, under the store's lock from the check on. *)
Add(r, grants) == stores' = [stores EXCEPT ![req[r].store].grants = @ \cup grants]

-----------------------------------------------------------------------------
(* Requests. *)

(* KeyProofs.For: the key's proof store, made on first use. *)
For ==
  IF bound # 0
  THEN UNCHANGED <<stores, bound>>
  ELSE /\ Len(stores) < MaxStores
       /\ stores' = Append(stores, NewStore)
       /\ bound' = Len(stores) + 1

(* GetUserAccountForRequest up to the fast path. *)
Arrive(r) ==
  /\ At(r, "idle")
  /\ ~Locked
  /\ For
  /\ req' = [req EXCEPT ![r] = [Idle EXCEPT !.at = "key", !.store = bound', !.past = since]]
  /\ UNCHANGED <<hilt, revoked, cached, reader, history>>

(* authorizeLocal: the cached key has to verify the signature, the request *)
(* to be of an operation on a bucket, and an action set to be cached, or   *)
(* Hilt is asked; a cached set that lacks the action refuses it...         *)
Permits(r) ==
  /\ At(r, "key")
  /\ \/ Ask(r)
     \/ cached /\ Held(r).set /\ (Done(r) \/ Go(r, "chain"))
  /\ UNCHANGED <<hilt, caches, reader, history>>

(* ...and a chain has to reach this process through the key. *)
ProofChainVia(r) ==
  /\ At(r, "chain")
  /\ IF Chains(Held(r)) = {} THEN Ask(r)
     ELSE \E g \in Chains(Held(r)) : req' = [req EXCEPT ![r].at = "tenant", ![r].grant = g]
  /\ UNCHANGED <<hilt, caches, reader, history>>

(* The tenant travels with the request; without it Hilt is asked after all. *)
CheckTenant(r) ==
  /\ At(r, "tenant")
  /\ IF cached THEN Go(r, "local") ELSE Ask(r)
  /\ UNCHANGED <<hilt, caches, reader, history>>

Serve(r) ==
  /\ At(r, "local")
  /\ Done(r)
  /\ UNCHANGED <<hilt, caches, reader, history>>

(* AuthorizeRequest: Hilt answers under the grant it serves... *)
Authorize(r) ==
  /\ At(r, "ask")
  /\ grant # 0
  /\ req' = [req EXCEPT ![r].at = "add", ![r].grant = grant]
  /\ UNCHANGED <<hilt, caches, reader, history>>

(* ...or refuses, as it does a deleted key, or cannot be reached. *)
AuthorizeFails(r) ==
  /\ At(r, "ask")
  /\ Done(r)
  /\ UNCHANGED <<hilt, caches, reader, history>>

(* cacheProofs: the answer's delegations, a leaf alone or with its grant, *)
(* go into the store, or none of them does: then the request goes on with *)
(* a store of its own and nothing is cached.                              *)
CacheAnswer(r, grants) ==
  /\ At(r, "add")
  /\ IF AddAllowed(grants)
     THEN Add(r, grants) /\ req' = [req EXCEPT ![r].at = "probe", ![r].grant = 0]
     ELSE UNCHANGED stores /\ Done(r)
  /\ UNCHANGED <<hilt, bound, revoked, cached, reader, history>>

(* Whether the leaf's chain is complete. *)
Probe(r) ==
  /\ At(r, "probe")
  /\ Go(r, IF Chains(Held(r)) = {} THEN "info" ELSE "put")
  /\ UNCHANGED <<hilt, caches, reader, history>>

(* It is not: /s3/bucket/info brings the grant Hilt serves by now... *)
BucketInfo(r) ==
  /\ At(r, "info")
  /\ grant # 0
  /\ req' = [req EXCEPT ![r].at = "fill", ![r].grant = grant]
  /\ UNCHANGED <<hilt, caches, reader, history>>

(* ...or fails, which leaves the chain incomplete and caches the rest. *)
BucketInfoFails(r) ==
  /\ At(r, "info")
  /\ Go(r, "put")
  /\ UNCHANGED <<hilt, caches, reader, history>>

CacheInfo(r) ==
  /\ At(r, "fill")
  /\ IF AddAllowed({req[r].grant})
     THEN Add(r, {req[r].grant}) /\ req' = [req EXCEPT ![r].at = "put", ![r].grant = 0]
     ELSE UNCHANGED stores /\ Done(r)
  /\ UNCHANGED <<hilt, bound, revoked, cached, reader, history>>

(* VerificationKeyCache.Put, TenantCache.Put *)
PutKey(r) ==
  /\ At(r, "put")
  /\ cached' = TRUE
  /\ Go(r, "put set")
  /\ UNCHANGED <<hilt, stores, bound, revoked, reader, history>>

(* PutPermissions, into the store the request was given, bound or not. *)
PutPermissions(r) ==
  /\ At(r, "put set")
  /\ stores' = [stores EXCEPT ![req[r].store].set = TRUE]
  /\ Done(r)
  /\ UNCHANGED <<hilt, bound, revoked, cached, reader, history>>

(* keyProofsIdleTTL: the store of a key that is not used is dropped; the *)
(* key and the tenant have expired by then.  No request has a store.     *)
EvictIdle ==
  /\ bound # 0 /\ ~Locked /\ \A r \in Requests : At(r, "idle")
  /\ stores' = << >> /\ bound' = 0 /\ cached' = FALSE
  /\ UNCHANGED <<hilt, revoked, req, reader, history>>

-----------------------------------------------------------------------------
(* The revocation consumer. *)

(* Run, loadFrom: from the saved cursor; from now when there is none or it *)
(* cannot be read.  The listener has been up for a while by then.  Records *)
(* up to there are not delivered to this process: before now, any; before  *)
(* the cursor, the ones an earlier process has applied.                    *)
LoadFrom(from) ==
  /\ consumer.at = "off"
  /\ \/ /\ from = published
        /\ lapsed' = lapsed \cup (Known \cap 1..from)
     \/ /\ saved # 0 /\ from = saved
        /\ lapsed' = lapsed \cup (Known \cap applied \cap 1..from)
  /\ since' = from
  /\ consumer' = Resting
  /\ UNCHANGED <<hilt, caches, req, saved, restarts, applied>>

(* Mutant: the revoked set is left alone. *)
DeliverUnrecorded(g) ==
  /\ consumer = Resting
  /\ g \in {since, since + 1} \cap 1..published
  /\ applied' = applied \cup {g}
  /\ consumer' = [at |-> "scan", record |-> g]
  /\ UNCHANGED <<hilt, caches, req, since, saved, restarts, lapsed>>

(* A record of the stream, or the last one again after a reconnect:  *)
(* InvalidateHolders remembers it, with the lock...                  *)
Deliver(g) ==
  /\ consumer = Resting
  /\ g \in {since, since + 1} \cap 1..published
  /\ revoked' = revoked \cup {g}
  /\ applied' = applied \cup {g}
  /\ consumer' = [at |-> "scan", record |-> g]
  /\ UNCHANGED <<hilt, stores, bound, cached, req, since, saved, restarts, lapsed>>

(* ...and drops the key's store if that holds the delegation. *)
InvalidateHolders ==
  /\ consumer.at = "scan"
  /\ LET holds == bound # 0 /\ consumer.record \in stores[bound].grants
     IN /\ bound' = IF holds THEN 0 ELSE bound
        /\ consumer' = [consumer EXCEPT !.at = IF holds THEN "revoke" ELSE "advance"]
  /\ UNCHANGED <<hilt, stores, revoked, cached, req, since, saved, restarts, history>>

(* Revoke: the verification key and the tenant of the key that held it. *)
Revoke ==
  /\ consumer.at = "revoke"
  /\ cached' = FALSE
  /\ consumer' = [consumer EXCEPT !.at = "advance"]
  /\ UNCHANGED <<hilt, stores, bound, revoked, req, since, saved, restarts, history>>

(* Mutant: the cursor saved is that of the stream's newest record. *)
AdvanceToNewest ==
  /\ consumer.at = "advance"
  /\ since' = consumer.record
  /\ saved' \in {saved, published}
  /\ consumer' = Resting
  /\ UNCHANGED <<hilt, caches, req, restarts, history>>

(* Mutant: the cursor names the record after the one applied. *)
AdvancePast ==
  /\ consumer.at = "advance"
  /\ since' = consumer.record + 1
  /\ saved' \in {saved, consumer.record + 1}
  /\ consumer' = Resting
  /\ UNCHANGED <<hilt, caches, req, restarts, history>>

(* Run goes on from the record and lets saveCursor have it, which may or  *)
(* may not save it before the next one; only a restart reads what it did. *)
Advance ==
  /\ consumer.at = "advance"
  /\ since' = consumer.record
  /\ saved' \in {saved, consumer.record}
  /\ consumer' = Resting
  /\ UNCHANGED <<hilt, caches, req, restarts, history>>

(* revokedTTL: an entry of the revoked set that no refusal has renewed for *)
(* 48 hours expires.  The record in hand has only just been entered.       *)
Forget(g) ==
  /\ g \in revoked /\ g # consumer.record
  /\ revoked' = revoked \ {g}
  /\ lapsed' = lapsed \cup (Known \cap {g})
  /\ UNCHANGED <<hilt, stores, bound, cached, req, reader, applied>>

(* The process ends and starts again; only the cursor row is left. *)
Restart ==
  /\ restarts < MaxRestarts
  /\ restarts' = restarts + 1
  /\ stores' = << >> /\ bound' = 0 /\ revoked' = {} /\ cached' = FALSE
  /\ req' = [r \in Requests |-> Idle]
  /\ consumer' = Off /\ since' = 0
  /\ UNCHANGED <<hilt, saved, history>>

-----------------------------------------------------------------------------

Hilt == (\E kind \in {"rotate", "delete"} : HiltPublishes(kind)) \/ HiltCommits \/ HiltFails

Local(r) == Permits(r) \/ ProofChainVia(r) \/ CheckTenant(r) \/ Serve(r)

Remote(r) ==
  \/ Authorize(r) \/ AuthorizeFails(r)
  \/ CacheAnswer(r, {}) \/ CacheAnswer(r, {req[r].grant}) \/ Probe(r)
  \/ BucketInfo(r) \/ BucketInfoFails(r) \/ CacheInfo(r)
  \/ PutKey(r) \/ PutPermissions(r)

Consume ==
  \/ \E from \in 0..MaxGrants : LoadFrom(from)
  \/ \E g \in Grants : Deliver(g)
  \/ InvalidateHolders \/ Revoke \/ Advance
  \/ \E g \in Grants : Forget(g)

Next ==
  \/ Hilt
  \/ \E r \in Requests : Arrive(r) \/ Local(r) \/ Remote(r)
  \/ EvictIdle
  \/ Consume \/ Restart

(* The consumer reconnects for as long as the process runs, and every *)
(* record of the stream comes in the end.                             *)
Fairness ==
  /\ WF_vars(\E from \in 0..MaxGrants : LoadFrom(from))
  /\ SF_vars(Deliver(since + 1))
  /\ WF_vars(InvalidateHolders) /\ WF_vars(Revoke) /\ WF_vars(Advance)

Spec == Init /\ [][Next]_vars /\ Fairness

-----------------------------------------------------------------------------
(* Properties. *)

TypeOK ==
  /\ grant \in 0..MaxGrants /\ published \in 0..MaxGrants
  /\ write \in {"none", "rotate", "delete"}
  /\ stores \in Seq(Store) /\ Len(stores) <= MaxStores
  /\ bound \in 0..Len(stores)
  /\ revoked \subseteq Grants
  /\ cached \in BOOLEAN
  /\ req \in [Requests -> Request]
  /\ \A r \in Requests : req[r].store \in 0..Len(stores) /\ (req[r].store = 0 <=> At(r, "idle"))
  /\ consumer \in [at : {"off", "rest", "scan", "revoke", "advance"}, record : 0..MaxGrants]
  /\ since \in 0..published /\ saved \in 0..published
  /\ restarts \in 0..MaxRestarts
  /\ applied \subseteq Grants /\ lapsed \subseteq Grants

(* A revocation never comes between an answer's check and its caching:     *)
(* once a record is applied, the key's proof store does not hold the       *)
(* delegation, whatever answers were on their way (iam/proofcache.go Add:  *)
(* "a revocation lands either before ... or after ..., never between").    *)
StoreClean ==
  bound # 0 => stores[bound].grants \cap (revoked \ {consumer.record}) = {}

(* A request that comes after Revoke has returned for a delegation, in     *)
(* this process or before the cursor it began from, is not authorized      *)
(* locally through it, whatever was cached and by whom (iam/revoker.go:    *)
(* "After Revoke returns for a delegation in key K's chains, a request     *)
(* signed with K cannot authorize locally").  The exceptions are exactly   *)
(* the grants that could still reach the process when it lost track of     *)
(* their revocation: the entry expired (iam/keyproofs.go: "A failed Hilt   *)
(* write whose grant goes unserved for revokedTTL is forgotten"), or the   *)
(* process began after the record.                                         *)
RevokedRefused ==
  \A r \in Requests : At(r, "local") => req[r].grant > req[r].past \/ req[r].grant \in lapsed

(* Revocations take: whatever answers were on their way, and however often *)
(* the consumer lost its stream or the process was restarted, from some    *)
(* time on the key's proof store never again holds a delegation that is    *)
(* revoked, while Hilt goes on serving it, too (iam/keyproofs.go: "the key *)
(* returns to Hilt on every request until a committed write issues fresh   *)
(* delegations"), but for the ones a process lost track of; the cursor     *)
(* hides no record that nobody has applied.                                *)
RevocationsTake == <>[](bound # 0 => stores[bound].grants \cap 1..published \subseteq lapsed)
=============================================================================

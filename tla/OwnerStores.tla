----------------------------- MODULE OwnerStores -----------------------------
(***************************************************************************)
(* The claim and the admins of one owner (gw_tenancy.go; withOwner,        *)
(* listOwners, claimOwner, getOwner and ownerAdmin of gw_api.go).          *)
(*                                                                         *)
(* owner.json holds the admins.  Each write of it is made under the mutex  *)
(* of a GatewayStore; GatewayRoot caches the store of a claimed owner, so  *)
(* that its writers share one mutex, and makes a new store at each look at *)
(* an unclaimed one.  A critical section of root.mu is one step, but for   *)
(* Claim's, which lasts as long as the write in it.  Other owners share    *)
(* root.mu only, which nobody keeps.                                       *)
(***************************************************************************)
EXTENDS TempFile

CONSTANTS
    Requests,  \* requests of the management API
    Subs,      \* OIDC subjects
    Realm,     \* those with the role GatewayAdmin
    Nil        \* no request: a mutex is free, nothing is cached

ASSUME OwnerAssumption ==
    /\ Subs # {} /\ Realm \subseteq Subs
    /\ Nil \notin Requests

VARIABLES
    owner,   \* the file owner.json and its temporary one
    cached,  \* root.owners: the store, named by the request that made it
    rootMu,  \* who holds root.mu from one step to another
    storeMu, \* store -> who holds its mutex
    req      \* request -> the locals of its handler

ownerVars == <<owner, cached, rootMu, storeMu, req>>

Ops == {"claim", "list", "add", "remove"}

\* overtaken is history: the record was replaced after the request was authorised.
RequestState ==
    [pc : {"idle", "resolve", "exists", "again", "authorize", "handle", "claim",
           "lock", "open", "write", "rename", "publish", "done"},
     op : Ops, sub : Subs, who : Subs,
     st : Requests \cup {Nil}, admins : SUBSET Subs,
     overtaken : BOOLEAN]

Handler(pc, op, sub, who, st, admins, overtaken) ==
    [pc |-> pc, op |-> op, sub |-> sub, who |-> who, st |-> st,
     admins |-> admins, overtaken |-> overtaken]

AnySub == CHOOSE sub \in Subs : TRUE
NoRequest == Handler("idle", "list", AnySub, AnySub, Nil, {}, FALSE)

\* What was answered matters to nobody here.
Answered == Handler("done", "list", AnySub, AnySub, Nil, {}, FALSE)

OwnerInit ==
    /\ \E main \in {Absent} \cup {Whole(A) : A \in (SUBSET Subs) \ {{}}} :
         owner = AtRest(Requests, main, Absent)
    /\ cached = Nil
    /\ rootMu = Nil
    /\ storeMu = [s \in Requests |-> Nil]
    /\ req = [r \in Requests |-> NoRequest]

Claimed == owner.main # Absent
Readable == owner.main.is = "whole"
Admins == IF Readable THEN owner.main.doc ELSE {}

Handling(r, pc) == req[r].pc = pc
Goto(r, pc) == req' = [req EXCEPT ![r].pc = pc]
Done(r) == req' = [req EXCEPT ![r] = Answered]

\* SaveRecord is called with these admins.
Saving(r, A) == Handler("lock", req[r].op, AnySub, AnySub, req[r].st, A, req[r].overtaken)

-----------------------------------------------------------------------------
(* GatewayRoot.Owner and withOwner. *)

\* A request comes in, with the subject of its token.
Serve(r, op, sub, who) ==
    /\ Handling(r, "idle")
    /\ req' = [req EXCEPT ![r] = Handler("resolve", op, sub, who, Nil, {}, FALSE)]
    /\ UNCHANGED <<owner, cached, rootMu, storeMu>>

\* Owner: the cached store, or a new one, cached if the owner is claimed.
Found(r) == IF cached # Nil THEN cached ELSE r

\* Mutant: caching is left to Claim.
OwnerUncached(r) == cached

OwnerCached(r) == IF Claimed THEN Found(r) ELSE cached

\* The first look: of withOwner, of Claim, or of Owners for an owner it finds.
Resolve(r) ==
    /\ Handling(r, "resolve") /\ rootMu = Nil
    /\ req[r].op = "list" => Claimed
    /\ cached' = OwnerCached(r)
    /\ req' = [req EXCEPT ![r].st = Found(r),
                          ![r].pc = CASE req[r].op = "claim" -> "claim"
                                      [] req[r].op = "list" -> "authorize"
                                      [] OTHER -> "exists"]
    /\ UNCHANGED <<owner, rootMu, storeMu>>

\* Owners lists no owner that is not claimed.
ListNothing(r) ==
    /\ Handling(r, "resolve") /\ req[r].op = "list" /\ ~Claimed
    /\ Done(r)
    /\ UNCHANGED <<owner, cached, rootMu, storeMu>>

\* withOwner looks again once it has read a record, and may find another store.
Exists(r) ==
    /\ Handling(r, "exists")
    /\ IF Readable THEN Goto(r, "again") ELSE Done(r)
    /\ UNCHANGED <<owner, cached, rootMu, storeMu>>

ResolveAgain(r) ==
    /\ Handling(r, "again") /\ rootMu = Nil
    /\ cached' = OwnerCached(r)
    /\ req' = [req EXCEPT ![r].st = Found(r), ![r].pc = "authorize"]
    /\ UNCHANGED <<owner, rootMu, storeMu>>

isOwnerAdmin(sub) == sub \in Realm \cup Admins

\* list shows the record to its admins; the others go on to their handler.
Authorize(r) ==
    /\ Handling(r, "authorize")
    /\ IF req[r].op = "list" THEN Done(r)
       ELSE IF isOwnerAdmin(req[r].sub) THEN Goto(r, "handle")
       ELSE Done(r)
    /\ UNCHANGED <<owner, cached, rootMu, storeMu>>

-----------------------------------------------------------------------------
(* ownerAdmin; getOwner only reads. *)

\* An owner must keep at least one admin.
Refused(A) == A = {}

Edited(r) ==
    IF req[r].op = "add" THEN Admins \cup {req[r].who} ELSE Admins \ {req[r].who}

Handle(r) ==
    /\ Handling(r, "handle")
    /\ IF ~Readable THEN Done(r)
       ELSE IF Refused(Edited(r)) THEN Done(r)
       ELSE req' = [req EXCEPT ![r] = Saving(r, Edited(r))]
    /\ UNCHANGED <<owner, cached, rootMu, storeMu>>

-----------------------------------------------------------------------------
(* Claim: root.mu is held from the look at the file to the end. *)

\* Mutant: the look was made before root.mu was taken.
TakeRootMuUnlooked(r) ==
    /\ Handling(r, "claim") /\ rootMu = Nil
    /\ rootMu' = r
    /\ req' = [req EXCEPT ![r] = Saving(r, {req[r].sub})]
    /\ UNCHANGED <<owner, cached, storeMu>>

TakeRootMu(r) ==
    /\ Handling(r, "claim") /\ rootMu = Nil
    /\ IF Claimed
       THEN Done(r) /\ UNCHANGED rootMu
       ELSE /\ rootMu' = r
            /\ req' = [req EXCEPT ![r] = Saving(r, {req[r].sub})]
    /\ UNCHANGED <<owner, cached, storeMu>>

\* The store that was written becomes the one that is cached.
Publish(r) ==
    /\ Handling(r, "publish")
    /\ cached' = req[r].st
    /\ rootMu' = Nil
    /\ Done(r)
    /\ UNCHANGED <<owner, storeMu>>

-----------------------------------------------------------------------------
(* SaveRecord, of the store the request has. *)

Lock(r) ==
    /\ Handling(r, "lock") /\ storeMu[req[r].st] = Nil
    /\ storeMu' = [storeMu EXCEPT ![req[r].st] = r]
    /\ Goto(r, "open")
    /\ UNCHANGED <<owner, cached, rootMu>>

Open(r) ==
    /\ Handling(r, "open")
    /\ owner' = Truncated(owner, r)
    /\ Goto(r, "write")
    /\ UNCHANGED <<cached, rootMu, storeMu>>

Write(r) ==
    /\ Handling(r, "write")
    /\ owner' \in Written(owner, r, req[r].admins)
    /\ Goto(r, "rename")
    /\ UNCHANGED <<cached, rootMu, storeMu>>

\* The deferred unlock of the store; of root.mu too, when Claim fails.
StoreMuFreed(r) == [storeMu EXCEPT ![req[r].st] = Nil]
RootMuFreed(r) == IF rootMu = r THEN Nil ELSE rootMu

Authorised(q) ==
    /\ req[q].op # "claim"
    /\ req[q].pc \in {"handle", "lock", "open", "write", "rename"}

\* Whoever was authorised by the record that is replaced has been overtaken.
Rename(r) ==
    /\ Handling(r, "rename") /\ owner.tmp # Absent
    /\ owner' = Renamed(owner, r)
    /\ storeMu' = StoreMuFreed(r)
    /\ req' = [q \in Requests |->
                 IF q = r
                 THEN IF req[r].op = "claim" THEN [req[r] EXCEPT !.pc = "publish"]
                                             ELSE Answered
                 ELSE [req[q] EXCEPT !.overtaken = @ \/ Authorised(q)]]
    /\ UNCHANGED <<cached, rootMu>>

\* Mutant: a failed write returns with root.mu held.
SaveRecordFailsHolding(r) ==
    /\ \E pc \in {"open", "write", "rename"} : Handling(r, pc)
    /\ owner' = Closed(owner, r)
    /\ storeMu' = StoreMuFreed(r)
    /\ Done(r)
    /\ UNCHANGED <<cached, rootMu>>

\* Any step of the write may fail, and leaves what was written under .tmp.
SaveRecordFails(r) ==
    /\ \E pc \in {"open", "write", "rename"} : Handling(r, pc)
    /\ owner' = Closed(owner, r)
    /\ storeMu' = StoreMuFreed(r)
    /\ rootMu' = RootMuFreed(r)
    /\ Done(r)
    /\ UNCHANGED cached

-----------------------------------------------------------------------------
\* The client has its answer.
Leave(r) ==
    /\ Handling(r, "done")
    /\ req' = [req EXCEPT ![r] = NoRequest]
    /\ UNCHANGED <<owner, cached, rootMu, storeMu>>

\* The process is killed and starts again: the files stay, requests get no answer.
Restart ==
    /\ owner' = AtRest(Requests, owner.main, owner.tmp)
    /\ cached' = Nil
    /\ rootMu' = Nil
    /\ storeMu' = [s \in Requests |-> Nil]
    /\ req' = [r \in Requests |-> IF Handling(r, "idle") THEN NoRequest ELSE Answered]

\* What the goroutine of a request does once the request is in.
HandlerStep(r) ==
    \/ Resolve(r) \/ ListNothing(r) \/ Exists(r) \/ ResolveAgain(r)
    \/ Authorize(r) \/ Handle(r) \/ TakeRootMu(r) \/ Publish(r)
    \/ Lock(r) \/ Open(r) \/ Write(r) \/ Rename(r) \/ SaveRecordFails(r)

OwnerNext ==
    \/ \E r \in Requests :
         \/ \E op \in Ops, sub \in Subs, who \in Subs : Serve(r, op, sub, who)
         \/ HandlerStep(r) \/ Leave(r)
    \/ Restart

OwnerSpec == OwnerInit /\ [][OwnerNext]_ownerVars

-----------------------------------------------------------------------------
(* Properties. *)

\* The types of owner.json, of the cache, the mutexes and the handlers' locals.
OwnerTypeOK ==
    /\ owner \in Files(Requests, SUBSET Subs)
    /\ cached \in Requests \cup {Nil}
    /\ rootMu \in Requests \cup {Nil}
    /\ storeMu \in [Requests -> Requests \cup {Nil}]
    /\ req \in [Requests -> RequestState]

\* owner.json can always be read, whatever requests overlap and wherever the
\* process is killed: its writers exclude each other, though a claim and a look at
\* the unclaimed owner make stores with mutexes of their own (gw_api.go:48), and
\* it never loses its last admin (gw_api.go:208).
RecordKept == Claimed => Readable /\ Admins # {}

Promised == INSTANCE Ownership WITH admins <- Admins

\* A write by a request that another write has overtaken since it was authorised.
Stale(r) == Handling(r, "rename") /\ req[r].overtaken /\ ~Handling(r, "rename")'

\* Every write of owner.json that was not overtaken is one step of Ownership: the
\* first claim wins, and an admin, added or removed, is so by an admin's hand
\* (gw_tenancy.go:93, gw_api.go:41 and :208).
OwnersImplement == [][Promised!Next \/ (\E r \in Requests : Stale(r)) \/ UNCHANGED Admins]_ownerVars
=============================================================================

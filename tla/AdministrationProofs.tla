------------------------ MODULE AdministrationProofs ------------------------
(***************************************************************************)
(* Theorems about OwnerStores, for any requests, subjects and admins, and  *)
(* about Administration, for any commands, machines and accounts: what the *)
(* commands of gateway-cli do to an owner is what requests do, and they do *)
(* not cost each other the login of their machine.                         *)
(***************************************************************************)
EXTENDS Administration, TLAPS

(* OwnerStores. *)

Opens == {"open", "write", "rename"}
Saves == {"lock"} \cup Opens

\* The owner's record is absent, or whole with an admin in it.
GoodMain == owner.main = Absent \/ \E A \in SUBSET Subs : A # {} /\ owner.main = Whole(A)

\* The temporary file is open to who writes it only, and is complete when it is renamed.
FileInv ==
    /\ GoodMain
    /\ \A r \in Requests :
         /\ owner.opened[r] = IF req[r].pc \in {"write", "rename"} THEN "tmp" ELSE "none"
         /\ req[r].pc = "write" => owner.tmp = Torn
         /\ req[r].pc = "rename" => owner.tmp = Whole(req[r].admins)

Holds(k) == k.op = "claim" /\ k.pc \in Saves \cup {"publish"}

\* Who holds which mutex; and only the store of a claimed owner is cached.
MutexInv ==
    /\ \A r \in Requests : rootMu = r <=> Holds(req[r])
    /\ \A r \in Requests : req[r].pc \in Opens => storeMu[req[r].st] = r
    /\ cached # Nil => Claimed

\* What an admin may make of the record that is stored.
Decided(A) ==
    \E sub \in Subs, who \in Subs :
        isOwnerAdmin(sub) /\ (A = Admins \cup {who} \/ A = Admins \ {who})

\* What a handler knows: it has the store that is cached, and what it decided of the
\* record still holds unless it was overtaken; or it claims, and nobody has.
Knows(k) ==
    /\ k.pc = "exists" => k.op \in {"add", "remove"}
    /\ k.pc = "again" => k.op \in {"add", "remove"} /\ Claimed
    /\ k.pc = "authorize" => k.op \in {"list", "add", "remove"} /\ k.st = cached /\ k.st # Nil
    /\ k.pc = "handle" =>
         /\ k.op \in {"add", "remove"} /\ k.st = cached /\ k.st # Nil
         /\ ~k.overtaken => isOwnerAdmin(k.sub)
    /\ k.pc = "claim" => k.op = "claim" /\ k.st # Nil
    /\ k.pc \in Saves => k.st # Nil /\ k.admins # {}
    /\ k.pc \in Saves /\ k.op = "claim" =>
         ~Claimed /\ cached = Nil /\ \E sub \in Subs : k.admins = {sub}
    /\ k.pc \in Saves /\ k.op # "claim" =>
         k.op \in {"add", "remove"} /\ k.st = cached /\ (~k.overtaken => Decided(k.admins))
    /\ k.pc = "publish" => k.op = "claim" /\ k.st # Nil /\ cached = Nil /\ Claimed

KnowInv == \A r \in Requests : Knows(req[r])

OwnerInv == OwnerTypeOK /\ FileInv /\ MutexInv /\ KnowInv

-----------------------------------------------------------------------------
\* A handler that has nothing in hand.
LEMMA Empty ==
    /\ NoRequest \in RequestState /\ NoRequest.pc = "idle" /\ NoRequest.op = "list"
    /\ Answered \in RequestState /\ Answered.pc = "done" /\ Answered.op = "list"
<1>1. AnySub \in Subs
  BY OwnerAssumption DEF AnySub
<1> QED
  BY <1>1 DEF NoRequest, Answered, Handler, RequestState, Ops

LEMMA ContentsRead ==
    /\ Absent.is = "absent" /\ Torn.is = "torn" /\ Mixed.is = "mixed"
    /\ \A A : Whole(A).is = "whole" /\ Whole(A).doc = A
BY DEF Absent, Torn, Mixed, Whole

\* Who has truncated a file writes all there is in it.
LEMMA OverTorn ==
    ASSUME NEW f, NEW w, NEW doc, NEW g, g \in Written(f, w, doc),
           Under(f, w) \in {Torn, Whole(doc)}
    PROVE  g = File(IF f.opened[w] = "main" THEN Whole(doc) ELSE f.main,
                    IF f.opened[w] = "tmp" THEN Whole(doc) ELSE f.tmp,
                    f.opened)
<1>1. Over(Under(f, w), doc) = {Whole(doc)}
  BY DEF Over
<1> QED
  BY <1>1 DEF Written

\* A claimed owner's record can be read, and has admins.
LEMMA RecordRead ==
    ASSUME GoodMain
    PROVE  /\ Claimed <=> Readable
           /\ Claimed => Admins \subseteq Subs /\ Admins # {}
           /\ ~Claimed => Admins = {}
<1>1. CASE owner.main = Absent
  BY <1>1, ContentsRead DEF Claimed, Readable, Admins
<1>2. ASSUME NEW A \in SUBSET Subs, A # {}, owner.main = Whole(A)
      PROVE  Claimed /\ Readable /\ Admins = A
  BY <1>2, ContentsRead DEF Claimed, Readable, Admins
<1> QED
  BY <1>1, <1>2 DEF GoodMain

\* Nothing is known of a handler without a request, and nothing held by it.
LEMMA EmptyKnows ==
    ASSUME NEW k, k.pc \in {"idle", "resolve", "done"}
    PROVE  Knows(k) /\ ~Holds(k) /\ k.pc \notin Opens
BY DEF Knows, Holds, Saves, Opens

\* One request changes.
LEMMA ReqChanged ==
    ASSUME OwnerTypeOK, NEW r \in Requests, NEW k \in RequestState,
           req' = [req EXCEPT ![r] = k]
    PROVE  /\ req' \in [Requests -> RequestState]
           /\ req'[r] = k
           /\ \A q \in Requests : q # r => req'[q] = req[q]
BY DEF OwnerTypeOK

\* A step that changes the locals of one handler, outside of the write.
LEMMA LocalStep ==
    ASSUME OwnerInv, NEW r \in Requests, NEW k \in RequestState,
           req' = [req EXCEPT ![r] = k],
           UNCHANGED <<owner, cached, rootMu, storeMu>>,
           req[r].pc \notin Opens, k.pc \notin Opens,
           Holds(k) <=> Holds(req[r]), Knows(k)
    PROVE  OwnerInv'
<1>1. /\ req' \in [Requests -> RequestState] /\ req'[r] = k
      /\ \A q \in Requests : q # r => req'[q] = req[q]
  BY ReqChanged DEF OwnerInv
<1>2. OwnerTypeOK'
  BY <1>1 DEF OwnerInv, OwnerTypeOK
<1>3. FileInv'
  BY <1>1 DEF OwnerInv, FileInv, GoodMain, Opens
<1>4. MutexInv'
  BY <1>1 DEF OwnerInv, MutexInv, Holds, Claimed
<1>5. KnowInv'
  <2>1. \A q \in Requests : Knows(req'[q])
    BY <1>1 DEF OwnerInv, KnowInv
  <2> QED
    BY <2>1 DEF KnowInv, Knows, Claimed, isOwnerAdmin, Decided, Admins, Readable
<1> QED
  BY <1>2, <1>3, <1>4, <1>5 DEF OwnerInv

-----------------------------------------------------------------------------
(* The actions, one after the other. *)

\* The set of a handler's locals.
LEMMA HandlerType ==
    ASSUME NEW pc \in {"resolve", "lock"}, NEW op \in Ops, NEW sub \in Subs, NEW who \in Subs,
           NEW st \in Requests \cup {Nil}, NEW A \in SUBSET Subs, NEW late \in BOOLEAN
    PROVE  Handler(pc, op, sub, who, st, A, late) \in RequestState
BY DEF Handler, RequestState

LEMMA ReqType ==
    ASSUME OwnerTypeOK, NEW r \in Requests
    PROVE  /\ req[r] \in RequestState
           /\ req[r].op \in Ops /\ req[r].sub \in Subs /\ req[r].who \in Subs
           /\ req[r].st \in Requests \cup {Nil} /\ req[r].admins \in SUBSET Subs
           /\ req[r].overtaken \in BOOLEAN
           /\ \A pc \in {"resolve", "exists", "again", "authorize", "handle", "claim", "lock",
                         "open", "write", "rename", "publish", "done"} :
                [req[r] EXCEPT !.pc = pc] \in RequestState
BY DEF OwnerTypeOK, RequestState

LEMMA ServeInv ==
    ASSUME OwnerInv, NEW r \in Requests, NEW op \in Ops, NEW sub \in Subs, NEW who \in Subs,
           Serve(r, op, sub, who)
    PROVE  OwnerInv'
<1> DEFINE k == Handler("resolve", op, sub, who, Nil, {}, FALSE)
<1>1. k \in RequestState
  BY HandlerType
<1>2. k.pc = "resolve" /\ req[r].pc = "idle"
  BY DEF Handler, Serve, Handling
<1>3. req' = [req EXCEPT ![r] = k] /\ UNCHANGED <<owner, cached, rootMu, storeMu>>
  BY DEF Serve
<1> HIDE DEF k
<1>4. Knows(k) /\ ~Holds(k) /\ k.pc \notin Opens /\ ~Holds(req[r]) /\ req[r].pc \notin Opens
  BY <1>2, EmptyKnows
<1> QED
  BY <1>1, <1>3, <1>4, LocalStep

\* A handler that holds nothing answers.
LEMMA DoneInv ==
    ASSUME OwnerInv, NEW r \in Requests, Done(r),
           UNCHANGED <<owner, cached, rootMu, storeMu>>,
           req[r].pc \notin Saves \cup {"publish"}
    PROVE  OwnerInv'
<1>1. /\ Knows(Answered) /\ ~Holds(Answered) /\ Answered.pc \notin Opens
      /\ Answered \in RequestState
  BY Empty, EmptyKnows
<1>2. ~Holds(req[r]) /\ req[r].pc \notin Opens
  BY DEF Holds, Saves, Opens
<1> QED
  BY <1>1, <1>2, LocalStep DEF Done

\* A handler that holds nothing goes on to what it knows enough for.
LEMMA GotoInv ==
    ASSUME OwnerInv, NEW r \in Requests,
           NEW pc \in {"again", "handle"}, Goto(r, pc),
           UNCHANGED <<owner, cached, rootMu, storeMu>>,
           req[r].pc \notin Saves \cup {"publish"},
           Knows([req[r] EXCEPT !.pc = pc])
    PROVE  OwnerInv'
<1> DEFINE k == [req[r] EXCEPT !.pc = pc]
<1>1. k \in RequestState /\ req' = [req EXCEPT ![r] = k]
  BY ReqType DEF OwnerInv, Goto
<1>2. k.pc = pc
  BY ReqType DEF OwnerInv, RequestState
<1>3. ~Holds(k) /\ k.pc \notin Opens /\ ~Holds(req[r]) /\ req[r].pc \notin Opens
  BY <1>2 DEF Holds, Saves, Opens
<1> QED
  BY <1>1, <1>3, LocalStep

LEMMA ExistsInv ==
    ASSUME OwnerInv, NEW r \in Requests, Exists(r)
    PROVE  OwnerInv'
<1>1. req[r].pc = "exists" /\ req[r].op \in {"add", "remove"}
  BY DEF Exists, Handling, OwnerInv, KnowInv, Knows
<1>2. req[r].pc \notin Saves \cup {"publish"} /\ UNCHANGED <<owner, cached, rootMu, storeMu>>
  BY <1>1 DEF Exists, Saves, Opens
<1>3. CASE Readable
  <2>1. Claimed
    BY <1>3 DEF Readable, Claimed, Absent
  <2>2. /\ [req[r] EXCEPT !.pc = "again"].pc = "again"
        /\ [req[r] EXCEPT !.pc = "again"].op \in {"add", "remove"}
    BY <1>1, ReqType DEF OwnerInv, RequestState
  <2>3. Knows([req[r] EXCEPT !.pc = "again"])
    BY <2>1, <2>2 DEF Knows, Saves, Opens
  <2> QED
    BY <1>2, <1>3, <2>3, GotoInv DEF Exists
<1>4. CASE ~Readable
  BY <1>2, <1>4, DoneInv DEF Exists
<1> QED
  BY <1>3, <1>4

LEMMA ListNothingInv ==
    ASSUME OwnerInv, NEW r \in Requests, ListNothing(r)
    PROVE  OwnerInv'
<1>1. req[r].pc \notin Saves \cup {"publish"} /\ UNCHANGED <<owner, cached, rootMu, storeMu>>
  BY DEF ListNothing, Handling, Saves, Opens
<1> QED
  BY <1>1, DoneInv DEF ListNothing

LEMMA AuthorizeInv ==
    ASSUME OwnerInv, NEW r \in Requests, Authorize(r)
    PROVE  OwnerInv'
<1>1. /\ req[r].pc = "authorize" /\ req[r].op \in {"list", "add", "remove"}
      /\ req[r].st = cached /\ req[r].st # Nil
  BY DEF Authorize, Handling, OwnerInv, KnowInv, Knows
<1>2. req[r].pc \notin Saves \cup {"publish"} /\ UNCHANGED <<owner, cached, rootMu, storeMu>>
  BY <1>1 DEF Authorize, Saves, Opens
<1>3. CASE req[r].op # "list" /\ isOwnerAdmin(req[r].sub)
  <2> DEFINE k == [req[r] EXCEPT !.pc = "handle"]
  <2>1. k.pc = "handle" /\ k.op = req[r].op /\ k.st = req[r].st /\ k.sub = req[r].sub
    BY ReqType DEF OwnerInv, RequestState
  <2> HIDE DEF k
  <2>2. Knows(k)
    BY <1>1, <1>3, <2>1 DEF Knows, Saves, Opens
  <2> QED
    BY <1>2, <1>3, <2>2, GotoInv DEF Authorize, k
<1>4. CASE ~(req[r].op # "list" /\ isOwnerAdmin(req[r].sub))
  BY <1>2, <1>4, DoneInv DEF Authorize
<1> QED
  BY <1>3, <1>4

LEMMA HandleInv ==
    ASSUME OwnerInv, NEW r \in Requests, Handle(r)
    PROVE  OwnerInv'
<1> DEFINE k == Saving(r, Edited(r))
<1>1. /\ req[r].pc = "handle" /\ req[r].op \in {"add", "remove"}
      /\ req[r].st = cached /\ req[r].st # Nil
      /\ ~req[r].overtaken => isOwnerAdmin(req[r].sub)
  BY DEF Handle, Handling, OwnerInv, KnowInv, Knows
<1>2. req[r].pc \notin Saves \cup {"publish"} /\ UNCHANGED <<owner, cached, rootMu, storeMu>>
  BY <1>1 DEF Handle, Saves, Opens
<1>3. CASE Readable /\ ~Refused(Edited(r))
  <2>1. Edited(r) \in SUBSET Subs /\ Edited(r) # {} /\ AnySub \in Subs
    <3>1. Admins \subseteq Subs
      BY <1>3, RecordRead DEF OwnerInv, FileInv
    <3> QED
      BY <1>3, <3>1, ReqType, OwnerAssumption DEF OwnerInv, Edited, Refused, AnySub
  <2>2. k \in RequestState
    BY <2>1, ReqType, HandlerType DEF OwnerInv, Saving
  <2>3. /\ k.pc = "lock" /\ k.op = req[r].op /\ k.st = req[r].st
        /\ k.admins = Edited(r) /\ k.overtaken = req[r].overtaken
    BY DEF Saving, Handler
  <2>4. req' = [req EXCEPT ![r] = k]
    BY <1>3 DEF Handle
  <2> HIDE DEF k
  <2>5. ~k.overtaken => Decided(k.admins)
    BY <1>1, <2>3, ReqType DEF OwnerInv, Decided, Edited
  <2>6. Knows(k) /\ ~Holds(k) /\ k.pc \notin Opens /\ ~Holds(req[r]) /\ req[r].pc \notin Opens
    BY <1>1, <2>1, <2>3, <2>5 DEF Knows, Holds, Saves, Opens
  <2> QED
    BY <1>2, <2>2, <2>4, <2>6, LocalStep
<1>4. CASE ~(Readable /\ ~Refused(Edited(r)))
  BY <1>2, <1>4, DoneInv DEF Handle
<1> QED
  BY <1>3, <1>4

LEMMA LeaveInv ==
    ASSUME OwnerInv, NEW r \in Requests, Leave(r)
    PROVE  OwnerInv'
<1>1. /\ Knows(NoRequest) /\ ~Holds(NoRequest) /\ NoRequest.pc \notin Opens
      /\ NoRequest \in RequestState
  BY Empty, EmptyKnows
<1>2. ~Holds(req[r]) /\ req[r].pc \notin Opens
  BY DEF Leave, Handling, Holds, Saves, Opens
<1> QED
  BY <1>1, <1>2, LocalStep DEF Leave

\* A look at the owner caches a store if there is none, and nobody then has a cached
\* one or claims.
LEMMA LookStep ==
    ASSUME OwnerInv, NEW r \in Requests, rootMu = Nil, cached' = OwnerCached(r),
           UNCHANGED <<owner, rootMu, storeMu>>,
           NEW k \in RequestState, req' = [req EXCEPT ![r] = k],
           req[r].pc \notin Saves \cup {"publish"}, k.pc \notin Saves \cup {"publish"},
           Knows(req[r])'
    PROVE  OwnerInv'
<1>1. /\ req' \in [Requests -> RequestState] /\ req'[r] = k
      /\ \A q \in Requests : q # r => req'[q] = req[q]
  BY ReqChanged DEF OwnerInv
<1>2. cached' \in Requests \cup {Nil} /\ (cached # Nil => cached' = cached)
      /\ (cached' # Nil => Claimed)
  BY DEF OwnerInv, OwnerTypeOK, OwnerCached, Found, MutexInv
<1>3. OwnerTypeOK'
  BY <1>1, <1>2 DEF OwnerInv, OwnerTypeOK
<1>4. FileInv'
  BY <1>1 DEF OwnerInv, FileInv, GoodMain, Saves, Opens
<1>5. MutexInv'
  BY <1>1, <1>2 DEF OwnerInv, MutexInv, Holds, Claimed, Saves, Opens
<1>6. \A q \in Requests : ~Holds(req[q])
  BY OwnerAssumption DEF OwnerInv, MutexInv
<1>7. KnowInv'
  <2>1. \A q \in Requests : q # r => Knows(req[q])'
    <3> SUFFICES ASSUME NEW q \in Requests, q # r PROVE Knows(req[q])'
      OBVIOUS
    <3>1. req'[q] = req[q] /\ Knows(req[q]) /\ ~Holds(req[q])
      BY <1>1, <1>6 DEF OwnerInv, KnowInv
    <3> QED
      BY <3>1, <1>2
      DEF Knows, Holds, Claimed, isOwnerAdmin, Decided, Admins, Readable, Saves, Opens
  <2> QED
    BY <2>1 DEF KnowInv
<1> QED
  BY <1>3, <1>4, <1>5, <1>7 DEF OwnerInv

LEMMA ResolveInv ==
    ASSUME OwnerInv, NEW r \in Requests, Resolve(r)
    PROVE  OwnerInv'
<1> DEFINE next == CASE req[r].op = "claim" -> "claim"
                     [] req[r].op = "list" -> "authorize"
                     [] OTHER -> "exists"
           k == [req[r] EXCEPT !.st = Found(r), !.pc = next]
<1>1. /\ Found(r) \in Requests /\ Found(r) # Nil
      /\ Claimed => cached' = Found(r)
  BY OwnerAssumption DEF Resolve, OwnerInv, OwnerTypeOK, Found, OwnerCached
<1>2. /\ req[r].op = "claim" => next = "claim"
      /\ req[r].op = "list" => next = "authorize"
      /\ req[r].op \in {"add", "remove"} => next = "exists"
      /\ req[r].op \in {"claim", "list", "add", "remove"}
  BY ReqType DEF OwnerInv, Ops
<1>3. req[r] \in RequestState /\ req[r].pc = "resolve"
      /\ (req[r].op = "list" => Claimed)
  BY ReqType DEF OwnerInv, Resolve, Handling
<1>4. req' = [req EXCEPT ![r] = k] /\ cached' = OwnerCached(r) /\ rootMu = Nil
      /\ UNCHANGED <<owner, rootMu, storeMu>>
  BY <1>3 DEF Resolve, OwnerInv, OwnerTypeOK
<1> HIDE DEF next
<1>5. k \in RequestState /\ k.pc = next /\ k.op = req[r].op /\ k.st = Found(r)
  BY <1>1, <1>2, <1>3 DEF RequestState
<1> HIDE DEF k
<1>6. req'[r] = k
  BY <1>4, <1>5, ReqChanged DEF OwnerInv
<1>7. Knows(req[r])'
  BY <1>1, <1>2, <1>3, <1>4, <1>5, <1>6 DEF Knows, Saves, Opens, Claimed
<1>8. req[r].pc \notin Saves \cup {"publish"} /\ k.pc \notin Saves \cup {"publish"}
  BY <1>2, <1>3, <1>5 DEF Saves, Opens
<1> QED
  BY <1>4, <1>5, <1>7, <1>8, LookStep

LEMMA ResolveAgainInv ==
    ASSUME OwnerInv, NEW r \in Requests, ResolveAgain(r)
    PROVE  OwnerInv'
<1> DEFINE k == [req[r] EXCEPT !.st = Found(r), !.pc = "authorize"]
<1>1. req[r].pc = "again" /\ req[r].op \in {"add", "remove"} /\ Claimed
  BY DEF ResolveAgain, Handling, OwnerInv, KnowInv, Knows
<1>2. Found(r) \in Requests /\ Found(r) # Nil /\ cached' = Found(r)
  BY <1>1, OwnerAssumption DEF ResolveAgain, OwnerInv, OwnerTypeOK, Found, OwnerCached
<1>3. req[r] \in RequestState
  BY ReqType DEF OwnerInv
<1>4. req' = [req EXCEPT ![r] = k] /\ cached' = OwnerCached(r) /\ rootMu = Nil
      /\ UNCHANGED <<owner, rootMu, storeMu>>
  BY <1>3 DEF ResolveAgain, OwnerInv, OwnerTypeOK
<1>5. k \in RequestState /\ k.pc = "authorize" /\ k.op = req[r].op /\ k.st = Found(r)
  BY <1>2, <1>3 DEF RequestState
<1> HIDE DEF k
<1>6. req'[r] = k
  BY <1>4, <1>5, ReqChanged DEF OwnerInv
<1>7. Knows(req[r])'
  BY <1>1, <1>2, <1>5, <1>6 DEF Knows, Saves, Opens
<1>8. req[r].pc \notin Saves \cup {"publish"} /\ k.pc \notin Saves \cup {"publish"}
  BY <1>1, <1>5 DEF Saves, Opens
<1> QED
  BY <1>4, <1>5, <1>7, <1>8, LookStep

-----------------------------------------------------------------------------
(* Claim and SaveRecord. *)

LEMMA TakeRootMuInv ==
    ASSUME OwnerInv, NEW r \in Requests, TakeRootMu(r)
    PROVE  OwnerInv'
<1> DEFINE k == Saving(r, {req[r].sub})
<1>1. req[r].pc = "claim" /\ req[r].op = "claim" /\ req[r].st # Nil /\ rootMu = Nil
  BY DEF TakeRootMu, Handling, OwnerInv, KnowInv, Knows
<1>2. CASE Claimed
  BY <1>1, <1>2, DoneInv DEF TakeRootMu, Saves, Opens
<1>3. CASE ~Claimed
  <2>1. k \in RequestState
    BY ReqType, HandlerType, OwnerAssumption DEF OwnerInv, Saving, AnySub
  <2>2. k.pc = "lock" /\ k.op = "claim" /\ k.st = req[r].st /\ k.admins = {req[r].sub}
    BY <1>1 DEF Saving, Handler
  <2>3. req' = [req EXCEPT ![r] = k] /\ rootMu' = r /\ UNCHANGED <<owner, cached, storeMu>>
    BY <1>3 DEF TakeRootMu
  <2>4. cached = Nil /\ req[r].sub \in Subs
    BY <1>3, ReqType DEF OwnerInv, MutexInv
  <2> HIDE DEF k
  <2>5. /\ req' \in [Requests -> RequestState] /\ req'[r] = k
        /\ \A q \in Requests : q # r => req'[q] = req[q]
    BY <2>1, <2>3, ReqChanged DEF OwnerInv
  <2>6. OwnerTypeOK'
    BY <2>3, <2>5 DEF OwnerInv, OwnerTypeOK
  <2>7. FileInv'
    BY <1>1, <2>2, <2>3, <2>5 DEF OwnerInv, FileInv, GoodMain
  <2>8. MutexInv'
    BY <1>1, <2>2, <2>3, <2>4, <2>5, OwnerAssumption
    DEF OwnerInv, MutexInv, Holds, Claimed, Saves, Opens
  <2>9. KnowInv'
    <3>1. Knows(req[r])'
      BY <1>3, <1>1, <2>2, <2>3, <2>4, <2>5 DEF Knows, Saves, Opens, Claimed
    <3>2. \A q \in Requests : q # r => Knows(req[q])'
      BY <2>3, <2>5 DEF OwnerInv, KnowInv, Knows, Claimed, isOwnerAdmin, Decided, Admins, Readable
    <3> QED
      BY <3>1, <3>2 DEF KnowInv
  <2> QED
    BY <2>6, <2>7, <2>8, <2>9 DEF OwnerInv
<1> QED
  BY <1>2, <1>3

LEMMA PublishInv ==
    ASSUME OwnerInv, NEW r \in Requests, Publish(r)
    PROVE  OwnerInv'
<1>1. /\ req[r].pc = "publish" /\ req[r].op = "claim" /\ req[r].st \in Requests
      /\ cached = Nil /\ Claimed /\ rootMu = r
  BY ReqType DEF Publish, Handling, OwnerInv, KnowInv, Knows, MutexInv, Holds
<1>2. /\ cached' = req[r].st /\ rootMu' = Nil /\ req' = [req EXCEPT ![r] = Answered]
      /\ UNCHANGED <<owner, storeMu>>
  BY DEF Publish, Done
<1>3. /\ req' \in [Requests -> RequestState] /\ req'[r] = Answered
      /\ \A q \in Requests : q # r => req'[q] = req[q]
  BY <1>2, Empty, ReqChanged DEF OwnerInv
<1>4. OwnerTypeOK'
  BY <1>1, <1>2, <1>3 DEF OwnerInv, OwnerTypeOK
<1>5. FileInv'
  BY <1>1, <1>2, <1>3, Empty DEF OwnerInv, FileInv, GoodMain
<1>6. MutexInv'
  BY <1>1, <1>2, <1>3, Empty, OwnerAssumption
  DEF OwnerInv, MutexInv, Holds, Claimed, Saves, Opens
<1>7. KnowInv'
  <2>1. Knows(req[r])'
    BY <1>3, Empty DEF Knows, Saves, Opens
  <2>2. ASSUME NEW q \in Requests, q # r PROVE Knows(req[q])'
    <3>1. req'[q] = req[q] /\ Knows(req[q]) /\ ~Holds(req[q])
      BY <1>1, <1>3, <2>2 DEF OwnerInv, KnowInv, MutexInv
    <3> QED
      BY <1>1, <1>2, <3>1
      DEF Knows, Holds, Claimed, isOwnerAdmin, Decided, Admins, Readable, Saves, Opens
  <2> QED
    BY <2>1, <2>2 DEF KnowInv
<1> QED
  BY <1>4, <1>5, <1>6, <1>7 DEF OwnerInv

\* Those who write have the same store's mutex, or root.mu.
LEMMA OneWriter ==
    ASSUME OwnerInv, NEW r \in Requests, NEW q \in Requests,
           req[r].pc \in Opens, req[q].pc \in Opens
    PROVE  r = q
<1>1. storeMu[req[r].st] = r /\ storeMu[req[q].st] = q
  BY DEF OwnerInv, MutexInv
<1>2. /\ req[r].op = "claim" => cached = Nil /\ rootMu = r
      /\ req[r].op # "claim" => cached # Nil /\ req[r].st = cached
  BY DEF OwnerInv, KnowInv, Knows, MutexInv, Holds, Saves
<1>3. /\ req[q].op = "claim" => cached = Nil /\ rootMu = q
      /\ req[q].op # "claim" => cached # Nil /\ req[q].st = cached
  BY DEF OwnerInv, KnowInv, Knows, MutexInv, Holds, Saves
<1> QED
  BY <1>1, <1>2, <1>3

\* Only what it does next changes.
LEMMA Moves ==
    ASSUME NEW j \in RequestState, NEW pc \in Opens \cup {"publish"}
    PROVE  LET k == [j EXCEPT !.pc = pc] IN
           /\ k \in RequestState /\ k.pc = pc /\ k.op = j.op /\ k.st = j.st
           /\ k.admins = j.admins /\ k.overtaken = j.overtaken
BY DEF RequestState, Opens

LEMMA LockInv ==
    ASSUME OwnerInv, NEW r \in Requests, Lock(r)
    PROVE  OwnerInv'
<1> DEFINE k == [req[r] EXCEPT !.pc = "open"]
<1>1. req[r].pc = "lock" /\ storeMu[req[r].st] = Nil /\ req[r].st \in Requests
  BY ReqType DEF Lock, Handling, OwnerInv, KnowInv, Knows, Saves
<1>2. /\ storeMu' = [storeMu EXCEPT ![req[r].st] = r] /\ req' = [req EXCEPT ![r] = k]
      /\ UNCHANGED <<owner, cached, rootMu>>
  BY DEF Lock, Goto
<1>3. /\ k \in RequestState /\ k.pc = "open" /\ k.op = req[r].op /\ k.st = req[r].st
      /\ k.admins = req[r].admins /\ k.overtaken = req[r].overtaken
  <2>1. req[r] \in RequestState /\ "open" \in Opens \cup {"publish"}
    BY ReqType DEF OwnerInv, Opens
  <2> QED
    BY <2>1, Moves
<1> HIDE DEF k
<1>4. /\ req' \in [Requests -> RequestState] /\ req'[r] = k
      /\ \A q \in Requests : q # r => req'[q] = req[q]
  BY <1>2, <1>3, ReqChanged DEF OwnerInv
<1>5. /\ storeMu' \in [Requests -> Requests \cup {Nil}] /\ storeMu'[req[r].st] = r
      /\ \A s \in Requests : s # req[r].st => storeMu'[s] = storeMu[s]
  BY <1>1, <1>2 DEF OwnerInv, OwnerTypeOK
<1>6. OwnerTypeOK'
  BY <1>2, <1>4, <1>5 DEF OwnerInv, OwnerTypeOK
<1>7. FileInv'
  BY <1>1, <1>2, <1>3, <1>4 DEF OwnerInv, FileInv, GoodMain
<1>8. MutexInv'
  <2>1. \A q \in Requests : (rootMu = q <=> Holds(req[q]))'
    BY <1>1, <1>2, <1>3, <1>4 DEF OwnerInv, MutexInv, Holds, Saves, Opens
  <2>2. ASSUME NEW q \in Requests, q # r, req[q].pc \in Opens
        PROVE  storeMu'[req[q].st] = q
    <3>1. storeMu[req[q].st] = q /\ req[q].st \in Requests
      BY <2>2, ReqType DEF OwnerInv, MutexInv, KnowInv, Knows, Saves
    <3> QED
      BY <1>1, <1>5, <3>1, OwnerAssumption
  <2> QED
    BY <1>2, <1>3, <1>4, <1>5, <2>1, <2>2 DEF OwnerInv, MutexInv, Claimed
<1>9. KnowInv'
  <2>1. Knows(k)
    BY <1>1, <1>3 DEF OwnerInv, KnowInv, Knows, Saves, Opens
  <2>2. \A q \in Requests : Knows(req'[q])
    BY <1>4, <2>1 DEF OwnerInv, KnowInv
  <2> QED
    BY <1>2, <2>2 DEF KnowInv, Knows, Claimed, isOwnerAdmin, Decided, Admins, Readable
<1> QED
  BY <1>6, <1>7, <1>8, <1>9 DEF OwnerInv

\* The types of the file and of what is under its names.
LEMMA FilesType ==
    ASSUME NEW f \in Files(Requests, SUBSET Subs)
    PROVE  /\ f.main \in Contents(SUBSET Subs) /\ f.tmp \in Contents(SUBSET Subs)
           /\ f.opened \in [Requests -> {"none", "tmp", "main", "gone"}]
BY DEF Files

\* A step of the write up to the rename: the record stays, and so do the caches.
LEMMA WriteStep ==
    ASSUME OwnerInv, NEW r \in Requests, NEW pc \in {"write", "rename"},
           req[r].pc \in Opens, Goto(r, pc), UNCHANGED <<cached, rootMu, storeMu>>,
           owner' \in Files(Requests, SUBSET Subs), owner'.main = owner.main,
           owner'.opened[r] = "tmp",
           \A q \in Requests : q # r => owner'.opened[q] = owner.opened[q],
           pc = "write" => owner'.tmp = Torn,
           pc = "rename" => owner'.tmp = Whole(req[r].admins)
    PROVE  OwnerInv'
<1> DEFINE k == [req[r] EXCEPT !.pc = pc]
<1>1. /\ k \in RequestState /\ k.pc = pc /\ k.op = req[r].op /\ k.st = req[r].st
      /\ k.admins = req[r].admins /\ k.overtaken = req[r].overtaken
  <2>1. req[r] \in RequestState /\ pc \in Opens \cup {"publish"}
    BY ReqType DEF OwnerInv, Opens
  <2> QED
    BY <2>1, Moves
<1>2. req' = [req EXCEPT ![r] = k]
  BY DEF Goto
<1> HIDE DEF k
<1>3. /\ req' \in [Requests -> RequestState] /\ req'[r] = k
      /\ \A q \in Requests : q # r => req'[q] = req[q]
  BY <1>1, <1>2, ReqChanged DEF OwnerInv
<1>4. OwnerTypeOK'
  BY <1>3 DEF OwnerInv, OwnerTypeOK
<1>5. FileInv'
  <2>1. GoodMain'
    BY DEF OwnerInv, FileInv, GoodMain
  <2>2. ASSUME NEW q \in Requests, q # r
        PROVE  req'[q] = req[q] /\ req[q].pc \notin Opens /\ owner'.opened[q] = "none"
    BY <1>3, <2>2, OneWriter DEF OwnerInv, FileInv, Opens
  <2> QED
    BY <1>1, <1>3, <2>1, <2>2 DEF FileInv, Opens
<1>6. MutexInv'
  BY <1>1, <1>3 DEF OwnerInv, MutexInv, Holds, Claimed, Saves, Opens
<1>7. KnowInv'
  <2>1. Knows(k)
    <3>1. Knows(req[r]) /\ req[r].pc \in Saves /\ pc \in Saves
      BY DEF OwnerInv, KnowInv, Saves, Opens
    <3> QED
      BY <1>1, <3>1 DEF Knows, Saves, Opens
  <2>2. \A q \in Requests : Knows(req'[q])
    BY <1>3, <2>1 DEF OwnerInv, KnowInv
  <2> QED
    BY <2>2 DEF KnowInv, Knows, Claimed, isOwnerAdmin, Decided, Admins, Readable
<1> QED
  BY <1>4, <1>5, <1>6, <1>7 DEF OwnerInv

LEMMA OpenInv ==
    ASSUME OwnerInv, NEW r \in Requests, Open(r)
    PROVE  OwnerInv'
<1>1. req[r].pc \in Opens /\ Goto(r, "write") /\ UNCHANGED <<cached, rootMu, storeMu>>
  BY DEF Open, Handling, Opens
<1> DEFINE opened == [owner.opened EXCEPT ![r] = "tmp"]
<1>2. owner' = File(owner.main, Torn, opened)
  BY DEF Open, Truncated
<1>3. Torn \in Contents(SUBSET Subs)
  BY DEF Contents
<1>4. /\ owner' \in Files(Requests, SUBSET Subs) /\ owner'.main = owner.main
      /\ owner'.tmp = Torn /\ owner'.opened[r] = "tmp"
      /\ \A q \in Requests : q # r => owner'.opened[q] = owner.opened[q]
  <2>1. owner \in Files(Requests, SUBSET Subs)
    BY DEF OwnerInv, OwnerTypeOK
  <2>2. opened \in [Requests -> {"none", "tmp", "main", "gone"}]
    BY <2>1, FilesType
  <2>3. opened[r] = "tmp" /\ \A q \in Requests : q # r => opened[q] = owner.opened[q]
    BY <2>1, FilesType
  <2>4. owner.main \in Contents(SUBSET Subs)
    BY <2>1, FilesType
  <2> HIDE DEF opened
  <2>5. owner' \in Files(Requests, SUBSET Subs) /\ owner'.main = owner.main
        /\ owner'.tmp = Torn /\ owner'.opened = opened
    BY <1>2, <1>3, <2>2, <2>4 DEF Files, File
  <2> QED
    BY <2>3, <2>5
<1> QED
  BY <1>1, <1>4, WriteStep

LEMMA WriteInv ==
    ASSUME OwnerInv, NEW r \in Requests, Write(r)
    PROVE  OwnerInv'
<1>1. /\ req[r].pc \in Opens /\ Goto(r, "rename") /\ UNCHANGED <<cached, rootMu, storeMu>>
      /\ owner.opened[r] = "tmp" /\ owner.tmp = Torn
  BY DEF Write, Handling, Opens, OwnerInv, FileInv
<1>2. owner' = File(owner.main, Whole(req[r].admins), owner.opened)
  <2>1. owner' \in Written(owner, r, req[r].admins) /\ Under(owner, r) = Torn
    BY <1>1 DEF Write, Under
  <2> QED
    BY <1>1, <2>1, OverTorn
<1>3. Whole(req[r].admins) \in Contents(SUBSET Subs)
  BY ReqType DEF OwnerInv, Contents
<1>4. owner \in Files(Requests, SUBSET Subs)
  BY DEF OwnerInv, OwnerTypeOK
<1>5. /\ owner' \in Files(Requests, SUBSET Subs) /\ owner'.main = owner.main
      /\ owner'.opened = owner.opened /\ owner'.tmp = Whole(req[r].admins)
  <2>1. /\ owner.main \in Contents(SUBSET Subs)
        /\ owner.opened \in [Requests -> {"none", "tmp", "main", "gone"}]
    BY <1>4, FilesType
  <2> QED
    BY <1>2, <1>3, <2>1 DEF Files, File
<1> QED
  BY <1>1, <1>5, WriteStep

\* The record is replaced, and the requests authorised by it have been overtaken.
LEMMA RenameInv ==
    ASSUME OwnerInv, NEW r \in Requests, Rename(r)
    PROVE  OwnerInv'
<1> DEFINE late(q) == [req[q] EXCEPT !.overtaken = @ \/ Authorised(q)]
           A == req[r].admins
<1>1. /\ req[r].pc = "rename" /\ owner.tmp = Whole(A) /\ owner.opened[r] = "tmp"
      /\ A \in SUBSET Subs /\ A # {}
  BY ReqType DEF Rename, Handling, OwnerInv, FileInv, KnowInv, Knows, Saves, Opens
<1>2. \A q \in Requests : q # r => req[q].pc \notin Opens /\ owner.opened[q] = "none"
  BY <1>1, OneWriter DEF OwnerInv, FileInv, Opens
<1>3. /\ owner'.main = Whole(A) /\ owner' \in Files(Requests, SUBSET Subs)
      /\ \A q \in Requests : owner'.opened[q] = "none"
  <2> DEFINE opened == [v \in Requests |->
                          CASE v = r -> "none"
                            [] v # r /\ owner.opened[v] = "tmp" -> "main"
                            [] v # r /\ owner.opened[v] = "main" -> "gone"
                            [] OTHER -> owner.opened[v]]
  <2>1. owner \in Files(Requests, SUBSET Subs)
    BY DEF OwnerInv, OwnerTypeOK
  <2>2. DOMAIN owner.opened = Requests
    BY <2>1, FilesType
  <2>3. owner' = File(owner.tmp, Absent, opened)
    BY <2>2 DEF Rename, Renamed
  <2>4. \A q \in Requests : opened[q] = "none"
    BY <1>2
  <2>5. opened \in [Requests -> {"none", "tmp", "main", "gone"}]
    BY <2>4
  <2>6. Absent \in Contents(SUBSET Subs) /\ owner.tmp \in Contents(SUBSET Subs)
    BY <2>1, FilesType DEF Contents
  <2> HIDE DEF opened
  <2> QED
    BY <1>1, <2>3, <2>4, <2>5, <2>6 DEF Files, File
<1>4. Claimed'
  BY <1>3, ContentsRead DEF Claimed
<1>5. \A q \in Requests :
        /\ late(q) \in RequestState /\ late(q).pc = req[q].pc /\ late(q).op = req[q].op
        /\ late(q).st = req[q].st /\ late(q).admins = req[q].admins
        /\ late(q).overtaken = (req[q].overtaken \/ Authorised(q))
  <2> SUFFICES ASSUME NEW q \in Requests
               PROVE  /\ late(q) \in RequestState /\ late(q).pc = req[q].pc
                      /\ late(q).op = req[q].op
                      /\ late(q).st = req[q].st /\ late(q).admins = req[q].admins
                      /\ late(q).overtaken = (req[q].overtaken \/ Authorised(q))
    OBVIOUS
  <2>1. req[q] \in RequestState /\ (req[q].overtaken \/ Authorised(q)) \in BOOLEAN
    BY ReqType DEF OwnerInv, Authorised
  <2> QED
    BY <2>1 DEF RequestState
<1>6. /\ \A q \in Requests : q # r => req'[q] = late(q)
      /\ req[r].op = "claim" => req'[r] = [req[r] EXCEPT !.pc = "publish"]
      /\ req[r].op # "claim" => req'[r] = Answered
      /\ req' = [q \in Requests |-> req'[q]]
      /\ storeMu' = StoreMuFreed(r) /\ UNCHANGED <<cached, rootMu>>
  BY DEF Rename
<1> HIDE DEF late
<1>7. /\ req[r].op = "claim" =>
           /\ req'[r] \in RequestState /\ req'[r].pc = "publish" /\ req'[r].op = "claim"
           /\ req'[r].st = req[r].st
      /\ req[r].op # "claim" => req'[r] \in RequestState /\ req'[r].pc = "done"
  <2>1. req[r] \in RequestState /\ "publish" \in Opens \cup {"publish"}
    BY ReqType DEF OwnerInv
  <2> DEFINE k == [req[r] EXCEPT !.pc = "publish"]
  <2>2. k \in RequestState /\ k.pc = "publish" /\ k.op = req[r].op /\ k.st = req[r].st
    BY <2>1, Moves
  <2>3. req[r].op = "claim" => req'[r] = k
    BY <1>6
  <2> HIDE DEF k
  <2> QED
    BY <1>6, <2>2, <2>3, Empty
<1>8. OwnerTypeOK'
  <2>1. req' \in [Requests -> RequestState]
    BY <1>5, <1>6, <1>7
  <2>2. storeMu' \in [Requests -> Requests \cup {Nil}]
    BY <1>6 DEF StoreMuFreed, OwnerInv, OwnerTypeOK
  <2> QED
    BY <1>3, <1>6, <2>1, <2>2 DEF OwnerInv, OwnerTypeOK
<1>9. FileInv'
  <2>1. GoodMain'
    BY <1>1, <1>3 DEF GoodMain
  <2>2. \A q \in Requests : req'[q].pc \notin Opens
    BY <1>2, <1>5, <1>6, <1>7 DEF Opens
  <2> QED
    BY <1>3, <2>1, <2>2 DEF FileInv, Opens
<1>10. MutexInv'
  <2>1. \A q \in Requests : req'[q].pc \notin Opens
    BY <1>2, <1>5, <1>6, <1>7 DEF Opens
  <2>2. \A q \in Requests : Holds(req'[q]) <=> Holds(req[q])
    BY <1>1, <1>5, <1>6, <1>7 DEF Holds, Saves, Opens
  <2> QED
    BY <1>4, <1>6, <2>1, <2>2 DEF OwnerInv, MutexInv, Holds
<1>11. KnowInv'
  <2>1. Knows(req[r])'
    BY <1>1, <1>4, <1>6, <1>7 DEF OwnerInv, KnowInv, Knows, Saves, Opens
  <2>2. ASSUME NEW q \in Requests, q # r PROVE Knows(req[q])'
    <3>1. /\ req'[q].pc = req[q].pc /\ req'[q].op = req[q].op /\ req'[q].st = req[q].st
          /\ req'[q].admins = req[q].admins
          /\ req[q].pc \in {"handle"} \cup Saves /\ req[q].op # "claim" => req'[q].overtaken
      BY <1>5, <1>6, <2>2 DEF Authorised, Saves, Opens
    <3>2. ~(req[q].pc \in Saves \cup {"publish"} /\ req[q].op = "claim")
      <4> SUFFICES ASSUME Holds(req[q]) PROVE FALSE
        BY DEF Holds
      <4>1. rootMu = q /\ cached = Nil
        BY DEF OwnerInv, MutexInv, KnowInv, Knows, Holds
      <4>2. ~Holds(req[r])
        BY <2>2, <4>1 DEF OwnerInv, MutexInv
      <4> QED
        BY <1>1, <4>1, <4>2 DEF OwnerInv, KnowInv, Knows, Holds, Saves, Opens
    <3>3. Knows(req[q])
      BY DEF OwnerInv, KnowInv
    <3> QED
      BY <1>4, <1>6, <3>1, <3>2, <3>3 DEF Knows, Saves
  <2> QED
    BY <2>1, <2>2 DEF KnowInv
<1> QED
  BY <1>8, <1>9, <1>10, <1>11 DEF OwnerInv

LEMMA SaveRecordFailsInv ==
    ASSUME OwnerInv, NEW r \in Requests, SaveRecordFails(r)
    PROVE  OwnerInv'
<1>1. /\ req[r].pc \in Opens
      /\ req' = [req EXCEPT ![r] = Answered] /\ owner' = Closed(owner, r)
      /\ storeMu' = StoreMuFreed(r) /\ rootMu' = RootMuFreed(r) /\ cached' = cached
  BY DEF SaveRecordFails, Done, Handling, Opens
<1>2. \A q \in Requests : q # r => req[q].pc \notin Opens /\ owner.opened[q] = "none"
  BY <1>1, OneWriter DEF OwnerInv, FileInv, Opens
<1>3. /\ req' \in [Requests -> RequestState] /\ req'[r] = Answered
      /\ \A q \in Requests : q # r => req'[q] = req[q]
  BY <1>1, Empty, ReqChanged DEF OwnerInv
<1>4. /\ owner'.main = owner.main /\ owner' \in Files(Requests, SUBSET Subs)
      /\ \A q \in Requests : owner'.opened[q] = "none"
  <2> DEFINE opened == [owner.opened EXCEPT ![r] = "none"]
  <2>1. owner \in Files(Requests, SUBSET Subs)
    BY DEF OwnerInv, OwnerTypeOK
  <2>2. /\ owner.main \in Contents(SUBSET Subs) /\ owner.tmp \in Contents(SUBSET Subs)
        /\ owner.opened \in [Requests -> {"none", "tmp", "main", "gone"}]
    BY <2>1, FilesType
  <2>3. owner' = File(owner.main, owner.tmp, opened)
    BY <1>1 DEF Closed
  <2>4. opened \in [Requests -> {"none", "tmp", "main", "gone"}]
        /\ \A q \in Requests : opened[q] = "none"
    BY <1>2, <2>2
  <2> HIDE DEF opened
  <2> QED
    BY <2>2, <2>3, <2>4 DEF Files, File
<1>5. OwnerTypeOK'
  BY <1>1, <1>3, <1>4 DEF OwnerInv, OwnerTypeOK, StoreMuFreed, RootMuFreed
<1>6. FileInv'
  <2>1. GoodMain'
    BY <1>4 DEF OwnerInv, FileInv, GoodMain
  <2>2. \A q \in Requests : req'[q].pc \notin Opens
    BY <1>2, <1>3, Empty DEF Opens
  <2> QED
    BY <1>4, <2>1, <2>2 DEF FileInv, Opens
<1>7. MutexInv'
  <2>1. \A q \in Requests : req'[q].pc \notin Opens
    BY <1>2, <1>3, Empty DEF Opens
  <2>2. \A q \in Requests : Holds(req'[q]) <=> (q # r /\ Holds(req[q]))
    BY <1>3, Empty DEF Holds
  <2>3. \A q \in Requests : rootMu' = q <=> Holds(req'[q])
    BY <1>1, <2>2, OwnerAssumption DEF OwnerInv, MutexInv, RootMuFreed
  <2> QED
    BY <1>1, <1>4, <2>1, <2>3 DEF OwnerInv, MutexInv, Claimed, Holds
<1>8. KnowInv'
  <2>1. Knows(Answered)
    BY Empty, EmptyKnows
  <2>2. \A q \in Requests : Knows(req'[q])
    BY <1>3, <2>1 DEF OwnerInv, KnowInv
  <2> QED
    BY <1>1, <1>4, <2>2 DEF KnowInv, Knows, Claimed, isOwnerAdmin, Decided, Admins, Readable
<1> QED
  BY <1>5, <1>6, <1>7, <1>8 DEF OwnerInv

LEMMA RestartInv ==
    ASSUME OwnerInv, Restart
    PROVE  OwnerInv'
<1>1. /\ owner' = File(owner.main, owner.tmp, [w \in Requests |-> "none"])
      /\ cached' = Nil /\ rootMu' = Nil /\ storeMu' = [s \in Requests |-> Nil]
      /\ req' = [r \in Requests |-> IF req[r].pc = "idle" THEN NoRequest ELSE Answered]
  BY DEF Restart, AtRest, Handling
<1>2. \A r \in Requests : req'[r] \in RequestState /\ req'[r].pc \in {"idle", "done"}
  BY <1>1, Empty
<1>3. /\ owner' \in Files(Requests, SUBSET Subs) /\ owner'.main = owner.main
      /\ \A q \in Requests : owner'.opened[q] = "none"
  <2>1. owner.main \in Contents(SUBSET Subs) /\ owner.tmp \in Contents(SUBSET Subs)
    BY FilesType DEF OwnerInv, OwnerTypeOK
  <2> QED
    BY <1>1, <2>1 DEF Files, File
<1>4. OwnerTypeOK'
  <2>1. req' \in [Requests -> RequestState]
    BY <1>1, <1>2
  <2> QED
    BY <1>1, <1>3, <2>1 DEF OwnerTypeOK
<1>5. FileInv'
  BY <1>2, <1>3 DEF OwnerInv, FileInv, GoodMain
<1>6. MutexInv'
  BY <1>1, <1>2, OwnerAssumption DEF MutexInv, Holds, Saves, Opens
<1>7. KnowInv'
  BY <1>2 DEF KnowInv, Knows, Saves, Opens
<1> QED
  BY <1>4, <1>5, <1>6, <1>7 DEF OwnerInv

LEMMA OwnerInitInv == OwnerInit => OwnerInv
<1> SUFFICES ASSUME OwnerInit PROVE OwnerInv
  OBVIOUS
<1>1. PICK main \in {Absent} \cup {Whole(A) : A \in (SUBSET Subs) \ {{}}} :
         owner = File(main, Absent, [w \in Requests |-> "none"])
  BY DEF OwnerInit, AtRest
<1>2. /\ cached = Nil /\ rootMu = Nil /\ storeMu = [s \in Requests |-> Nil]
      /\ req = [r \in Requests |-> NoRequest]
  BY DEF OwnerInit
<1>3. /\ owner \in Files(Requests, SUBSET Subs) /\ owner.main = main
      /\ \A q \in Requests : owner.opened[q] = "none"
  <2>1. main \in Contents(SUBSET Subs) /\ Absent \in Contents(SUBSET Subs)
    BY DEF Contents
  <2> QED
    BY <1>1, <2>1 DEF Files, File
<1>4. OwnerTypeOK
  BY <1>2, <1>3, Empty DEF OwnerTypeOK
<1>5. FileInv
  BY <1>2, <1>3, Empty DEF FileInv, GoodMain
<1>6. MutexInv
  BY <1>2, Empty, OwnerAssumption DEF MutexInv, Holds, Saves, Opens
<1>7. KnowInv
  BY <1>2, Empty, EmptyKnows DEF KnowInv
<1> QED
  BY <1>4, <1>5, <1>6, <1>7 DEF OwnerInv

LEMMA OwnerStep == OwnerInv /\ [OwnerNext]_ownerVars => OwnerInv'
<1> SUFFICES ASSUME OwnerInv, [OwnerNext]_ownerVars PROVE OwnerInv'
  OBVIOUS
<1>1. ASSUME NEW r \in Requests, NEW op \in Ops, NEW sub \in Subs, NEW who \in Subs,
             Serve(r, op, sub, who)
      PROVE  OwnerInv'
  BY <1>1, ServeInv
<1>2. ASSUME NEW r \in Requests, HandlerStep(r) PROVE OwnerInv'
  BY <1>2, ResolveInv, ListNothingInv, ExistsInv, ResolveAgainInv, AuthorizeInv, HandleInv,
     TakeRootMuInv, PublishInv, LockInv, OpenInv, WriteInv, RenameInv, SaveRecordFailsInv
  DEF HandlerStep
<1>3. ASSUME NEW r \in Requests, Leave(r) PROVE OwnerInv'
  BY <1>3, LeaveInv
<1>4. CASE Restart
  BY <1>4, RestartInv
<1>5. CASE UNCHANGED ownerVars
  BY <1>5 DEF ownerVars, OwnerInv, OwnerTypeOK, FileInv, GoodMain, MutexInv, KnowInv, Knows,
     Holds, Claimed, isOwnerAdmin, Decided, Admins, Readable
<1> QED
  BY <1>1, <1>2, <1>3, <1>4, <1>5 DEF OwnerNext

LEMMA OwnerInvAlways == OwnerSpec => []OwnerInv
<1>1. OwnerInit => OwnerInv
  BY OwnerInitInv
<1>2. OwnerInv /\ [OwnerNext]_ownerVars => OwnerInv'
  BY OwnerStep
<1> QED
  BY <1>1, <1>2, PTL DEF OwnerSpec

-----------------------------------------------------------------------------
\* owner.json, the cache, the mutexes and the handlers' locals keep their types, for
\* any requests at once and any subjects.
THEOREM OwnerTypeCorrect == OwnerSpec => []OwnerTypeOK
<1>1. OwnerInv => OwnerTypeOK
  BY DEF OwnerInv
<1> QED
  BY <1>1, OwnerInvAlways, PTL

\* However many requests claim an owner and change its admins at once, and wherever the
\* process is killed, its record can be read and has an admin (gw_tenancy.go:93).
THEOREM RecordAlwaysKept == OwnerSpec => []RecordKept
<1>1. OwnerInv => RecordKept
  BY RecordRead DEF OwnerInv, FileInv, RecordKept
<1> QED
  BY <1>1, OwnerInvAlways, PTL

\* A write that no other overtook is a step of Ownership.
LEMMA RenameImplements ==
    ASSUME OwnerInv, NEW r \in Requests, Rename(r)
    PROVE  Promised!Next \/ Stale(r)
<1> DEFINE A == req[r].admins
<1>1. /\ req[r].pc = "rename" /\ owner.tmp = Whole(A) /\ A # {}
      /\ Knows(req[r]) /\ req[r].overtaken \in BOOLEAN
  BY ReqType DEF Rename, Handling, OwnerInv, FileInv, KnowInv, Knows, Saves, Opens
<1>2. Admins' = A
  <2>1. owner'.main = Whole(A)
    BY <1>1 DEF Rename, Renamed, File
  <2> QED
    BY <2>1, ContentsRead DEF Admins, Readable
<1>3. CASE req[r].op = "claim"
  <2>1. Admins = {} /\ \E sub \in Subs : A = {sub}
    BY <1>1, <1>3, RecordRead DEF OwnerInv, FileInv, Knows, Saves, Opens
  <2> QED
    BY <1>2, <2>1 DEF Promised!Next, Promised!Claim
<1>4. CASE req[r].op # "claim" /\ ~req[r].overtaken
  <2>1. PICK sub \in Subs, who \in Subs :
          isOwnerAdmin(sub) /\ (A = Admins \cup {who} \/ A = Admins \ {who})
    BY <1>1, <1>4 DEF Knows, Saves, Opens, Decided
  <2>2. Admins # {}
    BY <1>1, <1>4, RecordRead DEF OwnerInv, FileInv, MutexInv, Knows, Saves, Opens
  <2>3. Promised!Administers(sub)
    BY <2>1, <2>2 DEF Promised!Administers, isOwnerAdmin
  <2> QED
    BY <1>1, <1>2, <2>1, <2>3 DEF Promised!Next, Promised!Add, Promised!Remove
<1>5. CASE req[r].op # "claim" /\ req[r].overtaken
  <2>1. req'[r].pc = "done"
    BY <1>5, Empty DEF Rename
  <2> QED
    BY <1>1, <1>5, <2>1 DEF Stale, Handling
<1> QED
  BY <1>1, <1>3, <1>4, <1>5

\* No other step changes the record.
LEMMA StepImplements ==
    OwnerInv /\ [OwnerNext]_ownerVars =>
      Promised!Next \/ (\E r \in Requests : Stale(r)) \/ UNCHANGED Admins
<1> SUFFICES ASSUME OwnerInv, [OwnerNext]_ownerVars
             PROVE  Promised!Next \/ (\E r \in Requests : Stale(r)) \/ UNCHANGED Admins
  OBVIOUS
<1>1. ASSUME owner'.main = owner.main PROVE UNCHANGED Admins
  BY <1>1 DEF Admins, Readable
<1>2. ASSUME NEW r \in Requests, Rename(r)
      PROVE  Promised!Next \/ (\E q \in Requests : Stale(q))
  BY <1>2, RenameImplements
<1>3. ASSUME NEW r \in Requests, HandlerStep(r), ~Rename(r)
      PROVE  owner'.main = owner.main
  <2>1. CASE Open(r)
    BY <2>1 DEF Open, Truncated, File
  <2>2. CASE Write(r)
    <3>1. owner.opened[r] = "tmp" /\ owner' \in Written(owner, r, req[r].admins)
      BY <2>2 DEF Write, Handling, OwnerInv, FileInv
    <3> QED
      BY <3>1 DEF Written, File
  <2>3. CASE SaveRecordFails(r)
    BY <2>3 DEF SaveRecordFails, Closed, File
  <2> QED
    BY <1>3, <2>1, <2>2, <2>3
    DEF HandlerStep, Resolve, ListNothing, Exists, ResolveAgain, Authorize, Handle, TakeRootMu,
        Publish, Lock
<1>4. ASSUME NEW r \in Requests,
             Leave(r) \/ (\E op \in Ops, sub \in Subs, who \in Subs : Serve(r, op, sub, who))
      PROVE  owner'.main = owner.main
  BY <1>4 DEF Leave, Serve
<1>5. CASE Restart
  BY <1>1, <1>5 DEF Restart, AtRest, File
<1>6. CASE UNCHANGED ownerVars
  BY <1>1, <1>6 DEF ownerVars
<1> QED
  BY <1>1, <1>2, <1>3, <1>4, <1>5, <1>6 DEF OwnerNext

\* For any requests at once, every write of owner.json that was not overtaken since it
\* was authorised is a step of Ownership, and so is a claim, always: of the claims that
\* race one wins (gw_tenancy.go:93, gw_api.go:208).
THEOREM OwnerImplementsOwnership == OwnerSpec => OwnersImplement
<1>1. OwnerInv /\ [OwnerNext]_ownerVars =>
        [Promised!Next \/ (\E r \in Requests : Stale(r)) \/ UNCHANGED Admins]_ownerVars
  BY StepImplements
<1> QED
  BY <1>1, OwnerInvAlways, PTL DEF OwnerSpec, OwnersImplement

-----------------------------------------------------------------------------
(* Administration. *)

Held == Cred \cup {Login(sub, 0) : sub \in Accounts \cup {Nobody}}

\* What a command holds by the time it needs it: a login with a token, or whom its
\* access token is for.
Equipped(k) ==
    /\ k.pc \in {"refresh", "open", "write", "rename"} => k.held \in Cred
    /\ k.pc = "retry" => k.held.sub \in Accounts

CliInv == CliTypeOK /\ \A c \in Commands : Equipped(command[c])

LEMMA LoginRead ==
    /\ \A sub, token : Login(sub, token).sub = sub /\ Login(sub, token).token = token
    /\ \A sub \in Accounts, token \in 1..MaxTokens : Login(sub, token) \in Cred
    /\ \A sub \in Accounts \cup {Nobody} : Login(sub, 0) \in Held
    /\ NoLogin \in Held
BY DEF Login, Cred, Held, NoLogin

LEMMA ProcessType ==
    ASSUME NEW pc \in {"new", "asked", "refresh", "login", "open", "write", "rename",
                       "retry", "served", "done"},
           NEW home \in Machines, NEW login \in BOOLEAN, NEW held \in Held
    PROVE  /\ Process(pc, home, login, held) \in CommandState
           /\ Process(pc, home, login, held).pc = pc
           /\ Process(pc, home, login, held).home = home
           /\ Process(pc, home, login, held).held = held
BY DEF Process, CommandState, Held

LEMMA CommandType ==
    ASSUME CliInv, NEW c \in Commands
    PROVE  /\ command[c] \in CommandState /\ command[c].held \in Held
           /\ command[c].home \in Machines /\ Home(c) = command[c].home
           /\ command[c].login \in BOOLEAN
           /\ cred[Home(c)] \in Files(Commands, Cred)
           /\ Equipped(command[c])
BY DEF CliInv, CliTypeOK, CommandState, Held, Home

LEMMA NobodyRuns ==
    /\ New \in CommandState /\ Equipped(New)
    /\ Ended \in CommandState /\ Equipped(Ended) /\ Ended.pc = "done"
<1>1. AnyMachine \in Machines
  BY CliAssumption DEF AnyMachine
<1>2. NoLogin \in Held
  BY LoginRead
<1>3. /\ New \in CommandState /\ New.pc = "new"
      /\ Ended \in CommandState /\ Ended.pc = "done"
  BY <1>1, <1>2 DEF New, Ended, Process, CommandState, Held
<1> QED
  BY <1>3 DEF Equipped

\* A step of one command that keeps the types of what it changes.
LEMMA CommandMoves ==
    ASSUME CliInv, NEW c \in Commands, NEW k \in CommandState, Equipped(k),
           command' = [command EXCEPT ![c] = k],
           cred' \in [Machines -> Files(Commands, Cred)],
           provider' = provider,
           issued' \in [Machines -> 0..MaxTokens],
           live' \in [Machines -> SUBSET (1..MaxTokens)],
           session' \in [Machines -> Accounts \cup {Nobody}],
           disturbed' \in [Machines -> BOOLEAN]
    PROVE  CliInv'
<1>1. /\ command' \in [Commands -> CommandState]
      /\ \A d \in Commands : Equipped(command'[d])
  BY DEF CliInv, CliTypeOK
<1>2. \A d \in Commands : Equipped(command[d])'
  BY <1>1 DEF Equipped
<1> QED
  BY <1>1, <1>2 DEF CliInv, CliTypeOK

\* A step that changes the locals of a command only, and the history perhaps.
LEMMA LocalsMove ==
    ASSUME CliInv, NEW c \in Commands, NEW k \in CommandState, Equipped(k),
           command' = [command EXCEPT ![c] = k],
           UNCHANGED <<cred, provider, issued, live, session>>,
           disturbed' \in [Machines -> BOOLEAN]
    PROVE  CliInv'
<1>1. /\ cred' \in [Machines -> Files(Commands, Cred)]
      /\ issued' \in [Machines -> 0..MaxTokens]
      /\ live' \in [Machines -> SUBSET (1..MaxTokens)]
      /\ session' \in [Machines -> Accounts \cup {Nobody}]
  BY DEF CliInv, CliTypeOK
<1> QED
  BY <1>1, CommandMoves

LEMMA DisturbedType ==
    ASSUME CliInv, NEW c \in Commands, NEW b \in BOOLEAN,
           Disturbs(c, b) \/ UNCHANGED disturbed
    PROVE  disturbed' \in [Machines -> BOOLEAN]
BY DEF CliInv, CliTypeOK, Disturbs

\* A command ends.
LEMMA EndInv ==
    ASSUME CliInv, NEW c \in Commands, NEW b \in BOOLEAN, End(c),
           UNCHANGED <<cred, provider, issued, live, session>>,
           Disturbs(c, b) \/ UNCHANGED disturbed
    PROVE  CliInv'
BY NobodyRuns, LocalsMove, DisturbedType DEF End

-----------------------------------------------------------------------------
(* The actions of a command. *)

LEMMA BecomesInv ==
    ASSUME CliInv, NEW c \in Commands,
           NEW pc \in {"refresh", "open", "write", "rename", "retry", "served"},
           NEW held \in Held,
           pc \in {"refresh", "open", "write", "rename"} => held \in Cred,
           pc = "retry" => held.sub \in Accounts,
           Becomes(c, pc, held),
           cred' \in [Machines -> Files(Commands, Cred)],
           provider' = provider,
           issued' \in [Machines -> 0..MaxTokens],
           live' \in [Machines -> SUBSET (1..MaxTokens)],
           session' \in [Machines -> Accounts \cup {Nobody}],
           disturbed' \in [Machines -> BOOLEAN]
    PROVE  CliInv'
<1> DEFINE k == Process(pc, command[c].home, command[c].login, held)
<1>1. k \in CommandState /\ k.pc = pc /\ k.held = held
  BY CommandType, ProcessType
<1>2. command' = [command EXCEPT ![c] = k]
  BY DEF Becomes
<1> HIDE DEF k
<1>3. Equipped(k)
  BY <1>1 DEF Equipped
<1> QED
  BY <1>1, <1>2, <1>3, CommandMoves

LEMMA BeginInv ==
    ASSUME CliInv, NEW c \in Commands, NEW m \in Machines, Begin(c, m)
    PROVE  CliInv'
<1> DEFINE k == IF cred[m].main \in {Torn, Mixed} THEN Ended ELSE Process("asked", m, FALSE, NoLogin)
<1>1. Process("asked", m, FALSE, NoLogin) \in CommandState
      /\ Process("asked", m, FALSE, NoLogin).pc = "asked"
  BY LoginRead DEF Process, CommandState, Held
<1>2. k \in CommandState /\ Equipped(k)
  BY <1>1, NobodyRuns DEF Equipped
<1>3. command' = [command EXCEPT ![c] = k] /\ UNCHANGED <<cred, provider, issued, live, session>>
      /\ disturbed' \in [Machines -> BOOLEAN]
  BY DEF Begin, CliInv, CliTypeOK
<1> HIDE DEF k
<1> QED
  BY <1>2, <1>3, LocalsMove

LEMMA StartLoginInv ==
    ASSUME CliInv, NEW c \in Commands, NEW m \in Machines, StartLogin(c, m)
    PROVE  CliInv'
<1> DEFINE k == Process("login", m, TRUE, NoLogin)
<1>1. k \in CommandState /\ k.pc = "login"
  BY LoginRead DEF Process, CommandState, Held
<1>2. command' = [command EXCEPT ![c] = k] /\ UNCHANGED <<cred, provider, issued, live, session>>
      /\ disturbed' \in [Machines -> BOOLEAN]
  BY DEF StartLogin, CliInv, CliTypeOK
<1> HIDE DEF k
<1> QED
  BY <1>1, <1>2, LocalsMove DEF Equipped

\* What cred.json holds, in any of its files, is a login with a token.
LEMMA StoredType ==
    ASSUME NEW f \in Files(Commands, Cred)
    PROVE  /\ f.main \in Contents(Cred) /\ f.tmp \in Contents(Cred)
           /\ f.opened \in [Commands -> {"none", "tmp", "main", "gone"}]
           /\ f.main.is = "whole" => f.main.doc \in Cred
<1>1. /\ f.main \in Contents(Cred) /\ f.tmp \in Contents(Cred)
      /\ f.opened \in [Commands -> {"none", "tmp", "main", "gone"}]
  BY DEF Files
<1>2. CASE f.main \in {Absent, Torn, Mixed}
  BY <1>1, <1>2, ContentsRead
<1>3. ASSUME NEW doc \in Cred, f.main = Whole(doc)
      PROVE  f.main.doc \in Cred
  BY <1>3, ContentsRead
<1> QED
  BY <1>1, <1>2, <1>3 DEF Contents

LEMMA UnauthorisedInv ==
    ASSUME CliInv, NEW c \in Commands, Unauthorised(c)
    PROVE  CliInv'
<1> DEFINE f == cred[Home(c)].main
<1>1. f.is = "whole" => f.doc \in Cred
  BY CommandType, StoredType
<1>2. UNCHANGED <<cred, provider, issued, live, session>>
  BY DEF Unauthorised
<1>3. CASE f.is = "whole" /\ f.doc.token # 0
  <2> DEFINE b == \E d \in InsideBut(c, Home(c)) : command[d].login
  <2>1. Becomes(c, "refresh", f.doc) /\ Disturbs(c, b) /\ b \in BOOLEAN
    BY <1>3 DEF Unauthorised, Stored
  <2>2. disturbed' \in [Machines -> BOOLEAN]
    BY <2>1, DisturbedType
  <2>3. f.doc \in Held /\ f.doc \in Cred
    BY <1>1, <1>3 DEF Held
  <2> QED
    BY <1>2, <2>1, <2>2, <2>3, BecomesInv DEF CliInv, CliTypeOK
<1>4. CASE ~(f.is = "whole" /\ f.doc.token # 0)
  BY <1>2, <1>4, EndInv DEF Unauthorised, Stored
<1> QED
  BY <1>3, <1>4

LEMMA RefreshInv ==
    ASSUME CliInv, NEW c \in Commands, Refresh(c)
    PROVE  CliInv'
<1>1. PICK token \in 0..MaxTokens, accepted \in SUBSET (1..MaxTokens) :
        /\ Exchanged(c, token, accepted)
        /\ live' = [live EXCEPT ![Home(c)] = accepted]
        /\ \/ /\ Becomes(c, "open", Login(command[c].held.sub, token))
              /\ UNCHANGED disturbed
           \/ End(c) /\ Disturbs(c, TRUE)
  BY DEF Refresh
<1>2. /\ UNCHANGED <<cred, provider, session>>
      /\ command[c].held \in Cred /\ command[c].pc = "refresh"
  BY CommandType DEF Refresh, Runs, Equipped
<1>3. /\ live' \in [Machines -> SUBSET (1..MaxTokens)]
      /\ disturbed' \in [Machines -> BOOLEAN]
      /\ cred' \in [Machines -> Files(Commands, Cred)]
      /\ session' \in [Machines -> Accounts \cup {Nobody}]
  BY <1>1, <1>2, DisturbedType DEF CliInv, CliTypeOK
<1>4. issued' \in [Machines -> 0..MaxTokens] /\ token \in 1..MaxTokens
  <2>1. issued \in [Machines -> 0..MaxTokens] /\ MaxTokens \in Nat \ {0} /\ Home(c) \in Machines
    BY CommandType, CliAssumption DEF CliInv, CliTypeOK
  <2>2. CASE provider # "keeps"
    <3>1. /\ issued[Home(c)] < MaxTokens
          /\ issued' = [issued EXCEPT ![Home(c)] = issued[Home(c)] + 1]
          /\ token = issued[Home(c)] + 1
      BY <1>1, <2>2 DEF Exchanged
    <3>2. issued[Home(c)] \in 0..MaxTokens
      BY <2>1
    <3>3. issued[Home(c)] + 1 \in 1..MaxTokens /\ issued[Home(c)] + 1 \in 0..MaxTokens
      BY <2>1, <3>1, <3>2
    <3> QED
      BY <2>1, <3>1, <3>3
  <2>3. CASE provider = "keeps"
    BY <1>1, <1>2, <2>1, <2>3 DEF Exchanged, Unrotated, Cred
  <2> QED
    BY <2>2, <2>3
<1>5. CASE Becomes(c, "open", Login(command[c].held.sub, token))
  <2>1. command[c].held.sub \in Accounts
    BY <1>2 DEF Cred
  <2>2. Login(command[c].held.sub, token) \in Cred /\ Login(command[c].held.sub, token) \in Held
    BY <1>4, <2>1, LoginRead DEF Held
  <2> QED
    BY <1>2, <1>3, <1>4, <1>5, <2>2, BecomesInv
<1>6. CASE End(c)
  BY <1>2, <1>3, <1>4, <1>6, NobodyRuns, CommandMoves DEF End
<1> QED
  BY <1>1, <1>5, <1>6

LEMMA LoggedInInv ==
    ASSUME CliInv, NEW c \in Commands, NEW sub \in Accounts, LoggedIn(c, sub)
    PROVE  CliInv'
<1> DEFINE m == Home(c)
           token == issued[m] + 1
<1>1. /\ issued \in [Machines -> 0..MaxTokens] /\ live \in [Machines -> SUBSET (1..MaxTokens)]
      /\ disturbed \in [Machines -> BOOLEAN]
      /\ MaxTokens \in Nat \ {0} /\ m \in Machines
  BY CommandType, CliAssumption DEF CliInv, CliTypeOK
<1>2. token \in 1..MaxTokens /\ token \in 0..MaxTokens
  <2>1. issued[m] \in 0..MaxTokens /\ issued[m] < MaxTokens
    BY <1>1 DEF LoggedIn
  <2> QED
    BY <1>1, <2>1
<1>3. /\ issued' = [issued EXCEPT ![m] = token]
      /\ live' = [live EXCEPT ![m] = live[m] \cup {token}]
      /\ disturbed' = [disturbed EXCEPT ![m] = InsideBut(c, m) # {}]
      /\ Becomes(c, "open", Login(sub, token))
      /\ UNCHANGED <<cred, provider, session>>
  BY DEF LoggedIn
<1> HIDE DEF token, m
<1>4. /\ issued' \in [Machines -> 0..MaxTokens] /\ live' \in [Machines -> SUBSET (1..MaxTokens)]
      /\ disturbed' \in [Machines -> BOOLEAN]
  <2>1. (InsideBut(c, m) # {}) \in BOOLEAN
    OBVIOUS
  <2> QED
    BY <1>1, <1>2, <1>3, <2>1
<1>5. Login(sub, token) \in Cred /\ Login(sub, token) \in Held
  BY <1>2, LoginRead DEF Held
<1> QED
  BY <1>3, <1>4, <1>5, BecomesInv DEF CliInv, CliTypeOK

\* The same steps of a write as of owner.json, with other documents.
LEMMA CredFile ==
    ASSUME NEW f \in Files(Commands, Cred), NEW c \in Commands
    PROVE  /\ Truncated(f, c) \in Files(Commands, Cred)
           /\ \A doc \in Cred : Written(f, c, doc) \subseteq Files(Commands, Cred)
           /\ Renamed(f, c) \in Files(Commands, Cred)
           /\ Closed(f, c) \in Files(Commands, Cred)
           /\ Removed(f) \in Files(Commands, Cred)
<1>1. /\ f.main \in Contents(Cred) /\ f.tmp \in Contents(Cred)
      /\ f.opened \in [Commands -> {"none", "tmp", "main", "gone"}]
  BY StoredType
<1>2. DOMAIN f.opened = Commands
  BY <1>1
<1>3. Absent \in Contents(Cred) /\ Torn \in Contents(Cred) /\ Mixed \in Contents(Cred)
      /\ \A doc \in Cred : Whole(doc) \in Contents(Cred)
  BY DEF Contents
<1>4. ASSUME NEW main \in Contents(Cred), NEW tmp \in Contents(Cred),
             NEW opened \in [Commands -> {"none", "tmp", "main", "gone"}]
      PROVE  File(main, tmp, opened) \in Files(Commands, Cred)
  BY DEF File, Files
<1>5. Truncated(f, c) \in Files(Commands, Cred)
  BY <1>1, <1>3 DEF Truncated, File, Files
<1>6. ASSUME NEW doc \in Cred, NEW g \in Written(f, c, doc)
      PROVE  g \in Files(Commands, Cred)
  <2>1. PICK content \in Over(Under(f, c), doc) :
          g = File(IF f.opened[c] = "main" THEN content ELSE f.main,
                   IF f.opened[c] = "tmp" THEN content ELSE f.tmp, f.opened)
    BY DEF Written
  <2>2. content \in Contents(Cred)
    BY <1>3 DEF Over
  <2> QED
    BY <1>1, <1>4, <2>1, <2>2
<1>7. Renamed(f, c) \in Files(Commands, Cred)
  <2> DEFINE opened == [v \in Commands |->
                          CASE v = c -> "none"
                            [] v # c /\ f.opened[v] = "tmp" -> "main"
                            [] v # c /\ f.opened[v] = "main" -> "gone"
                            [] OTHER -> f.opened[v]]
  <2>1. opened \in [Commands -> {"none", "tmp", "main", "gone"}]
    BY <1>1
  <2>2. Renamed(f, c) = File(f.tmp, Absent, opened)
    BY <1>2 DEF Renamed
  <2> HIDE DEF opened
  <2> QED
    BY <1>1, <1>3, <2>1, <2>2 DEF File, Files
<1>8. Closed(f, c) \in Files(Commands, Cred)
  BY <1>1 DEF Closed, File, Files
<1>9. Removed(f) \in Files(Commands, Cred)
  <2> DEFINE opened == [v \in Commands |->
                          IF f.opened[v] = "main" THEN "gone" ELSE f.opened[v]]
  <2>1. opened \in [Commands -> {"none", "tmp", "main", "gone"}]
    BY <1>1
  <2>2. Removed(f) = File(Absent, f.tmp, opened)
    BY <1>2 DEF Removed
  <2> HIDE DEF opened
  <2> QED
    BY <1>1, <1>3, <2>1, <2>2 DEF File, Files
<1> QED
  BY <1>5, <1>6, <1>7, <1>8, <1>9

LEMMA StoreType ==
    ASSUME CliInv, NEW c \in Commands, NEW f \in Files(Commands, Cred), Store(c, f)
    PROVE  cred' \in [Machines -> Files(Commands, Cred)]
BY DEF Store, CliInv, CliTypeOK

LEMMA SaveOpenInv ==
    ASSUME CliInv, NEW c \in Commands, SaveOpen(c)
    PROVE  CliInv'
<1>1. /\ Store(c, Truncated(Stored(c), c)) /\ Becomes(c, "write", command[c].held)
      /\ UNCHANGED <<provider, issued, live, session, disturbed>>
      /\ command[c].held \in Cred /\ command[c].held \in Held
  BY CommandType DEF SaveOpen, Runs, Equipped
<1>2. cred' \in [Machines -> Files(Commands, Cred)]
  BY <1>1, CommandType, CredFile, StoreType DEF Stored
<1> QED
  BY <1>1, <1>2, BecomesInv DEF CliInv, CliTypeOK

LEMMA SaveWriteInv ==
    ASSUME CliInv, NEW c \in Commands, SaveWrite(c)
    PROVE  CliInv'
<1>1. /\ Becomes(c, "rename", command[c].held)
      /\ Disturbs(c, Under(Stored(c), c) \notin {Torn, Whole(command[c].held)})
      /\ UNCHANGED <<provider, issued, live, session>>
      /\ command[c].held \in Cred /\ command[c].held \in Held
  BY CommandType DEF SaveWrite, Runs, Equipped
<1>2. cred' \in [Machines -> Files(Commands, Cred)]
  <2>1. PICK f \in Written(Stored(c), c, command[c].held) : Store(c, f)
    BY DEF SaveWrite
  <2>2. f \in Files(Commands, Cred)
    BY <1>1, <2>1, CommandType, CredFile DEF Stored
  <2> QED
    BY <2>1, <2>2, StoreType
<1>3. disturbed' \in [Machines -> BOOLEAN]
  <2>1. (Under(Stored(c), c) \notin {Torn, Whole(command[c].held)}) \in BOOLEAN
    OBVIOUS
  <2> QED
    BY <1>1, <2>1, DisturbedType
<1> QED
  BY <1>1, <1>2, <1>3, BecomesInv DEF CliInv, CliTypeOK

\* After the write, whatever became of it.
LEMMA AfterSaveInv ==
    ASSUME CliInv, NEW c \in Commands, command[c].held \in Cred, AfterSave(c),
           cred' \in [Machines -> Files(Commands, Cred)],
           UNCHANGED <<provider, issued, live>>,
           session' \in [Machines -> Accounts \cup {Nobody}],
           disturbed' \in [Machines -> BOOLEAN]
    PROVE  CliInv'
<1>1. issued' \in [Machines -> 0..MaxTokens] /\ live' \in [Machines -> SUBSET (1..MaxTokens)]
  BY DEF CliInv, CliTypeOK
<1>2. CASE command[c].login
  BY <1>1, <1>2, NobodyRuns, CommandMoves DEF AfterSave, End
<1>3. CASE ~command[c].login
  <2> DEFINE held == Login(command[c].held.sub, 0)
  <2>1. held \in Held /\ held.sub \in Accounts
    BY LoginRead DEF Cred
  <2>2. Becomes(c, "retry", held)
    BY <1>3 DEF AfterSave
  <2> HIDE DEF held
  <2> QED
    BY <1>1, <2>1, <2>2, BecomesInv
<1> QED
  BY <1>2, <1>3

LEMMA SaveRenameInv ==
    ASSUME CliInv, NEW c \in Commands, SaveRename(c)
    PROVE  CliInv'
<1>1. /\ Store(c, Renamed(Stored(c), c)) /\ AfterSave(c)
      /\ IF command[c].login
         THEN session' = [session EXCEPT ![Home(c)] = command[c].held.sub]
         ELSE UNCHANGED session
      /\ UNCHANGED <<provider, issued, live, disturbed>>
      /\ command[c].held \in Cred
  BY CommandType DEF SaveRename, Runs, Equipped
<1>2. cred' \in [Machines -> Files(Commands, Cred)]
  BY <1>1, CommandType, CredFile, StoreType DEF Stored
<1>3. session' \in [Machines -> Accounts \cup {Nobody}]
  BY <1>1 DEF CliInv, CliTypeOK, Cred
<1> QED
  BY <1>1, <1>2, <1>3, AfterSaveInv DEF CliInv, CliTypeOK

LEMMA SaveOvertakenInv ==
    ASSUME CliInv, NEW c \in Commands, SaveOvertaken(c)
    PROVE  CliInv'
<1>1. /\ Store(c, Closed(Stored(c), c)) /\ AfterSave(c)
      /\ UNCHANGED <<provider, issued, live, session, disturbed>>
      /\ command[c].held \in Cred
  BY CommandType DEF SaveOvertaken, Runs, Equipped
<1>2. cred' \in [Machines -> Files(Commands, Cred)]
  BY <1>1, CommandType, CredFile, StoreType DEF Stored
<1> QED
  BY <1>1, <1>2, AfterSaveInv DEF CliInv, CliTypeOK

LEMMA SaveCredFailsInv ==
    ASSUME CliInv, NEW c \in Commands, SaveCredFails(c)
    PROVE  CliInv'
<1>1. /\ Store(c, Closed(Stored(c), c)) /\ AfterSave(c) /\ Disturbs(c, TRUE)
      /\ UNCHANGED <<provider, issued, live, session>>
      /\ command[c].held \in Cred
  BY CommandType DEF SaveCredFails, Runs, Equipped
<1>2. cred' \in [Machines -> Files(Commands, Cred)]
  BY <1>1, CommandType, CredFile, StoreType DEF Stored
<1>3. disturbed' \in [Machines -> BOOLEAN]
  BY <1>1, DisturbedType
<1> QED
  BY <1>1, <1>2, <1>3, AfterSaveInv DEF CliInv, CliTypeOK

LEMMA InterruptInv ==
    ASSUME CliInv, NEW c \in Commands, Interrupt(c)
    PROVE  CliInv'
<1>1. /\ Store(c, Closed(Stored(c), c)) /\ End(c) /\ Disturbs(c, Inside(c))
      /\ UNCHANGED <<provider, issued, live, session>>
  BY DEF Interrupt
<1>2. cred' \in [Machines -> Files(Commands, Cred)]
  BY <1>1, CommandType, CredFile, StoreType DEF Stored
<1>3. disturbed' \in [Machines -> BOOLEAN]
  <2>1. Inside(c) \in BOOLEAN
    BY DEF Inside
  <2> QED
    BY <1>1, <2>1, DisturbedType
<1>4. /\ issued' \in [Machines -> 0..MaxTokens]
      /\ live' \in [Machines -> SUBSET (1..MaxTokens)]
      /\ session' \in [Machines -> Accounts \cup {Nobody}]
  BY <1>1 DEF CliInv, CliTypeOK
<1> QED
  BY <1>1, <1>2, <1>3, <1>4, NobodyRuns, CommandMoves DEF End

LEMMA LogoutInv ==
    ASSUME CliInv, NEW c \in Commands, NEW m \in Machines, Logout(c, m)
    PROVE  CliInv'
<1>1. /\ cred' = [cred EXCEPT ![m] = Removed(cred[m])]
      /\ session' = [session EXCEPT ![m] = Nobody]
      /\ disturbed' = [disturbed EXCEPT ![m] = InsideBut(c, m) # {}]
      /\ End(c) /\ UNCHANGED <<provider, issued, live>>
  BY DEF Logout
<1>2. Removed(cred[m]) \in Files(Commands, Cred)
  BY CredFile DEF CliInv, CliTypeOK
<1>3. /\ cred' \in [Machines -> Files(Commands, Cred)]
      /\ session' \in [Machines -> Accounts \cup {Nobody}]
      /\ issued' \in [Machines -> 0..MaxTokens]
      /\ live' \in [Machines -> SUBSET (1..MaxTokens)]
  BY <1>1, <1>2 DEF CliInv, CliTypeOK
<1>4. disturbed' \in [Machines -> BOOLEAN]
  <2>1. (InsideBut(c, m) # {}) \in BOOLEAN
    OBVIOUS
  <2> QED
    BY <1>1, <2>1 DEF CliInv, CliTypeOK
<1> QED
  BY <1>1, <1>3, <1>4, NobodyRuns, CommandMoves DEF End

LEMMA EndsInv ==
    ASSUME CliInv, NEW c \in Commands,
           Unreachable(c) \/ RefreshFails(c) \/ LoginFails(c) \/ Receive(c)
    PROVE  CliInv'
<1>1. End(c) /\ UNCHANGED <<cred, provider, issued, live, session, disturbed>>
  BY DEF Unreachable, RefreshFails, LoginFails, Receive
<1> QED
  BY <1>1, EndInv

LEMMA SendInv ==
    ASSUME CliInv, NEW c \in Commands, Send(c)
    PROVE  CliInv'
<1>1. /\ Becomes(c, "served", NoLogin) /\ NoLogin \in Held
      /\ UNCHANGED <<cred, provider, issued, live, session, disturbed>>
  BY LoginRead DEF Send
<1> QED
  BY <1>1, BecomesInv DEF CliInv, CliTypeOK

LEMMA CommandStepInv ==
    ASSUME CliInv, NEW c \in Commands, CommandStep(c)
    PROVE  CliInv'
BY UnauthorisedInv, EndsInv, RefreshInv, LoggedInInv, SaveOpenInv, SaveWriteInv,
   SaveRenameInv, SaveOvertakenInv, SaveCredFailsInv DEF CommandStep

-----------------------------------------------------------------------------
(* All commands together with the owner. *)

LEMMA CliInitInv ==
    ASSUME CliInit
    PROVE  CliInv
<1>1. /\ command = [c \in Commands |-> New]
      /\ provider \in Providers /\ session \in [Machines -> Accounts \cup {Nobody}]
      /\ disturbed = [m \in Machines |-> FALSE]
  BY DEF CliInit
<1>2. command \in [Commands -> CommandState] /\ \A c \in Commands : Equipped(command[c])
  BY <1>1, NobodyRuns
<1>3. issued \in [Machines -> 0..MaxTokens] /\ live \in [Machines -> SUBSET (1..MaxTokens)]
  <2>1. \A m \in Machines : issued[m] \in {0, 1}
    BY DEF CliInit
  <2>2. \A m \in Machines : issued[m] \in 0..MaxTokens /\ 1..issued[m] \in SUBSET (1..MaxTokens)
    BY <2>1, CliAssumption
  <2> QED
    BY <2>2 DEF CliInit
<1>4. cred \in [Machines -> Files(Commands, Cred)]
  <2>1. ASSUME NEW m \in Machines
        PROVE  cred[m] \in Files(Commands, Cred)
    <3> DEFINE main == IF session[m] = Nobody THEN Absent ELSE Whole(Login(session[m], 1))
    <3>1. cred[m] = AtRest(Commands, main, Absent)
      BY DEF CliInit
    <3>2. main \in Contents(Cred) /\ Absent \in Contents(Cred)
      <4>1. CASE session[m] = Nobody
        BY <4>1 DEF Contents
      <4>2. CASE session[m] # Nobody
        <5>1. session[m] \in Accounts /\ 1 \in 1..MaxTokens
          BY <1>1, <4>2, CliAssumption
        <5>2. Login(session[m], 1) \in Cred
          BY <5>1, LoginRead
        <5> QED
          BY <4>2, <5>2 DEF Contents
      <4> QED
        BY <4>1, <4>2
    <3> HIDE DEF main
    <3> QED
      BY <3>1, <3>2 DEF AtRest, File, Files
  <2>2. \E f : cred = [m \in Machines |-> f[m]]
    BY DEF CliInit
  <2> QED
    BY <2>1, <2>2
<1> QED
  BY <1>1, <1>2, <1>3, <1>4 DEF CliInv, CliTypeOK

LEMMA AdminStepInv ==
    ASSUME CliInv, [AdminNext]_adminVars
    PROVE  CliInv'
<1>1. CASE UNCHANGED cliVars
  BY <1>1 DEF cliVars, CliInv, CliTypeOK, Equipped
<1>2. ASSUME NEW c \in Commands, Locally(c)
      PROVE  CliInv'
  BY <1>2, BeginInv, StartLoginInv, LogoutInv, InterruptInv DEF Locally, Start
<1>3. ASSUME NEW c \in Commands, Onward(c)
      PROVE  CliInv'
  BY <1>3, CommandStepInv DEF Onward
<1>4. ASSUME NEW c \in Commands, Operate(c)
      PROVE  CliInv'
  BY <1>4, SendInv DEF Operate
<1>5. ASSUME NEW c \in Commands, Collect(c)
      PROVE  CliInv'
  BY <1>5, EndsInv DEF Collect
<1>6. (\E c \in Commands : Remotely(c)) \/ (Restart /\ UNCHANGED cliVars) \/ UNCHANGED adminVars
      => UNCHANGED cliVars
  BY DEF Remotely, adminVars
<1> QED
  BY <1>1, <1>2, <1>3, <1>4, <1>5, <1>6 DEF AdminNext

\* What a command does to the owner is what a request does: its second try is made
\* with the token of an account, and the rest of it does not reach the gateway.
LEMMA AdminStepOwner ==
    ASSUME CliInv, [AdminNext]_adminVars
    PROVE  [OwnerNext]_ownerVars
<1>1. CASE UNCHANGED ownerVars
  BY <1>1
<1>2. ASSUME NEW c \in Commands, Operate(c)
      PROVE  OwnerNext
  <2>1. c \in Requests /\ command[c].held.sub \in Subs
    <3>1. command[c].pc = "retry"
      BY <1>2 DEF Operate, Send, Runs
    <3> QED
      BY <3>1, CommandType, AdministrationAssumption DEF Equipped
  <2>2. PICK op \in Ops, who \in Subs : Serve(c, op, command[c].held.sub, who)
    BY <1>2 DEF Operate
  <2> QED
    BY <2>1, <2>2 DEF OwnerNext
<1>3. ASSUME NEW c \in Commands, Remotely(c) \/ Collect(c)
      PROVE  OwnerNext
  BY <1>3, AdministrationAssumption DEF Remotely, Collect, OwnerNext
<1>4. CASE Restart
  BY <1>4 DEF OwnerNext
<1>5. (\E c \in Commands : Locally(c) \/ Onward(c)) \/ UNCHANGED adminVars => UNCHANGED ownerVars
  BY DEF Locally, Onward, adminVars
<1> QED
  BY <1>1, <1>2, <1>3, <1>4, <1>5 DEF AdminNext

LEMMA CliInvariant == AdminSpec => []CliInv
<1>1. AdminInit => CliInv
  BY CliInitInv DEF AdminInit
<1>2. CliInv /\ [AdminNext]_adminVars => CliInv'
  BY AdminStepInv
<1> QED
  BY <1>1, <1>2, PTL DEF AdminSpec

\* gateway-cli is one client of the management API among others: however its
\* commands overlap, fail or are interrupted, each sends one request that counts,
\* for an account that logged in (client.go:126), and what they do to an owner is
\* what requests can do.
THEOREM CommandsAreRequests == AdminSpec => OwnerSpec
<1>1. AdminInit => OwnerInit
  BY DEF AdminInit
<1>2. CliInv /\ [AdminNext]_adminVars => [OwnerNext]_ownerVars
  BY AdminStepOwner
<1> QED
  BY <1>1, <1>2, CliInvariant, PTL DEF AdminSpec, OwnerSpec

\* The types of cred.json, of owner.json and of the locals of commands and
\* handlers (store.go:39, gw_tenancy.go:93).
THEOREM AdminTypeCorrect == AdminSpec => []AdminTypeOK
<1>1. CliInv /\ OwnerTypeOK => AdminTypeOK
  BY DEF CliInv, AdminTypeOK
<1> QED
  BY <1>1, CliInvariant, CommandsAreRequests, OwnerTypeCorrect, PTL

\* owner.json can be read and has an admin, whatever commands run together
\* (gw_api.go:48 and :208).
THEOREM AdministeredRecordKept == AdminSpec => []RecordKept
BY CommandsAreRequests, RecordAlwaysKept

\* What commands write, one after the other, is what Ownership promises, but for
\* the writes that another one overtook (gw_tenancy.go:93, gw_api.go:41).
THEOREM AdministeredImplements == AdminSpec => OwnersImplement
BY CommandsAreRequests, OwnerImplementsOwnership

-----------------------------------------------------------------------------
(* The login on each machine. *)

\* The commands of a machine that are inside: those cred.json may still change by.
Within(m) == {c \in Commands : Inside(c) /\ Home(c) = m}
InSave(c) == command[c].pc \in {"open", "write", "rename"}
InWrite(c) == command[c].pc \in {"write", "rename"}
NoneSaves(m) == \A c \in Within(m) : ~InSave(c)

\* Some command is about to write to the file that has this name by now.
Filled(m, name) == \E d \in Within(m) : command[d].pc = "write" /\ cred[m].opened[d] = name

\* Only a command that writes has a file open, and tokens were issued before they
\* are accepted, held or stored.
Sound(m) ==
    /\ \A c \in Commands :
         /\ cred[m].opened[c] # "none" => c \in Within(m) /\ InWrite(c)
         /\ cred[m].opened[c] = "tmp" => cred[m].tmp # Absent
    /\ \A t \in live[m] : t <= issued[m]
    /\ \A c \in Within(m) : command[c].held.token <= issued[m]
    /\ cred[m].main.is = "whole" => cred[m].main.doc.token <= issued[m]
    /\ cred[m].tmp.is = "whole" => cred[m].tmp.doc.token <= issued[m]

\* The commands inside agree on the account, and the token that will be saved is
\* accepted: a login is alone, where tokens are replaced one command has the new
\* one, and where they are not any that was issued still is.
Heirs(m) ==
    \A c, d \in Within(m) :
      /\ InSave(c) => command[c].held.token \in live[m]
      /\ command[c].login => c = d
      /\ ~command[c].login => command[c].held.sub = session[m]
      /\ provider = "replaces" /\ InSave(c) /\ InSave(d) => c = d
      /\ provider # "replaces" => command[c].held.token \in live[m]

\* Where tokens are replaced, one that can still be refreshed is that of cred.json,
\* and nobody has refreshed it.
Readers(m) ==
    provider = "replaces" => \A c \in Within(m) : ~InSave(c) /\ command[c].held.token \in live[m] =>
                 cred[m].main = Whole(command[c].held) /\ NoneSaves(m)

\* Without a login inside, cred.json is for the account of the session.  Its token is
\* accepted, unless its successor is being saved; and it is only torn while a
\* command of that account is about to write to it.
MainKept(m) ==
    (\A c \in Within(m) : ~command[c].login) =>
    /\ session[m] = Nobody <=> cred[m].main = Absent
    /\ cred[m].main # Mixed
    /\ cred[m].main = Torn => provider # "replaces" /\ Filled(m, "main")
    /\ cred[m].main.is = "whole" =>
        /\ cred[m].main.doc.sub = session[m]
        /\ cred[m].main.doc.token \in live[m] <=> (provider # "replaces" \/ NoneSaves(m))

\* The temporary file is what one of the commands that write has to save, or is about
\* to be, never one's on top of another's; one that writes alone has it open.
TmpKept(m) ==
    \A c \in Within(m) : InWrite(c) =>
    /\ cred[m].tmp # Mixed
    /\ cred[m].tmp.is = "whole" =>
        /\ cred[m].tmp.doc.sub = command[c].held.sub
        /\ cred[m].tmp.doc.token \in live[m]
    /\ cred[m].tmp = Torn => Filled(m, "tmp")
    /\ provider = "replaces" \/ command[c].login => cred[m].opened[c] = "tmp"

Kept(m) == Heirs(m) /\ Readers(m) /\ MainKept(m) /\ TmpKept(m)
Good(m) == Sound(m) /\ (~disturbed[m] => Kept(m))

\* A login waits for the browser, and only other commands refresh.
Apart(k) ==
    /\ k.pc \in {"asked", "refresh"} => ~k.login
    /\ k.pc = "login" => k.login

LoginInv ==
    /\ CliInv
    /\ \A c \in Commands : Apart(command[c])
    /\ \A m \in Machines : Good(m)

-----------------------------------------------------------------------------
(* What a step leaves alone. *)

\* A file is absent, torn, mixed or a login.
LEMMA CredRead ==
    ASSUME NEW f \in Contents(Cred)
    PROVE  /\ \/ f = Absent \/ f = Torn \/ f = Mixed
              \/ f.is = "whole" /\ f.doc \in Cred /\ f = Whole(f.doc)
           /\ Absent.is # "whole" /\ Torn.is # "whole" /\ Mixed.is # "whole"
           /\ Absent # Torn /\ Absent # Mixed /\ Torn # Mixed
           /\ \A doc : /\ Whole(doc).is = "whole" /\ Whole(doc).doc = doc
                       /\ Whole(doc) # Absent /\ Whole(doc) # Torn /\ Whole(doc) # Mixed
BY ContentsRead DEF Contents

\* What the steps of a write do to the two names and to who has them open.
LEMMA CredMoves ==
    ASSUME NEW f \in Files(Commands, Cred), NEW c \in Commands
    PROVE  /\ Truncated(f, c).main = f.main /\ Truncated(f, c).tmp = Torn
           /\ Truncated(f, c).opened = [f.opened EXCEPT ![c] = "tmp"]
           /\ Closed(f, c).main = f.main /\ Closed(f, c).tmp = f.tmp
           /\ Closed(f, c).opened = [f.opened EXCEPT ![c] = "none"]
           /\ Renamed(f, c).main = f.tmp /\ Renamed(f, c).tmp = Absent
           /\ Renamed(f, c).opened[c] = "none"
           /\ \A v \in Commands \ {c} :
                Renamed(f, c).opened[v] = IF f.opened[v] = "tmp" THEN "main"
                                          ELSE IF f.opened[v] = "main" THEN "gone"
                                          ELSE f.opened[v]
           /\ Removed(f).main = Absent /\ Removed(f).tmp = f.tmp
           /\ \A v \in Commands :
                Removed(f).opened[v] = IF f.opened[v] = "main" THEN "gone" ELSE f.opened[v]
<1>1. f.opened \in [Commands -> {"none", "tmp", "main", "gone"}] /\ DOMAIN f.opened = Commands
  BY StoredType
<1> QED
  BY <1>1 DEF Truncated, Closed, Renamed, Removed, File

\* The types of what the invariant is about.
LEMMA MachineType ==
    ASSUME CliInv, NEW m \in Machines
    PROVE  /\ cred[m] \in Files(Commands, Cred)
           /\ cred[m].main \in Contents(Cred) /\ cred[m].tmp \in Contents(Cred)
           /\ cred[m].opened \in [Commands -> {"none", "tmp", "main", "gone"}]
           /\ issued[m] \in Nat /\ live[m] \subseteq 1..MaxTokens
           /\ session[m] \in Accounts \cup {Nobody} /\ disturbed[m] \in BOOLEAN
           /\ \A c \in Within(m) : c \in Commands /\ command[c].held \in Cred
<1>1. cred[m] \in Files(Commands, Cred)
  BY DEF CliInv, CliTypeOK
<1>2. /\ issued[m] \in Nat /\ live[m] \subseteq 1..MaxTokens
      /\ session[m] \in Accounts \cup {Nobody} /\ disturbed[m] \in BOOLEAN
  BY CliAssumption DEF CliInv, CliTypeOK
<1>3. \A c \in Within(m) : c \in Commands /\ command[c].held \in Cred
  BY DEF CliInv, Within, Inside, Equipped
<1> QED
  BY <1>1, <1>2, <1>3, StoredType

LEMMA StoredTokens ==
    ASSUME CliInv, NEW m \in Machines
    PROVE  /\ cred[m].main.is = "whole" => cred[m].main.doc.token \in Nat
           /\ cred[m].tmp.is = "whole" => cred[m].tmp.doc.token \in Nat
<1>1. ASSUME NEW f \in Contents(Cred), f.is = "whole"
      PROVE  f.doc.token \in Nat
  <2>1. f.doc \in Cred
    BY <1>1, CredRead
  <2>2. f.doc.token \in 1..MaxTokens /\ MaxTokens \in Nat
    BY <2>1, CliAssumption DEF Cred
  <2> QED
    BY <2>2
<1> QED
  BY <1>1, MachineType

\* One command moves, and nobody else comes in or goes.
LEMMA OneCommand ==
    ASSUME CliInv, NEW c \in Commands, NEW k, command' = [command EXCEPT ![c] = k]
    PROVE  /\ command'[c] = k
           /\ \A d \in Commands \ {c} : command'[d] = command[d]
           /\ \A m : \A d \in Commands \ {c} : d \in Within(m)' <=> d \in Within(m)
           /\ \A m : c \in Within(m)' <=>
                       k.pc \in {"refresh", "open", "write", "rename"} /\ k.home = m
           /\ \A m : c \in Within(m) <=>
                       command[c].pc \in {"refresh", "open", "write", "rename"} /\ Home(c) = m
           /\ \A m : Within(m) \subseteq Commands /\ Within(m)' \subseteq Commands
<1>1. /\ command'[c] = k
      /\ \A d \in Commands \ {c} : command'[d] = command[d]
  BY DEF CliInv, CliTypeOK
<1> QED
  BY <1>1 DEF Within, Inside, Home

\* Nothing that the invariant says of a machine has changed.
Unmoved(m) ==
    /\ \A d \in Commands : d \in Within(m)' <=> d \in Within(m)
    /\ \A d \in Within(m) : command'[d] = command[d]
    /\ cred'[m].main = cred[m].main /\ cred'[m].tmp = cred[m].tmp
    /\ \A d \in Commands : cred'[m].opened[d] = cred[m].opened[d]
    /\ live'[m] = live[m] /\ issued'[m] = issued[m]
    /\ session'[m] = session[m] /\ provider' = provider
    /\ disturbed[m] => disturbed'[m]

LEMMA UnmovedGood ==
    ASSUME NEW m \in Machines, Good(m), Unmoved(m)
    PROVE  Good(m)'
<1>1. Within(m)' = Within(m) /\ Within(m) \subseteq Commands
  BY DEF Unmoved, Within
<1>2. \A d \in Within(m) : command'[d] = command[d] /\ cred'[m].opened[d] = cred[m].opened[d]
  BY <1>1 DEF Unmoved
<1>3. Sound(m)'
  BY <1>1, <1>2 DEF Good, Sound, Unmoved, InWrite
<1>4. NoneSaves(m)' <=> NoneSaves(m)
  BY <1>1, <1>2 DEF NoneSaves, InSave
<1>5. ASSUME NEW name PROVE Filled(m, name)' <=> Filled(m, name)
  BY <1>1, <1>2 DEF Filled
<1>6. ASSUME Kept(m) PROVE Kept(m)'
  <2>1. Heirs(m)'
    BY <1>1, <1>2, <1>6 DEF Kept, Heirs, InSave, Unmoved
  <2>2. Readers(m)'
    BY <1>1, <1>2, <1>4, <1>6 DEF Kept, Readers, InSave, Unmoved
  <2>3. MainKept(m)'
    BY <1>1, <1>2, <1>4, <1>5, <1>6 DEF Kept, MainKept, Unmoved
  <2>4. TmpKept(m)'
    BY <1>1, <1>2, <1>5, <1>6 DEF Kept, TmpKept, InWrite, Unmoved
  <2> QED
    BY <2>1, <2>2, <2>3, <2>4 DEF Kept
<1> QED
  BY <1>3, <1>6 DEF Good, Unmoved

\* A step of a command touches its own machine at most.
LEMMA OneMachine ==
    ASSUME LoginInv, CliInv', NEW c \in Commands, NEW k, command' = [command EXCEPT ![c] = k],
           Apart(k), NEW h \in Machines,
           c \in Within(Home(c)) => Home(c) = h,
           k.pc \in {"refresh", "open", "write", "rename"} => k.home = h,
           provider' = provider,
           \A m \in Machines \ {h} : /\ cred'[m] = cred[m] /\ live'[m] = live[m]
                                     /\ issued'[m] = issued[m] /\ session'[m] = session[m]
                                     /\ disturbed'[m] = disturbed[m],
           Good(h)'
    PROVE  LoginInv'
<1>0. CliInv
  BY DEF LoginInv
<1>c. \A m : c \in Within(m)' <=>
              k.pc \in {"refresh", "open", "write", "rename"} /\ k.home = m
  BY <1>0, OneCommand, Zenon
<1>1. ASSUME NEW m \in Machines \ {h}
      PROVE  Good(m)'
  <2>0. c \notin Within(m)
    BY DEF Within
  <2>6. c \in Within(m)' <=> k.pc \in {"refresh", "open", "write", "rename"} /\ k.home = m
    BY <1>c
  <2>1. c \notin Within(m) /\ c \notin Within(m)'
    BY <2>0, <2>6
  <2>2. \A d \in Commands : d \in Within(m)' <=> d \in Within(m)
    BY <1>0, <2>1, OneCommand
  <2>3. \A d \in Within(m) : command'[d] = command[d]
    BY <1>0, <2>1, OneCommand DEF Within
  <2>4. Unmoved(m)
    BY <2>2, <2>3 DEF Unmoved
  <2> QED
    BY <2>4, UnmovedGood DEF LoginInv
<1>2. \A m \in Machines : Good(m)'
  BY <1>1
<1>3. \A d \in Commands : Apart(command'[d])
  BY OneCommand DEF LoginInv
<1>4. (\A d \in Commands : Apart(command[d]))'
  BY <1>3 DEF Apart
<1> QED
  BY <1>2, <1>4 DEF LoginInv

\* A command that was not inside and is not now changes nothing of this.
LEMMA OutsideGood ==
    ASSUME LoginInv, CliInv', NEW c \in Commands, NEW k, command' = [command EXCEPT ![c] = k],
           Apart(k), ~Inside(c), k.pc \notin {"refresh", "open", "write", "rename"},
           UNCHANGED <<provider, issued, live, session, disturbed>>,
           \A m \in Machines : /\ cred'[m].main = cred[m].main /\ cred'[m].tmp = cred[m].tmp
                               /\ \A d \in Commands : cred'[m].opened[d] = cred[m].opened[d]
    PROVE  LoginInv'
<1>1. ASSUME NEW m \in Machines
      PROVE  Good(m)'
  <2>1. c \notin Within(m) /\ c \notin Within(m)'
    BY OneCommand DEF Within, LoginInv
  <2>2. \A d \in Commands : d \in Within(m)' <=> d \in Within(m)
    BY <2>1, OneCommand DEF LoginInv
  <2>3. \A d \in Within(m) : command'[d] = command[d]
    BY <2>1, OneCommand DEF Within, LoginInv
  <2>4. Unmoved(m)
    BY <2>2, <2>3 DEF Unmoved
  <2> QED
    BY <2>4, UnmovedGood DEF LoginInv
<1>2. \A m \in Machines : Good(m)'
  BY <1>1
<1>3. \A d \in Commands : Apart(command'[d])
  BY OneCommand DEF LoginInv
<1>4. (\A d \in Commands : Apart(command[d]))'
  BY <1>3 DEF Apart
<1> QED
  BY <1>2, <1>4 DEF LoginInv

\* What Becomes and End leave of a command.
LEMMA Becoming ==
    ASSUME CliInv, NEW c \in Commands, NEW pc, NEW held, Becomes(c, pc, held)
    PROVE  LET k == Process(pc, Home(c), command[c].login, held) IN
           /\ command' = [command EXCEPT ![c] = k]
           /\ k.pc = pc /\ k.home = Home(c) /\ k.login = command[c].login /\ k.held = held
BY DEF Becomes, Process, Home

LEMMA Ending ==
    ASSUME NEW c \in Commands, End(c)
    PROVE  command' = [command EXCEPT ![c] = Ended] /\ Ended.pc = "done"
BY NobodyRuns DEF End

LEMMA EndsLogin ==
    ASSUME LoginInv, NEW c \in Commands,
           Unreachable(c) \/ LoginFails(c) \/ Receive(c)
    PROVE  LoginInv'
<1>1. End(c) /\ UNCHANGED <<cred, provider, issued, live, session, disturbed>> /\ ~Inside(c)
  BY DEF Unreachable, LoginFails, Receive, Runs, Inside
<1>2. CliInv'
  BY EndsInv DEF LoginInv
<1> QED
  BY <1>1, <1>2, Ending, OutsideGood DEF Apart

LEMMA SendLogin ==
    ASSUME LoginInv, NEW c \in Commands, Send(c)
    PROVE  LoginInv'
<1> DEFINE k == Process("served", Home(c), command[c].login, NoLogin)
<1>1. command' = [command EXCEPT ![c] = k] /\ k.pc = "served"
  BY Becoming DEF Send, LoginInv
<1>2. CliInv'
  BY SendInv DEF LoginInv
<1>3. UNCHANGED <<cred, provider, issued, live, session, disturbed>> /\ ~Inside(c)
  BY DEF Send, Runs, Inside
<1> HIDE DEF k
<1> QED
  BY <1>1, <1>2, <1>3, OutsideGood DEF Apart

LEMMA BeginLogin ==
    ASSUME LoginInv, NEW c \in Commands, NEW m \in Machines, Begin(c, m) \/ StartLogin(c, m)
    PROVE  LoginInv'
<1>1. PICK k : command' = [command EXCEPT ![c] = k] /\ k.pc \in {"asked", "done", "login"}
              /\ Apart(k)
  <2>1. /\ Process("asked", m, FALSE, NoLogin).pc = "asked"
        /\ ~Process("asked", m, FALSE, NoLogin).login
        /\ Process("login", m, TRUE, NoLogin).pc = "login"
        /\ Process("login", m, TRUE, NoLogin).login /\ Ended.pc = "done"
    BY NobodyRuns DEF Process
  <2> QED
    BY <2>1 DEF Begin, StartLogin, Apart
<1>2. CliInv'
  BY BeginInv, StartLoginInv DEF LoginInv
<1>3. UNCHANGED <<cred, provider, issued, live, session, disturbed>> /\ ~Inside(c)
  BY DEF Begin, StartLogin, Runs, Inside
<1> QED
  BY <1>1, <1>2, <1>3, OutsideGood

\* Nobody is inside after a command left alone.
LEMMA RefreshFailsGood ==
    ASSUME LoginInv, NEW c \in Commands, RefreshFails(c)
    PROVE  LoginInv'
<1>0. PICK h \in Machines : h = Home(c)
  BY CommandType DEF LoginInv
<1>1. /\ command' = [command EXCEPT ![c] = Ended] /\ Ended.pc = "done"
      /\ UNCHANGED <<cred, provider, issued, live, session, disturbed>>
      /\ command[c].pc = "refresh" /\ CliInv /\ c \in Within(h)
  BY <1>0, Ending, CommandType DEF RefreshFails, LoginInv, Runs, Within, Inside
<1>2. CliInv'
  BY EndsInv DEF LoginInv
<1>3. Good(h)'
  <2>0. c \notin Within(h)' /\ Within(h)' \subseteq Commands
        /\ \A d \in Commands \ {c} : d \in Within(h)' <=> d \in Within(h)
    BY <1>1, OneCommand
  <2>1. \A d \in Within(h)' : d \in Within(h) /\ d # c /\ command'[d] = command[d]
    BY <1>1, <2>0, OneCommand
  <2>2. \A d \in Within(h) : d # c => d \in Within(h)'
    BY <1>1, OneCommand
  <2>3. Good(h) /\ ~InSave(c)
    BY <1>1 DEF LoginInv, InSave
  <2>4. NoneSaves(h)' <=> NoneSaves(h)
    BY <2>1, <2>2, <2>3 DEF NoneSaves, InSave
  <2>5. ASSUME NEW name PROVE Filled(h, name)' <=> Filled(h, name)
    BY <1>1, <2>1, <2>2 DEF Filled
  <2>6. Sound(h)'
    BY <1>1, <2>1, <2>2, <2>3 DEF Good, Sound, InWrite
  <2>7. ASSUME Kept(h) PROVE Kept(h)'
    <3>0. ~command[c].login
      BY <1>1 DEF LoginInv, Apart
    <3>1. Heirs(h)'
      BY <1>1, <2>1, <2>7 DEF Kept, Heirs, InSave
    <3>2. Readers(h)'
      BY <1>1, <2>1, <2>4, <2>7 DEF Kept, Readers, InSave
    <3>3. MainKept(h)'
      BY <1>1, <2>1, <2>2, <2>4, <2>5, <2>7, <3>0 DEF Kept, MainKept
    <3>4. TmpKept(h)'
      BY <1>1, <2>1, <2>5, <2>7 DEF Kept, TmpKept, InWrite
    <3> QED
      BY <3>1, <3>2, <3>3, <3>4 DEF Kept
  <2> QED
    BY <1>1, <2>3, <2>6, <2>7 DEF Good
<1> QED
  BY <1>0, <1>1, <1>2, <1>3, OneMachine DEF Apart

\* A refresh begins: what cred.json holds is accepted, or is being replaced.
LEMMA UnauthorisedGood ==
    ASSUME LoginInv, NEW c \in Commands, Unauthorised(c)
    PROVE  LoginInv'
<1>0. PICK h \in Machines : h = Home(c)
  BY CommandType DEF LoginInv
<1> DEFINE f == cred[h].main
<1>1. /\ UNCHANGED <<cred, provider, issued, live, session>>
      /\ command[c].pc = "asked" /\ CliInv /\ c \notin Within(h) /\ ~Inside(c)
      /\ ~command[c].login
  BY DEF Unauthorised, LoginInv, Runs, Within, Inside, Apart
<1>2. CliInv'
  BY UnauthorisedInv DEF LoginInv
<1>3. CASE ~(f.is = "whole" /\ f.doc.token # 0)
  <2>1. End(c) /\ UNCHANGED disturbed
    BY <1>0, <1>3 DEF Unauthorised, Stored
  <2> QED
    BY <1>1, <1>2, <2>1, Ending, OutsideGood DEF Apart
<1>4. CASE f.is = "whole" /\ f.doc.token # 0
  <2> DEFINE k == Process("refresh", Home(c), command[c].login, f.doc)
             b == \E d \in InsideBut(c, h) : command[d].login
  <2>1. Becomes(c, "refresh", f.doc) /\ Disturbs(c, b)
    BY <1>0, <1>4 DEF Unauthorised, Stored
  <2>2. /\ command' = [command EXCEPT ![c] = k]
        /\ k.pc = "refresh" /\ k.home = h /\ ~k.login /\ k.held = f.doc
    BY <1>0, <1>1, <2>1, Becoming
  <2>3. /\ disturbed'[h] = (disturbed[h] \/ b)
        /\ \A m \in Machines \ {h} : disturbed'[m] = disturbed[m]
    BY <1>0, <1>1, <2>1 DEF Disturbs, CliInv, CliTypeOK
  <2> HIDE DEF k
  <2>4. /\ c \in Within(h)' /\ command'[c] = k
        /\ \A d \in Within(h)' : d # c => d \in Within(h) /\ command'[d] = command[d]
        /\ \A d \in Within(h) : d # c /\ d \in Within(h)'
    <3>1. /\ c \in Within(h)' /\ command'[c] = k
          /\ Within(h) \subseteq Commands /\ Within(h)' \subseteq Commands
          /\ \A d \in Commands \ {c} : command'[d] = command[d]
          /\ \A d \in Commands \ {c} : d \in Within(h)' <=> d \in Within(h)
      BY <1>1, <2>2, OneCommand
    <3> QED
      BY <1>1, <3>1
  <2>5. Good(h) /\ ~InSave(c)'
    BY <2>2, <2>4 DEF LoginInv, InSave
  <2>6. NoneSaves(h)' <=> NoneSaves(h)
    BY <2>4, <2>5 DEF NoneSaves, InSave
  <2>7. ASSUME NEW name PROVE Filled(h, name)' <=> Filled(h, name)
    BY <1>1, <2>2, <2>4 DEF Filled
  <2>8. Sound(h)'
    <3>1. f.doc.token <= issued[h]
      BY <1>4, <2>5 DEF Good, Sound
    <3> QED
      BY <1>1, <2>2, <2>4, <2>5, <3>1 DEF Good, Sound, InWrite
  <2>9. ASSUME ~disturbed'[h] PROVE Kept(h)'
    <3>1. Kept(h) /\ ~disturbed[h]
      BY <2>3, <2>5, <2>9 DEF Good
    <3>2. \A d \in Within(h) : ~command[d].login
      BY <1>1, <2>3, <2>9 DEF InsideBut, Within
    <3>3. /\ f.doc.sub = session[h] /\ f = Whole(f.doc)
          /\ f.doc.token \in live[h] <=> (provider # "replaces" \/ NoneSaves(h))
      <4>1. f = Whole(f.doc)
        BY <1>1, <1>4, MachineType, CredRead
      <4> QED
        BY <1>4, <3>1, <3>2, <4>1 DEF Kept, MainKept
    <3> HIDE DEF f
    <3>4. Heirs(h)'
      BY <1>1, <2>2, <2>4, <2>5, <3>1, <3>2, <3>3 DEF Kept, Heirs, InSave
    <3>5. Readers(h)'
      <4>1. ASSUME provider = "replaces", NEW d \in Within(h)', ~InSave(d)', command'[d].held.token \in live[h]
            PROVE  cred[h].main = Whole(command'[d].held) /\ NoneSaves(h)
        <5>1. CASE d = c
          BY <4>1, <5>1, <2>2, <2>4, <3>3 DEF f
        <5>2. CASE d # c
          BY <4>1, <5>2, <2>4, <3>1 DEF Kept, Readers, InSave
        <5> QED
          BY <5>1, <5>2
      <4> QED
        BY <1>1, <2>6, <4>1 DEF Readers
    <3>6. MainKept(h)'
      BY <1>1, <2>2, <2>4, <2>6, <2>7, <3>1, <3>2, <3>3 DEF Kept, MainKept, f
    <3>7. TmpKept(h)'
      BY <1>1, <2>2, <2>4, <2>7, <3>1 DEF Kept, TmpKept, InWrite
    <3> QED
      BY <3>4, <3>5, <3>6, <3>7 DEF Kept
  <2>10. Good(h)'
    BY <2>8, <2>9 DEF Good
  <2> QED
    BY <1>0, <1>1, <1>2, <2>2, <2>3, <2>10, OneMachine DEF Apart
<1> QED
  BY <1>3, <1>4

\* A refresh is answered: the new token is the one to save, and nobody else has it.
LEMMA RefreshGood ==
    ASSUME LoginInv, NEW c \in Commands, Refresh(c)
    PROVE  LoginInv'
<1>0. PICK h \in Machines : h = Home(c)
  BY CommandType DEF LoginInv
<1>1. /\ UNCHANGED <<cred, provider, session>>
      /\ command[c].pc = "refresh" /\ CliInv /\ c \in Within(h) /\ ~command[c].login
      /\ command[c].held.token \in live[h] /\ Good(h)
  BY <1>0 DEF Refresh, LoginInv, Runs, Within, Inside, Apart
<1>2. CliInv'
  BY RefreshInv DEF LoginInv
<1>3. PICK token \in 0..MaxTokens, accepted \in SUBSET (1..MaxTokens) :
        /\ Exchanged(c, token, accepted)
        /\ live' = [live EXCEPT ![h] = accepted]
        /\ \/ /\ Becomes(c, "open", Login(command[c].held.sub, token))
              /\ UNCHANGED disturbed
           \/ End(c) /\ Disturbs(c, TRUE)
  BY <1>0 DEF Refresh
<1> DEFINE old == command[c].held.token
<1>4. /\ live'[h] = accepted /\ \A m \in Machines \ {h} : live'[m] = live[m]
      /\ live[h] \subseteq 1..MaxTokens /\ issued[h] \in Nat /\ old \in 1..MaxTokens
      /\ \A d \in Within(h) : command[d].held.token \in Nat
      /\ \A d \in Within(h) : command[d].held.token <= issued[h]
      /\ \A t \in live[h] : t <= issued[h]
      /\ MaxTokens \in Nat
  <2>1. live \in [Machines -> SUBSET (1..MaxTokens)] /\ MaxTokens \in Nat
    BY <1>1, CliAssumption DEF CliInv, CliTypeOK
  <2>2. \A d \in Within(h) : command[d].held.token \in 1..MaxTokens
    BY <1>1, MachineType DEF Cred
  <2>3. issued[h] \in Nat
    BY <1>1, MachineType
  <2> QED
    BY <1>1, <1>3, <2>1, <2>2, <2>3 DEF Good, Sound
<1>5. /\ \A m \in Machines \ {h} : issued'[m] = issued[m]
      /\ issued'[h] \in Nat /\ issued[h] <= issued'[h]
      /\ token <= issued'[h] /\ token \in accepted
      /\ \A t \in accepted : t <= issued'[h]
      /\ provider = "replaces" => token > issued[h] /\ accepted = (live[h] \ {old}) \cup {token}
      /\ provider # "replaces" => live[h] \subseteq accepted
  <2>1. CASE provider # "keeps"
    <3>1. /\ issued' = [issued EXCEPT ![h] = issued[h] + 1]
          /\ token = issued[h] + 1
          /\ accepted = {token} \cup (IF provider = "adds" THEN live[h] ELSE live[h] \ {old})
      BY <1>0, <1>3, <2>1 DEF Exchanged
    <3>4. provider = "replaces" \/ provider = "adds"
      BY <1>1, <2>1 DEF CliInv, CliTypeOK, Providers
    <3>2. issued'[h] = issued[h] + 1 /\ \A m \in Machines \ {h} : issued'[m] = issued[m]
      BY <1>1, <3>1 DEF CliInv, CliTypeOK
    <3> HIDE DEF old
    <3>3. \A t \in live[h] : t \in Nat
      BY <1>4
    <3> QED
      BY <1>4, <2>1, <3>1, <3>2, <3>3, <3>4
  <2>2. CASE provider = "keeps"
    BY <1>0, <1>1, <1>3, <1>4, <2>2 DEF Exchanged, Unrotated
  <2> QED
    BY <2>1, <2>2
<1> HIDE DEF old
<1>6. CASE End(c) /\ Disturbs(c, TRUE)
  <2>1. command' = [command EXCEPT ![c] = Ended] /\ Ended.pc = "done"
    BY <1>6, Ending
  <2>2. disturbed'[h] /\ \A m \in Machines \ {h} : disturbed'[m] = disturbed[m]
    BY <1>0, <1>1, <1>6 DEF Disturbs, CliInv, CliTypeOK
  <2>3. /\ c \notin Within(h)'
        /\ \A d \in Within(h)' : d \in Within(h) /\ command'[d] = command[d]
        /\ \A d \in Within(h) : d # c => d \in Within(h)'
    <3>1. /\ c \notin Within(h)'
          /\ Within(h) \subseteq Commands /\ Within(h)' \subseteq Commands
          /\ \A d \in Commands \ {c} : command'[d] = command[d]
          /\ \A d \in Commands \ {c} : d \in Within(h)' <=> d \in Within(h)
      BY <1>1, <2>1, OneCommand
    <3> QED
      BY <3>1
  <2>4. Sound(h)'
    <3>1. /\ issued[h] \in Nat /\ issued'[h] \in Nat /\ issued[h] <= issued'[h]
          /\ \A t \in live'[h] : t <= issued'[h]
          /\ \A d \in Within(h) : command[d].held.token \in Nat
      BY <1>4, <1>5
    <3>2. /\ cred[h].main.is = "whole" => cred[h].main.doc.token \in Nat
          /\ cred[h].tmp.is = "whole" => cred[h].tmp.doc.token \in Nat
      BY <1>1, StoredTokens
    <3> QED
      BY <1>1, <2>3, <3>1, <3>2 DEF Good, Sound, InWrite
  <2>5. Good(h)'
    BY <2>2, <2>4 DEF Good
  <2> QED
    BY <1>0, <1>1, <1>2, <1>4, <1>5, <2>1, <2>2, <2>5, OneMachine DEF Apart
<1>7. CASE Becomes(c, "open", Login(command[c].held.sub, token)) /\ UNCHANGED disturbed
  <2> DEFINE k == Process("open", Home(c), command[c].login, Login(command[c].held.sub, token))
  <2>1. /\ command' = [command EXCEPT ![c] = k]
        /\ k.pc = "open" /\ k.home = h /\ ~k.login
        /\ k.held.sub = command[c].held.sub /\ k.held.token = token
    BY <1>0, <1>1, <1>7, Becoming, LoginRead
  <2> HIDE DEF k
  <2>2. /\ c \in Within(h)' /\ command'[c] = k
        /\ \A d \in Within(h)' : d # c => d \in Within(h) /\ command'[d] = command[d]
        /\ \A d \in Within(h) : d \in Within(h)'
    <3>1. /\ c \in Within(h)' /\ command'[c] = k
          /\ Within(h) \subseteq Commands /\ Within(h)' \subseteq Commands
          /\ \A d \in Commands \ {c} : command'[d] = command[d]
          /\ \A d \in Commands \ {c} : d \in Within(h)' <=> d \in Within(h)
      BY <1>1, <2>1, OneCommand
    <3> QED
      BY <1>1, <3>1
  <2>3. Sound(h)'
    BY <1>1, <1>4, <1>5, <2>1, <2>2, StoredTokens DEF Good, Sound, InWrite
  <2>4. ASSUME ~disturbed'[h] PROVE Kept(h)'
    <3>1. Kept(h)
      BY <1>1, <1>7, <2>4 DEF Good
    <3>2. ~InSave(c) /\ InSave(c)' /\ ~InWrite(c)' /\ ~NoneSaves(h)'
      BY <1>1, <2>1, <2>2 DEF InSave, InWrite, NoneSaves
    <3>3. provider = "replaces" => cred[h].main = Whole(command[c].held) /\ NoneSaves(h)
      BY <1>1, <3>1, <3>2 DEF Kept, Readers
    <3>4. \A d \in Within(h) : ~command[d].login
      BY <1>1, <3>1 DEF Kept, Heirs
    <3>5. ASSUME NEW d \in Within(h), d # c, provider = "replaces"
          PROVE  command[d].held.token \notin accepted /\ ~InSave(d)
      <4>1. ~InSave(d)
        BY <3>3, <3>5 DEF NoneSaves
      <4>2. command[d].held.token \in live[h] => command[d].held = command[c].held
        <5>1. \A e \in {c, d} : Whole(command[e].held).doc = command[e].held
          BY DEF Whole
        <5> QED
          BY <1>1, <3>1, <3>2, <3>3, <3>5, <4>1, <5>1 DEF Kept, Readers
      <4>3. command[d].held.token # token
        BY <1>4, <1>5, <3>5
      <4> QED
        BY <1>5, <3>5, <4>1, <4>2, <4>3 DEF old
    <3>6. Heirs(h)'
      BY <1>1, <1>4, <1>5, <2>1, <2>2, <3>1, <3>2, <3>4, <3>5 DEF Kept, Heirs, InSave
    <3>7. Readers(h)'
      BY <1>1, <1>4, <2>2, <3>2, <3>5 DEF Readers, InSave
    <3>8. ASSUME NEW name PROVE Filled(h, name)' <=> Filled(h, name)
      BY <1>1, <2>1, <2>2 DEF Filled
    <3>9. MainKept(h)'
      <4>1. provider = "replaces" => cred[h].main.doc.token \notin accepted
        <5>1. provider = "replaces" => cred[h].main.doc.token = old
          BY <3>3 DEF old, Whole
        <5> QED
          BY <1>1, <1>4, <1>5, <5>1 DEF old
      <4>2. /\ session[h] = Nobody <=> cred[h].main = Absent
            /\ cred[h].main # Mixed
            /\ cred[h].main = Torn => provider # "replaces" /\ Filled(h, "main")
            /\ cred[h].main.is = "whole" =>
                /\ cred[h].main.doc.sub = session[h]
                /\ provider # "replaces" => cred[h].main.doc.token \in live[h]
        BY <3>1, <3>4 DEF Kept, MainKept
      <4> QED
        BY <1>1, <1>4, <1>5, <2>1, <2>2, <3>2, <3>8, <4>1, <4>2 DEF MainKept
    <3>10. TmpKept(h)'
      <4>1. \A d \in Within(h)' : InWrite(d)' =>
              d \in Within(h) /\ InWrite(d) /\ provider # "replaces"
                /\ command'[d] = command[d] /\ d # c
        BY <2>2, <3>2, <3>3 DEF InWrite, InSave, NoneSaves
      <4>2. provider # "replaces" => live[h] \subseteq live'[h]
        BY <1>4, <1>5
      <4> QED
        BY <1>1, <3>1, <3>8, <4>1, <4>2 DEF Kept, TmpKept
    <3> QED
      BY <3>6, <3>7, <3>9, <3>10 DEF Kept
  <2>5. Good(h)'
    BY <2>3, <2>4 DEF Good
  <2> QED
    BY <1>0, <1>1, <1>2, <1>4, <1>5, <1>7, <2>1, <2>5, OneMachine DEF Apart
<1> QED
  BY <1>3, <1>6, <1>7

\* A login comes back: unless it disturbs it is alone, with a new token.
LEMMA LoggedInGood ==
    ASSUME LoginInv, NEW c \in Commands, NEW sub \in Accounts, LoggedIn(c, sub)
    PROVE  LoginInv'
<1>0. PICK h \in Machines : h = Home(c)
  BY CommandType DEF LoginInv
<1> DEFINE token == issued[h] + 1
           k == Process("open", Home(c), command[c].login, Login(sub, token))
<1>1. /\ UNCHANGED <<cred, provider, session>> /\ CliInv /\ Good(h)
      /\ command[c].pc = "login" /\ c \notin Within(h)
      /\ Becomes(c, "open", Login(sub, token))
      /\ live' = [live EXCEPT ![h] = live[h] \cup {token}]
      /\ issued' = [issued EXCEPT ![h] = issued[h] + 1]
      /\ disturbed' = [disturbed EXCEPT ![h] = InsideBut(c, h) # {}]
  BY <1>0 DEF LoggedIn, LoginInv, Runs, Within, Inside
<1>2. CliInv'
  BY LoggedInInv DEF LoginInv
<1>3. /\ live'[h] = live[h] \cup {token} /\ issued'[h] = token
      /\ disturbed'[h] = (InsideBut(c, h) # {})
      /\ \A m \in Machines \ {h} : /\ live'[m] = live[m] /\ issued'[m] = issued[m]
                                   /\ disturbed'[m] = disturbed[m]
      /\ issued[h] \in Nat /\ \A t \in live[h] : t \in Nat
      /\ \A d \in Within(h) : command[d].held.token \in Nat
  <2>1. \A d \in Within(h) : command[d].held.token \in 1..MaxTokens
    BY <1>1, MachineType DEF Cred
  <2>2. issued[h] \in Nat /\ live[h] \subseteq 1..MaxTokens
    BY <1>1, MachineType
  <2> QED
    BY <1>1, <2>1, <2>2, CliAssumption DEF CliInv, CliTypeOK
<1>4. /\ command' = [command EXCEPT ![c] = k]
      /\ k.pc = "open" /\ k.home = h /\ k.held.sub = sub /\ k.held.token = token
      /\ k.login = command[c].login
  BY <1>0, <1>1, Becoming, LoginRead
<1> HIDE DEF k
<1>5. /\ c \in Within(h)' /\ command'[c] = k
      /\ \A d \in Within(h)' : d # c => d \in Within(h) /\ command'[d] = command[d]
      /\ \A d \in Within(h) : d # c /\ d \in Within(h)'
  <2>1. /\ c \in Within(h)' /\ command'[c] = k
        /\ Within(h) \subseteq Commands /\ Within(h)' \subseteq Commands
        /\ \A d \in Commands \ {c} : command'[d] = command[d]
        /\ \A d \in Commands \ {c} : d \in Within(h)' <=> d \in Within(h)
    BY <1>1, <1>4, OneCommand
  <2> QED
    BY <1>1, <2>1
<1>6. Sound(h)'
  <2>1. issued[h] <= token /\ token \in Nat
    BY <1>3
  <2> HIDE DEF token
  <2> QED
    BY <1>1, <1>3, <1>4, <1>5, <2>1, StoredTokens DEF Good, Sound, InWrite
<1>7. ASSUME ~disturbed'[h] PROVE Kept(h)'
  <2>1. \A d \in Within(h)' : d = c
    BY <1>3, <1>5, <1>7 DEF InsideBut, Within
  <2>2. InSave(c)' /\ ~InWrite(c)' /\ token \in live'[h]
    BY <1>3, <1>4, <1>5 DEF InSave, InWrite
  <2> HIDE DEF token
  <2>3. k.login
    BY <1>1, <1>4 DEF LoginInv, Apart
  <2> QED
    BY <1>4, <1>5, <2>1, <2>2, <2>3 DEF Kept, Heirs, Readers, MainKept, TmpKept
<1>8. Good(h)'
  BY <1>6, <1>7 DEF Good
<1> QED
  BY <1>0, <1>1, <1>2, <1>3, <1>4, <1>8, OneMachine DEF Apart

-----------------------------------------------------------------------------
(* SaveCred. *)

\* A command that saves, and the machine that it is inside.
LEMMA SaverInside ==
    ASSUME LoginInv, NEW c \in Commands, command[c].pc \in {"open", "write", "rename"}
    PROVE  /\ CliInv /\ Home(c) \in Machines /\ Good(Home(c)) /\ c \in Within(Home(c))
           /\ command[c].held \in Cred /\ InSave(c)
<1>1. CliInv /\ Home(c) \in Machines
  BY CommandType DEF LoginInv
<1>2. c \in Within(Home(c))
  BY DEF Within, Inside
<1> QED
  BY <1>1, <1>2, MachineType DEF LoginInv, InSave

\* It goes on to the next step of the write.
LEMMA SaverMoves ==
    ASSUME CliInv, NEW c \in Commands, NEW h \in Machines, h = Home(c), c \in Within(h),
           NEW pc \in {"write", "rename"}, Becomes(c, pc, command[c].held)
    PROVE  /\ \E k : command' = [command EXCEPT ![c] = k] /\ Apart(k) /\ k.home = h
           /\ \A d \in Commands : d \in Within(h)' <=> d \in Within(h)
           /\ Within(h)' = Within(h)
           /\ command'[c].pc = pc /\ command'[c].held = command[c].held
           /\ command'[c].login = command[c].login
           /\ \A d \in Within(h) : d # c => command'[d] = command[d]
           /\ \A d \in Within(h) : command'[d].held = command[d].held
                                   /\ command'[d].login = command[d].login
<1> DEFINE k == Process(pc, Home(c), command[c].login, command[c].held)
<1>1. /\ command' = [command EXCEPT ![c] = k]
      /\ k.pc = pc /\ k.home = h /\ k.login = command[c].login /\ k.held = command[c].held
  BY Becoming
<1> HIDE DEF k
<1>2. /\ c \in Within(h)' /\ command'[c] = k
      /\ Within(h) \subseteq Commands /\ Within(h)' \subseteq Commands
      /\ \A d \in Commands \ {c} : command'[d] = command[d]
      /\ \A d \in Commands \ {c} : d \in Within(h)' <=> d \in Within(h)
  BY <1>1, OneCommand
<1>3. Within(h)' = Within(h)
  BY <1>2
<1>4. Apart(k)
  BY <1>1 DEF Apart
<1>5. \A d \in Within(h) : d # c => command'[d] = command[d]
  BY <1>2
<1> QED
  BY <1>1, <1>2, <1>3, <1>4, <1>5

\* The temporary file is created or truncated, and its writer has it open.
LEMMA SaveOpenGood ==
    ASSUME LoginInv, NEW c \in Commands, SaveOpen(c)
    PROVE  LoginInv'
<1>0. PICK h \in Machines : h = Home(c)
  BY CommandType DEF LoginInv
<1>1. /\ cred' = [cred EXCEPT ![h] = Truncated(cred[h], c)]
      /\ Becomes(c, "write", command[c].held)
      /\ UNCHANGED <<provider, issued, live, session, disturbed>>
      /\ command[c].pc = "open"
  BY <1>0 DEF SaveOpen, Runs, Store, Stored
<1>2. /\ CliInv /\ Good(h) /\ c \in Within(h) /\ InSave(c)
  BY <1>0, <1>1, SaverInside
<1>3. CliInv'
  BY SaveOpenInv DEF LoginInv
<1>4. /\ \E k : command' = [command EXCEPT ![c] = k] /\ Apart(k) /\ k.home = h
      /\ Within(h)' = Within(h) /\ Within(h) \subseteq Commands
      /\ command'[c].pc = "write"
      /\ \A d \in Within(h) : d # c => command'[d] = command[d]
      /\ \A d \in Within(h) : command'[d].held = command[d].held
                              /\ command'[d].login = command[d].login
  BY <1>0, <1>1, <1>2, SaverMoves DEF Within
<1>5. /\ cred'[h].main = cred[h].main /\ cred'[h].tmp = Torn
      /\ cred'[h].opened[c] = "tmp"
      /\ \A d \in Commands \ {c} : cred'[h].opened[d] = cred[h].opened[d]
      /\ \A m \in Machines \ {h} : cred'[m] = cred[m]
  <2>1. /\ cred' = [cred EXCEPT ![h] = Truncated(cred[h], c)]
        /\ cred \in [Machines -> Files(Commands, Cred)]
    BY <1>1, <1>2 DEF CliInv, CliTypeOK
  <2>2. cred'[h] = Truncated(cred[h], c) /\ \A m \in Machines \ {h} : cred'[m] = cred[m]
    BY <2>1
  <2>3. cred[h] \in Files(Commands, Cred)
        /\ cred[h].opened \in [Commands -> {"none", "tmp", "main", "gone"}]
    BY <1>2, MachineType
  <2>4. /\ Truncated(cred[h], c).main = cred[h].main /\ Truncated(cred[h], c).tmp = Torn
        /\ Truncated(cred[h], c).opened = [cred[h].opened EXCEPT ![c] = "tmp"]
    BY <2>3, CredMoves
  <2> QED
    BY <2>2, <2>3, <2>4
<1>6. \A d \in Within(h) : InSave(d)' <=> InSave(d)
  BY <1>1, <1>4 DEF InSave
<1>7. NoneSaves(h)' <=> NoneSaves(h)
  BY <1>4, <1>6 DEF NoneSaves
<1>8. Torn # Absent /\ Torn # Mixed /\ Torn.is # "whole"
  BY ContentsRead
<1>9. Sound(h)'
  BY <1>1, <1>2, <1>4, <1>5, <1>8 DEF Good, Sound, InWrite
<1>10. ASSUME Kept(h) PROVE Kept(h)'
  <2>1. Heirs(h)'
    BY <1>1, <1>4, <1>6, <1>10 DEF Kept, Heirs
  <2>2. Readers(h)'
    BY <1>1, <1>4, <1>5, <1>6, <1>7, <1>10 DEF Kept, Readers
  <2>3. Filled(h, "main") => Filled(h, "main")'
    BY <1>1, <1>4, <1>5 DEF Filled
  <2>4. MainKept(h)'
    BY <1>1, <1>4, <1>5, <1>7, <1>10, <2>3 DEF Kept, MainKept
  <2>5. Filled(h, "tmp")'
    BY <1>2, <1>4, <1>5 DEF Filled
  <2>6. ASSUME NEW d \in Within(h), InWrite(d)', provider = "replaces" \/ command[d].login
        PROVE  d = c
    BY <1>1, <1>2, <1>4, <1>6, <1>10, <2>6 DEF Kept, Heirs, InWrite, InSave
  <2>7. TmpKept(h)'
    BY <1>1, <1>4, <1>5, <1>8, <2>5, <2>6 DEF TmpKept
  <2> QED
    BY <2>1, <2>2, <2>4, <2>7 DEF Kept
<1>11. Good(h)'
  BY <1>1, <1>2, <1>9, <1>10 DEF Good
<1>12. PICK k : command' = [command EXCEPT ![c] = k] /\ Apart(k) /\ k.home = h
  BY <1>4
<1> QED
  BY <1>0, <1>1, <1>3, <1>5, <1>11, <1>12, OneMachine

\* The document is written to the file that was opened, whatever its name is now.
LEMMA SaveWriteGood ==
    ASSUME LoginInv, NEW c \in Commands, SaveWrite(c)
    PROVE  LoginInv'
<1>0. PICK h \in Machines : h = Home(c)
  BY CommandType DEF LoginInv
<1> DEFINE doc == command[c].held
<1>1. /\ \E f \in Written(cred[h], c, doc) : cred' = [cred EXCEPT ![h] = f]
      /\ Becomes(c, "rename", command[c].held)
      /\ disturbed' = [disturbed EXCEPT ![h] =
                         disturbed[h] \/ Under(cred[h], c) \notin {Torn, Whole(doc)}]
      /\ UNCHANGED <<provider, issued, live, session>>
      /\ command[c].pc = "write"
  BY <1>0 DEF SaveWrite, Runs, Store, Stored, Disturbs
<1>2. /\ CliInv /\ Good(h) /\ c \in Within(h) /\ InSave(c) /\ InWrite(c)
  BY <1>0, <1>1, SaverInside DEF InWrite
<1>3. CliInv'
  BY SaveWriteInv DEF LoginInv
<1>4. /\ \E k : command' = [command EXCEPT ![c] = k] /\ Apart(k) /\ k.home = h
      /\ Within(h)' = Within(h) /\ Within(h) \subseteq Commands
      /\ command'[c].pc = "rename"
      /\ \A d \in Within(h) : d # c => command'[d] = command[d]
      /\ \A d \in Within(h) : command'[d].held = command[d].held
                              /\ command'[d].login = command[d].login
  BY <1>0, <1>1, <1>2, SaverMoves DEF Within
<1>5. PICK content \in Over(Under(cred[h], c), doc) :
        /\ cred'[h].main = IF cred[h].opened[c] = "main" THEN content ELSE cred[h].main
        /\ cred'[h].tmp = IF cred[h].opened[c] = "tmp" THEN content ELSE cred[h].tmp
        /\ cred'[h].opened = cred[h].opened
        /\ \A m \in Machines \ {h} : cred'[m] = cred[m]
  <2> HIDE DEF doc
  <2>1. PICK f \in Written(cred[h], c, doc) : cred' = [cred EXCEPT ![h] = f]
    BY <1>1
  <2>2. cred \in [Machines -> Files(Commands, Cred)]
    BY <1>2 DEF CliInv, CliTypeOK
  <2>3. cred'[h] = f /\ \A m \in Machines \ {h} : cred'[m] = cred[m]
    BY <2>1, <2>2
  <2>4. PICK content \in Over(Under(cred[h], c), doc) :
          f = File(IF cred[h].opened[c] = "main" THEN content ELSE cred[h].main,
                   IF cred[h].opened[c] = "tmp" THEN content ELSE cred[h].tmp,
                   cred[h].opened)
    BY <2>1 DEF Written
  <2> QED
    BY <2>3, <2>4 DEF File
<1>d. /\ disturbed'[h] = (disturbed[h] \/ Under(cred[h], c) \notin {Torn, Whole(doc)})
      /\ \A m \in Machines \ {h} : disturbed'[m] = disturbed[m]
  BY <1>1, <1>2 DEF CliInv, CliTypeOK
<1>o. /\ content = Whole(doc) \/ content = Mixed
      /\ ~disturbed'[h] => content = Whole(doc)
  BY <1>5, <1>d DEF Over
<1>6. \A d \in Within(h) : (InSave(d)' <=> InSave(d)) /\ (InWrite(d)' <=> InWrite(d))
  BY <1>1, <1>4 DEF InSave, InWrite
<1>7. NoneSaves(h)' <=> NoneSaves(h)
  BY <1>4, <1>6 DEF NoneSaves
<1>8. /\ Whole(doc).is = "whole" /\ Whole(doc).doc = doc
      /\ Whole(doc) # Absent /\ Whole(doc) # Torn /\ Whole(doc) # Mixed
      /\ Mixed.is # "whole" /\ Mixed # Absent
      /\ doc.token <= issued[h]
  BY <1>2, ContentsRead DEF Good, Sound
<1>9. Sound(h)'
  BY <1>1, <1>2, <1>4, <1>5, <1>6, <1>8, <1>o DEF Good, Sound
<1>10. ASSUME ~disturbed'[h] PROVE Kept(h)'
  <2>k. Kept(h) /\ content = Whole(doc)
    BY <1>2, <1>10, <1>d, <1>o DEF Good
  <2>0. /\ doc.token \in live[h]
        /\ ~command[c].login => doc.sub = session[h]
        /\ provider = "replaces" \/ command[c].login => cred[h].opened[c] = "tmp"
        /\ \A d \in Within(h) : command[d].held.sub = doc.sub
        /\ ~NoneSaves(h)
    BY <1>2, <2>k DEF Kept, Heirs, TmpKept, NoneSaves
  <2>1. Heirs(h)'
    BY <1>1, <1>4, <1>6, <2>k DEF Kept, Heirs
  <2>2. Readers(h)'
    BY <1>1, <1>2, <1>4, <1>5, <1>6, <1>7, <2>k, <2>0 DEF Kept, Readers
  <2>3. ASSUME NEW name \in {"main", "tmp"}, cred[h].opened[c] # name, Filled(h, name)
        PROVE  Filled(h, name)'
    BY <1>1, <1>4, <1>5, <2>3 DEF Filled
  <2>4. ASSUME \A d \in Within(h) : ~command[d].login
        PROVE  MainKept(h)'
    <3>1. session[h] # Nobody
      BY <1>2, <2>0, <2>4, CliAssumption, MachineType DEF Cred
    <3>2. CASE cred[h].opened[c] = "main"
      BY <1>1, <1>2, <1>4, <1>5, <1>7, <1>8, <2>k, <2>0, <2>4, <3>1, <3>2 DEF MainKept
    <3>3. CASE cred[h].opened[c] # "main"
      BY <1>1, <1>4, <1>5, <1>7, <2>k, <2>3, <2>4, <3>3 DEF Kept, MainKept
    <3> QED
      BY <3>2, <3>3
  <2>5. MainKept(h)'
    <3>1. CASE \E d \in Within(h) : command[d].login
      BY <1>4, <3>1 DEF MainKept
    <3> QED
      BY <2>4, <3>1
  <2>6. TmpKept(h)'
    <3>1. \A d \in Within(h) : InWrite(d) => InSave(d)
      BY DEF InWrite, InSave
    <3>2. CASE cred[h].opened[c] = "tmp"
      BY <1>1, <1>4, <1>5, <1>6, <1>8, <2>k, <2>0, <3>1, <3>2 DEF Kept, TmpKept
    <3>3. CASE cred[h].opened[c] # "tmp"
      BY <1>1, <1>4, <1>5, <1>6, <2>k, <2>3, <3>3 DEF Kept, TmpKept
    <3> QED
      BY <3>2, <3>3
  <2> QED
    BY <2>1, <2>2, <2>5, <2>6 DEF Kept
<1>11. Good(h)'
  BY <1>9, <1>10 DEF Good
<1>12. PICK k : command' = [command EXCEPT ![c] = k] /\ Apart(k) /\ k.home = h
  BY <1>4
<1> QED
  BY <1>0, <1>1, <1>3, <1>5, <1>d, <1>11, <1>12, OneMachine

\* What AfterSave and End leave of a command: it is no longer inside.
LEMMA SaverLeaves ==
    ASSUME CliInv, NEW c \in Commands, NEW h \in Machines, h = Home(c),
           AfterSave(c) \/ End(c)
    PROVE  /\ \E k : /\ command' = [command EXCEPT ![c] = k] /\ Apart(k)
                     /\ k.pc \notin {"refresh", "open", "write", "rename"}
           /\ c \notin Within(h)'
           /\ \A d \in Within(h)' : d \in Within(h) /\ d # c /\ d \in Commands
                                    /\ command'[d] = command[d]
           /\ \A d \in Within(h) : d # c => d \in Within(h)'
<1>1. PICK k : /\ command' = [command EXCEPT ![c] = k]
               /\ k.pc \notin {"refresh", "open", "write", "rename", "asked", "login"}
  <2>1. CASE End(c)
    BY <2>1, Ending
  <2>2. CASE AfterSave(c) /\ ~End(c)
    <3>1. Becomes(c, "retry", Login(command[c].held.sub, 0))
      BY <2>2 DEF AfterSave
    <3> QED
      BY <3>1, Becoming
  <2> QED
    BY <2>1, <2>2
<1>2. /\ c \notin Within(h)'
      /\ Within(h) \subseteq Commands /\ Within(h)' \subseteq Commands
      /\ \A d \in Commands \ {c} : command'[d] = command[d]
      /\ \A d \in Commands \ {c} : d \in Within(h)' <=> d \in Within(h)
  BY <1>1, OneCommand
<1>3. Apart(k)
  BY <1>1 DEF Apart
<1> QED
  BY <1>1, <1>2, <1>3

\* Whatever is there under the temporary name becomes cred.json.
LEMMA SaveRenameGood ==
    ASSUME LoginInv, NEW c \in Commands, SaveRename(c)
    PROVE  LoginInv'
<1>0. PICK h \in Machines : h = Home(c)
  BY CommandType DEF LoginInv
<1> DEFINE doc == command[c].held
<1>1. /\ cred' = [cred EXCEPT ![h] = Renamed(cred[h], c)]
      /\ AfterSave(c) /\ cred[h].tmp # Absent
      /\ UNCHANGED <<provider, issued, live, disturbed>>
      /\ command[c].pc = "rename"
  BY <1>0 DEF SaveRename, Runs, Store, Stored
<1>2. /\ CliInv /\ Good(h) /\ c \in Within(h) /\ InSave(c) /\ InWrite(c)
      /\ doc.sub \in Accounts
  BY <1>0, <1>1, SaverInside DEF InWrite, Cred
<1>3. CliInv'
  BY SaveRenameInv DEF LoginInv
<1>4. /\ \E k : /\ command' = [command EXCEPT ![c] = k] /\ Apart(k)
                /\ k.pc \notin {"refresh", "open", "write", "rename"}
      /\ c \notin Within(h)'
      /\ \A d \in Within(h)' : d \in Within(h) /\ d # c /\ d \in Commands
                               /\ command'[d] = command[d]
      /\ \A d \in Within(h) : d # c => d \in Within(h)'
  BY <1>0, <1>1, <1>2, SaverLeaves
<1>5. /\ cred'[h].main = cred[h].tmp /\ cred'[h].tmp = Absent
      /\ cred'[h].opened[c] = "none"
      /\ \A v \in Commands \ {c} :
           cred'[h].opened[v] = IF cred[h].opened[v] = "tmp" THEN "main"
                                ELSE IF cred[h].opened[v] = "main" THEN "gone"
                                ELSE cred[h].opened[v]
      /\ \A m \in Machines \ {h} : cred'[m] = cred[m]
  <2>1. /\ cred' = [cred EXCEPT ![h] = Renamed(cred[h], c)]
        /\ cred \in [Machines -> Files(Commands, Cred)]
    BY <1>1, <1>2 DEF CliInv, CliTypeOK
  <2>2. cred'[h] = Renamed(cred[h], c) /\ \A m \in Machines \ {h} : cred'[m] = cred[m]
    BY <2>1
  <2>3. cred[h] \in Files(Commands, Cred)
    BY <1>2, MachineType
  <2>4. /\ Renamed(cred[h], c).main = cred[h].tmp /\ Renamed(cred[h], c).tmp = Absent
        /\ Renamed(cred[h], c).opened[c] = "none"
        /\ \A v \in Commands \ {c} :
             Renamed(cred[h], c).opened[v] =
               IF cred[h].opened[v] = "tmp" THEN "main"
               ELSE IF cred[h].opened[v] = "main" THEN "gone" ELSE cred[h].opened[v]
    BY <2>3, CredMoves
  <2> QED
    BY <2>2, <2>4
<1>6. /\ session'[h] = IF command[c].login THEN doc.sub ELSE session[h]
      /\ \A m \in Machines \ {h} : session'[m] = session[m]
  <2>1. session' = IF command[c].login THEN [session EXCEPT ![h] = doc.sub] ELSE session
    BY <1>0 DEF SaveRename
  <2>2. session \in [Machines -> Accounts \cup {Nobody}]
    BY <1>2 DEF CliInv, CliTypeOK
  <2> HIDE DEF doc
  <2> QED
    BY <2>1, <2>2
<1>7. Absent.is # "whole" /\ Absent # Torn /\ Absent # Mixed
      /\ (cred[h].tmp.is = "whole" => cred[h].tmp # Torn /\ cred[h].tmp # Mixed)
      /\ (cred[h].tmp = Torn => cred[h].tmp.is # "whole" /\ cred[h].tmp # Mixed)
  BY ContentsRead
<1>8. Sound(h)'
  <2>1. \A v \in Commands : cred'[h].opened[v] # "tmp"
    BY <1>5
  <2>2. ASSUME NEW v \in Commands, cred'[h].opened[v] # "none"
        PROVE  v \in Within(h)' /\ InWrite(v)'
    <3>1. v # c /\ cred[h].opened[v] # "none"
      BY <1>5, <2>2
    <3> QED
      BY <1>2, <1>4, <3>1 DEF Good, Sound, InWrite
  <2> QED
    BY <1>1, <1>2, <1>4, <1>5, <1>7, <2>1, <2>2 DEF Good, Sound
<1>9. ASSUME Kept(h) PROVE Kept(h)'
  <2>0. /\ cred[h].tmp.is = "whole" =>
             cred[h].tmp.doc.sub = doc.sub /\ cred[h].tmp.doc.token \in live[h]
        /\ cred[h].tmp = Torn => Filled(h, "tmp")
        /\ cred[h].tmp # Mixed
    BY <1>2, <1>9 DEF Kept, TmpKept
  <2>1. cred[h].tmp = Torn \/ cred[h].tmp.is = "whole"
    BY <1>1, <1>2, <2>0, MachineType, CredRead
  <2>2. cred[h].tmp = Torn => \E d \in Within(h) : /\ d # c /\ command[d].pc = "write"
                                                   /\ cred[h].opened[d] = "tmp"
    BY <1>1, <2>0 DEF Filled
  <2>3. CASE command[c].login
    <3>1. \A d \in Within(h) : d = c
      BY <1>2, <1>9, <2>3 DEF Kept, Heirs
    <3>2. \A d : d \notin Within(h)'
      BY <1>4, <3>1
    <3>3. cred[h].tmp.is = "whole"
      BY <2>1, <2>2, <3>1
    <3>4. /\ cred'[h].main # Absent /\ cred'[h].main # Torn /\ cred'[h].main # Mixed
          /\ cred'[h].main.doc.sub = doc.sub /\ cred'[h].main.doc.token \in live[h]
      BY <1>1, <1>5, <1>7, <2>0, <3>3
    <3>5. /\ session'[h] = doc.sub /\ session'[h] # Nobody /\ live'[h] = live[h]
      BY <1>1, <1>2, <1>6, <2>3, CliAssumption
    <3>6. Heirs(h)' /\ Readers(h)' /\ TmpKept(h)' /\ NoneSaves(h)'
      BY <3>2 DEF Heirs, Readers, TmpKept, NoneSaves
    <3>7. MainKept(h)'
      BY <2>0, <3>2, <3>4, <3>5, <3>6 DEF MainKept
    <3> QED
      BY <3>6, <3>7 DEF Kept
  <2>4. CASE ~command[c].login
    <3>1. \A d \in Within(h) : ~command[d].login
      BY <1>2, <1>9, <2>4 DEF Kept, Heirs
    <3>2. /\ session'[h] = session[h] /\ doc.sub = session[h] /\ session[h] # Nobody
      BY <1>2, <1>6, <1>9, <2>4, CliAssumption DEF Kept, Heirs
    <3>3. \A d \in Within(h) : InSave(d) /\ provider = "replaces" => d = c
      BY <1>2, <1>9 DEF Kept, Heirs
    <3>4. /\ provider = "replaces" => NoneSaves(h)'
          /\ \A d \in Within(h)' : InSave(d)' <=> InSave(d)
          /\ \A d \in Within(h)' : InWrite(d)' => InSave(d)
      BY <1>4, <3>3 DEF NoneSaves, InSave, InWrite
    <3>5. Heirs(h)'
      BY <1>1, <1>4, <1>9, <3>2, <3>4 DEF Kept, Heirs
    <3>6. Readers(h)'
      <4>1. ASSUME provider = "replaces", NEW d \in Within(h)', ~InSave(d)', command'[d].held.token \in live[h]
            PROVE  FALSE
        <5>1. NoneSaves(h)
          BY <1>4, <1>9, <3>4, <4>1 DEF Kept, Readers
        <5> QED
          BY <1>2, <5>1 DEF NoneSaves
      <4> QED
        BY <1>1, <4>1 DEF Readers
    <3>7. cred[h].tmp = Torn => provider # "replaces" /\ Filled(h, "main")'
      <4>1. ASSUME cred[h].tmp = Torn
            PROVE  provider # "replaces" /\ Filled(h, "main")'
        <5>1. PICK d \in Within(h) : /\ d # c /\ command[d].pc = "write"
                                     /\ cred[h].opened[d] = "tmp"
          BY <2>2, <4>1
        <5>2. d \in Within(h)' /\ d \in Commands /\ command'[d].pc = "write"
              /\ cred'[h].opened[d] = "main"
          BY <1>4, <1>5, <5>1
        <5>3. InSave(d)
          BY <5>1 DEF InSave
        <5> QED
          BY <3>3, <5>1, <5>2, <5>3 DEF Filled
      <4> QED
        BY <4>1
    <3>8. MainKept(h)'
      BY <1>1, <1>4, <1>5, <1>7, <2>0, <2>1, <3>2, <3>4, <3>7 DEF MainKept
    <3>9. TmpKept(h)'
      BY <1>1, <1>4, <1>5, <1>7, <3>1, <3>3, <3>4 DEF TmpKept
    <3> QED
      BY <3>5, <3>6, <3>8, <3>9 DEF Kept
  <2> QED
    BY <2>3, <2>4
<1>10. Good(h)'
  BY <1>1, <1>2, <1>8, <1>9 DEF Good
<1>11. PICK k : /\ command' = [command EXCEPT ![c] = k] /\ Apart(k)
                /\ k.pc \notin {"refresh", "open", "write", "rename"}
  BY <1>4
<1> QED
  BY <1>0, <1>1, <1>3, <1>5, <1>6, <1>10, <1>11, OneMachine

\* A command closes what it has open and is gone.
LEMMA ClosedFile ==
    ASSUME CliInv, NEW c \in Commands, NEW h \in Machines, h = Home(c),
           Store(c, Closed(Stored(c), c))
    PROVE  /\ cred'[h].main = cred[h].main /\ cred'[h].tmp = cred[h].tmp
           /\ cred'[h].opened[c] = "none"
           /\ \A v \in Commands \ {c} : cred'[h].opened[v] = cred[h].opened[v]
           /\ \A m \in Machines \ {h} : cred'[m] = cred[m]
<1>1. /\ cred' = [cred EXCEPT ![h] = Closed(cred[h], c)]
      /\ cred \in [Machines -> Files(Commands, Cred)]
  BY DEF CliInv, CliTypeOK, Store, Stored
<1>2. cred'[h] = Closed(cred[h], c) /\ \A m \in Machines \ {h} : cred'[m] = cred[m]
  BY <1>1
<1>3. cred[h] \in Files(Commands, Cred)
      /\ cred[h].opened \in [Commands -> {"none", "tmp", "main", "gone"}]
  BY MachineType
<1>4. /\ Closed(cred[h], c).main = cred[h].main /\ Closed(cred[h], c).tmp = cred[h].tmp
      /\ Closed(cred[h], c).opened = [cred[h].opened EXCEPT ![c] = "none"]
  BY <1>3, CredMoves
<1> QED
  BY <1>2, <1>3, <1>4

\* What its leaving keeps of a machine in any case.
LEMMA ClosedSound ==
    ASSUME NEW h \in Machines, Sound(h), NEW c \in Commands,
           UNCHANGED <<issued, live>>,
           cred'[h].main = cred[h].main, cred'[h].tmp = cred[h].tmp,
           cred'[h].opened[c] = "none",
           \A v \in Commands \ {c} : cred'[h].opened[v] = cred[h].opened[v],
           \A d \in Within(h)' : d \in Within(h) /\ command'[d] = command[d],
           \A d \in Within(h) : d # c => d \in Within(h)'
    PROVE  Sound(h)'
BY DEF Sound, InWrite

\* A command whose file was renamed by another has nothing left to do: the other had
\* a login of the same account.
LEMMA SaveOvertakenGood ==
    ASSUME LoginInv, NEW c \in Commands, SaveOvertaken(c)
    PROVE  LoginInv'
<1>0. PICK h \in Machines : h = Home(c)
  BY CommandType DEF LoginInv
<1>1. /\ Store(c, Closed(Stored(c), c)) /\ AfterSave(c) /\ cred[h].tmp = Absent
      /\ UNCHANGED <<provider, issued, live, session, disturbed>>
      /\ command[c].pc = "rename"
  BY <1>0 DEF SaveOvertaken, Runs, Stored
<1>2. /\ CliInv /\ Good(h) /\ c \in Within(h) /\ InSave(c) /\ InWrite(c)
  BY <1>0, <1>1, SaverInside DEF InWrite
<1>3. CliInv'
  BY SaveOvertakenInv DEF LoginInv
<1>4. /\ \E k : /\ command' = [command EXCEPT ![c] = k] /\ Apart(k)
                /\ k.pc \notin {"refresh", "open", "write", "rename"}
      /\ c \notin Within(h)'
      /\ \A d \in Within(h)' : d \in Within(h) /\ d # c /\ d \in Commands
                               /\ command'[d] = command[d]
      /\ \A d \in Within(h) : d # c => d \in Within(h)'
  BY <1>0, <1>1, <1>2, SaverLeaves
<1>5. /\ cred'[h].main = cred[h].main /\ cred'[h].tmp = cred[h].tmp
      /\ cred'[h].opened[c] = "none"
      /\ \A v \in Commands \ {c} : cred'[h].opened[v] = cred[h].opened[v]
      /\ \A m \in Machines \ {h} : cred'[m] = cred[m]
  BY <1>0, <1>1, <1>2, ClosedFile
<1>6. Sound(h)'
  BY <1>1, <1>2, <1>4, <1>5, ClosedSound DEF Good
<1>7. ASSUME Kept(h) PROVE Kept(h)'
  <2>1. provider # "replaces" /\ ~command[c].login
    BY <1>1, <1>2, <1>7 DEF Good, Sound, Kept, TmpKept
  <2>2. Heirs(h)'
    BY <1>1, <1>4, <1>7 DEF Kept, Heirs, InSave
  <2>3. Readers(h)'
    BY <1>1, <2>1 DEF Readers
  <2>4. ASSUME NEW name, Filled(h, name) PROVE Filled(h, name)'
    BY <1>1, <1>4, <1>5, <2>4 DEF Filled
  <2>5. MainKept(h)'
    BY <1>1, <1>4, <1>5, <1>7, <2>1, <2>4 DEF Kept, MainKept
  <2>6. TmpKept(h)'
    BY <1>1, <1>4, <1>5, <1>7, <2>1, <2>4 DEF Kept, TmpKept, InWrite
  <2> QED
    BY <2>2, <2>3, <2>5, <2>6 DEF Kept
<1>8. Good(h)'
  BY <1>1, <1>2, <1>6, <1>7 DEF Good
<1>9. PICK k : /\ command' = [command EXCEPT ![c] = k] /\ Apart(k)
               /\ k.pc \notin {"refresh", "open", "write", "rename"}
  BY <1>4
<1> QED
  BY <1>0, <1>1, <1>3, <1>5, <1>8, <1>9, OneMachine

\* A save that fails disturbs, and so does an interrupt of a command inside.
LEMMA DisturbedGood ==
    ASSUME LoginInv, NEW c \in Commands,
           SaveCredFails(c) \/ (Interrupt(c) /\ Inside(c))
    PROVE  LoginInv'
<1>0. PICK h \in Machines : h = Home(c)
  BY CommandType DEF LoginInv
<1>1. /\ Store(c, Closed(Stored(c), c)) /\ (AfterSave(c) \/ End(c))
      /\ UNCHANGED <<provider, issued, live, session>>
      /\ Disturbs(c, TRUE) /\ Inside(c)
  <2>1. CASE SaveCredFails(c)
    BY <2>1 DEF SaveCredFails, Runs, Inside
  <2>2. CASE Interrupt(c) /\ Inside(c)
    <3>1. Inside(c) = TRUE
      BY <2>2 DEF Inside
    <3> QED
      BY <2>2, <3>1 DEF Interrupt
  <2> QED
    BY <2>1, <2>2
<1>2. CliInv /\ Good(h) /\ c \in Within(h)
  BY <1>0, <1>1 DEF LoginInv, Within
<1>3. CliInv'
  BY SaveCredFailsInv, InterruptInv DEF LoginInv
<1>4. /\ \E k : /\ command' = [command EXCEPT ![c] = k] /\ Apart(k)
                /\ k.pc \notin {"refresh", "open", "write", "rename"}
      /\ \A d \in Within(h)' : d \in Within(h) /\ d # c /\ d \in Commands
                               /\ command'[d] = command[d]
      /\ \A d \in Within(h) : d # c => d \in Within(h)'
  BY <1>0, <1>1, <1>2, SaverLeaves
<1>5. /\ cred'[h].main = cred[h].main /\ cred'[h].tmp = cred[h].tmp
      /\ cred'[h].opened[c] = "none"
      /\ \A v \in Commands \ {c} : cred'[h].opened[v] = cred[h].opened[v]
      /\ \A m \in Machines \ {h} : cred'[m] = cred[m]
  BY <1>0, <1>1, <1>2, ClosedFile
<1>6. Sound(h)'
  BY <1>1, <1>2, <1>4, <1>5, ClosedSound DEF Good
<1>7. disturbed'[h] /\ \A m \in Machines \ {h} : disturbed'[m] = disturbed[m]
  BY <1>0, <1>1, <1>2 DEF Disturbs, CliInv, CliTypeOK
<1>8. Good(h)'
  BY <1>6, <1>7 DEF Good
<1>9. PICK k : /\ command' = [command EXCEPT ![c] = k] /\ Apart(k)
               /\ k.pc \notin {"refresh", "open", "write", "rename"}
  BY <1>4
<1> QED
  BY <1>0, <1>1, <1>3, <1>5, <1>7, <1>8, <1>9, OneMachine

\* An interrupt of a command that has nothing in hand changes nothing.
LEMMA InterruptGood ==
    ASSUME LoginInv, NEW c \in Commands, Interrupt(c)
    PROVE  LoginInv'
<1>1. CASE Inside(c)
  BY <1>1, DisturbedGood
<1>2. CASE ~Inside(c)
  <2>0. PICK h \in Machines : h = Home(c)
    BY CommandType DEF LoginInv
  <2>1. /\ Store(c, Closed(Stored(c), c)) /\ End(c) /\ Disturbs(c, FALSE)
        /\ UNCHANGED <<provider, issued, live, session>> /\ CliInv
    <3>1. Inside(c) = FALSE
      BY <1>2 DEF Inside
    <3> QED
      BY <3>1 DEF Interrupt, LoginInv
  <2>2. CliInv'
    BY InterruptInv DEF LoginInv
  <2>3. disturbed' = disturbed
    BY <2>1 DEF Disturbs, CliInv, CliTypeOK
  <2>4. cred[h].opened[c] = "none"
    BY <1>2, <2>0 DEF LoginInv, Good, Sound, Within
  <2>5. \A m \in Machines : /\ cred'[m].main = cred[m].main /\ cred'[m].tmp = cred[m].tmp
                            /\ \A d \in Commands : cred'[m].opened[d] = cred[m].opened[d]
    BY <2>0, <2>1, <2>4, ClosedFile
  <2> QED
    BY <1>2, <2>1, <2>2, <2>3, <2>5, Ending, OutsideGood DEF Apart
<1> QED
  BY <1>1, <1>2

\* A logout removes cred.json; unless it disturbs nobody is inside to bring it back.
LEMMA LogoutGood ==
    ASSUME LoginInv, NEW c \in Commands, NEW h \in Machines, Logout(c, h)
    PROVE  LoginInv'
<1>1. /\ cred' = [cred EXCEPT ![h] = Removed(cred[h])]
      /\ session' = [session EXCEPT ![h] = Nobody]
      /\ disturbed' = [disturbed EXCEPT ![h] = InsideBut(c, h) # {}]
      /\ command' = [command EXCEPT ![c] = Ended] /\ Ended.pc = "done"
      /\ UNCHANGED <<provider, issued, live>>
      /\ CliInv /\ Good(h) /\ ~Inside(c) /\ c \notin Within(h)
  BY Ending DEF Logout, LoginInv, Runs, Inside, Within
<1>2. CliInv'
  BY LogoutInv DEF LoginInv
<1>3. /\ session'[h] = Nobody /\ disturbed'[h] = (InsideBut(c, h) # {})
      /\ \A m \in Machines \ {h} : /\ cred'[m] = cred[m] /\ session'[m] = session[m]
                                   /\ disturbed'[m] = disturbed[m]
  BY <1>1 DEF CliInv, CliTypeOK
<1>4. /\ cred'[h].main = Absent /\ cred'[h].tmp = cred[h].tmp
      /\ \A v \in Commands :
           cred'[h].opened[v] = IF cred[h].opened[v] = "main" THEN "gone" ELSE cred[h].opened[v]
  <2>1. cred[h] \in Files(Commands, Cred)
    BY <1>1, MachineType
  <2>2. cred'[h] = Removed(cred[h])
    BY <1>1 DEF CliInv, CliTypeOK
  <2>3. /\ Removed(cred[h]).main = Absent /\ Removed(cred[h]).tmp = cred[h].tmp
        /\ \A v \in Commands :
             Removed(cred[h]).opened[v] =
               IF cred[h].opened[v] = "main" THEN "gone" ELSE cred[h].opened[v]
    BY <2>1, CredMoves
  <2> QED
    BY <2>2, <2>3
<1>5. \A d \in Commands : d \in Within(h)' <=> d \in Within(h)
  BY <1>1, OneCommand
<1>6. Within(h) \subseteq Commands /\ Within(h)' \subseteq Commands
      /\ \A d \in Within(h) : command'[d] = command[d]
  BY <1>1, OneCommand DEF Within
<1>7. Absent.is # "whole" /\ Absent # Torn /\ Absent # Mixed
  BY ContentsRead
<1>8. Sound(h)'
  BY <1>1, <1>4, <1>5, <1>6, <1>7 DEF Good, Sound, InWrite
<1>9. ASSUME ~disturbed'[h] PROVE Kept(h)'
  <2>1. \A d : d \notin Within(h)
    BY <1>1, <1>3, <1>9 DEF InsideBut, Within
  <2>2. \A d : d \notin Within(h)'
    BY <1>5, <1>6, <2>1
  <2> QED
    BY <1>3, <1>4, <1>7, <2>2 DEF Kept, Heirs, Readers, MainKept, TmpKept, NoneSaves
<1>10. Good(h)'
  BY <1>8, <1>9 DEF Good
<1>11. c \notin Within(Home(c))
  BY <1>1 DEF Within
<1> QED
  BY <1>1, <1>2, <1>3, <1>10, <1>11, OneMachine DEF Apart

-----------------------------------------------------------------------------
LEMMA LoginInit ==
    ASSUME CliInit
    PROVE  LoginInv
<1>1. CliInv
  BY CliInitInv
<1>2. /\ \A c \in Commands : command[c] = New
      /\ New.pc = "new"
  BY DEF CliInit, New, Process
<1>3. \A c \in Commands : Apart(command[c])
  BY <1>2 DEF Apart
<1>4. ASSUME NEW m \in Machines
      PROVE  Good(m)
  <2> DEFINE main == IF session[m] = Nobody THEN Absent ELSE Whole(Login(session[m], 1))
  <2>1. \A d : d \notin Within(m)
    BY <1>2 DEF Within, Inside
  <2>2. /\ cred[m].main = main /\ cred[m].tmp = Absent
        /\ \A c \in Commands : cred[m].opened[c] = "none"
    BY DEF CliInit, AtRest, File
  <2>3. /\ issued[m] = IF session[m] = Nobody THEN 0 ELSE 1
        /\ live[m] = 1..issued[m]
        /\ session[m] \in Accounts \cup {Nobody}
    BY DEF CliInit
  <2>4. /\ Absent.is # "whole" /\ Absent # Torn /\ Absent # Mixed
        /\ LET l == Login(session[m], 1) IN
             /\ Whole(l).is = "whole" /\ Whole(l).doc = l /\ l.sub = session[m] /\ l.token = 1
             /\ Whole(l) # Absent /\ Whole(l) # Torn /\ Whole(l) # Mixed
    BY DEF Absent, Torn, Mixed, Whole, Login
  <2>5. /\ session[m] = Nobody => main = Absent
        /\ session[m] # Nobody => /\ main # Absent /\ main # Torn /\ main # Mixed
                                  /\ main.is = "whole"
                                  /\ main.doc.sub = session[m] /\ main.doc.token = 1
                                  /\ 1 \in live[m] /\ issued[m] = 1
    BY <2>3, <2>4
  <2> HIDE DEF main
  <2>6. Sound(m)
    BY <2>1, <2>2, <2>3, <2>4, <2>5 DEF Sound
  <2>7. Kept(m)
    BY <2>1, <2>2, <2>4, <2>5 DEF Kept, Heirs, Readers, MainKept, TmpKept, NoneSaves
  <2> QED
    BY <2>6, <2>7 DEF Good
<1> QED
  BY <1>1, <1>3, <1>4 DEF LoginInv

LEMMA LoginStep ==
    ASSUME LoginInv, [CliNext]_cliVars
    PROVE  LoginInv'
<1>1. CASE UNCHANGED cliVars
  <2>1. \A m \in Machines : Good(m)'
    <3>1. ASSUME NEW m \in Machines PROVE Unmoved(m)
      BY <1>1 DEF cliVars, Unmoved, Within, Inside, Home
    <3> QED
      BY <3>1, UnmovedGood DEF LoginInv
  <2>2. CliInv' /\ \A c \in Commands : Apart(command[c])'
    BY <1>1 DEF cliVars, LoginInv, CliInv, CliTypeOK, Equipped, Apart
  <2> QED
    BY <2>1, <2>2 DEF LoginInv
<1>2. ASSUME NEW c \in Commands, NEW m \in Machines,
             Begin(c, m) \/ StartLogin(c, m) \/ Logout(c, m)
      PROVE  LoginInv'
  BY <1>2, BeginLogin, LogoutGood
<1>3. ASSUME NEW c \in Commands, CommandStep(c)
      PROVE  LoginInv'
  BY <1>3, UnauthorisedGood, EndsLogin, RefreshGood, RefreshFailsGood, LoggedInGood,
     SaveOpenGood, SaveWriteGood, SaveRenameGood, SaveOvertakenGood, DisturbedGood
     DEF CommandStep
<1>4. ASSUME NEW c \in Commands, Interrupt(c) \/ Send(c) \/ Receive(c)
      PROVE  LoginInv'
  BY <1>4, InterruptGood, SendLogin, EndsLogin
<1> QED
  BY <1>1, <1>2, <1>3, <1>4 DEF CliNext

LEMMA LoginInvKeeps ==
    ASSUME LoginInv
    PROVE  LoginKept
<1>1. ASSUME NEW m \in Machines, Quiet(m), ~disturbed[m]
      PROVE  AsLeft(m)
  <2>1. \A d : d \notin Within(m)
    BY <1>1 DEF Quiet, Within
  <2>2. NoneSaves(m) /\ ~Filled(m, "main")
    BY <2>1 DEF NoneSaves, Filled
  <2>3. MainKept(m) /\ CliInv
    BY <1>1 DEF LoginInv, Good, Kept
  <2>4. \/ cred[m].main = Absent \/ cred[m].main = Torn \/ cred[m].main = Mixed
        \/ cred[m].main.is = "whole"
    BY <2>3, MachineType, CredRead
  <2> QED
    BY <2>1, <2>2, <2>3, <2>4 DEF MainKept, AsLeft
<1> QED
  BY <1>1 DEF LoginKept

\* Commands that run together do not cost the login of their machine, for any number
\* of commands, machines, accounts and refresh tokens, and whether the identity
\* provider keeps the token that is used, replaces it, or adds another to it: but for
\* what disturbs it (LoginKept), cred.json has a token that is still accepted
\* (client.go:126, store.go:48).
THEOREM LoginAlwaysKept == CliSpec => []LoginKept
<1>1. LoginInv => LoginKept
  BY LoginInvKeeps
<1>2. CliInit => LoginInv
  BY LoginInit
<1>3. LoginInv /\ [CliNext]_cliVars => LoginInv'
  BY LoginStep
<1> QED
  BY <1>1, <1>2, <1>3, PTL DEF CliSpec

\* Nor do they when each is a client of the requests of an owner (client.go:126).
THEOREM AdministeredLoginKept == AdminSpec => []LoginKept
<1>1. AdminInit => LoginInv
  BY LoginInit DEF AdminInit
<1>2. [AdminNext]_adminVars => [CliNext]_cliVars
  BY DEF AdminNext, Locally, Onward, Operate, Remotely, Collect, Start, CliNext, adminVars
<1>3. LoginInv /\ [CliNext]_cliVars => LoginInv'
  BY LoginStep
<1>4. LoginInv => LoginKept
  BY LoginInvKeeps
<1> QED
  BY <1>1, <1>2, <1>3, <1>4, PTL DEF AdminSpec
=============================================================================

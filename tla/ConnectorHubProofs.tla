------------------------- MODULE ConnectorHubProofs -------------------------
(***************************************************************************)
(* Theorems about ConnectorHub, for any sessions, slots, management        *)
(* operations and number of issued tokens.  Which session a request gets   *)
(* is proved for any number of management requests at a time; that live    *)
(* sessions are current only for one at a time, as the code writes back a  *)
(* copy read without a lock.                                               *)
(***************************************************************************)
EXTENDS ConnectorHub, FiniteSetTheorems, SequenceTheorems, WellFoundedInduction,
        TLAPS

Size == Len(registry)

\* Where the next pick starts, counted from 0.
Start == next % Size

\* The turn at which pick looks at the j-th session of the registry.
TurnOf(j) == IF Start <= j - 1 THEN j - 1 - Start ELSE j - 1 - Start + Size

\* Every registered session serves the same slots as this one.
Even(s) == \A r \in Sessions : Registered(r) => agent[r].slots = agent[s].slots

\* The requests a session was passed over by, and those that may still go
\* elsewhere before the cursor reaches it, are together fewer than the sessions.
TurnsComing ==
    \A j \in 1..Size :
        LET s == registry[j] IN
        ~agent[s].closed /\ Even(s) => missed[s] + TurnOf(j) <= Size - 1

HubInv == TypeOK /\ TurnsComing

-----------------------------------------------------------------------------
\* A management request works on the connector as it is stored: nothing wrote it
\* since; and one that creates found none.
CopyCurrent ==
    \A a \in Admins : admin[a].pc = "read" =>
        /\ admin[a].copy = conn
        /\ admin[a].op = "create" => ~conn.exists

\* This management request is about to close the session.
Dropping(a, s) ==
    \/ /\ admin[a].pc = "written"
       /\ admin[a].op \in TokenSlots => agent[s].slot = admin[a].op
    \/ admin[a].pc = "closing" /\ s \in admin[a].targets

\* A session past authenticate, still open, that raced no drop.
Live(s) ==
    /\ agent[s].pc \in {"authenticated", "serving"}
    /\ ~agent[s].closed /\ s \notin raced

\* Such a session is still accepted, or about to be closed.
LiveOrDropping ==
    \A s \in Sessions : Live(s) =>
        \/ Accepts(agent[s].token, agent[s].slot)
        \/ \E a \in Admins : Dropping(a, s)

ServingRegistered ==
    \A s \in Sessions : agent[s].pc = "serving" => Registered(s)

SessionInv == CopyCurrent /\ LiveOrDropping /\ ServingRegistered

OneAtATime == \A a, b \in Admins : a = b

-----------------------------------------------------------------------------
(* Facts about numbers, sequences and the positions pick looks at. *)

\* A nonempty set of natural numbers has a least one.
LEMMA LeastNatural ==
    ASSUME NEW T, T \subseteq Nat, T # {}
    PROVE  \E i \in T : \A j \in T : i <= j
<1> DEFINE Below == {0..i : i \in T}
<1>1. Below \subseteq FiniteSubsetsOf(Nat)
  <2>1. \A i \in T : 0..i \subseteq Nat /\ IsFiniteSet(0..i)
    BY FS_Interval
  <2> QED
    BY <2>1 DEF FiniteSubsetsOf
<1>2. PICK d \in Below : \A e \in Below : <<e, d>> \notin StrictSubsetOrdering(Nat)
  <2>1. Below # {}
    OBVIOUS
  <2>2. IsWellFoundedOn(StrictSubsetOrdering(Nat), FiniteSubsetsOf(Nat))
    BY FS_StrictSubsetOrderingWellFounded
  <2> HIDE DEF Below
  <2> QED
    BY <1>1, <2>1, <2>2, WFMin
<1>3. PICK i \in T : d = 0..i
  OBVIOUS
<1>4. ASSUME NEW j \in T, j < i PROVE FALSE
  <2>1. <<0..j, 0..i>> \in (SUBSET Nat) \X (SUBSET Nat)
    OBVIOUS
  <2>2. 0..j \subseteq 0..i /\ i \in 0..i /\ i \notin 0..j
    BY <1>4
  <2>3. <<0..j, 0..i>> \in StrictSubsetOrdering(Nat)
    BY <2>1, <2>2 DEF StrictSubsetOrdering
  <2> QED
    BY <2>3, <1>2, <1>3
<1> QED
  BY <1>4

\* RemoveAt moves the elements past the removed one down by one.
LEMMA RemoveAtShifts ==
    ASSUME NEW S, NEW s \in Seq(S), NEW i \in 1..Len(s)
    PROVE  /\ RemoveAt(s, i) \in Seq(S)
           /\ Len(RemoveAt(s, i)) = Len(s) - 1
           /\ \A j \in 1..(Len(s) - 1) :
                RemoveAt(s, i)[j] = IF j < i THEN s[j] ELSE s[j + 1]
<1> DEFINE a == SubSeq(s, 1, i - 1)
           b == SubSeq(s, i + 1, Len(s))
<1>1. a \in Seq(S) /\ Len(a) = i - 1 /\ \A j \in 1..(i - 1) : a[j] = s[j]
  <2>1. (\A j \in 1..(i - 1) : s[j] \in S) /\ 1 \in Int /\ i - 1 \in Int
    OBVIOUS
  <2> QED
    BY <2>1, SubSeqProperties
<1>2. b \in Seq(S) /\ Len(b) = Len(s) - i /\ \A j \in 1..(Len(s) - i) : b[j] = s[j + i]
  <2>1. (\A j \in (i + 1)..Len(s) : s[j] \in S) /\ i + 1 \in Int /\ Len(s) \in Int
    OBVIOUS
  <2> QED
    BY <2>1, SubSeqProperties
<1>3. RemoveAt(s, i) = a \o b
  BY DEF RemoveAt
<1> HIDE DEF a, b
<1>4. /\ a \o b \in Seq(S) /\ Len(a \o b) = Len(a) + Len(b)
      /\ \A j \in 1..(Len(a) + Len(b)) :
           (a \o b)[j] = IF j <= Len(a) THEN a[j] ELSE b[j - Len(a)]
  BY <1>1, <1>2, ConcatProperties
<1>5. ASSUME NEW j \in 1..(Len(s) - 1)
      PROVE  (a \o b)[j] = IF j < i THEN s[j] ELSE s[j + 1]
  <2>1. j \in 1..(Len(a) + Len(b)) /\ Len(s) \in Nat
    BY <1>1, <1>2
  <2>2. (a \o b)[j] = IF j <= Len(a) THEN a[j] ELSE b[j - Len(a)]
    BY <1>4, <2>1
  <2>3. CASE j < i
    BY <1>1, <2>1, <2>2, <2>3
  <2>4. CASE ~(j < i)
    <3>1. j - Len(a) \in 1..(Len(s) - i) /\ ~(j <= Len(a)) /\ (j - Len(a)) + i = j + 1
      BY <1>1, <2>1, <2>4
    <3> QED
      BY <1>2, <2>2, <2>4, <3>1
  <2> QED
    BY <2>3, <2>4
<1> QED
  BY <1>1, <1>2, <1>3, <1>4, <1>5

\* The remainders of a number below twice the modulus.
LEMMA Remainder ==
    ASSUME NEW n \in Nat, n > 0
    PROVE  /\ \A x \in Nat : x % n \in 0..(n - 1)
           /\ \A x \in 0..(n - 1) : x % n = x
           /\ \A x \in n..(2 * n - 1) : x % n = x - n
<1>1. \A x \in Nat : x % n \in 0..(n - 1)
  OBVIOUS
<1>2. \A x \in 0..(n - 1) : x % n = x
  OBVIOUS
<1>3. \A x \in n..(2 * n - 1) : x % n = x - n
  OBVIOUS
<1> QED
  BY <1>1, <1>2, <1>3

\* The i-th turn looks i places past the start, from the first place again once
\* the last was looked at.
LEMMA Positions ==
    ASSUME TypeOK, Size > 0
    PROVE  /\ Size \in Nat /\ Start \in 0..(Size - 1)
           /\ \A i \in Turns : /\ Position(i) \in 0..(Size - 1)
                               /\ Position(i) = IF Start + i < Size THEN Start + i
                                                ELSE Start + i - Size
<1>1. Size \in Nat /\ next \in Nat
  BY DEF TypeOK, Size
<1>2. Start \in 0..(Size - 1)
  BY <1>1, Remainder DEF Start
<1>3. ASSUME NEW i \in Turns
      PROVE  /\ Position(i) \in 0..(Size - 1)
             /\ Position(i) = IF Start + i < Size THEN Start + i ELSE Start + i - Size
  <2>1. Position(i) = (Start + i) % Size
    BY DEF Position, Start, Size
  <2>2. i \in 0..(Size - 1)
    BY DEF Turns, Size
  <2>3. CASE Start + i < Size
    <3>1. Start + i \in 0..(Size - 1)
      BY <1>1, <1>2, <2>2, <2>3
    <3> QED
      BY <1>1, <2>1, <2>3, <3>1, Remainder
  <2>4. CASE ~(Start + i < Size)
    <3>1. Start + i \in Size..(2 * Size - 1)
      BY <1>1, <1>2, <2>2, <2>4
    <3>2. (Start + i) % Size = Start + i - Size
      BY <1>1, <1>2, <2>2, <3>1, Remainder
    <3> QED
      BY <1>1, <1>2, <2>1, <2>2, <2>4, <3>2
  <2> QED
    BY <2>3, <2>4
<1> QED
  BY <1>1, <1>2, <1>3

\* Every place of the registry is looked at in some turn.
LEMMA TurnReaches ==
    ASSUME TypeOK, NEW j \in 1..Size
    PROVE  TurnOf(j) \in Turns /\ Position(TurnOf(j)) = j - 1
<1>1. Size \in Nat /\ Size > 0
  BY DEF TypeOK, Size
<1>2. Start \in 0..(Size - 1)
  BY <1>1, Positions
<1>3. TurnOf(j) \in 0..(Size - 1)
  BY <1>1, <1>2 DEF TurnOf
<1>4. TurnOf(j) \in Turns
  BY <1>3 DEF Turns, Size
<1>5. Position(TurnOf(j)) = IF Start + TurnOf(j) < Size THEN Start + TurnOf(j)
                            ELSE Start + TurnOf(j) - Size
  BY <1>1, <1>4, Positions
<1> QED
  BY <1>1, <1>2, <1>4, <1>5 DEF TurnOf

\* pick stops at the first turn whose session serves the slot.
LEMMA FirstHitIs ==
    ASSUME NEW slot, Hits(slot) # {}
    PROVE  /\ FirstHit(slot) \in Hits(slot)
           /\ \A i \in Hits(slot) : FirstHit(slot) <= i
<1>1. Hits(slot) \subseteq Nat
  BY DEF Hits, Turns
<1>2. \E i \in Hits(slot) : \A j \in Hits(slot) : i <= j
  BY <1>1, LeastNatural
<1> QED
  BY <1>2 DEF FirstHit

\* The session at a place of the registry that serves the slot is hit at its turn.
LEMMA ServingIsHit ==
    ASSUME TypeOK, NEW slot, NEW j \in 1..Size, Serves(registry[j], slot)
    PROVE  TurnOf(j) \in Hits(slot)
<1>1. TurnOf(j) \in Turns /\ Position(TurnOf(j)) + 1 = j
  BY TurnReaches DEF TypeOK, Size
<1> QED
  BY <1>1 DEF Hits

-----------------------------------------------------------------------------
(* Type correctness. *)

LEMMA InitTyped == ASSUME Init PROVE TypeOK
<1>1. conn \in Connectors
  BY DEF Init, Connectors, TokenSlots
<1>2. agent \in [Sessions -> Agents]
  <2> DEFINE Fresh == [pc : {"idle"}, token : {0}, slot : {"primary"},
                       slots : SlotSets, closed : {FALSE}]
  <2>1. ASSUME NEW r \in Fresh PROVE r \in Agents
    <3>1. r.slots \in SUBSET Slots /\ "primary" \in TokenSlots /\ FALSE \in BOOLEAN
          /\ 0 \in Nat
      BY HubAssumption DEF TokenSlots
    <3>2. r = [pc |-> "idle", token |-> 0, slot |-> "primary", slots |-> r.slots,
               closed |-> FALSE]
      OBVIOUS
    <3>3. [pc |-> "idle", token |-> 0, slot |-> "primary", slots |-> r.slots,
           closed |-> FALSE] \in Agents
      BY <3>1, Zenon DEF Agents
    <3> HIDE DEF Fresh
    <3> QED
      BY <3>2, <3>3
  <2>2. agent \in [Sessions -> Fresh]
    BY DEF Init
  <2> HIDE DEF Fresh
  <2> QED
    BY <2>1, <2>2
<1>3. admin \in [Admins -> Handlers]
  BY DEF Init, NoHandler, Handlers, NoConnector, Connectors, AllOps, TokenSlots
<1>4. registry \in Seq(Sessions) /\ next \in Nat /\ raced \in SUBSET Sessions
      /\ missed \in [Sessions -> Nat] /\ issued \in 0..MaxTokens
  BY HubAssumption, EmptySeq DEF Init, NoneMissed
<1> QED
  BY <1>1, <1>2, <1>3, <1>4 DEF TypeOK

\* What the control handler of a session leaves of its record.
LEMMA GoneTyped ==
    ASSUME TypeOK, NEW s \in Sessions
    PROVE  /\ Gone(s) \in Agents
           /\ Gone(s).pc = "gone" /\ Gone(s).closed /\ Gone(s).slots = agent[s].slots
BY DEF TypeOK, Gone, Agents, TokenSlots

\* The registry without a session: the others stay in it.
LEMMA WithoutKeeps ==
    ASSUME TypeOK, NEW s \in Sessions
    PROVE  /\ Without(s) \in Seq(Sessions)
           /\ \A r \in Sessions \ {s} :
                Registered(r) => \E i \in 1..Len(Without(s)) : Without(s)[i] = r
<1>1. CASE ~Registered(s)
  BY <1>1 DEF Without, TypeOK, Registered
<1>2. CASE Registered(s)
  <2>1. PICK i \in 1..Len(registry) :
          registry[i] = s /\ Without(s) = RemoveAt(registry, i)
    BY <1>2 DEF Without, Registered
  <2>2. registry \in Seq(Sessions)
    BY DEF TypeOK
  <2>3. /\ Without(s) \in Seq(Sessions) /\ Len(Without(s)) = Len(registry) - 1
        /\ \A j \in 1..(Len(registry) - 1) :
             Without(s)[j] = IF j < i THEN registry[j] ELSE registry[j + 1]
    BY <2>1, <2>2, RemoveAtShifts
  <2>4. ASSUME NEW r \in Sessions \ {s}, Registered(r)
        PROVE  \E j \in 1..Len(Without(s)) : Without(s)[j] = r
    <3>1. PICK k \in 1..Len(registry) : registry[k] = r
      BY <2>4 DEF Registered
    <3>2. k # i /\ Len(registry) \in Nat
      BY <2>1, <2>2, <3>1
    <3>3. CASE k < i
      <4>1. k \in 1..(Len(registry) - 1)
        BY <3>2, <3>3
      <4>2. Without(s)[k] = r
        BY <2>3, <3>1, <3>3, <4>1
      <4> QED
        BY <2>3, <4>1, <4>2
    <3>4. CASE k > i
      <4>1. k - 1 \in 1..(Len(registry) - 1) /\ ~(k - 1 < i) /\ (k - 1) + 1 = k
        BY <3>2, <3>4
      <4>2. Without(s)[k - 1] = r
        BY <2>3, <3>1, <4>1
      <4> QED
        BY <2>3, <4>1, <4>2
    <3> QED
      BY <3>2, <3>3, <3>4
  <2> QED
    BY <2>3, <2>4
<1> QED
  BY <1>1, <1>2

\* A step of a session's own: nothing but its record changes, and its slots do not.
OwnStep(s) ==
    /\ agent' \in [Sessions -> Agents]
    /\ \A r \in Sessions : agent'[r].slots = agent[r].slots
    /\ \A r \in Sessions \ {s} : agent'[r] = agent[r]
    /\ UNCHANGED <<conn, issued, registry, next, admin, raced, missed>>

LEMMA PresentOwn ==
    ASSUME TypeOK, NEW s \in Sessions, Present(s)
    PROVE  OwnStep(s) /\ agent'[s].pc = "presented"
<1>1. PICK t \in 1..issued :
        agent' = [agent EXCEPT ![s].pc = "presented", ![s].token = t]
  BY DEF Present
<1>2. agent[s] \in Agents /\ t \in Nat /\ agent \in [Sessions -> Agents]
  BY DEF TypeOK
<1> QED
  BY <1>1, <1>2 DEF OwnStep, Present, Agents

LEMMA AuthenticateOwn ==
    ASSUME TypeOK, NEW s \in Sessions, Authenticate(s)
    PROVE  /\ OwnStep(s)
           /\ \/ agent'[s].pc = "gone"
              \/ /\ agent'[s].pc = "authenticated"
                 /\ Accepts(agent'[s].token, agent'[s].slot)
<1>1. agent \in [Sessions -> Agents] /\ agent[s] \in Agents
  BY DEF TypeOK
<1>2. CASE \E slot \in TokenSlots :
            /\ Accepts(agent[s].token, slot)
            /\ agent' = [agent EXCEPT ![s].pc = "authenticated", ![s].slot = slot]
  <2>1. PICK slot \in TokenSlots :
            /\ Accepts(agent[s].token, slot)
            /\ agent' = [agent EXCEPT ![s].pc = "authenticated", ![s].slot = slot]
    BY <1>2
  <2>2. agent'[s].token = agent[s].token /\ agent'[s].slot = slot
        /\ agent'[s].pc = "authenticated"
    BY <1>1, <2>1 DEF Agents
  <2>3. agent' \in [Sessions -> Agents]
    BY <1>1, <2>1 DEF Agents
  <2> QED
    BY <1>1, <2>1, <2>2, <2>3 DEF OwnStep, Authenticate, Agents
<1>3. CASE agent' = [agent EXCEPT ![s] = Gone(s)]
  BY <1>1, <1>3, GoneTyped DEF OwnStep, Authenticate
<1> QED
  BY <1>2, <1>3 DEF Authenticate

LEMMA RejectOwn ==
    ASSUME TypeOK, NEW s \in Sessions, Reject(s)
    PROVE  OwnStep(s) /\ agent'[s].pc = "gone"
BY GoneTyped DEF TypeOK, Reject, OwnStep

LEMMA HangupOwn ==
    ASSUME TypeOK, NEW s \in Sessions, Hangup(s)
    PROVE  OwnStep(s) /\ agent'[s].closed /\ agent'[s].pc = agent[s].pc
BY DEF TypeOK, Hangup, OwnStep, Agents

LEMMA AddTyped ==
    ASSUME TypeOK, NEW s \in Sessions, Add(s)
    PROVE  /\ TypeOK' /\ agent'[s] = [agent[s] EXCEPT !.pc = "serving"]
           /\ Len(registry') = Len(registry) + 1 /\ registry'[Len(registry) + 1] = s
           /\ \A i \in 1..Len(registry) : registry'[i] = registry[i]
<1>1. agent' \in [Sessions -> Agents] /\ agent'[s] = [agent[s] EXCEPT !.pc = "serving"]
  BY DEF TypeOK, Add, Agents
<1>2. registry \in Seq(Sessions) /\ registry' = Append(registry, s)
  BY DEF TypeOK, Add
<1>3. missed' \in [Sessions -> Nat]
  BY DEF Add, NoneMissed
<1> QED
  BY <1>1, <1>2, <1>3 DEF TypeOK, Add

LEMMA LeaveTyped ==
    ASSUME TypeOK, NEW s \in Sessions, Leave(s)
    PROVE  TypeOK' /\ agent'[s].pc = "gone"
<1>1. agent' \in [Sessions -> Agents] /\ agent'[s].pc = "gone"
  BY GoneTyped DEF TypeOK, Leave
<1>2. missed' \in [Sessions -> Nat] /\ registry' \in Seq(Sessions)
  BY WithoutKeeps DEF Leave, NoneMissed
<1> QED
  BY <1>1, <1>2 DEF TypeOK, Leave

LEMMA NextTyped ==
    ASSUME TypeOK, NEW slot, Pick(slot)
    PROVE  TypeOK'
<1>1. next' \in Nat
  <2>1. CASE registry = <<>>
    BY <2>1 DEF TypeOK, Pick, NextAfter
  <2>2. CASE registry # <<>>
    <3>1. Size \in Nat /\ Size > 0
      BY <2>2, EmptySeq DEF TypeOK, Size
    <3>2. Size - 1 \in Turns
      BY <3>1 DEF Turns, Size
    <3>3. Hits(slot) # {} => FirstHit(slot) \in Turns
      BY FirstHitIs DEF Hits
    <3>4. \A i \in Turns : Position(i) \in Nat
      BY <3>1, Positions
    <3>5. next' = 1 + Position(IF Hits(slot) = {} THEN Size - 1 ELSE FirstHit(slot))
      BY <2>2 DEF Pick, NextAfter, Size
    <3> QED
      BY <3>2, <3>3, <3>4, <3>5
  <2> QED
    BY <2>1, <2>2
<1>2. missed' \in [Sessions -> Nat]
  <2>1. \A s \in Sessions : missed[s] \in Nat
    BY DEF TypeOK
  <2> QED
    BY <2>1 DEF Pick
<1> QED
  BY <1>1, <1>2 DEF TypeOK, Pick

\* What a management request can leave of its record, and of the connector.
LEMMA ConnectorTyped ==
    ASSUME TypeOK, NEW op \in AllOps, NEW c \in Connectors
    PROVE  Changed(c, op) \in Connectors /\ NoConnector \in Connectors
<1>1. NoConnector \in Connectors /\ issued \in Nat
  BY HubAssumption DEF NoConnector, Connectors, TypeOK
<1>2. CASE op = "create"
  BY <1>1, <1>2 DEF Changed, Connectors
<1>3. CASE op \in {"enable", "disable"}
  BY <1>1, <1>3 DEF Changed, Connectors, TokenSlots
<1>4. CASE op \in TokenSlots
  <2>1. Changed(c, op) = [c EXCEPT !.hash[op] = issued + 1]
    BY <1>4 DEF Changed, TokenSlots
  <2> QED
    BY <1>1, <1>4, <2>1 DEF Connectors
<1>5. CASE op = "delete"
  BY <1>1, <1>5 DEF Changed, TokenSlots
<1> QED
  BY <1>1, <1>2, <1>3, <1>4, <1>5 DEF AllOps, TokenSlots

LEMMA BeginTyped ==
    ASSUME TypeOK, NEW a \in Admins, NEW op \in AllOps, Begin(a, op)
    PROVE  /\ TypeOK'
           /\ admin' = [admin EXCEPT ![a] = admin'[a]]
           /\ admin'[a].pc = "read" /\ admin'[a].op = op /\ admin'[a].copy = conn
<1> DEFINE k == [NoHandler EXCEPT !.pc = "read", !.op = op, !.copy = conn]
<1>1. k \in Handlers /\ k.pc = "read" /\ k.op = op /\ k.copy = conn
  BY DEF TypeOK, NoHandler, Handlers
<1>2. admin' = [admin EXCEPT ![a] = k] /\ admin \in [Admins -> Handlers]
  BY DEF Begin, TypeOK
<1> HIDE DEF k
<1>3. admin' \in [Admins -> Handlers] /\ admin'[a] = k
  BY <1>1, <1>2
<1> QED
  BY <1>1, <1>2, <1>3 DEF TypeOK, Begin

LEMMA NoHandlerTyped == ASSUME TypeOK PROVE NoHandler \in Handlers
BY HubAssumption DEF TypeOK, NoHandler, Handlers, NoConnector, Connectors, AllOps

LEMMA WriteTyped ==
    ASSUME TypeOK, NEW a \in Admins, Write(a)
    PROVE  /\ TypeOK'
           /\ admin' = [admin EXCEPT ![a] = admin'[a]]
           /\ IF Drops(admin[a].op) /\ (admin[a].op = "delete" => conn.exists)
              THEN admin'[a].pc = "written" /\ admin'[a].op = admin[a].op
              ELSE admin'[a].pc = "idle"
<1> DEFINE op == admin[a].op
           k == IF Drops(op) /\ (op = "delete" => conn.exists)
                THEN [admin[a] EXCEPT !.pc = "written", !.copy = NoConnector]
                ELSE NoHandler
<1>1. admin[a] \in Handlers /\ op \in AllOps /\ admin[a].copy \in Connectors
  BY DEF TypeOK, Handlers
<1>2. k \in Handlers
      /\ IF Drops(op) /\ (op = "delete" => conn.exists)
         THEN k.pc = "written" /\ k.op = op ELSE k.pc = "idle"
  BY <1>1, ConnectorTyped, NoHandlerTyped DEF Handlers, NoHandler
<1>3. admin' = [admin EXCEPT ![a] = k] /\ admin \in [Admins -> Handlers]
  BY DEF Write, TypeOK
<1> HIDE DEF k
<1>4. admin' \in [Admins -> Handlers] /\ admin'[a] = k
  BY <1>2, <1>3
<1>5. conn' \in Connectors
  BY <1>1, ConnectorTyped DEF Write
<1>6. issued' \in 0..MaxTokens
  BY HubAssumption DEF TypeOK, Write, NewTokens
<1> QED
  BY <1>2, <1>3, <1>4, <1>5, <1>6 DEF TypeOK, Write

LEMMA WriteFailsTyped ==
    ASSUME TypeOK, NEW a \in Admins, WriteFails(a)
    PROVE  TypeOK' /\ admin'[a].pc = "idle"
<1>1. admin' = [admin EXCEPT ![a] = NoHandler] /\ admin \in [Admins -> Handlers]
  BY DEF WriteFails, TypeOK
<1>2. NoHandler \in Handlers /\ NoHandler.pc = "idle"
  BY NoHandlerTyped DEF NoHandler
<1>3. admin' \in [Admins -> Handlers] /\ admin'[a] = NoHandler
  BY <1>1, <1>2
<1> QED
  BY <1>2, <1>3 DEF TypeOK, WriteFails

LEMMA SnapshotTyped ==
    ASSUME TypeOK, NEW a \in Admins, Snapshot(a)
    PROVE  /\ TypeOK'
           /\ admin' = [admin EXCEPT ![a] = admin'[a]]
           /\ admin'[a].pc \in {"idle", "closing"}
           /\ \A s \in Sessions :
                Registered(s) /\ (admin[a].op \in TokenSlots => agent[s].slot = admin[a].op)
                => admin'[a].pc = "closing" /\ s \in admin'[a].targets
<1> DEFINE hit == {s \in Sessions :
                     Registered(s) /\ (admin[a].op \in TokenSlots => agent[s].slot = admin[a].op)}
           k == IF hit = {} THEN NoHandler
                ELSE [admin[a] EXCEPT !.pc = "closing", !.targets = hit]
<1>1. admin[a] \in Handlers /\ hit \subseteq Sessions
  BY DEF TypeOK
<1>2. admin' = [admin EXCEPT ![a] = k] /\ admin \in [Admins -> Handlers]
  BY DEF Snapshot, TypeOK
<1>3. ASSUME NEW s \in Sessions, Registered(s),
             admin[a].op \in TokenSlots => agent[s].slot = admin[a].op
      PROVE  s \in hit
  BY <1>3
<1> HIDE DEF hit
<1>4. k \in Handlers /\ k.pc \in {"idle", "closing"}
      /\ (hit # {} => k.pc = "closing" /\ k.targets = hit)
  BY <1>1, NoHandlerTyped DEF Handlers, NoHandler
<1> HIDE DEF k
<1>5. admin' \in [Admins -> Handlers] /\ admin'[a] = k
  BY <1>2, <1>4
<1>6. raced' \in SUBSET Sessions
  BY DEF TypeOK, Snapshot
<1> QED
  BY <1>2, <1>3, <1>4, <1>5, <1>6 DEF TypeOK, Snapshot

LEMMA CloseTyped ==
    ASSUME TypeOK, NEW a \in Admins, NEW s \in Sessions, Close(a, s)
    PROVE  /\ TypeOK'
           /\ admin' = [admin EXCEPT ![a] = admin'[a]]
           /\ agent' = [agent EXCEPT ![s].closed = TRUE]
           /\ \A r \in Sessions : /\ agent'[r].slots = agent[r].slots
                                  /\ agent[r].closed => agent'[r].closed
           /\ admin'[a].pc \in {"idle", "closing"}
           /\ \A r \in admin[a].targets \ {s} :
                admin'[a].pc = "closing" /\ r \in admin'[a].targets
<1> DEFINE left == admin[a].targets \ {s}
           k == IF left = {} THEN NoHandler ELSE [admin[a] EXCEPT !.targets = left]
<1>1. admin[a] \in Handlers /\ left \subseteq Sessions /\ admin[a].pc = "closing"
  BY DEF TypeOK, Handlers, Close
<1>2. admin' = [admin EXCEPT ![a] = k] /\ admin \in [Admins -> Handlers]
  BY DEF Close, TypeOK
<1>3. agent' \in [Sessions -> Agents] /\ agent' = [agent EXCEPT ![s].closed = TRUE]
      /\ \A r \in Sessions : /\ agent'[r].slots = agent[r].slots
                             /\ agent[r].closed => agent'[r].closed
  BY DEF TypeOK, Close, Agents
<1>4. k \in Handlers /\ k.pc \in {"idle", "closing"}
      /\ (left # {} => k.pc = "closing" /\ k.targets = left)
  <2> HIDE DEF left
  <2> QED
    BY <1>1, NoHandlerTyped DEF Handlers, NoHandler
<1>5. \A r \in left : k.pc = "closing" /\ r \in k.targets
  <2>1. \A r \in left : left # {}
    OBVIOUS
  <2> HIDE DEF left, k
  <2> QED
    BY <1>4, <2>1
<1>6. admin' \in [Admins -> Handlers] /\ admin'[a] = k
  <2> HIDE DEF k
  <2> QED
    BY <1>2, <1>4
<1> HIDE DEF k
<1> QED
  BY <1>2, <1>3, <1>4, <1>5, <1>6 DEF TypeOK, Close

LEMMA OwnStepTyped ==
    ASSUME TypeOK, NEW s \in Sessions, OwnStep(s)
    PROVE  TypeOK'
BY DEF TypeOK, OwnStep

\* Every step keeps the types.
LEMMA StepTyped == ASSUME TypeOK, [Next]_vars PROVE TypeOK'
<1>1. ASSUME NEW s \in Sessions, Control(s) PROVE TypeOK'
  BY <1>1, PresentOwn, AuthenticateOwn, RejectOwn, HangupOwn, OwnStepTyped,
     AddTyped, LeaveTyped DEF Control
<1>2. ASSUME NEW slot \in Slots, Pick(slot) PROVE TypeOK'
  BY <1>2, NextTyped
<1>3. ASSUME NEW a \in Admins, Manage(a) PROVE TypeOK'
  BY <1>3, WriteTyped, WriteFailsTyped, SnapshotTyped, CloseTyped DEF Manage
<1>4. ASSUME NEW a \in Admins, NEW op \in AllOps, Begin(a, op) PROVE TypeOK'
  BY <1>4, BeginTyped
<1>5. CASE UNCHANGED vars
  BY <1>5 DEF TypeOK, vars
<1> QED
  BY <1>1, <1>2, <1>3, <1>4, <1>5 DEF Next

\* Every variable keeps its type, in every behaviour of the connector, its
\* sessions and its management requests (gw_connectors.go:32, :69 and :84).
THEOREM TypeCorrect == Spec => []TypeOK
<1>1. Init => TypeOK
  BY InitTyped
<1>2. TypeOK /\ [Next]_vars => TypeOK'
  BY StepTyped
<1> QED
  BY <1>1, <1>2, PTL DEF Spec

-----------------------------------------------------------------------------
(* What pick finds. *)

\* pick finds a live session serving the slot whenever there is one, wherever
\* hub.next was left, and answers nil otherwise (gw_connectors.go:131).
THEOREM LiveIsFound == Spec => []PickFindsLive
<1>1. ASSUME TypeOK PROVE PickFindsLive
  <2> SUFFICES ASSUME NEW slot \in Slots
               PROVE  IF \E s \in Sessions : Registered(s) /\ Serves(s, slot)
                      THEN \E s \in Sessions :
                             Picked(slot) = s /\ Registered(s) /\ Serves(s, slot)
                      ELSE Picked(slot) = NoOne
    BY DEF PickFindsLive
  <2>1. ASSUME NEW s \in Sessions, Registered(s), Serves(s, slot)
        PROVE  Hits(slot) # {}
    <3>1. PICK j \in 1..Size : registry[j] = s
      BY <2>1 DEF Registered, Size
    <3> QED
      BY <1>1, <2>1, <3>1, ServingIsHit
  <2>2. ASSUME Hits(slot) # {}
        PROVE  \E s \in Sessions : Picked(slot) = s /\ Registered(s) /\ Serves(s, slot)
    <3>1. FirstHit(slot) \in Turns /\ Serves(registry[Position(FirstHit(slot)) + 1], slot)
      BY <2>2, FirstHitIs DEF Hits
    <3>2. Size > 0 /\ Size \in Nat
      BY <1>1, <3>1 DEF Turns, TypeOK, Size
    <3>3. Position(FirstHit(slot)) + 1 \in 1..Size
      BY <1>1, <3>1, <3>2, Positions
    <3>4. registry[Position(FirstHit(slot)) + 1] \in Sessions
      BY <1>1, <3>3 DEF TypeOK, Size
    <3> QED
      BY <2>2, <3>1, <3>3, <3>4 DEF Picked, Registered, Size
  <2>3. Hits(slot) = {} => Picked(slot) = NoOne
    BY DEF Picked
  <2> QED
    BY <2>1, <2>2, <2>3
<1> QED
  BY <1>1, TypeCorrect, PTL

-----------------------------------------------------------------------------
(* Taking turns. *)

\* Where the cursor starts after a pick whose last turn was f, and how far it
\* then is from each place of the registry.
LEMMA CursorAfter ==
    ASSUME TypeOK, Size > 0, NEW f \in Turns, next' = 1 + Position(f),
           registry' = registry
    PROVE  /\ \A j \in 1..Size : TurnOf(j)' \in 0..(Size - 1)
           /\ \A j \in 1..Size : TurnOf(j) > f => TurnOf(j)' = TurnOf(j) - f - 1
           /\ f = Size - 1 => \A j \in 1..Size : TurnOf(j)' = TurnOf(j)
<1>1. Size \in Nat /\ Start \in 0..(Size - 1) /\ f \in 0..(Size - 1)
  BY Positions DEF Turns, Size
<1>2. Position(f) = (IF Start + f < Size THEN Start + f ELSE Start + f - Size)
      /\ Position(f) \in 0..(Size - 1)
  BY Positions
<1>3. Start' = next' % Size /\ Size' = Size
  BY DEF Start, Size
<1>4. Start' = IF Start + f + 1 < Size THEN Start + f + 1
               ELSE IF Start + f + 1 = Size THEN 0 ELSE Start + f + 1 - Size
  <2>1. CASE Position(f) + 1 < Size
    <3>1. next' \in 0..(Size - 1)
      BY <1>1, <1>2, <2>1
    <3>2. Start' = next'
      BY <1>1, <1>3, <3>1, Remainder
    <3> QED
      BY <1>1, <1>2, <2>1, <3>2
  <2>2. CASE ~(Position(f) + 1 < Size)
    <3>1. next' = Size /\ next' \in Size..(2 * Size - 1)
      BY <1>1, <1>2, <2>2
    <3>2. Start' = 0
      BY <1>1, <1>3, <3>1, Remainder
    <3> QED
      BY <1>1, <1>2, <2>2, <3>2
  <2> QED
    BY <2>1, <2>2
<1>5. Start' \in 0..(Size - 1)
  BY <1>1, <1>4
<1>6. ASSUME NEW j \in 1..Size
      PROVE  TurnOf(j)' = IF Start' <= j - 1 THEN j - 1 - Start' ELSE j - 1 - Start' + Size
  BY <1>3 DEF TurnOf
<1>7. ASSUME NEW j \in 1..Size
      PROVE  TurnOf(j) = IF Start <= j - 1 THEN j - 1 - Start ELSE j - 1 - Start + Size
  BY DEF TurnOf
<1>8. \A j \in 1..Size : TurnOf(j)' \in 0..(Size - 1)
  BY <1>1, <1>5, <1>6
<1>9. ASSUME NEW j \in 1..Size, TurnOf(j) > f
      PROVE  TurnOf(j)' = TurnOf(j) - f - 1
  BY SMTT(20), <1>1, <1>4, <1>6, <1>7, <1>9
<1>10. ASSUME f = Size - 1, NEW j \in 1..Size
       PROVE  TurnOf(j)' = TurnOf(j)
  BY <1>1, <1>4, <1>6, <1>7, <1>10
<1> QED
  BY <1>8, <1>9, <1>10

\* A pick brings the cursor nearer to every session it passes over.
LEMMA PickTakesTurns ==
    ASSUME HubInv, NEW slot, Pick(slot)
    PROVE  TurnsComing'
<1> USE DEF HubInv
<1>1. /\ registry' = registry /\ agent' = agent /\ Size' = Size
      /\ \A s \in Sessions : Even(s)' = Even(s)
  BY DEF Pick, Size, Even, Registered
<1> SUFFICES ASSUME NEW j \in 1..Size, ~agent[registry[j]].closed, Even(registry[j])
             PROVE  missed'[registry[j]] + TurnOf(j)' <= Size - 1
  <2>1. \A j \in 1..Size : registry[j] \in Sessions
    BY DEF TypeOK, Size
  <2> QED
    BY <1>1, <2>1 DEF TurnsComing
<1> DEFINE s == registry[j]
           f == IF Hits(slot) = {} THEN Size - 1 ELSE FirstHit(slot)
<1>2. s \in Sessions /\ Size \in Nat /\ Size > 0 /\ Registered(s)
  BY DEF TypeOK, Size, Registered
<1>3. missed[s] + TurnOf(j) <= Size - 1 /\ missed[s] \in Nat
  BY <1>2 DEF TurnsComing, TypeOK
<1>4. f \in Turns
  <2>1. Size - 1 \in Turns
    BY <1>2 DEF Turns, Size
  <2> QED
    BY <2>1, FirstHitIs DEF Hits
<1>5. next' = 1 + Position(f)
  <2>1. registry # <<>>
    BY <1>2, EmptySeq DEF Size
  <2> QED
    BY <2>1 DEF Pick, NextAfter, Size
<1>6. TurnOf(j) \in 0..(Size - 1) /\ f \in 0..(Size - 1)
  BY <1>4, TurnReaches DEF Turns, Size
<1> HIDE DEF f
<1>7. /\ TurnOf(j)' \in 0..(Size - 1)
      /\ TurnOf(j) > f => TurnOf(j)' = TurnOf(j) - f - 1
      /\ f = Size - 1 => TurnOf(j)' = TurnOf(j)
  BY <1>1, <1>2, <1>4, <1>5, CursorAfter
<1>8. missed'[s] = CASE s = Picked(slot) -> 0
                     [] s # Picked(slot) /\ Registered(s) /\ Serves(s, slot)
                          /\ missed[s] < Cardinality(Sessions) -> missed[s] + 1
                     [] OTHER -> missed[s]
  BY <1>2 DEF Pick
<1>9. CASE Serves(s, slot)
  <2>1. TurnOf(j) \in Hits(slot)
    BY <1>9, ServingIsHit
  <2>2. f = FirstHit(slot) /\ f <= TurnOf(j) /\ Picked(slot) = registry[Position(f) + 1]
    BY <2>1, FirstHitIs DEF f, Picked
  <2>3. CASE f = TurnOf(j)
    <3>1. Picked(slot) = s
      <4>1. Position(TurnOf(j)) + 1 = j
        BY <1>2, TurnReaches
      <4> QED
        BY <2>2, <2>3, <4>1
    <3>2. missed'[s] = 0
      BY <1>8, <3>1
    <3> QED
      BY <1>2, <1>7, <3>2
  <2>4. CASE f < TurnOf(j)
    <3>1. missed'[s] \in Nat /\ missed'[s] <= missed[s] + 1
      BY <1>3, <1>8
    <3>2. TurnOf(j)' = TurnOf(j) - f - 1
      BY <1>6, <1>7, <2>4
    <3> QED
      BY <1>2, <1>3, <1>6, <3>1, <3>2
  <2> QED
    BY <1>6, <2>2, <2>3, <2>4
<1>10. CASE ~Serves(s, slot)
  <2>1. Hits(slot) = {}
    <3>1. \A r \in Sessions : Registered(r) => ~(slot \in agent[r].slots)
      BY <1>2, <1>10 DEF Even, Serves
    <3>2. ASSUME NEW i \in Turns PROVE ~Serves(registry[Position(i) + 1], slot)
      <4>1. Position(i) + 1 \in 1..Size
        BY <1>2, Positions
      <4>2. registry[Position(i) + 1] \in Sessions /\ Registered(registry[Position(i) + 1])
        BY <4>1 DEF TypeOK, Size, Registered
      <4> QED
        BY <3>1, <4>2 DEF Serves
    <3> QED
      BY <3>2 DEF Hits
  <2>2. f = Size - 1 /\ Picked(slot) # s
    BY <1>2, <2>1, HubAssumption DEF f, Picked
  <2>3. missed'[s] = missed[s]
    BY <1>8, <1>10, <2>2
  <2> QED
    BY <1>3, <1>7, <2>2, <2>3
<1> QED
  BY <1>9, <1>10

\* When every session's turns are counted anew, none is owed one.
LEMMA NoneOwed == TypeOK /\ missed = NoneMissed => TurnsComing
<1> SUFFICES ASSUME TypeOK, missed = NoneMissed, NEW j \in 1..Size
             PROVE  missed[registry[j]] + TurnOf(j) <= Size - 1
  BY DEF TurnsComing
<1>1. TurnOf(j) \in 0..(Size - 1) /\ registry[j] \in Sessions /\ Size \in Nat
  BY TurnReaches DEF Turns, Size, TypeOK
<1>2. missed[registry[j]] = 0
  BY <1>1 DEF NoneMissed
<1> QED
  BY <1>1, <1>2

\* A session comes or goes: every session's turns are counted anew.
LEMMA CountedAnew ==
    ASSUME TypeOK', missed' = NoneMissed
    PROVE  TurnsComing'
<1>1. (TypeOK /\ missed = NoneMissed => TurnsComing)'
  BY NoneOwed, PTL
<1>2. NoneMissed' = NoneMissed
  BY DEF NoneMissed
<1> QED
  BY <1>1, <1>2

\* A step that only closes sessions, or leaves them, owes nobody a turn more.
LEMMA TurnsKept ==
    ASSUME HubInv, UNCHANGED <<registry, next, missed>>,
           \A s \in Sessions : /\ agent'[s].slots = agent[s].slots
                               /\ agent[s].closed => agent'[s].closed
    PROVE  TurnsComing'
<1>1. Size' = Size /\ \A j \in 1..Size : TurnOf(j)' = TurnOf(j)
  BY DEF Size, TurnOf, Start
<1>2. \A s \in Sessions : Even(s)' => Even(s)
  BY DEF Even, Registered
<1>3. \A j \in 1..Size : registry[j] \in Sessions
  BY DEF HubInv, TypeOK, Size
<1> QED
  BY <1>1, <1>2, <1>3 DEF TurnsComing, HubInv

\* Taking turns is inductive.
LEMMA StepTakesTurns == ASSUME HubInv, [Next]_vars PROVE HubInv'
<1>1. TypeOK'
  BY StepTyped DEF HubInv
<1>2. TypeOK
  BY DEF HubInv
<1>3. ASSUME NEW s \in Sessions, OwnStep(s), agent[s].closed => agent'[s].closed
      PROVE  TurnsComing'
  BY <1>3, TurnsKept DEF OwnStep
<1>4. ASSUME NEW s \in Sessions, Control(s) PROVE TurnsComing'
  <2>1. CASE Present(s)
    <3>1. agent'[s].closed = agent[s].closed
      BY <1>2, <2>1 DEF Present, TypeOK, Agents
    <3> QED
      BY <1>2, <1>3, <2>1, <3>1, PresentOwn
  <2>2. CASE Authenticate(s)
    <3>1. agent[s].closed => agent'[s].closed
      BY <1>2, <2>2, GoneTyped DEF Authenticate, TypeOK, Agents
    <3> QED
      BY <1>2, <1>3, <2>2, <3>1, AuthenticateOwn
  <2>3. CASE Reject(s)
    <3>1. agent'[s].closed
      BY <1>2, <2>3, GoneTyped DEF Reject, TypeOK
    <3> QED
      BY <1>2, <1>3, <2>3, <3>1, RejectOwn
  <2>4. CASE Hangup(s)
    BY <1>2, <1>3, <2>4, HangupOwn
  <2>5. CASE Add(s) \/ Leave(s)
    BY <1>1, <2>5, CountedAnew DEF Add, Leave
  <2> QED
    BY <1>4, <2>1, <2>2, <2>3, <2>4, <2>5 DEF Control
<1>5. ASSUME NEW slot \in Slots, Pick(slot) PROVE TurnsComing'
  BY <1>5, PickTakesTurns
<1>6. ASSUME NEW a \in Admins, Manage(a) PROVE TurnsComing'
  <2>1. CASE Write(a) \/ WriteFails(a) \/ Snapshot(a)
    BY <2>1, TurnsKept DEF Write, WriteFails, Snapshot
  <2>2. ASSUME NEW s \in Sessions, Close(a, s) PROVE TurnsComing'
    <3>1. \A r \in Sessions : /\ agent'[r].slots = agent[r].slots
                              /\ agent[r].closed => agent'[r].closed
      BY <1>2, <2>2, CloseTyped
    <3>2. UNCHANGED <<registry, next, missed>>
      BY <2>2 DEF Close
    <3> QED
      BY <3>1, <3>2, TurnsKept
  <2> QED
    BY <1>6, <2>1, <2>2 DEF Manage
<1>7. ASSUME NEW a \in Admins, NEW op \in AllOps, Begin(a, op) PROVE TurnsComing'
  BY <1>7, TurnsKept DEF Begin
<1>8. CASE UNCHANGED vars
  <2>1. UNCHANGED <<registry, next, missed>> /\ agent' = agent
    BY <1>8 DEF vars
  <2>2. \A s \in Sessions : /\ agent'[s].slots = agent[s].slots
                            /\ agent[s].closed => agent'[s].closed
    BY <2>1
  <2> QED
    BY <1>1, <2>1, <2>2, TurnsKept DEF HubInv
<1> QED
  BY <1>1, <1>4, <1>5, <1>6, <1>7, <1>8 DEF Next, HubInv

\* Sessions that serve the same slots take turns: none is passed over by as many
\* requests as there are sessions (gw_connectors.go:131).  The number of requests
\* that passed a session over and the cursor's distance from it never exceed the
\* registry together.
THEOREM TurnsAreTaken == Spec => []RoundRobin
<1>1. Init => HubInv
  BY InitTyped, NoneOwed DEF Init, HubInv
<1>2. HubInv /\ [Next]_vars => HubInv'
  BY StepTakesTurns
<1>3. ASSUME HubInv PROVE RoundRobin
  <2> SUFFICES ASSUME NEW s \in Sessions, Registered(s), ~agent[s].closed, Even(s)
               PROVE  missed[s] < Len(registry)
    BY DEF RoundRobin, Even
  <2>1. PICK j \in 1..Size : registry[j] = s
    BY DEF Registered, Size
  <2>2. TurnOf(j) \in 0..(Size - 1) /\ Size \in Nat
    BY <1>3, TurnReaches DEF HubInv, Turns, Size, TypeOK
  <2>3. missed[s] + TurnOf(j) <= Size - 1 /\ missed[s] \in Nat
    BY <1>3, <2>1 DEF HubInv, TurnsComing, TypeOK
  <2> QED
    BY <2>2, <2>3 DEF Size
<1> QED
  BY <1>1, <1>2, <1>3, PTL DEF Spec

-----------------------------------------------------------------------------
(* Which sessions are live, with one management request at a time. *)

\* A session's own step that leaves it gone, presented, closed or accepted.
LEMMA OwnKeepsSessions ==
    ASSUME TypeOK, SessionInv, NEW s \in Sessions, OwnStep(s),
           Live(s)' => (Live(s) /\ agent'[s] = agent[s]) \/ Accepts(agent'[s].token, agent'[s].slot),
           agent'[s].pc = "serving" => agent[s].pc = "serving"
    PROVE  SessionInv'
<1>1. UNCHANGED <<conn, registry, admin, raced>>
  BY DEF OwnStep
<1>2. CopyCurrent'
  BY <1>1 DEF SessionInv, CopyCurrent
<1>3. ServingRegistered'
  BY <1>1 DEF SessionInv, ServingRegistered, Registered, OwnStep
<1>4. ASSUME NEW r \in Sessions, Live(r)'
      PROVE  Accepts(agent[r].token, agent[r].slot)' \/ \E a \in Admins : Dropping(a, r)'
  <2>1. CASE r = s /\ Accepts(agent'[s].token, agent'[s].slot)
    BY <1>1, <2>1 DEF Accepts
  <2>2. CASE Live(r) /\ agent'[r] = agent[r]
    BY <1>1, <2>2 DEF SessionInv, LiveOrDropping, Accepts, Dropping
  <2>3. CASE r # s
    <3>1. agent'[r] = agent[r] /\ Live(r)
      BY <1>1, <1>4, <2>3 DEF OwnStep, Live
    <3> QED
      BY <2>2, <3>1
  <2> QED
    BY <1>4, <2>1, <2>2, <2>3
<1> QED
  BY <1>2, <1>3, <1>4 DEF SessionInv, LiveOrDropping

LEMMA ControlKeepsSessions ==
    ASSUME TypeOK, SessionInv, NEW s \in Sessions, Control(s)
    PROVE  SessionInv'
<1>1. CASE Present(s)
  <2>1. ~Live(s)' /\ agent'[s].pc # "serving"
    BY <1>1, PresentOwn DEF Live
  <2> QED
    BY <1>1, <2>1, PresentOwn, OwnKeepsSessions
<1>2. CASE Authenticate(s)
  <2>1. OwnStep(s) /\ agent'[s].pc # "serving"
        /\ (Live(s)' => Accepts(agent'[s].token, agent'[s].slot))
    BY <1>2, AuthenticateOwn DEF Live
  <2> QED
    BY <2>1, OwnKeepsSessions
<1>3. CASE Reject(s)
  <2>1. ~Live(s)' /\ agent'[s].pc # "serving"
    BY <1>3, RejectOwn DEF Live
  <2> QED
    BY <1>3, <2>1, RejectOwn, OwnKeepsSessions
<1>4. CASE Hangup(s)
  <2>1. ~Live(s)' /\ agent'[s].pc = agent[s].pc
    BY <1>4, HangupOwn DEF Live
  <2> QED
    BY <1>4, <2>1, HangupOwn, OwnKeepsSessions
<1>5. CASE Add(s)
  <2>1. /\ agent'[s] = [agent[s] EXCEPT !.pc = "serving"]
        /\ \A r \in Sessions \ {s} : agent'[r] = agent[r]
        /\ UNCHANGED <<conn, admin, raced>>
    BY <1>5, AddTyped DEF Add, TypeOK
  <2>2. CopyCurrent'
    BY <2>1 DEF SessionInv, CopyCurrent
  <2>3. ServingRegistered'
    <3>1. \A r \in Sessions : Registered(r) => Registered(r)'
      <4>1. Len(registry') = Len(registry) + 1
            /\ \A i \in 1..Len(registry) : registry'[i] = registry[i]
        BY <1>5, AddTyped
      <4>2. Len(registry) \in Nat
        BY DEF TypeOK
      <4> QED
        BY <4>1, <4>2 DEF Registered
    <3>2. Registered(s)'
      <4>1. Len(registry') = Len(registry) + 1 /\ registry'[Len(registry) + 1] = s
        BY <1>5, AddTyped
      <4>2. Len(registry) \in Nat
        BY DEF TypeOK
      <4> QED
        BY <4>1, <4>2 DEF Registered
    <3> QED
      BY <2>1, <3>1, <3>2 DEF SessionInv, ServingRegistered
  <2>4. ASSUME NEW r \in Sessions, Live(r)'
        PROVE  Accepts(agent[r].token, agent[r].slot)' \/ \E a \in Admins : Dropping(a, r)'
    <3>1. /\ agent'[r].token = agent[r].token /\ agent'[r].slot = agent[r].slot
          /\ agent'[r].closed = agent[r].closed
          /\ agent[r].pc \in {"authenticated", "serving"}
      BY <1>5, <2>1, <2>4 DEF Live, Add, TypeOK, Agents
    <3>2. Live(r)
      BY <2>1, <2>4, <3>1 DEF Live
    <3> QED
      BY <2>1, <3>1, <3>2 DEF SessionInv, LiveOrDropping, Accepts, Dropping
  <2> QED
    BY <2>2, <2>3, <2>4 DEF SessionInv, LiveOrDropping
<1>6. CASE Leave(s)
  <2>1. /\ agent'[s].pc = "gone" /\ registry' = Without(s)
        /\ \A r \in Sessions \ {s} : agent'[r] = agent[r]
        /\ UNCHANGED <<conn, admin, raced>>
    BY <1>6, LeaveTyped DEF Leave, TypeOK
  <2>2. CopyCurrent'
    BY <2>1 DEF SessionInv, CopyCurrent
  <2>3. ASSUME NEW r \in Sessions, agent'[r].pc = "serving" PROVE Registered(r)'
    <3>1. r \in Sessions \ {s} /\ Registered(r)
      BY <2>1, <2>3 DEF SessionInv, ServingRegistered
    <3> QED
      BY <2>1, <3>1, WithoutKeeps DEF Registered
  <2>4. ASSUME NEW r \in Sessions, Live(r)'
        PROVE  Accepts(agent[r].token, agent[r].slot)' \/ \E a \in Admins : Dropping(a, r)'
    <3>1. agent'[r] = agent[r] /\ Live(r)
      BY <2>1, <2>4 DEF Live
    <3> QED
      BY <2>1, <3>1 DEF SessionInv, LiveOrDropping, Accepts, Dropping
  <2> QED
    BY <2>2, <2>3, <2>4 DEF SessionInv, LiveOrDropping, ServingRegistered
<1> QED
  BY <1>1, <1>2, <1>3, <1>4, <1>5, <1>6 DEF Control

\* With one management request at a time, one that has read the connector drops
\* no session yet.
LEMMA Alone ==
    ASSUME OneAtATime, NEW a \in Admins, admin[a].pc \in {"idle", "read"}
    PROVE  \A s \in Sessions : ~\E b \in Admins : Dropping(b, s)
BY DEF OneAtATime, Dropping

LEMMA BeginKeepsSessions ==
    ASSUME TypeOK, SessionInv, OneAtATime, NEW a \in Admins, NEW op \in AllOps,
           Begin(a, op)
    PROVE  SessionInv'
<1>1. /\ admin'[a].pc = "read" /\ admin'[a].op = op /\ admin'[a].copy = conn
      /\ UNCHANGED <<conn, agent, registry, raced>> /\ (op = "create" => ~conn.exists)
  BY BeginTyped DEF Begin
<1>2. \A b \in Admins : b = a
  BY DEF OneAtATime
<1>3. CopyCurrent'
  BY <1>1, <1>2 DEF CopyCurrent
<1>4. \A s \in Sessions : ~\E b \in Admins : Dropping(b, s)
  <2>1. admin[a].pc = "idle"
    BY DEF Begin
  <2> QED
    BY <2>1, Alone
<1> QED
  BY <1>1, <1>3, <1>4 DEF SessionInv, LiveOrDropping, ServingRegistered, Live, Accepts,
                          Registered

\* A write leaves a session accepted, or is followed by the drop that closes it.
LEMMA WriteKeepsSessions ==
    ASSUME TypeOK, SessionInv, OneAtATime, NEW a \in Admins, Write(a)
    PROVE  SessionInv'
<1> DEFINE op == admin[a].op
<1>1. /\ admin[a].pc = "read" /\ op \in AllOps /\ admin[a].copy = conn
      /\ op = "create" => ~conn.exists
      /\ conn' = Changed(conn, op) /\ UNCHANGED <<agent, registry, raced>>
      /\ conn \in Connectors
  BY DEF Write, TypeOK, Handlers, SessionInv, CopyCurrent
<1>2. IF Drops(op) /\ (op = "delete" => conn.exists)
      THEN admin'[a].pc = "written" /\ admin'[a].op = op ELSE admin'[a].pc = "idle"
  BY WriteTyped
<1> HIDE DEF op
<1>3. CopyCurrent'
  BY <1>2 DEF CopyCurrent, OneAtATime
<1>4. ServingRegistered'
  BY <1>1 DEF SessionInv, ServingRegistered, Registered
<1>5. ASSUME NEW s \in Sessions, Live(s)'
      PROVE  Accepts(agent[s].token, agent[s].slot)' \/ Dropping(a, s)'
  <2>1. Live(s) /\ agent' = agent /\ agent[s].slot \in TokenSlots
    BY <1>1, <1>5 DEF Live, TypeOK, Agents
  <2>2. Accepts(agent[s].token, agent[s].slot)
    BY <1>1, <2>1, Alone DEF SessionInv, LiveOrDropping
  <2>3. conn.exists /\ ~conn.disabled /\ conn.hash[agent[s].slot] = agent[s].token
    BY <2>2 DEF Accepts
  <2>4. CASE op \in {"disable", "delete"}
    BY <1>2, <2>3, <2>4 DEF Dropping, Drops, TokenSlots
  <2>5. CASE op \in TokenSlots
    <3>1. CASE agent[s].slot = op
      BY <1>2, <2>1, <2>5, <3>1 DEF Dropping, Drops, TokenSlots
    <3>2. CASE agent[s].slot # op
      <4>1. conn' = [conn EXCEPT !.hash[op] = issued + 1]
        BY <1>1, <2>5 DEF Changed, TokenSlots
      <4>2. conn'.exists = conn.exists /\ conn'.disabled = conn.disabled
            /\ conn'.hash[agent[s].slot] = conn.hash[agent[s].slot]
        BY <1>1, <2>1, <2>5, <3>2, <4>1 DEF Connectors
      <4> QED
        BY <2>1, <2>3, <4>2 DEF Accepts
    <3> QED
      BY <3>1, <3>2
  <2>6. CASE op = "enable"
    <3>1. conn' = [conn EXCEPT !.disabled = FALSE]
      BY <1>1, <2>6 DEF Changed, TokenSlots
    <3>2. conn'.exists = conn.exists /\ conn'.disabled = FALSE /\ conn'.hash = conn.hash
      BY <1>1, <3>1 DEF Connectors
    <3> QED
      BY <2>1, <2>3, <3>2 DEF Accepts
  <2>7. CASE op = "create"
    BY <1>1, <2>3, <2>7
  <2> QED
    BY <1>1, <2>4, <2>5, <2>6, <2>7 DEF AllOps, TokenSlots
<1> QED
  BY <1>3, <1>4, <1>5 DEF SessionInv, LiveOrDropping

\* A write that fails changes nothing that a session was accepted by.
LEMMA WriteFailsKeepsSessions ==
    ASSUME TypeOK, SessionInv, OneAtATime, NEW a \in Admins, WriteFails(a)
    PROVE  SessionInv'
<1>1. /\ admin[a].pc = "read" /\ admin'[a].pc = "idle"
      /\ UNCHANGED <<conn, agent, registry, raced>>
  BY WriteFailsTyped DEF WriteFails
<1>2. \A b \in Admins : b = a
  BY DEF OneAtATime
<1>3. CopyCurrent' /\ ServingRegistered'
  BY <1>1, <1>2 DEF SessionInv, CopyCurrent, ServingRegistered, Registered
<1>4. ASSUME NEW s \in Sessions, Live(s)'
      PROVE  Accepts(agent[s].token, agent[s].slot)'
  <2>1. Live(s)
    BY <1>1, <1>4 DEF Live
  <2>2. ~Dropping(a, s)
    BY <1>1 DEF Dropping
  <2>3. Accepts(agent[s].token, agent[s].slot)
    BY <1>2, <2>1, <2>2 DEF SessionInv, LiveOrDropping
  <2> QED
    BY <1>1, <2>3 DEF Accepts
<1> QED
  BY <1>3, <1>4 DEF SessionInv, LiveOrDropping

LEMMA SnapshotKeepsSessions ==
    ASSUME TypeOK, SessionInv, OneAtATime, NEW a \in Admins, Snapshot(a)
    PROVE  SessionInv'
<1>1. /\ admin[a].pc = "written" /\ UNCHANGED <<conn, agent, registry>>
      /\ raced' = raced \cup {s \in Sessions : agent[s].pc = "authenticated"}
  BY DEF Snapshot
<1>2. \A b \in Admins : b = a
  BY DEF OneAtATime
<1>3. CopyCurrent' /\ ServingRegistered'
  BY <1>1, <1>2, SnapshotTyped
     DEF SessionInv, CopyCurrent, ServingRegistered, Registered
<1>4. ASSUME NEW s \in Sessions, Live(s)'
      PROVE  Accepts(agent[s].token, agent[s].slot)' \/ Dropping(a, s)'
  <2>1. Live(s) /\ agent[s].pc = "serving" /\ Registered(s)
    BY <1>1, <1>4 DEF Live, SessionInv, ServingRegistered
  <2>2. CASE Dropping(a, s)
    <3>1. admin[a].op \in TokenSlots => agent[s].slot = admin[a].op
      BY <1>1, <2>2 DEF Dropping
    <3>2. admin'[a].pc = "closing" /\ s \in admin'[a].targets
      BY <2>1, <3>1, SnapshotTyped
    <3> QED
      BY <3>2 DEF Dropping
  <2>3. CASE Accepts(agent[s].token, agent[s].slot)
    BY <1>1, <2>3 DEF Accepts
  <2> QED
    BY <1>2, <2>1, <2>2, <2>3 DEF SessionInv, LiveOrDropping
<1> QED
  BY <1>3, <1>4 DEF SessionInv, LiveOrDropping

LEMMA CloseKeepsSessions ==
    ASSUME TypeOK, SessionInv, OneAtATime, NEW a \in Admins, NEW t \in Sessions,
           Close(a, t)
    PROVE  SessionInv'
<1>1. /\ admin[a].pc = "closing" /\ UNCHANGED <<conn, registry, raced>>
      /\ agent'[t] = [agent[t] EXCEPT !.closed = TRUE]
      /\ \A s \in Sessions \ {t} : agent'[s] = agent[s]
      /\ agent[t] \in Agents
  BY DEF Close, TypeOK
<1>2. \A b \in Admins : b = a
  BY DEF OneAtATime
<1>3. CopyCurrent'
  BY <1>2, CloseTyped DEF CopyCurrent
<1>4. ServingRegistered'
  <2>1. \A s \in Sessions : agent'[s].pc = agent[s].pc
    BY <1>1 DEF Agents
  <2> QED
    BY <1>1, <2>1 DEF SessionInv, ServingRegistered, Registered
<1>5. ASSUME NEW s \in Sessions, Live(s)'
      PROVE  Accepts(agent[s].token, agent[s].slot)' \/ Dropping(a, s)'
  <2>1. s # t /\ agent'[s] = agent[s] /\ Live(s)
    BY <1>1, <1>5 DEF Live, Agents
  <2>2. CASE Dropping(a, s)
    <3>1. s \in admin[a].targets \ {t}
      BY <1>1, <2>1, <2>2 DEF Dropping
    <3> QED
      BY <3>1, CloseTyped DEF Dropping
  <2>3. CASE Accepts(agent[s].token, agent[s].slot)
    BY <1>1, <2>1, <2>3 DEF Accepts
  <2> QED
    BY <1>2, <2>1, <2>2, <2>3 DEF SessionInv, LiveOrDropping
<1> QED
  BY <1>3, <1>4, <1>5 DEF SessionInv, LiveOrDropping

LEMMA StepKeepsSessions ==
    ASSUME TypeOK, SessionInv, OneAtATime, [Next]_vars
    PROVE  SessionInv'
<1>1. ASSUME NEW slot \in Slots, Pick(slot) PROVE SessionInv'
  BY <1>1 DEF Pick, SessionInv, CopyCurrent, LiveOrDropping, ServingRegistered, Live,
              Accepts, Dropping, Registered
<1>2. CASE UNCHANGED vars
  BY <1>2 DEF vars, SessionInv, CopyCurrent, LiveOrDropping, ServingRegistered, Live,
              Accepts, Dropping, Registered
<1>3. ASSUME NEW a \in Admins, Manage(a) PROVE SessionInv'
  BY <1>3, WriteKeepsSessions, WriteFailsKeepsSessions, SnapshotKeepsSessions,
     CloseKeepsSessions DEF Manage
<1> QED
  BY <1>1, <1>2, <1>3, ControlKeepsSessions, BeginKeepsSessions DEF Next

\* While management requests come one at a time, every open session, once none is
\* under way, was let in by a token still current on a connector still enabled,
\* unless it raced a closeAll between authenticate and add (gw_connectors.go:148,
\* :247 and :304).  A write keeps a session accepted or is followed by the drop
\* that closes it.
THEOREM SessionsAreCurrent == OneAtATime /\ Spec => []LiveSessionsAreCurrent
<1>1. Init => TypeOK /\ SessionInv
  <2>1. ASSUME Init
        PROVE  /\ \A s \in Sessions : agent[s].pc = "idle"
               /\ \A a \in Admins : admin[a].pc = "idle"
    BY <2>1 DEF Init, NoHandler
  <2> QED
    BY <2>1, InitTyped DEF SessionInv, CopyCurrent, LiveOrDropping, ServingRegistered, Live
<1>2. OneAtATime /\ TypeOK /\ SessionInv /\ [Next]_vars => TypeOK' /\ SessionInv'
  BY StepTyped, StepKeepsSessions
<1>3. SessionInv => LiveSessionsAreCurrent
  BY DEF SessionInv, LiveOrDropping, Live, LiveSessionsAreCurrent, Quiet, Dropping
<1>4. OneAtATime => []OneAtATime
  <2>1. OneAtATime => OneAtATime'
    BY DEF OneAtATime
  <2> QED
    BY <2>1, PTL
<1> QED
  BY <1>1, <1>2, <1>3, <1>4, PTL DEF Spec

=============================================================================

------------------------- MODULE ObjectStoreProofs -------------------------
(***************************************************************************)
(* Theorems about Catalog and about ObjectStore, which implements it.      *)
(***************************************************************************)
EXTENDS ObjectStore, TLAPS

(* Catalog: requests of one step. *)

CatalogInv == TypeOK /\ NoDangling /\ ChainsEnd

LEMMA NamesAreObjects == \A o \in Objects : \A refs \in Names(o) : refs \subseteq Objects
BY DEF Names, AtMostOne, Objects

LEMMA ValuesAreFiles == \A o \in Objects : \A f \in Values(o) :
                            f \in Files /\ f.exists /\ f.refs \in Names(o)
<1> SUFFICES ASSUME NEW o \in Objects, NEW f \in Values(o)
             PROVE  f \in Files /\ f.exists /\ f.refs \in Names(o)
  OBVIOUS
<1>1. CASE o \in Credentials
  <2>1. Names(o) = AtMostOne(Credentials)
    BY <1>1, KindsAssumption DEF Names
  <2>2. \E refs \in AtMostOne(Credentials), inject \in BOOLEAN : f = File(refs, inject)
    BY <1>1 DEF Values, AtMostOne
  <2> QED BY <2>1, <2>2, NamesAreObjects DEF File, Files
<1>2. CASE o \notin Credentials
  <2>1. \E refs \in Names(o) : f = File(refs, FALSE)
    BY <1>2 DEF Values
  <2> QED BY <2>1, NamesAreObjects DEF File, Files
<1> QED BY <1>1, <1>2

\* What the invariant says of one file.
LEMMA FileTyped ==
    ASSUME TypeOK, NEW o \in Objects
    PROVE  /\ store[o] \in Files /\ store[o].exists \in BOOLEAN
           /\ store[o].refs \subseteq Objects /\ store[o].refs \in Names(o) \cup {{}}
           /\ ~store[o].exists => store[o] = Absent /\ store[o].refs = {}
           /\ store[o].exists => store[o] \in Values(o)
<1>1. store[o] = Absent \/ store[o] \in Values(o)
  BY DEF TypeOK
<1>2. CASE store[o] = Absent
  BY <1>2 DEF Absent, Files
<1>3. CASE store[o] \in Values(o)
  BY <1>3, ValuesAreFiles DEF Files
<1> QED BY <1>1, <1>2, <1>3

LEMMA InitCatalog == Init => CatalogInv
<1> SUFFICES ASSUME Init PROVE CatalogInv
  OBVIOUS
<1>1. Absent \in Files /\ Absent.refs = {}
  BY DEF Absent, Files
<1>2. TypeOK
  BY <1>1 DEF Init, TypeOK
<1>3. NoDangling
  BY <1>1 DEF Init, NoDangling
<1>4. ChainsEnd
  <2> SUFFICES ASSUME NEW S \in SUBSET Credentials, NEW c \in S
               PROVE  store[c].refs \cap S = {}
    BY DEF ChainsEnd
  <2> QED BY <1>1 DEF Init, Objects
<1> QED BY <1>2, <1>3, <1>4 DEF CatalogInv

-----------------------------------------------------------------------------
LEMMA CreateInv ==
    ASSUME CatalogInv, NEW o \in Objects, Create(o)
    PROVE  CatalogInv'
<1>1. PICK f \in Values(o) : /\ \A r \in f.refs : Usable(o, r)
                             /\ store' = [store EXCEPT ![o] = f]
  BY DEF Create
<1>2. /\ ~store[o].exists /\ TypeOK /\ NoDangling /\ ChainsEnd
      /\ f \in Files /\ f.exists /\ f.refs \subseteq Objects
  BY <1>1, ValuesAreFiles, NamesAreObjects DEF Create, CatalogInv
<1>3. /\ DOMAIN store = Objects /\ store'[o] = f
      /\ \A x \in Objects \ {o} : store'[x] = store[x]
  BY <1>1, <1>2 DEF TypeOK
<1>4. TypeOK'
  BY <1>1, <1>2, <1>3 DEF TypeOK
<1>5. \A x \in Objects : o \notin store[x].refs
  BY <1>2 DEF NoDangling, Usable
<1>6. NoDangling'
  <2> SUFFICES ASSUME NEW x \in Objects, NEW r \in store'[x].refs
               PROVE  Usable(x, r)'
    BY DEF NoDangling
  <2>1. CASE x = o
    <3>1. r \in f.refs /\ r \in Objects /\ Usable(o, r)
      BY <1>1, <1>2, <1>3, <2>1
    <3>2. r # o
      BY <1>2, <3>1 DEF Usable
    <3> QED BY <1>3, <2>1, <3>1, <3>2 DEF Usable
  <2>2. CASE x # o
    <3>1. r \in store[x].refs /\ r \in Objects /\ Usable(x, r)
      BY <1>2, <1>3, <2>2, FileTyped DEF NoDangling
    <3>2. r # o
      BY <1>2, <3>1 DEF Usable
    <3> QED BY <1>3, <3>1, <3>2 DEF Usable
  <2> QED BY <2>1, <2>2
<1>7. ChainsEnd'
  <2> SUFFICES ASSUME NEW S \in SUBSET Credentials, \A c \in S : store'[c].refs \cap S # {}
               PROVE  S = {}
    BY DEF ChainsEnd
  <2>1. S \subseteq Objects
    BY DEF Objects
  <2>2. \A c \in S \ {o} : store[c].refs \cap (S \ {o}) # {}
    BY <1>3, <1>5, <2>1
  <2>3. S \ {o} = {}
    BY <1>2, <2>2 DEF ChainsEnd
  <2>4. CASE o \in S
    <3>1. PICK r \in f.refs : r \in S
      BY <1>3, <2>1, <2>4
    <3>2. r # o
      BY <1>1, <1>2, <3>1 DEF Usable
    <3> QED BY <2>3, <3>1, <3>2
  <2> QED BY <2>3, <2>4
<1> QED BY <1>4, <1>6, <1>7 DEF CatalogInv

LEMMA ChangeInv ==
    ASSUME CatalogInv, NEW o \in Objects, Change(o)
    PROVE  CatalogInv'
<1>1. PICK refs \in Names(o) : /\ \A r \in refs \ store[o].refs : Usable(o, r)
                               /\ store' = [store EXCEPT ![o] = File(refs, FALSE)]
  BY DEF Change
<1>2. /\ o \in Apis \cup Bundles /\ store[o].exists /\ TypeOK /\ NoDangling /\ ChainsEnd
      /\ o \notin Credentials /\ refs \subseteq Objects
  BY KindsAssumption, NamesAreObjects DEF Change, CatalogInv
<1>3. store[o] \in Values(o) /\ store[o] \in Files
  BY <1>2, FileTyped
<1>4. \E old \in Names(o) : store[o] = File(old, FALSE)
  BY <1>2, <1>3 DEF Values
<1>5. /\ ~store[o].inject /\ ~File(refs, FALSE).inject /\ File(refs, FALSE).exists
      /\ File(refs, FALSE).refs = refs
  BY <1>4 DEF File
<1>6. /\ DOMAIN store = Objects /\ store'[o] = File(refs, FALSE)
      /\ \A x \in Objects \ {o} : store'[x] = store[x]
  BY <1>1, <1>2 DEF TypeOK
<1>7. File(refs, FALSE) \in Values(o) /\ File(refs, FALSE) \in Files
  BY <1>2, ValuesAreFiles DEF Values
<1>8. TypeOK'
  BY <1>1, <1>2, <1>6, <1>7 DEF TypeOK
<1>9. \A x \in Objects : (store[x].exists => store'[x].exists)
                          /\ (store[x].inject => store'[x].inject)
  BY <1>2, <1>5, <1>6
<1>10. NoDangling'
  <2> SUFFICES ASSUME NEW x \in Objects, NEW r \in store'[x].refs
               PROVE  Usable(x, r)'
    BY DEF NoDangling
  <2>1. r \in Objects
    BY <1>2, <1>5, <1>6, FileTyped
  <2>2. Usable(x, r)
    BY <1>1, <1>2, <1>5, <1>6 DEF NoDangling
  <2> QED BY <1>9, <2>1, <2>2 DEF Usable
<1>11. ChainsEnd'
  BY <1>2, <1>6 DEF ChainsEnd, Objects
<1> QED BY <1>8, <1>10, <1>11 DEF CatalogInv

LEMMA DeleteInv ==
    ASSUME CatalogInv, NEW o \in Objects, Delete(o)
    PROVE  CatalogInv'
<1>1. /\ \A x \in Objects : o \notin store[x].refs
      /\ store' = [store EXCEPT ![o] = Absent]
      /\ TypeOK /\ NoDangling /\ ChainsEnd
  BY DEF Delete, CatalogInv
<1>2. /\ DOMAIN store = Objects /\ store'[o] = Absent /\ Absent \in Files /\ Absent.refs = {}
      /\ \A x \in Objects \ {o} : store'[x] = store[x]
  BY <1>1 DEF TypeOK, Absent, Files
<1>3. TypeOK'
  BY <1>1, <1>2 DEF TypeOK
<1>4. NoDangling'
  <2> SUFFICES ASSUME NEW x \in Objects, NEW r \in store'[x].refs
               PROVE  Usable(x, r)'
    BY DEF NoDangling
  <2>1. x # o /\ r \in store[x].refs
    BY <1>2
  <2>2. r # o /\ r \in Objects
    BY <1>1, <2>1, FileTyped
  <2> QED BY <1>1, <1>2, <2>1, <2>2 DEF NoDangling, Usable
<1>5. ChainsEnd'
  BY <1>1, <1>2 DEF ChainsEnd, Objects
<1> QED BY <1>3, <1>4, <1>5 DEF CatalogInv

LEMMA CatalogStep == CatalogInv /\ [Next]_store => CatalogInv'
<1> SUFFICES ASSUME CatalogInv, [Next]_store PROVE CatalogInv'
  OBVIOUS
<1>1. CASE UNCHANGED store
  BY <1>1 DEF CatalogInv, TypeOK, NoDangling, Usable, ChainsEnd
<1> QED BY <1>1, CreateInv, ChangeInv, DeleteInv DEF Next

\* The inductive invariant.  A new object is named by none, so it closes no cycle
\* of credentials, and what it names is there; a deleted one is named by none.
THEOREM CatalogInvariant == Spec => []CatalogInv
BY InitCatalog, CatalogStep, PTL DEF Spec

\* deleteApi, deleteMcp, deleteCredential and deleteConnector look for references,
\* the others for what they refer to: each atomic, nothing is left dangling.
THEOREM NothingDangles == Spec => []NoDangling
<1>1. CatalogInv => NoDangling
  BY DEF CatalogInv
<1> QED BY <1>1, CatalogInvariant, PTL

\* No chain of entra credentials is circular, however many there are.
THEOREM NoCircularChain == Spec => []ChainsEnd
<1>1. CatalogInv => ChainsEnd
  BY DEF CatalogInv
<1> QED BY <1>1, CatalogInvariant, PTL

-----------------------------------------------------------------------------
(* ObjectStore: requests of many steps. *)

\* What a handler about to write has seen: the names that Catalog wants usable are
\* among those it checks, and the file stays in its kind.
WellChecked(h) ==
    /\ h.target \in Objects /\ h.copy \in Values(h.target)
    /\ h.read = Absent \/ h.read \in Values(h.target)
    /\ \/ ~h.read.exists /\ h.copy.refs \subseteq h.todo \cup h.passed
       \/ /\ h.target \in Apis \cup Bundles /\ h.read.exists
          /\ h.copy.refs \ h.read.refs \subseteq h.todo \cup h.passed
       \/ h.copy = h.read

WellScanned(h) == h.target \in Objects /\ h.todo \cup h.passed = Scanned(h.target)

HandlersOK == \A a \in Admins : /\ admin[a].pc = "checking" => WellChecked(admin[a])
                                /\ admin[a].pc = "scanning" => WellScanned(admin[a])

ObjectInv == ObjectTypeOK /\ HandlersOK

-----------------------------------------------------------------------------
(* A step that leaves the files alone and gives one handler a sound value. *)

Sound(h) == /\ h \in Handlers
            /\ h.pc = "checking" => WellChecked(h)
            /\ h.pc = "scanning" => WellScanned(h)

LEMMA SoundAdmin ==
    ASSUME ObjectInv, NEW a \in Admins, NEW h, Sound(h), TypeOK',
           admin' = [admin EXCEPT ![a] = h]
    PROVE  ObjectInv'
<1>1. admin' \in [Admins -> Handlers]
  BY DEF ObjectInv, ObjectTypeOK, Sound
<1>2. \A b \in Admins : admin'[b] = IF b = a THEN h ELSE admin[b]
  BY DEF ObjectInv, ObjectTypeOK
<1>3. HandlersOK'
  <2> SUFFICES ASSUME NEW b \in Admins
               PROVE  /\ admin'[b].pc = "checking" => WellChecked(admin'[b])
                      /\ admin'[b].pc = "scanning" => WellScanned(admin'[b])
    BY DEF HandlersOK, WellChecked, WellScanned
  <2> QED BY <1>2 DEF Sound, ObjectInv, HandlersOK
<1> QED BY <1>1, <1>3 DEF ObjectInv, ObjectTypeOK

LEMMA SoundStep ==
    ASSUME ObjectInv, NEW a \in Admins, NEW h, Sound(h), Step(a, h)
    PROVE  ObjectInv'
<1>1. TypeOK'
  BY DEF Step, ObjectInv, ObjectTypeOK, TypeOK
<1> QED BY <1>1, SoundAdmin DEF Step

LEMMA IdleSound == Sound(Idle)
BY DEF Sound, Idle, Handlers, Absent, Files

LEMMA Answers ==
    ASSUME ObjectInv, NEW a \in Admins, Answer(a)
    PROVE  ObjectInv'
BY SoundStep, IdleSound DEF Answer

LEMMA HandlerTyped ==
    ASSUME ObjectInv, NEW a \in Admins
    PROVE  /\ admin[a] \in Handlers /\ Sound(admin[a]) /\ TypeOK
           /\ admin[a].todo \subseteq Objects /\ admin[a].passed \subseteq Objects
<1>1. admin[a] \in Handlers
  BY DEF ObjectInv, ObjectTypeOK
<1> QED BY <1>1 DEF ObjectInv, ObjectTypeOK, HandlersOK, Sound, Handlers

\* A handler that starts on o with a copy of o's kind.
LEMMA CheckingSound ==
    ASSUME ObjectInv, NEW o \in Objects, NEW copy \in Values(o), NEW todo \in SUBSET Objects,
           \/ ~store[o].exists /\ copy.refs \subseteq todo
           \/ o \in Apis \cup Bundles /\ store[o].exists /\ copy.refs \ store[o].refs \subseteq todo
           \/ copy = store[o]
    PROVE  Sound(Checking(o, copy, todo))
<1> DEFINE h == Checking(o, copy, todo)
<1>1. /\ h.pc = "checking" /\ h.target = o /\ h.read = store[o] /\ h.copy = copy
      /\ h.todo = todo /\ h.passed = {}
  BY DEF Checking
<1>2. TypeOK
  BY DEF ObjectInv, ObjectTypeOK
<1>3. store[o] \in Files /\ copy \in Files /\ (store[o] = Absent \/ store[o] \in Values(o))
  BY <1>2, FileTyped, ValuesAreFiles
<1>4. h \in Handlers
  BY <1>3 DEF Checking, Handlers
<1>5. WellChecked(h)
  BY <1>1, <1>3 DEF WellChecked
<1> QED BY <1>1, <1>4, <1>5 DEF Sound

-----------------------------------------------------------------------------
LEMMA InitObject == ObjectInit => ObjectInv
<1> SUFFICES ASSUME ObjectInit PROVE ObjectInv
  OBVIOUS
<1>1. TypeOK
  BY InitCatalog DEF ObjectInit, CatalogInv
<1>2. \A a \in Admins : admin[a] = Idle
  BY DEF ObjectInit
<1>3. admin \in [Admins -> Handlers]
  BY IdleSound DEF ObjectInit, Sound
<1>4. HandlersOK
  BY <1>2 DEF HandlersOK, Idle
<1> QED BY <1>1, <1>3, <1>4 DEF ObjectInv, ObjectTypeOK

LEMMA BeginInv ==
    ASSUME ObjectInv, NEW a \in Admins, Begin(a)
    PROVE  ObjectInv'
<1>0. TypeOK
  BY DEF ObjectInv, ObjectTypeOK
<1>1. ASSUME NEW o \in Objects, BeginCreate(a, o)
      PROVE  ObjectInv'
  <2>1. PICK f \in Values(o) : Step(a, Checking(o, f, f.refs))
    BY <1>1 DEF BeginCreate
  <2>2. ~store[o].exists /\ f.refs \in SUBSET Objects
    BY <1>1, ValuesAreFiles, NamesAreObjects DEF BeginCreate
  <2> QED BY <2>1, <2>2, CheckingSound, SoundStep
<1>2. ASSUME NEW o \in Objects, BeginEdit(a, o)
      PROVE  ObjectInv'
  <2>1. store[o] \in Values(o) /\ Step(a, Checking(o, store[o], {}))
    BY <1>0, <1>2, FileTyped DEF BeginEdit
  <2> QED BY <2>1, CheckingSound, SoundStep
<1>3. ASSUME NEW o \in Objects, BeginDelete(a, o)
      PROVE  ObjectInv'
  <2> DEFINE h == [pc |-> "scanning", target |-> o, read |-> Absent, copy |-> Absent,
                   todo |-> Scanned(o), passed |-> {}]
  <2>1. Scanned(o) \subseteq Objects
    BY DEF Scanned, Objects
  <2>2. h \in Handlers
    BY <2>1 DEF Handlers, Absent, Files
  <2>3. WellScanned(h)
    BY DEF WellScanned
  <2> QED BY <1>3, <2>2, <2>3, SoundStep DEF BeginDelete, Sound
<1>4. ASSUME NEW o \in Apis, BeginPatch(a, o)
      PROVE  ObjectInv'
  <2>1. PICK refs \in Names(o) : Step(a, Checking(o, File(refs, FALSE), refs))
    BY <1>4 DEF BeginPatch
  <2>2. o \in Objects /\ o \notin Credentials /\ refs \in SUBSET Objects /\ store[o].exists
    BY <1>4, KindsAssumption, NamesAreObjects DEF BeginPatch, Objects
  <2>3. File(refs, FALSE) \in Values(o) /\ File(refs, FALSE).refs = refs
    BY <2>2 DEF Values, File
  <2> QED BY <2>1, <2>2, <2>3, CheckingSound, SoundStep
<1>5. ASSUME NEW o \in Bundles, NEW item \in Apis \cup McpServers, BeginItem(a, o, item)
      PROVE  ObjectInv'
  <2>1. o \in Objects /\ item \in Objects /\ o \notin Credentials /\ store[o].exists
    BY <1>5, KindsAssumption DEF BeginItem, Objects
  <2>2. Names(o) = SUBSET (Apis \cup McpServers)
    BY <1>5, KindsAssumption DEF Names
  <2>3. store[o].refs \subseteq Apis \cup McpServers
    BY <1>0, <2>1, <2>2, FileTyped
  <2>4. CASE Step(a, Checking(o, File(store[o].refs \cup {item}, FALSE), {item}))
    <3> DEFINE refs == store[o].refs \cup {item}
    <3>1. refs \in Names(o)
      BY <1>5, <2>2, <2>3
    <3>2. File(refs, FALSE) \in Values(o) /\ File(refs, FALSE).refs = refs
      BY <2>1, <3>1 DEF Values, File
    <3> QED BY <1>5, <2>1, <2>4, <3>2, CheckingSound, SoundStep
  <2>5. CASE Step(a, Checking(o, File(store[o].refs \ {item}, FALSE), {}))
    <3> DEFINE refs == store[o].refs \ {item}
    <3>1. refs \in Names(o)
      BY <2>2, <2>3
    <3>2. File(refs, FALSE) \in Values(o) /\ File(refs, FALSE).refs = refs
      BY <2>1, <3>1 DEF Values, File
    <3> QED BY <1>5, <2>1, <2>5, <3>2, CheckingSound, SoundStep
  <2> QED BY <1>5, <2>4, <2>5 DEF BeginItem
<1> QED BY <1>1, <1>2, <1>3, <1>4, <1>5 DEF Begin

\* Moving one object from todo to passed.
LEMMA PastSound ==
    ASSUME NEW h \in Handlers, Sound(h), NEW x \in h.todo, h.pc # "idle"
    PROVE  Sound(Past(h, x))
<1>1. h.todo \subseteq Objects /\ h.passed \subseteq Objects
  BY DEF Handlers
<1>2. Past(h, x) \in Handlers
  BY <1>1 DEF Past, Handlers
<1>3. /\ Past(h, x).pc = h.pc /\ Past(h, x).target = h.target
      /\ Past(h, x).read = h.read /\ Past(h, x).copy = h.copy
      /\ Past(h, x).todo = h.todo \ {x} /\ Past(h, x).passed = h.passed \cup {x}
  BY DEF Past, Handlers
<1>4. Past(h, x).todo \cup Past(h, x).passed = h.todo \cup h.passed
  BY <1>3
<1>5. WellChecked(h) => WellChecked(Past(h, x))
  BY <1>3, <1>4 DEF WellChecked
<1>6. WellScanned(h) => WellScanned(Past(h, x))
  BY <1>3, <1>4 DEF WellScanned
<1> QED BY <1>2, <1>3, <1>5, <1>6 DEF Sound

LEMMA ProceedInv ==
    ASSUME ObjectInv, NEW a \in Admins, Proceed(a)
    PROVE  ObjectInv'
<1>1. PICK x \in admin[a].todo : Check(a, x) \/ Scan(a, x)
  BY DEF Proceed
<1>2. Answer(a) \/ (admin[a].pc # "idle" /\ Step(a, Past(admin[a], x)))
  BY <1>1 DEF Check, Scan
<1> QED BY <1>2, Answers, HandlerTyped, PastSound, SoundStep

-----------------------------------------------------------------------------
LEMMA PutInv ==
    ASSUME ObjectInv, NEW a \in Admins, Put(a)
    PROVE  ObjectInv'
<1> DEFINE h == admin[a]
<1>1. h.pc = "checking" /\ WellChecked(h) /\ TypeOK
  BY HandlerTyped DEF Put, Sound
<1>2. h.target \in Objects /\ h.copy \in Values(h.target) /\ h.copy \in Files
  BY <1>1, ValuesAreFiles DEF WellChecked
<1>3. store' = [store EXCEPT ![h.target] = h.copy] /\ admin' = [admin EXCEPT ![a] = Idle]
  BY DEF Put
<1>4. TypeOK'
  BY <1>1, <1>2, <1>3 DEF TypeOK
<1> QED BY <1>3, <1>4, IdleSound, SoundAdmin

LEMMA RemoveInv ==
    ASSUME ObjectInv, NEW a \in Admins, Remove(a)
    PROVE  ObjectInv'
<1> DEFINE h == admin[a]
<1>1. h.target \in Objects /\ TypeOK
  BY HandlerTyped DEF Remove, Sound, WellScanned
<1>2. store' = [store EXCEPT ![h.target] = Absent] /\ admin' = [admin EXCEPT ![a] = Idle]
  BY DEF Remove
<1>3. Absent \in Files
  BY DEF Absent, Files
<1>4. TypeOK'
  BY <1>1, <1>2, <1>3 DEF TypeOK
<1> QED BY <1>2, <1>4, IdleSound, SoundAdmin

\* The handlers keep the files and what they carry in their kinds.
THEOREM ObjectInvariant == ObjectSpec => []ObjectInv
<1>1. ObjectInv /\ [ObjectNext]_vars => ObjectInv'
  <2> SUFFICES ASSUME ObjectInv, [ObjectNext]_vars PROVE ObjectInv'
    OBVIOUS
  <2>1. CASE UNCHANGED vars
    BY <2>1 DEF vars, ObjectInv, ObjectTypeOK, TypeOK, HandlersOK, WellChecked, WellScanned
  <2>2. CASE ObjectNext
    <3>1. PICK a \in Admins : Begin(a) \/ Proceed(a) \/ Put(a) \/ Remove(a) \/ WriteFails(a)
      BY <2>2 DEF ObjectNext
    <3> QED BY <3>1, BeginInv, ProceedInv, PutInv, RemoveInv, Answers DEF WriteFails
  <2> QED BY <2>1, <2>2
<1> QED BY <1>1, InitObject, PTL DEF ObjectSpec

-----------------------------------------------------------------------------
(* Implementing Catalog. *)

\* put of a handler that nothing overtook.
LEMMA PutImplements ==
    ASSUME ObjectInv, NEW a \in Admins, Put(a), ~Stale(a)
    PROVE  [Next]_store
<1> DEFINE h == admin[a]
           o == admin[a].target
<1>1. /\ h.pc = "checking" /\ h.todo = {} /\ WellChecked(h) /\ TypeOK
      /\ store' = [store EXCEPT ![o] = h.copy]
  BY HandlerTyped DEF Put, Sound
<1>2. /\ store[o] = h.read
      /\ \A r \in h.passed \ h.read.refs : Usable(o, r)
  BY <1>1 DEF Stale, Passes, Usable
<1>3. o \in Objects /\ h.copy \in Values(o)
  BY <1>1 DEF WellChecked
<1>4. CASE ~h.read.exists /\ h.copy.refs \subseteq h.todo \cup h.passed
  <2>1. ~store[o].exists /\ h.read.refs = {}
    BY <1>1, <1>2, <1>3, <1>4, FileTyped
  <2>2. \A r \in h.copy.refs : Usable(o, r)
    BY <1>1, <1>2, <1>4, <2>1
  <2>3. Create(o)
    BY <1>1, <1>3, <2>1, <2>2 DEF Create
  <2> QED BY <1>3, <2>3 DEF Next
<1>5. CASE /\ o \in Apis \cup Bundles /\ h.read.exists
           /\ h.copy.refs \ h.read.refs \subseteq h.todo \cup h.passed
  <2>1. o \notin Credentials
    BY <1>5, KindsAssumption
  <2>2. PICK refs \in Names(o) : h.copy = File(refs, FALSE)
    BY <1>3, <2>1 DEF Values
  <2>3. h.copy.refs = refs
    BY <2>2 DEF File
  <2>4. \A r \in refs \ store[o].refs : Usable(o, r)
    BY <1>1, <1>2, <1>5, <2>3
  <2>5. Change(o)
    BY <1>1, <1>2, <1>5, <2>2, <2>4 DEF Change
  <2> QED BY <1>3, <2>5 DEF Next
<1>6. CASE h.copy = h.read
  BY <1>1, <1>2, <1>3, <1>6 DEF TypeOK
<1> QED BY <1>1, <1>4, <1>5, <1>6 DEF WellChecked

\* Every file that can name o is scanned.
LEMMA ScansAll ==
    ASSUME TypeOK, NEW o \in Objects, NEW x \in Objects, o \in store[x].refs
    PROVE  x \in Scanned(o)
<1>1. store[x].refs \in Names(x)
  BY FileTyped
<1>2. CASE x \in Apis
  BY <1>1, <1>2, KindsAssumption DEF Names, AtMostOne, Scanned
<1>3. CASE x \in McpServers
  BY <1>1, <1>3, KindsAssumption DEF Names, AtMostOne, Scanned
<1>4. CASE x \in Bundles
  BY <1>1, <1>4, KindsAssumption DEF Names, AtMostOne, Scanned
<1>5. CASE x \in Credentials
  BY <1>1, <1>5, KindsAssumption DEF Names, AtMostOne, Scanned
<1>6. CASE x \in Connectors
  BY <1>1, <1>6, KindsAssumption DEF Names, AtMostOne, Scanned
<1> QED BY <1>2, <1>3, <1>4, <1>5, <1>6 DEF Objects

\* remove of a handler that nothing overtook.
LEMMA RemoveImplements ==
    ASSUME ObjectInv, NEW a \in Admins, Remove(a), ~Stale(a)
    PROVE  [Next]_store
<1> DEFINE h == admin[a]
           o == admin[a].target
<1>1. /\ h.pc = "scanning" /\ h.todo = {} /\ WellScanned(h) /\ TypeOK
      /\ store' = [store EXCEPT ![o] = Absent]
  BY HandlerTyped DEF Remove, Sound
<1>2. o \in Objects /\ h.passed = Scanned(o)
  BY <1>1 DEF WellScanned
<1>3. \A x \in Objects : o \notin store[x].refs
  BY <1>1, <1>2, ScansAll DEF Stale
<1> QED BY <1>1, <1>2, <1>3 DEF Next, Delete

\* Every step of the handlers: one of Catalog, none at all, or a stale write.
LEMMA StepImplements ==
    ASSUME ObjectInv, [ObjectNext]_vars
    PROVE  [Next]_store \/ \E a \in Admins : (Put(a) \/ Remove(a)) /\ Stale(a)
<1>1. CASE UNCHANGED vars
  BY <1>1 DEF vars
<1>2. CASE ObjectNext
  <2>1. PICK a \in Admins : Begin(a) \/ Proceed(a) \/ Put(a) \/ Remove(a) \/ WriteFails(a)
    BY <1>2 DEF ObjectNext
  <2>2. CASE Begin(a) \/ Proceed(a) \/ WriteFails(a)
    BY <2>2 DEF Begin, BeginCreate, BeginEdit, BeginDelete, BeginPatch, BeginItem,
                Proceed, Check, Scan, WriteFails, Answer, Step
  <2>3. CASE Put(a) \/ Remove(a)
    BY <2>3, PutImplements, RemoveImplements
  <2> QED BY <2>1, <2>2, <2>3
<1> QED BY <1>1, <1>2

\* Every variable keeps its type; above all, no handler writes a file of another
\* kind, or an entra credential that has nowhere to go.
THEOREM ObjectTypeCorrect == ObjectSpec => []ObjectTypeOK
<1>1. ObjectInv => ObjectTypeOK
  BY DEF ObjectInv
<1> QED BY <1>1, ObjectInvariant, PTL

\* A management request that nothing overtook does what Catalog does in one step:
\* for any objects, and any number of requests at once.
THEOREM ObjectImplements == ObjectSpec => Implements
<1>1. ObjectInit => Init
  BY DEF ObjectInit
<1>2. ObjectInv /\ [ObjectNext]_vars
         => [Next \/ \E a \in Admins : (Put(a) \/ Remove(a)) /\ Stale(a)]_store
  BY StepImplements
<1> QED BY <1>1, <1>2, ObjectInvariant, PTL DEF ObjectSpec, Implements

\* As long as no request is overtaken by the time it writes, nothing dangles and no
\* chain of credentials is circular.
NoStaleWrite == \A a \in Admins : ~((Put(a) \/ Remove(a)) /\ Stale(a))

THEOREM UnovertakenKeepsNames ==
    ObjectSpec /\ [][NoStaleWrite]_vars => [](NoDangling /\ ChainsEnd)
<1>1. ObjectInit => CatalogInv
  BY InitCatalog DEF ObjectInit
<1>2. CatalogInv /\ [Next]_store => CatalogInv'
  BY CatalogStep
<1>3. ObjectInv /\ [ObjectNext]_vars /\ [NoStaleWrite]_vars => [Next]_store
  <2>1. UNCHANGED vars => [Next]_store
    BY DEF vars
  <2> QED BY <2>1, StepImplements DEF NoStaleWrite
<1>4. CatalogInv => NoDangling /\ ChainsEnd
  BY DEF CatalogInv
<1> QED BY <1>1, <1>2, <1>3, <1>4, ObjectInvariant, PTL DEF ObjectSpec
=============================================================================

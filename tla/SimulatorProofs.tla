-------------------------- MODULE SimulatorProofs --------------------------
(***************************************************************************)
(* Proofs about Simulator and MessageStream, alone and in Testbench, for   *)
(* any clients, requests, documents, messages, paces and bounds: scenario  *)
(* files, the numbers of recorded entries, the cassette cache, the answers *)
(* of a session, and what is recorded of a stream, read of it and played.  *)
(***************************************************************************)
EXTENDS Testbench, FiniteSetTheorems, WellFoundedInduction, TLAPS

Documents == (Docs \cup {Builtin}) \ {NoDoc}
Edits == [pc : {"idle", "opened", "counted"}, inode : 0..MaxInodes,
          doc : Docs \cup {NoDoc}, seq : 0..MaxChanges]
Requests == [pc : {"idle", "dated", "missed", "loaded", "joined"},
             source : Documents \cup {NoDoc} \cup Cassettes \cup Nat,
             session : 0..MaxSessions, modTime : 0..MaxTime, arrived : 0..MaxChanges]

\* What a request has in hand: the date, the script, its session.
InHand(h) ==
    /\ h.pc \in {"dated", "missed"} => directive = "replay"
    /\ h.pc = "loaded" => h.source \in IF directive = "scenario" THEN Documents ELSE Cassettes
    /\ h.pc = "joined" => /\ h.session \in 1..created
                          /\ h.source \in IF directive = "scenario" THEN Documents ELSE Nat

FilesTyped ==
    /\ scenario \in ScenarioFiles /\ spoiled \in BOOLEAN
    /\ cassette \in CassetteFiles /\ raced \in BOOLEAN
    /\ Len(cassette.entries) <= cassette.change
    /\ editor \in [Editors -> Edits]
    /\ \A e \in Editors : editor[e].pc = "opened" => editor[e].doc \in Docs

CallsTyped ==
    /\ directive \in {"scenario", "replay"}
    /\ now \in 0..MaxTime
    /\ cache \subseteq Cassettes /\ \A cas, other \in cache : cas = other
    /\ created \in 0..MaxSessions /\ session \in 0..created
    /\ counters \in [1..MaxSessions -> [main : Nat, side : Nat]]
    /\ DOMAIN served = 1..MaxSessions
    /\ call \in [Calls -> Requests]
    /\ \A c \in Calls : InHand(call[c])

\* A file that no PUT has spoiled is whole, or empty with the one PUT that is to
\* write it; what is open is no newer than the file.
FileSound ==
    /\ \A e \in Editors : editor[e].pc = "opened" => editor[e].inode <= scenario.inode
    /\ scenario.exists /\ ~spoiled =>
         \/ Writers = {} /\ scenario.doc # NoDoc
         \/ scenario.size = 0 /\ \E e \in Editors : Writers = {e}

\* One append at a time, of an entry whose number is that of the entries before it.
SeqSound ==
    /\ \A e, f \in Editors : editor[e].pc = "counted" /\ editor[f].pc = "counted" => e = f
    /\ SeqExact
    /\ ~raced => \A e \in Editors :
                   editor[e].pc = "counted" => editor[e].seq = Len(cassette.entries)

\* A date is never later than the reading that follows it, and a change that a cassette
\* lacks is no earlier than its reading.
CacheSound ==
    /\ cassette.modTime <= now
    /\ \A cas \in cache :
         /\ cas.modTime <= cas.readAt /\ cas.readAt <= now /\ cas.change <= cassette.change
         /\ cas.change < cassette.change => cas.readAt <= cassette.modTime
    /\ \A c \in Calls : call[c].pc \in {"dated", "missed"} =>
         /\ call[c].modTime <= now /\ call[c].arrived <= cassette.change
         /\ \A cas \in cache : cas.change < call[c].arrived => cas.readAt <= call[c].modTime
    /\ ReplayCurrent

\* As many answers as the index says, the last of them for the index before.
AnswersCounted ==
    \A s \in 1..MaxSessions :
        /\ served[s].count = counters[s].main
        /\ served[s].count > 0 =>
             /\ served[s].of \in IF directive = "scenario" THEN Documents ELSE Nat
             /\ served[s].answer = Answer(served[s].of, served[s].count - 1)

SimInv == FilesTyped /\ CallsTyped /\ FileSound /\ SeqSound /\ CacheSound /\ AnswersCounted

-----------------------------------------------------------------------------
(* Induction up to a number and along a sequence: what flattening and folding *)
(* a sequence gives.                                                          *)

LEMMA LeastNatural ==
    ASSUME NEW T, T \subseteq Nat, T # {}
    PROVE  \E i \in T : \A j \in T : i <= j
<1> DEFINE Below == {0..i : i \in T}
<1>1. Below \subseteq FiniteSubsetsOf(Nat)
  <2>1. \A i \in T : 0..i \subseteq Nat /\ IsFiniteSet(0..i)
    BY FS_Interval
  <2> QED
    BY <2>1 DEF FiniteSubsetsOf
<1>2. PICK d \in Below : \A e \in Below : <<e, d>> \notin StrictSubsetOrdering(Nat)
  <2>1. Below # {}
    OBVIOUS
  <2>2. IsWellFoundedOn(StrictSubsetOrdering(Nat), FiniteSubsetsOf(Nat))
    BY FS_StrictSubsetOrderingWellFounded
  <2> HIDE DEF Below
  <2> QED
    BY <1>1, <2>1, <2>2, WFMin
<1>3. PICK i \in T : d = 0..i
  OBVIOUS
<1>4. ASSUME NEW j \in T, j < i PROVE FALSE
  <2>1. <<0..j, 0..i>> \in (SUBSET Nat) \X (SUBSET Nat)
    OBVIOUS
  <2>2. 0..j \subseteq 0..i /\ i \in 0..i /\ i \notin 0..j
    BY <1>4
  <2>3. <<0..j, 0..i>> \in StrictSubsetOrdering(Nat)
    BY <2>1, <2>2 DEF StrictSubsetOrdering
  <2> QED
    BY <2>3, <1>2, <1>3
<1> QED
  BY <1>4

\* Induction up to a number, over a set.
LEMMA UpTo ==
    ASSUME NEW N \in Nat, NEW T, 0 \in T, \A n \in 0..(N - 1) : n \in T => n + 1 \in T
    PROVE  0..N \subseteq T
<1> DEFINE Bad == (0..N) \ T
<1> SUFFICES ASSUME Bad # {} PROVE FALSE
  OBVIOUS
<1>1. PICK i \in Bad : \A j \in Bad : i <= j
  <2>1. Bad \subseteq Nat
    OBVIOUS
  <2> HIDE DEF Bad
  <2> QED BY <2>1, LeastNatural
<1>2. i # 0 /\ i \in 0..N
  OBVIOUS
<1>3. i - 1 \in 0..(N - 1) /\ i - 1 \in T
  BY <1>1, <1>2
<1> QED BY <1>3, <1>1

\* What FlattenSeq defines, and that there is such a function.
Flattens(seqs, f) == f = [i \in 1..Len(seqs) |-> IF i = 1 THEN seqs[i] ELSE f[i - 1] \o seqs[i]]

LEMMA FlattensUp ==
    ASSUME NEW S, NEW seqs \in Seq(Seq(S)), Len(seqs) # 0
    PROVE  \E f \in [1..Len(seqs) -> Seq(S)] : Flattens(seqs, f)
<1> DEFINE Upto(n) == \E f \in [1..n -> Seq(S)] :
                   \A i \in 1..n : f[i] = IF i = 1 THEN seqs[i] ELSE f[i - 1] \o seqs[i]
           T == {n \in 0..Len(seqs) : Upto(n)}
<1>1. Len(seqs) \in Nat /\ \A i \in 1..Len(seqs) : seqs[i] \in Seq(S)
  OBVIOUS
<1>2. 0 \in T
  <2> DEFINE e == [i \in 1..0 |-> <<>>]
  <2>1. e \in [1..0 -> Seq(S)]
    OBVIOUS
  <2>2. \A i \in 1..0 : FALSE
    OBVIOUS
  <2> HIDE DEF e
  <2>3. Upto(0)
    BY <2>1, <2>2
  <2> HIDE DEF Upto
  <2> QED BY <2>3, <1>1
<1>3. ASSUME NEW n \in 0..(Len(seqs) - 1), n \in T PROVE n + 1 \in T
  <2>1. PICK f \in [1..n -> Seq(S)] :
            \A i \in 1..n : f[i] = IF i = 1 THEN seqs[i] ELSE f[i - 1] \o seqs[i]
    BY <1>3
  <2> DEFINE next == IF n = 0 THEN seqs[1] ELSE f[n] \o seqs[n + 1]
             g == [i \in 1..(n + 1) |-> IF i = n + 1 THEN next ELSE f[i]]
  <2>2. next \in Seq(S)
    <3>1. CASE n = 0
      BY <1>1, <3>1
    <3>2. CASE n # 0
      <4>1. f[n] \in Seq(S) /\ seqs[n + 1] \in Seq(S)
        BY <1>1, <3>2
      <4> QED BY <3>2, <4>1
    <3> QED BY <3>1, <3>2
  <2>3. g \in [1..(n + 1) -> Seq(S)]
    BY <2>2
  <2>4. ASSUME NEW i \in 1..(n + 1)
        PROVE  g[i] = IF i = 1 THEN seqs[i] ELSE g[i - 1] \o seqs[i]
    <3>1. CASE i = n + 1
      <4>1. n # 0 => g[n] = f[n]
        OBVIOUS
      <4>2. g[i] = next
        BY <3>1
      <4> QED BY <3>1, <4>1, <4>2
    <3>2. CASE i # n + 1
      <4>1. i \in 1..n /\ g[i] = f[i] /\ (i # 1 => g[i - 1] = f[i - 1])
        BY <3>2
      <4> QED BY <2>1, <4>1
    <3> QED BY <3>1, <3>2
  <2> HIDE DEF g, next
  <2>5. Upto(n + 1)
    BY <2>3, <2>4
  <2> HIDE DEF Upto
  <2> QED BY <2>5, <1>1
<1>4. Upto(Len(seqs))
  <2> HIDE DEF Upto
  <2>1. 0..Len(seqs) \subseteq T
    <3> HIDE DEF T
    <3> QED BY <1>1, <1>2, <1>3, UpTo
  <2> QED BY <2>1, <1>1
<1> QED BY <1>4 DEF Flattens

\* The places of the parts: each begins where those before it end.
Places(seqs, at) ==
    /\ at \in [0..Len(seqs) -> Nat] /\ at[0] = 0
    /\ \A i \in 1..Len(seqs) : at[i] = at[i - 1] + Len(seqs[i])

LEMMA FlattenAt ==
    ASSUME NEW S, NEW seqs \in Seq(Seq(S))
    PROVE  /\ FlattenSeq(seqs) \in Seq(S)
           /\ \E at : /\ Places(seqs, at) /\ Len(FlattenSeq(seqs)) = at[Len(seqs)]
                      /\ \A i \in 1..Len(seqs) : \A k \in 1..Len(seqs[i]) :
                             FlattenSeq(seqs)[at[i - 1] + k] = seqs[i][k]
<1> DEFINE N == Len(seqs)
<1>1. N \in Nat /\ \A i \in 1..N : seqs[i] \in Seq(S) /\ Len(seqs[i]) \in Nat
  OBVIOUS
<1>2. CASE N = 0
  <2>1. seqs = <<>> /\ FlattenSeq(seqs) = <<>>
    BY <1>2 DEF FlattenSeq
  <2> DEFINE at == [i \in 0..0 |-> 0]
  <2>2. Places(seqs, at)
    BY <1>2 DEF Places
  <2>3. Len(FlattenSeq(seqs)) = at[N]
    BY <1>2, <2>1
  <2>4. \A i \in 1..N : FALSE
    BY <1>2
  <2>5. FlattenSeq(seqs) \in Seq(S)
    <3>1. <<>> \in Seq(S)
      OBVIOUS
    <3> QED BY <2>1, <3>1
  <2> HIDE DEF at
  <2> QED BY <2>2, <2>3, <2>4, <2>5
<1>3. CASE N # 0
  <2> DEFINE flatten == CHOOSE f : Flattens(seqs, f)
             at == [i \in 0..N |-> IF i = 0 THEN 0 ELSE Len(flatten[i])]
  <2>1. PICK f \in [1..N -> Seq(S)] : Flattens(seqs, f)
    BY <1>3, FlattensUp
  <2>2. Flattens(seqs, flatten)
    BY <2>1
  <2>3. FlattenSeq(seqs) = flatten[N]
    BY <1>3 DEF FlattenSeq, Flattens
  <2> HIDE DEF flatten
  <2>4. \A i \in 1..N : flatten[i] = IF i = 1 THEN seqs[i] ELSE flatten[i - 1] \o seqs[i]
    BY <2>2, <1>1 DEF Flattens
  <2>5. at[0] = 0 /\ \A i \in 1..N : at[i] = Len(flatten[i])
    BY <1>1
  <2>6. DOMAIN at = 0..N /\ at = [i \in 0..N |-> at[i]]
    OBVIOUS
  <2> HIDE DEF at, N
  <2> DEFINE Good(n) ==
               /\ n = 0 \/ flatten[n] \in Seq(S)
               /\ at[n] \in Nat
               /\ n = 0 \/ at[n] = at[n - 1] + Len(seqs[n])
               /\ \A j \in 1..n : \A k \in 1..Len(seqs[j]) :
                    at[j - 1] + k \in 1..at[n] /\ flatten[n][at[j - 1] + k] = seqs[j][k]
             T == {n \in 0..N : Good(n)}
  <2>7. 0 \in T
    <3>1. \A j \in 1..0 : FALSE
      OBVIOUS
    <3>2. Good(0)
      BY <2>5, <3>1
    <3> HIDE DEF Good
    <3> QED BY <1>1, <3>2
  <2>8. ASSUME NEW n \in 0..(N - 1), n \in T PROVE n + 1 \in T
    <3> DEFINE s == seqs[n + 1]
    <3>1. /\ n + 1 \in 1..N /\ n + 1 \in 0..N /\ n \in Nat /\ n + 1 # 0 /\ (n + 1) - 1 = n
          /\ (n = 0 \/ n \in 1..N)
      BY <1>1
    <3>2. Good(n)
      BY <2>8
    <3>3. s \in Seq(S) /\ Len(s) \in Nat /\ at[n] \in Nat
      BY <3>1, <3>2, <1>1
    <3>4. /\ flatten[n + 1] \in Seq(S)
          /\ Len(flatten[n + 1]) = at[n] + Len(s)
          /\ \A i \in 1..(at[n] + Len(s)) :
               flatten[n + 1][i] = IF i <= at[n] THEN flatten[n][i] ELSE s[i - at[n]]
      <4>1. CASE n = 0
        <5>1. flatten[n + 1] = s /\ at[n] = 0
          BY <4>1, <3>1, <2>4, <2>5
        <5>2. \A i \in 1..(0 + Len(s)) : ~(i <= 0) /\ i - 0 = i
          BY <3>3
        <5> HIDE DEF s
        <5> QED BY <5>1, <5>2, <3>3
      <4>2. CASE n # 0
        <5>1. flatten[n + 1] = flatten[n] \o s
          <6>1. n + 1 # 1
            BY <4>2, <3>1
          <6> QED BY <6>1, <3>1, <2>4
        <5>2. flatten[n] \in Seq(S) /\ Len(flatten[n]) = at[n]
          BY <4>2, <3>1, <3>2, <2>5
        <5> DEFINE before == flatten[n]
                   whole == before \o s
        <5> HIDE DEF s, before
        <5>3. whole \in Seq(S) /\ Len(whole) = Len(before) + Len(s)
          BY <5>2, <3>3 DEF before
        <5>4. \A i \in 1..(Len(before) + Len(s)) :
                whole[i] = IF i <= Len(before) THEN before[i] ELSE s[i - Len(before)]
          BY <5>2, <3>3, SMTT(40) DEF before
        <5> HIDE DEF whole
        <5>5. flatten[n + 1] = whole /\ Len(before) = at[n] /\ before = flatten[n]
          BY <5>1, <5>2 DEF whole, before
        <5> QED BY <5>3, <5>4, <5>5
      <4> QED BY <4>1, <4>2
    <3>5. at[n + 1] = at[n] + Len(s)
      BY <2>5, <3>1, <3>4
    <3>6. ASSUME NEW j \in 1..(n + 1), NEW k \in 1..Len(seqs[j])
          PROVE  /\ at[j - 1] + k \in 1..at[n + 1]
                 /\ flatten[n + 1][at[j - 1] + k] = seqs[j][k]
      <4>1. CASE j = n + 1
        <5>1. seqs[j] = s /\ at[j - 1] = at[n] /\ k \in 1..Len(s)
          BY <4>1, <3>1
        <5> HIDE DEF s
        <5> DEFINE p == at[n] + k
        <5>2. p \in 1..(at[n] + Len(s)) /\ ~(p <= at[n]) /\ p - at[n] = k
          BY <5>1, <3>3
        <5> HIDE DEF p
        <5>3. flatten[n + 1][p] = s[p - at[n]]
          BY <5>2, <3>4
        <5>4. at[j - 1] + k = p /\ flatten[n + 1][p] = seqs[j][k]
          BY <5>1, <5>2, <5>3 DEF p
        <5> QED BY <5>2, <5>4, <3>5
      <4>2. CASE j # n + 1
        <5>1. j \in 1..n
          BY <4>2, <3>1
        <5>2. at[j - 1] + k \in 1..at[n] /\ flatten[n][at[j - 1] + k] = seqs[j][k]
          BY <5>1, <3>2
        <5> HIDE DEF s
        <5>3. at[j - 1] + k \in 1..(at[n] + Len(s)) /\ at[j - 1] + k <= at[n]
          BY <5>2, <3>3
        <5> QED BY <5>2, <5>3, <3>4, <3>5
      <4> QED BY <4>1, <4>2
    <3>7. Good(n + 1)
      <4>1. at[n + 1] \in Nat /\ at[n + 1] = at[(n + 1) - 1] + Len(seqs[n + 1])
        BY <3>1, <3>3, <3>5
      <4> QED BY <4>1, <3>4, <3>6
    <3> HIDE DEF Good
    <3> QED BY <3>1, <3>7
  <2>9. \A n \in 0..N : Good(n)
    <3>1. 0..N \subseteq T
      <4> HIDE DEF T
      <4> QED BY <1>1, <2>7, <2>8, UpTo
    <3> HIDE DEF Good
    <3> QED BY <3>1
  <2>10. Places(seqs, at)
    <3>1. \A n \in 0..N : at[n] \in Nat
      BY <2>9
    <3>2. \A i \in 1..N : at[i] = at[i - 1] + Len(seqs[i])
      <4>1. \A i \in 1..N : i \in 0..N /\ i # 0
        BY <1>1
      <4> QED BY <2>9, <4>1
    <3> QED BY <3>1, <3>2, <2>5, <2>6 DEF Places, N
  <2>11. Good(N)
    <3>1. N \in 0..N
      BY <1>1
    <3> HIDE DEF Good
    <3> QED BY <2>9, <3>1
  <2>12. /\ FlattenSeq(seqs) \in Seq(S) /\ Len(FlattenSeq(seqs)) = at[N]
         /\ \A i \in 1..N : \A k \in 1..Len(seqs[i]) :
              FlattenSeq(seqs)[at[i - 1] + k] = seqs[i][k]
    <3>1. N \in 1..N
      BY <1>1, <1>3
    <3>2. flatten[N] \in Seq(S) /\ Len(flatten[N]) = at[N]
      BY <2>11, <2>5, <3>1, <1>3
    <3> QED BY <2>3, <2>11, <3>2
  <2> HIDE DEF Good, T
  <2> QED BY <2>10, <2>12 DEF N
<1> QED BY <1>2, <1>3

LEMMA MaxUpTo ==
    ASSUME NEW n \in Nat, NEW s \in SUBSET (1..n), s # {}
    PROVE  Max(s) \in s /\ \A j \in s : j <= Max(s)
<1> DEFINE T == {i \in 0..n : \A j \in s : j <= i}
<1>1. n \in T
  OBVIOUS
<1>2. PICK i \in T : \A j \in T : i <= j
  <2>1. T \subseteq Nat
    OBVIOUS
  <2> HIDE DEF T
  <2> QED BY <1>1, <2>1, LeastNatural
<1>3. i \in s
  <2> SUFFICES ASSUME i \notin s PROVE FALSE
    OBVIOUS
  <2>1. PICK j \in s : TRUE
    OBVIOUS
  <2>2. i - 1 \in T
    <3>1. \A k \in s : k <= i /\ k # i /\ k \in Int
      BY <1>2
    <3>2. i \in Int /\ i >= 1
      BY <1>2, <2>1
    <3>3. \A k \in s : k <= i - 1
      BY <3>1, <3>2
    <3> QED BY <1>2, <3>2, <3>3
  <2> QED BY <1>2, <2>2
<1>4. \E x \in s : \A y \in s : x >= y
  BY <1>2, <1>3
<1>5. Max(s) \in s /\ \A y \in s : Max(s) >= y
  BY <1>4 DEF Max
<1> QED BY <1>5

LEMMA MaxInterval ==
    ASSUME NEW n \in Nat \ {0}
    PROVE  Max(1..n) = n /\ (1..n) \ {n} = 1..(n - 1)
<1>1. n \in Nat /\ 1..n \in SUBSET (1..n) /\ 1..n # {} /\ n \in 1..n
  OBVIOUS
<1>2. Max(1..n) \in 1..n /\ \A j \in 1..n : j <= Max(1..n)
  BY <1>1, MaxUpTo
<1>3. Max(1..n) = n
  BY <1>1, <1>2
<1> QED BY <1>3

\* A fold from the left by a function runs through a function on the sets of places.
FoldRuns(X, op, base, seq, iter) ==
    /\ iter \in [SUBSET (DOMAIN seq) -> X]
    /\ \A s \in SUBSET (DOMAIN seq) :
         iter[s] = IF s = {} THEN base ELSE op[<<iter[s \ {Max(s)}], seq[Max(s)]>>]

LEMMA FoldExists ==
    ASSUME NEW X, NEW E, NEW op \in [X \X E -> X], NEW base \in X, NEW seq \in Seq(E)
    PROVE  \E iter : FoldRuns(X, op, base, seq, iter)
<1> DEFINE N == Len(seq)
<1>1. N \in Nat /\ DOMAIN seq = 1..N /\ \A i \in 1..N : seq[i] \in E
  OBVIOUS
<1> HIDE DEF N
<1> DEFINE Runs(n, iter) ==
             /\ iter \in [SUBSET (1..n) -> X]
             /\ \A s \in SUBSET (1..n) :
                  iter[s] = IF s = {} THEN base ELSE op[<<iter[s \ {Max(s)}], seq[Max(s)]>>]
           T == {n \in 0..N : \E iter : Runs(n, iter)}
<1>2. 0 \in T
  <2> DEFINE iter == [s \in SUBSET (1..0) |-> base]
  <2>1. iter \in [SUBSET (1..0) -> X]
    OBVIOUS
  <2>2. \A s \in SUBSET (1..0) : s = {} /\ iter[s] = base
    OBVIOUS
  <2> HIDE DEF iter
  <2>3. Runs(0, iter)
    BY <2>1, <2>2
  <2> HIDE DEF Runs
  <2> QED BY <2>3, <1>1
<1>3. ASSUME NEW n \in 0..(N - 1), n \in T PROVE n + 1 \in T
  <2>1. n \in Nat /\ n + 1 \in 1..N /\ n + 1 \in 0..N /\ 1..n \subseteq 1..(n + 1)
        /\ (1..(n + 1)) \ {n + 1} = 1..n
    BY <1>1
  <2>2. PICK iter : Runs(n, iter)
    BY <1>3
  <2> DEFINE more == [s \in SUBSET (1..(n + 1)) |->
                        IF n + 1 \in s THEN op[<<iter[s \ {n + 1}], seq[n + 1]>>] ELSE iter[s]]
  <2>3. ASSUME NEW s \in SUBSET (1..(n + 1)), n + 1 \in s
        PROVE  Max(s) = n + 1 /\ s \ {n + 1} \in SUBSET (1..n)
               /\ more[s] = op[<<iter[s \ {n + 1}], seq[n + 1]>>] /\ more[s] \in X
               /\ more[s \ {n + 1}] = iter[s \ {n + 1}]
    <3>1. Max(s) \in s /\ \A j \in s : j <= Max(s)
      <4>1. n + 1 \in Nat /\ s # {}
        BY <2>1, <2>3
      <4> QED BY <4>1, MaxUpTo
    <3>2. Max(s) = n + 1
      <4>1. n + 1 <= Max(s) /\ Max(s) \in 1..(n + 1)
        BY <2>3, <3>1
      <4> QED BY <2>1, <4>1
    <3>3. s \ {n + 1} \in SUBSET (1..n) /\ s \ {n + 1} \in SUBSET (1..(n + 1))
      BY <2>1
    <3>4. iter[s \ {n + 1}] \in X
      BY <2>2, <3>3
    <3>5. <<iter[s \ {n + 1}], seq[n + 1]>> \in X \X E
      BY <2>1, <3>4, <1>1
    <3>6. more[s] = op[<<iter[s \ {n + 1}], seq[n + 1]>>]
      BY <2>3
    <3>7. more[s \ {n + 1}] = iter[s \ {n + 1}]
      BY <3>3
    <3> HIDE DEF more
    <3>8. op[<<iter[s \ {n + 1}], seq[n + 1]>>] \in X
      BY <3>5
    <3> QED BY <3>2, <3>3, <3>6, <3>7, <3>8
  <2>4. ASSUME NEW s \in SUBSET (1..(n + 1)), n + 1 \notin s
        PROVE  /\ s \in SUBSET (1..n) /\ more[s] = iter[s] /\ more[s] \in X
               /\ s # {} => more[s \ {Max(s)}] = iter[s \ {Max(s)}]
    <3>1. s \in SUBSET (1..n)
      BY <2>1, <2>4
    <3>2. s # {} => Max(s) \in s
      BY <2>1, <3>1, MaxUpTo
    <3>3. \A t \in SUBSET (1..n) : n + 1 \notin t /\ t \in SUBSET (1..(n + 1))
      BY <2>1
    <3>4. \A t \in SUBSET (1..n) : more[t] = iter[t]
      BY <3>3
    <3>5. iter[s] \in X /\ s \ {Max(s)} \in SUBSET (1..n)
      BY <2>2, <3>1
    <3> HIDE DEF more
    <3> QED BY <3>1, <3>4, <3>5
  <2>5. more \in [SUBSET (1..(n + 1)) -> X]
    <3>1. \A s \in SUBSET (1..(n + 1)) : more[s] \in X
      <4> HIDE DEF more
      <4> QED BY <2>3, <2>4
    <3>2. more = [s \in SUBSET (1..(n + 1)) |-> more[s]]
      OBVIOUS
    <3> HIDE DEF more
    <3> QED BY <3>1, <3>2
  <2> HIDE DEF more
  <2>6. ASSUME NEW s \in SUBSET (1..(n + 1))
        PROVE  more[s] = IF s = {} THEN base ELSE op[<<more[s \ {Max(s)}], seq[Max(s)]>>]
    <3>1. CASE n + 1 \in s
      BY <3>1, <2>3
    <3>2. CASE n + 1 \notin s
      BY <3>2, <2>4, <2>2
    <3> QED BY <3>1, <3>2
  <2>7. Runs(n + 1, more)
    BY <2>5, <2>6
  <2> HIDE DEF Runs
  <2> QED BY <2>1, <2>7
<1>4. PICK iter : Runs(N, iter)
  <2> HIDE DEF Runs
  <2>1. 0..N \subseteq T
    <3> HIDE DEF T
    <3> QED BY <1>1, <1>2, <1>3, UpTo
  <2> QED BY <2>1, <1>1
<1> QED BY <1>1, <1>4 DEF FoldRuns

\* The values that a fold runs through.
Runs(X, op, base, seq, run) ==
    /\ run \in [0..Len(seq) -> X] /\ run[0] = base
    /\ \A k \in 1..Len(seq) : run[k] = op[<<run[k - 1], seq[k]>>]

\* A function on the sets of places folds by op, as far as its values are in X.
FoldsBy(X, E, op, base, seq, iter) ==
    /\ op \in [X \X E -> X] /\ base \in X /\ seq \in Seq(E)
    /\ iter[{}] = base
    /\ \A s \in SUBSET (DOMAIN seq) :
         s # {} /\ iter[s \ {Max(s)}] \in X
             => iter[s] = op[<<iter[s \ {Max(s)}], seq[Max(s)]>>]

LEMMA FoldChain ==
    ASSUME NEW X, NEW E, NEW op, NEW base, NEW seq, NEW iter,
           FoldsBy(X, E, op, base, seq, iter)
    PROVE  \E run : Runs(X, op, base, seq, run) /\ run[Len(seq)] = iter[DOMAIN seq]
<1>0. op \in [X \X E -> X] /\ base \in X /\ seq \in Seq(E)
  BY DEF FoldsBy
<1> DEFINE N == Len(seq)
           run == [k \in 0..N |-> iter[1..k]]
           T == {k \in 0..N : run[k] \in X}
<1>1. N \in Nat /\ DOMAIN seq = 1..N /\ \A i \in 1..N : seq[i] \in E
  BY <1>0
<1> HIDE DEF N
<1>2. \A k \in 0..N : 1..k \in SUBSET (1..N) /\ run[k] = iter[1..k]
  BY <1>1
<1>3. run[0] = base /\ 0 \in T
  <2>1. 1..0 = {} /\ 0 \in 0..N
    BY <1>1
  <2> QED BY <2>1, <1>0, <1>2 DEF FoldsBy
<1> HIDE DEF run
<1>4. ASSUME NEW k \in 0..(N - 1), k \in T
      PROVE  run[k + 1] = op[<<run[k], seq[k + 1]>>] /\ k + 1 \in T
  <2>1. k + 1 \in Nat \ {0} /\ k + 1 \in 1..N /\ k + 1 \in 0..N /\ k \in 0..N
    BY <1>1
  <2>2. Max(1..(k + 1)) = k + 1 /\ (1..(k + 1)) \ {k + 1} = 1..k
    <3>1. (k + 1) - 1 = k
      BY <2>1
    <3> QED BY <2>1, <3>1, MaxInterval
  <2>3. 1..(k + 1) # {} /\ 1..(k + 1) \in SUBSET (DOMAIN seq)
    <3>1. k + 1 \in 1..(k + 1)
      BY <2>1
    <3> QED BY <2>1, <3>1, <1>1, <1>2
  <2>4. iter[1..k] \in X
    BY <1>2, <1>4, <2>1
  <2>5. iter[1..(k + 1)] = op[<<iter[1..k], seq[k + 1]>>]
    BY <2>2, <2>3, <2>4 DEF FoldsBy
  <2>6. <<iter[1..k], seq[k + 1]>> \in X \X E
    BY <1>1, <2>1, <2>4
  <2>7. op[<<iter[1..k], seq[k + 1]>>] \in X
    BY <1>0, <2>6
  <2> QED BY <1>2, <2>1, <2>5, <2>7
<1>5. 0..N \subseteq T
  <2> HIDE DEF T
  <2> QED BY <1>1, <1>3, <1>4, UpTo
<1>6. run \in [0..N -> X]
  <2>1. run = [k \in 0..N |-> run[k]]
    BY DEF run
  <2> QED BY <1>5, <2>1
<1>7. ASSUME NEW k \in 1..N PROVE run[k] = op[<<run[k - 1], seq[k]>>]
  <2>1. k - 1 \in 0..(N - 1) /\ k - 1 \in 0..N /\ (k - 1) + 1 = k
    BY <1>1
  <2> QED BY <1>4, <1>5, <2>1
<1>8. run[N] = iter[DOMAIN seq]
  BY <1>1, <1>2
<1> QED BY <1>3, <1>6, <1>7, <1>8 DEF Runs, N

Parts(S, seqs, at) == seqs \in Seq(Seq(S)) /\ Places(seqs, at)

LEMMA PlacesGrow ==
    ASSUME NEW S, NEW seqs, NEW at, Parts(S, seqs, at)
    PROVE  \A i, j \in 0..Len(seqs) : i <= j => at[i] <= at[j]
<1> DEFINE N == Len(seqs)
           T == {n \in 0..N : \A i \in 0..n : at[i] <= at[n]}
<1>1. N \in Nat /\ \A i \in 1..N : Len(seqs[i]) \in Nat
  <2>1. seqs \in Seq(Seq(S))
    BY DEF Parts
  <2> QED BY <2>1
<1>2. /\ \A i \in 0..N : at[i] \in Nat
      /\ \A i \in 1..N : at[i] = at[i - 1] + Len(seqs[i])
  BY DEF Parts, Places
<1> HIDE DEF N
<1>3. 0 \in T
  BY <1>1, <1>2
<1>4. ASSUME NEW n \in 0..(N - 1), n \in T PROVE n + 1 \in T
  <2>1. n + 1 \in 1..N /\ n + 1 \in 0..N /\ n \in 0..N /\ (n + 1) - 1 = n
    BY <1>1
  <2>2. at[n] <= at[n + 1]
    BY <1>1, <1>2, <2>1
  <2>3. ASSUME NEW i \in 0..(n + 1) PROVE at[i] <= at[n + 1]
    <3>1. CASE i = n + 1
      BY <1>2, <2>1, <3>1
    <3>2. CASE i # n + 1
      <4>1. i \in 0..n /\ i \in 0..N
        BY <1>1, <2>1, <3>2
      <4> QED BY <1>2, <1>4, <2>1, <2>2, <4>1
    <3> QED BY <3>1, <3>2
  <2> QED BY <2>1, <2>3
<1>5. 0..N \subseteq T
  <2> HIDE DEF T
  <2> QED BY <1>1, <1>3, <1>4, UpTo
<1> QED BY <1>5 DEF N

\* A fold runs through the same values as far as the sequences are the same.
LEMMA RunsAgree ==
    ASSUME NEW X, NEW op, NEW base, NEW seq, NEW sub, NEW run, NEW part,
           Runs(X, op, base, seq, run), Runs(X, op, base, sub, part),
           Len(seq) \in Nat, Len(sub) \in Nat
    PROVE  \A n \in Nat : /\ n <= Len(seq) /\ n <= Len(sub)
                          /\ \A k \in 1..n : seq[k] = sub[k]
                          => \A k \in 0..n : run[k] = part[k]
<1> SUFFICES ASSUME NEW n \in Nat, n <= Len(seq), n <= Len(sub), \A k \in 1..n : seq[k] = sub[k]
             PROVE  \A k \in 0..n : run[k] = part[k]
  OBVIOUS
<1> DEFINE T == {k \in 0..n : run[k] = part[k]}
<1>1. 0 \in T
  BY DEF Runs
<1>2. ASSUME NEW k \in 0..(n - 1), k \in T PROVE k + 1 \in T
  <2>1. k + 1 \in 1..n /\ k + 1 \in 1..Len(seq) /\ k + 1 \in 1..Len(sub) /\ (k + 1) - 1 = k
    OBVIOUS
  <2>2. run[k + 1] = op[<<run[k], seq[k + 1]>>] /\ part[k + 1] = op[<<part[k], sub[k + 1]>>]
    BY <2>1 DEF Runs
  <2> QED BY <1>2, <2>1, <2>2
<1>3. 0..n \subseteq T
  <2> HIDE DEF T
  <2> QED BY <1>1, <1>2, UpTo
<1> QED BY <1>3

-----------------------------------------------------------------------------
(* Which step changes what. *)

Puts(e) == (\E d \in Docs : PutOpen(e, d)) \/ PutWrite(e) \/ PutFails(e)
Records(e) == Count(e) \/ (\E main \in BOOLEAN : AppendEntry(e, main)) \/ AppendFails(e)
Loads(c) == LoadScenario(c) \/ Stat(c) \/ Lookup(c) \/ Read(c)
Plays(c) == Join(c) \/ NewSession(c) \/ PlayMain(c) \/ PlaySide(c)

LEMMA Footprints ==
    ASSUME [Next]_vars
    PROVE  \/ \E e \in Editors : Puts(e) /\ UNCHANGED <<directive, cassetteVars, now, sessionVars, call>>
           \/ DeleteScenario /\ UNCHANGED <<directive, cassetteVars, now, sessionVars, call, editor>>
           \/ \E e \in Editors :
                Records(e) /\ UNCHANGED <<directive, scenarioVars, cache, now, sessionVars, call>>
           \/ DeleteCassette
                /\ UNCHANGED <<directive, scenarioVars, cache, now, sessionVars, call, editor>>
           \/ \E c \in Calls : Loads(c)
                /\ UNCHANGED <<directive, scenarioVars, cassette, raced, now, sessionVars, editor>>
           \/ \E c \in Calls : Plays(c) /\ UNCHANGED <<directive, scenarioVars, cassetteVars, now, editor>>
           \/ Tick /\ UNCHANGED <<directive, scenarioVars, cassetteVars, sessionVars, call, editor>>
           \/ Reset /\ UNCHANGED <<directive, scenarioVars, cassetteVars, now, created, counters,
                                   served, call, editor>>
           \/ UNCHANGED vars
<1>1. ASSUME NEW e \in Editors, Puts(e)
      PROVE  UNCHANGED <<directive, cassetteVars, now, sessionVars, call>>
  BY <1>1 DEF Puts, PutOpen, PutWrite, PutFails
<1>2. ASSUME NEW e \in Editors, Records(e)
      PROVE  UNCHANGED <<directive, scenarioVars, cache, now, sessionVars, call>>
  BY <1>2 DEF Records, Count, AppendEntry, AppendFails, cassetteVars
<1>3. ASSUME NEW c \in Calls, Loads(c)
      PROVE  UNCHANGED <<directive, scenarioVars, cassette, raced, now, sessionVars, editor>>
  BY <1>3 DEF Loads, LoadScenario, Stat, Lookup, Read, cassetteVars
<1>4. ASSUME NEW c \in Calls, Plays(c)
      PROVE  UNCHANGED <<directive, scenarioVars, cassetteVars, now, editor>>
  BY <1>4 DEF Plays, Join, NewSession, PlayMain, PlaySide
<1>5. DeleteScenario => UNCHANGED <<directive, cassetteVars, now, sessionVars, call, editor>>
  BY DEF DeleteScenario
<1>6. DeleteCassette =>
        UNCHANGED <<directive, scenarioVars, cache, now, sessionVars, call, editor>>
  BY DEF DeleteCassette
<1>7. Tick => UNCHANGED <<directive, scenarioVars, cassetteVars, sessionVars, call, editor>>
  BY DEF Tick
<1>8. Reset => UNCHANGED <<directive, scenarioVars, cassetteVars, now, created, counters,
                           served, call, editor>>
  BY DEF Reset
<1> QED
  BY <1>1, <1>2, <1>3, <1>4, <1>5, <1>6, <1>7, <1>8 DEF Next, Puts, Records, Loads, Plays

-----------------------------------------------------------------------------
(* Types. *)

LEMMA ScenarioTyped ==
    \A e \in BOOLEAN, i \in 0..MaxInodes, d \in Docs \cup {NoDoc}, n \in Nat :
        [exists |-> e, inode |-> i, doc |-> d, size |-> n] \in ScenarioFiles
<1> QED BY DEF ScenarioFiles

LEMMA EditTyped ==
    ASSUME NEW f, editor \in [Editors -> Edits], NEW e \in Editors, f \in Edits, ToEditor(e, f)
    PROVE  /\ editor' \in [Editors -> Edits] /\ editor'[e] = f
           /\ \A o \in Editors \ {e} : editor'[o] = editor[o]
<1> QED BY DEF ToEditor

LEMMA Bounds == /\ MaxSessions \in Nat /\ MaxInodes \in Nat /\ MaxChanges \in Nat /\ MaxTime \in Nat
                /\ NoDoc \notin Docs
<1> QED BY SimulatorAssumption

LEMMA NoEditTyped == NoEdit \in Edits /\ NoEdit.pc = "idle"
<1> QED BY Bounds DEF NoEdit, Edits

\* A PUT leaves one of these files.
LEMMA PutTyped ==
    ASSUME FilesTyped, NEW e \in Editors, Puts(e)
    PROVE  /\ scenario' \in ScenarioFiles /\ spoiled' \in BOOLEAN
           /\ editor' \in [Editors -> Edits]
           /\ \A o \in Editors : editor'[o].pc = "opened" => editor'[o].doc \in Docs
           /\ \A o \in Editors \ {e} : editor'[o] = editor[o]
<1> USE DEF FilesTyped
<1>1. \A d \in Docs : d # NoDoc /\ d.size \in Nat
  BY SimulatorAssumption DEF IsDocument
<1>2. /\ scenario = [exists |-> scenario.exists, inode |-> scenario.inode,
                     doc |-> scenario.doc, size |-> scenario.size]
      /\ scenario.exists \in BOOLEAN /\ scenario.inode \in 0..MaxInodes
      /\ scenario.doc \in Docs \cup {NoDoc} /\ scenario.size \in Nat
  BY DEF ScenarioFiles
<1>3. ASSUME NEW d \in Docs, PutOpen(e, d)
      PROVE  /\ scenario' \in ScenarioFiles /\ spoiled' \in BOOLEAN
             /\ editor' \in [Editors -> Edits]
             /\ \A o \in Editors : editor'[o].pc = "opened" => editor'[o].doc \in Docs
             /\ \A o \in Editors \ {e} : editor'[o] = editor[o]
  <2>1. Inode \in 0..MaxInodes
    BY <1>2, <1>3, SimulatorAssumption DEF PutOpen, Inode
  <2>2. scenario' \in ScenarioFiles /\ spoiled' \in BOOLEAN
    BY <1>3, <2>1, ScenarioTyped DEF PutOpen, Truncated
  <2> DEFINE f == [NoEdit EXCEPT !.pc = "opened", !.inode = Inode, !.doc = d]
  <2>3. f \in Edits /\ f.doc = d /\ f.pc = "opened"
    <3>1. NoEdit \in Edits
      BY NoEditTyped
    <3> QED BY <2>1, <3>1 DEF Edits
  <2>4. ToEditor(e, f)
    BY <1>3 DEF PutOpen
  <2> HIDE DEF f
  <2>5. /\ editor' \in [Editors -> Edits] /\ editor'[e] = f
        /\ \A o \in Editors \ {e} : editor'[o] = editor[o]
    BY <2>3, <2>4, EditTyped
  <2> QED BY <2>2, <2>3, <2>5
<1>4. CASE PutWrite(e) \/ PutFails(e)
  <2>1. editor[e].doc \in Docs /\ ToEditor(e, NoEdit) /\ spoiled' \in BOOLEAN
    BY <1>4 DEF PutWrite, PutFails
  <2>2. /\ editor' \in [Editors -> Edits] /\ editor'[e] = NoEdit
        /\ \A o \in Editors \ {e} : editor'[o] = editor[o]
    BY <2>1, EditTyped, NoEditTyped
  <2> DEFINE d == editor[e].doc
  <2>3. d \in Docs /\ d.size \in Nat
    BY <1>1, <2>1
  <2> HIDE DEF d
  <2>4. Overwritten(d) \in ScenarioFiles
    <3>1. [scenario EXCEPT !.doc = d, !.size = d.size] \in ScenarioFiles
      BY <2>3 DEF ScenarioFiles
    <3>2. [scenario EXCEPT !.doc = NoDoc] \in ScenarioFiles
      BY DEF ScenarioFiles
    <3> QED BY <3>1, <3>2 DEF Overwritten
  <2>5. Torn(d) \in ScenarioFiles
    <3>1. Max({scenario.size, d.size}) \in Nat
      <4> DEFINE S == {scenario.size, d.size}
      <4>1. S \subseteq Nat /\ \E n \in S : \A k \in S : n >= k
        BY <1>2, <2>3
      <4> HIDE DEF S
      <4>2. Max(S) \in S
        BY <4>1 DEF Max
      <4> QED BY <4>1, <4>2 DEF S
    <3> QED BY <3>1 DEF Torn, ScenarioFiles
  <2>6. scenario' \in {scenario, Overwritten(d), Torn(d)}
    BY <1>4 DEF PutWrite, PutFails, d
  <2> QED BY <2>1, <2>2, <2>4, <2>5, <2>6, NoEditTyped
<1> QED BY <1>3, <1>4 DEF Puts

\* Any change of the cassette leaves a file of its kind, with as many entries at most
\* as there have been changes.
LEMMA ChangeTyped ==
    ASSUME FilesTyped, CallsTyped, NEW exists \in BOOLEAN,
           NEW entries \in Seq([seq : 0..MaxChanges, main : BOOLEAN]),
           Len(entries) <= Len(cassette.entries) + 1, Change(exists, entries)
    PROVE  /\ cassette' \in CassetteFiles /\ Len(cassette'.entries) <= cassette'.change
           /\ cassette'.entries = entries /\ cassette'.modTime = now
           /\ cassette'.change = cassette.change + 1
           /\ cassette.change \in 0..MaxChanges /\ cassette.change + 1 \in 0..MaxChanges
<1>1. cassette.change \in 0..MaxChanges /\ cassette.change < MaxChanges
  BY DEF FilesTyped, CassetteFiles, Change
<1>2. cassette.change + 1 \in 0..MaxChanges /\ now \in 0..MaxTime
  BY <1>1, Bounds DEF CallsTyped
<1>3. cassette' = [exists |-> exists, modTime |-> now, change |-> cassette.change + 1,
                   entries |-> entries]
  BY DEF Change
<1>4. Len(entries) <= cassette.change + 1
  <2>1. Len(cassette.entries) <= cassette.change
    BY DEF FilesTyped
  <2>2. cassette.entries \in Seq([seq : 0..MaxChanges, main : BOOLEAN])
    BY DEF FilesTyped, CassetteFiles
  <2>3. Len(cassette.entries) \in Nat /\ Len(entries) \in Nat
    BY <2>2
  <2> QED BY <1>1, <2>1, <2>3
<1> QED BY <1>1, <1>2, <1>3, <1>4 DEF CassetteFiles

LEMMA EntriesTyped ==
    ASSUME FilesTyped
    PROVE  /\ cassette.entries \in Seq([seq : 0..MaxChanges, main : BOOLEAN])
           /\ Len(cassette.entries) \in Nat
           /\ DOMAIN cassette.entries = 1..Len(cassette.entries)
           /\ Len(cassette.entries) <= cassette.change /\ cassette.change \in 0..MaxChanges
           /\ cassette.modTime \in 0..MaxTime
<1>1. cassette.entries \in Seq([seq : 0..MaxChanges, main : BOOLEAN])
  BY DEF FilesTyped, CassetteFiles
<1>2. cassette.change \in 0..MaxChanges /\ cassette.modTime \in 0..MaxTime
  BY DEF FilesTyped, CassetteFiles
<1> QED BY <1>1, <1>2 DEF FilesTyped

\* Recording an exchange: what is counted, and what is appended.
LEMMA RecordTyped ==
    ASSUME FilesTyped, CallsTyped, NEW e \in Editors, Records(e)
    PROVE  /\ cassette' \in CassetteFiles /\ Len(cassette'.entries) <= cassette'.change
           /\ raced' = raced
           /\ editor' \in [Editors -> Edits] /\ editor'[e].pc # "opened"
           /\ \A o \in Editors \ {e} : editor'[o] = editor[o]
<1>1. CASE Count(e)
  <2> DEFINE f == [NoEdit EXCEPT !.pc = "counted", !.seq = Len(cassette.entries)]
  <2>1. Len(cassette.entries) \in 0..MaxChanges
    BY EntriesTyped, Bounds
  <2>2. f \in Edits /\ f.pc = "counted"
    BY <2>1, NoEditTyped DEF Edits
  <2>3. ToEditor(e, f) /\ UNCHANGED <<cassette, raced>>
    BY <1>1 DEF Count, cassetteVars
  <2> HIDE DEF f
  <2> QED BY <2>2, <2>3, EditTyped DEF FilesTyped
<1>2. ASSUME NEW main \in BOOLEAN, AppendEntry(e, main)
      PROVE  /\ cassette' \in CassetteFiles /\ Len(cassette'.entries) <= cassette'.change
             /\ raced' = raced
             /\ editor' \in [Editors -> Edits] /\ editor'[e].pc # "opened"
             /\ \A o \in Editors \ {e} : editor'[o] = editor[o]
  <2> DEFINE x == [seq |-> editor[e].seq, main |-> main]
             entries == Append(cassette.entries, x)
  <2>1. x \in [seq : 0..MaxChanges, main : BOOLEAN]
    BY DEF FilesTyped, Edits
  <2>2. Change(TRUE, entries) /\ ToEditor(e, NoEdit) /\ raced' = raced
    BY <1>2 DEF AppendEntry
  <2> HIDE DEF x
  <2>3. /\ entries \in Seq([seq : 0..MaxChanges, main : BOOLEAN])
        /\ Len(entries) <= Len(cassette.entries) + 1
    BY <2>1, EntriesTyped
  <2> HIDE DEF entries
  <2>4. TRUE \in BOOLEAN
    OBVIOUS
  <2>5. cassette' \in CassetteFiles /\ Len(cassette'.entries) <= cassette'.change
    BY <2>2, <2>3, <2>4, ChangeTyped, Zenon
  <2> QED BY <2>2, <2>5, NoEditTyped, EditTyped DEF FilesTyped
<1>3. CASE AppendFails(e)
  BY <1>3, NoEditTyped, EditTyped DEF AppendFails, cassetteVars, FilesTyped
<1> QED BY <1>1, <1>2, <1>3 DEF Records

LEMMA DeleteTyped ==
    ASSUME FilesTyped, CallsTyped, DeleteCassette
    PROVE  /\ cassette' \in CassetteFiles /\ Len(cassette'.entries) <= cassette'.change
           /\ cassette'.entries = <<>> /\ cassette'.modTime = now
           /\ cassette'.change = cassette.change + 1
           /\ raced' = ~AppendFree
<1>1. /\ <<>> \in Seq([seq : 0..MaxChanges, main : BOOLEAN])
      /\ Len(<<>>) <= Len(cassette.entries) + 1
  BY EntriesTyped
<1> QED BY <1>1, ChangeTyped DEF DeleteCassette

LEMMA FilesNext == FilesTyped /\ CallsTyped /\ [Next]_vars => FilesTyped'
<1> SUFFICES ASSUME FilesTyped, CallsTyped, [Next]_vars PROVE FilesTyped'
  OBVIOUS
<1>1. CASE UNCHANGED <<scenario, spoiled, cassette, raced, editor>>
  BY <1>1 DEF FilesTyped
<1>2. ASSUME NEW e \in Editors, Puts(e), UNCHANGED cassetteVars PROVE FilesTyped'
  BY <1>2, PutTyped DEF FilesTyped, cassetteVars
<1>3. ASSUME NEW e \in Editors, Records(e), UNCHANGED scenarioVars PROVE FilesTyped'
  BY <1>3, RecordTyped DEF FilesTyped, scenarioVars
<1>4. CASE DeleteScenario /\ UNCHANGED <<cassetteVars, editor>>
  <2>1. scenario' \in ScenarioFiles /\ spoiled' = FALSE
    BY <1>4, Bounds DEF DeleteScenario, FilesTyped, ScenarioFiles
  <2> QED BY <1>4, <2>1 DEF FilesTyped, cassetteVars
<1>5. CASE DeleteCassette /\ UNCHANGED <<scenarioVars, editor>>
  <2>1. raced' \in BOOLEAN
    BY <1>5 DEF DeleteCassette
  <2> QED BY <1>5, <2>1, DeleteTyped DEF FilesTyped, scenarioVars
<1> QED BY <1>1, <1>2, <1>3, <1>4, <1>5, Footprints DEF vars, scenarioVars, cassetteVars

LEMMA CallTyped ==
    ASSUME NEW h, call \in [Calls -> Requests], NEW c \in Calls, h \in Requests, ToCall(c, h)
    PROVE  /\ call' \in [Calls -> Requests] /\ call'[c] = h
           /\ \A o \in Calls \ {c} : call'[o] = call[o]
<1> QED BY DEF ToCall

LEMMA NoCallTyped == NoCall \in Requests /\ NoCall.pc = "idle"
<1> QED BY Bounds DEF NoCall, Requests

\* What loadCassette makes of the file is a cassette.
LEMMA ParsedTyped ==
    ASSUME FilesTyped, CallsTyped, NEW c \in Calls
    PROVE  Parsed(c) \in Cassettes
<1> DEFINE S == {i \in DOMAIN cassette.entries : cassette.entries[i].main}
           n == Len(cassette.entries)
<1>1. n \in Nat /\ S \subseteq 1..n /\ n <= cassette.change /\ cassette.change \in 0..MaxChanges
  BY EntriesTyped
<1>2. IsFiniteSet(1..n) /\ Cardinality(1..n) = n
  <2>1. IsFiniteSet(1..n) /\ Cardinality(1..n) = IF 1 > n THEN 0 ELSE n - 1 + 1
    BY <1>1, 1 \in Int, n \in Int, FS_Interval
  <2> QED BY <1>1, <2>1
<1>3. Cardinality(S) \in Nat /\ Cardinality(S) <= n
  BY <1>1, <1>2, FS_Subset, FS_CardinalityType
<1>4. Cardinality(S) \in 0..MaxChanges
  BY <1>1, <1>3, Bounds
<1>5. call[c].modTime \in 0..MaxTime /\ now \in 0..MaxTime
  BY DEF CallsTyped, Requests
<1>6. Parsed(c) = [modTime |-> call[c].modTime, readAt |-> now, change |-> cassette.change,
                   main |-> Cardinality(S)]
  BY DEF Parsed
<1> HIDE DEF S
<1> QED BY <1>1, <1>4, <1>5, <1>6 DEF Cassettes

\* A request that loads its script has it in hand.
LEMMA LoadTyped ==
    ASSUME FilesTyped, CallsTyped, NEW c \in Calls, Loads(c), created' = created
    PROVE  /\ cache' \subseteq Cassettes /\ \A cas, other \in cache' : cas = other
           /\ call' \in [Calls -> Requests] /\ InHand(call[c])'
           /\ \A o \in Calls \ {c} : call'[o] = call[o]
<1> USE DEF CallsTyped
<1>0. directive' = directive
  BY DEF Loads, LoadScenario, Stat, Lookup, Read
<1>1. CASE LoadScenario(c)
  <2>1. PICK d \in Found : ToCall(c, [NoCall EXCEPT !.pc = "loaded", !.source = d])
    BY <1>1 DEF LoadScenario
  <2>2. d \in Documents /\ directive = "scenario" /\ cache' = cache
    BY <1>1, <2>1 DEF Found, Stored, Documents, FilesTyped, ScenarioFiles, LoadScenario,
         cassetteVars
  <2> DEFINE h == [NoCall EXCEPT !.pc = "loaded", !.source = d]
  <2>3. h \in Requests /\ h.pc = "loaded" /\ h.source = d
    BY <2>2, NoCallTyped DEF Requests, NoCall
  <2>4. ToCall(c, h)
    BY <2>1
  <2> HIDE DEF h
  <2>5. /\ call' \in [Calls -> Requests] /\ call'[c] = h
        /\ \A o \in Calls \ {c} : call'[o] = call[o]
    BY <2>3, <2>4, CallTyped
  <2> QED BY <1>0, <2>2, <2>3, <2>5 DEF InHand
<1>2. CASE Stat(c)
  <2> DEFINE h == [NoCall EXCEPT !.pc = "dated", !.modTime = cassette.modTime,
                                 !.arrived = cassette.change]
  <2>1. h \in Requests /\ h.pc = "dated"
    BY EntriesTyped, NoCallTyped DEF Requests, NoCall
  <2>2. ToCall(c, h) /\ directive = "replay" /\ cache' = cache
    BY <1>2 DEF Stat, cassetteVars
  <2> HIDE DEF h
  <2>3. /\ call' \in [Calls -> Requests] /\ call'[c] = h
        /\ \A o \in Calls \ {c} : call'[o] = call[o]
    BY <2>1, <2>2, CallTyped
  <2> QED BY <1>0, <2>1, <2>2, <2>3 DEF InHand
<1>3. CASE Lookup(c)
  <2>1. directive = "replay" /\ cache' = cache
    BY <1>3 DEF Lookup, InHand, cassetteVars
  <2>2. PICK h : /\ ToCall(c, h)
                 /\ \/ \E cas \in Hits(c) : h = [call[c] EXCEPT !.pc = "loaded", !.source = cas]
                    \/ h = [call[c] EXCEPT !.pc = "missed"]
    BY <1>3 DEF Lookup
  <2>3. h \in Requests /\ ((h.pc = "loaded" /\ h.source \in Cassettes) \/ h.pc = "missed")
    <3>1. call[c] \in Requests
      OBVIOUS
    <3>2. ASSUME NEW cas \in Hits(c), h = [call[c] EXCEPT !.pc = "loaded", !.source = cas]
          PROVE  h \in Requests /\ h.pc = "loaded" /\ h.source \in Cassettes
      BY <3>1, <3>2 DEF Hits, Requests
    <3>3. CASE h = [call[c] EXCEPT !.pc = "missed"]
      BY <3>1, <3>3 DEF Requests
    <3> QED BY <2>2, <3>2, <3>3
  <2>4. /\ call' \in [Calls -> Requests] /\ call'[c] = h
        /\ \A o \in Calls \ {c} : call'[o] = call[o]
    BY <2>2, <2>3, CallTyped
  <2> QED BY <1>0, <2>1, <2>3, <2>4 DEF InHand
<1>4. CASE Read(c)
  <2>1. directive = "replay"
    BY <1>4 DEF Read, InHand
  <2> DEFINE h == [call[c] EXCEPT !.pc = "loaded", !.source = Parsed(c)]
  <2>2. Parsed(c) \in Cassettes
    BY ParsedTyped
  <2>3. h \in Requests /\ h.pc = "loaded" /\ h.source = Parsed(c)
    <3>1. call[c] \in Requests
      OBVIOUS
    <3> QED BY <2>2, <3>1 DEF Requests
  <2>4. \/ cache' = {Parsed(c)} /\ ToCall(c, h)
        \/ cache' = cache /\ ToCall(c, NoCall)
    BY <1>4 DEF Read
  <2> HIDE DEF h
  <2>5. CASE cache' = {Parsed(c)} /\ ToCall(c, h)
    <3>1. /\ call' \in [Calls -> Requests] /\ call'[c] = h
          /\ \A o \in Calls \ {c} : call'[o] = call[o]
      BY <2>3, <2>5, CallTyped
    <3> QED BY <1>0, <2>1, <2>2, <2>3, <2>5, <3>1 DEF InHand
  <2>6. CASE cache' = cache /\ ToCall(c, NoCall)
    <3>1. /\ call' \in [Calls -> Requests] /\ call'[c] = NoCall
          /\ \A o \in Calls \ {c} : call'[o] = call[o]
      BY <2>6, NoCallTyped, CallTyped
    <3> QED BY <1>0, <2>1, <2>6, <3>1, NoCallTyped DEF InHand
  <2> QED BY <2>4, <2>5, <2>6
<1> QED BY <1>1, <1>2, <1>3, <1>4 DEF Loads

\* A request that joins a session has its script, and the session exists; one that is
\* played advances an index of its session.
LEMMA JoinTyped ==
    ASSUME CallsTyped, NEW c \in Calls, call[c].pc = "loaded", NEW s,
           InSession(c, s), s \in 1..created', created' \in 0..MaxSessions,
           directive' = directive
    PROVE  /\ call' \in [Calls -> Requests] /\ InHand(call[c])'
           /\ \A o \in Calls \ {c} : call'[o] = call[o]
<1> DEFINE h == [NoCall EXCEPT !.pc = "joined", !.session = s, !.source = Script(c)]
<1>1. Script(c) \in IF directive = "scenario" THEN Documents ELSE Nat
  <2>1. CASE directive = "scenario"
    BY <2>1 DEF Script, CallsTyped, InHand
  <2>2. CASE directive # "scenario"
    <3>1. call[c].source \in Cassettes
      BY <2>2 DEF CallsTyped, InHand
    <3> QED BY <2>2, <3>1, Bounds DEF Script, Cassettes
  <2> QED BY <2>1, <2>2
<1>2. s \in 0..MaxSessions
  BY Bounds
<1>3. h \in Requests /\ h.pc = "joined" /\ h.session = s /\ h.source = Script(c)
  <2>1. NoCall \in Requests /\ Script(c) \in Documents \cup Nat
    BY <1>1, NoCallTyped
  <2>2. h \in Requests
    BY <1>2, <2>1 DEF Requests
  <2> QED BY <2>2 DEF Requests, NoCall
<1>4. ToCall(c, h)
  BY DEF InSession
<1> HIDE DEF h
<1>5. /\ call' \in [Calls -> Requests] /\ call'[c] = h
      /\ \A o \in Calls \ {c} : call'[o] = call[o]
  BY <1>3, <1>4, CallTyped DEF CallsTyped
<1>6. h.session \in 1..created' /\ h.source \in IF directive = "scenario" THEN Documents ELSE Nat
  BY <1>1, <1>3
<1> QED BY <1>3, <1>5, <1>6 DEF InHand

LEMMA PlayTyped ==
    ASSUME CallsTyped, NEW c \in Calls, Plays(c)
    PROVE  /\ created' \in 0..MaxSessions /\ session' \in 0..created' /\ created <= created'
           /\ counters' \in [1..MaxSessions -> [main : Nat, side : Nat]]
           /\ DOMAIN served' = 1..MaxSessions
           /\ call' \in [Calls -> Requests] /\ InHand(call[c])'
           /\ \A o \in Calls \ {c} : call'[o] = call[o]
<1>0. /\ created \in Nat /\ session \in Nat /\ created <= MaxSessions /\ session <= created
      /\ counters \in [1..MaxSessions -> [main : Nat, side : Nat]]
      /\ DOMAIN served = 1..MaxSessions
  BY Bounds DEF CallsTyped
<1>1. CASE Join(c)
  <2>1. session \in 1..created /\ UNCHANGED <<directive, created, session, counters, served>>
    BY <1>0, <1>1 DEF Join, sessionVars
  <2>2. /\ call' \in [Calls -> Requests] /\ InHand(call[c])'
        /\ \A o \in Calls \ {c} : call'[o] = call[o]
    BY <1>1, <2>1, JoinTyped DEF Join, CallsTyped
  <2> QED BY <1>0, <2>1, <2>2
<1>2. CASE NewSession(c)
  <2>1. /\ created' = created + 1 /\ session' = created + 1 /\ created < MaxSessions
        /\ UNCHANGED <<directive, counters, served>>
    BY <1>2 DEF NewSession
  <2>2. /\ created' \in 0..MaxSessions /\ session' \in 0..created' /\ created <= created'
        /\ created + 1 \in 1..created'
    BY <1>0, <2>1, Bounds
  <2>3. /\ call' \in [Calls -> Requests] /\ InHand(call[c])'
        /\ \A o \in Calls \ {c} : call'[o] = call[o]
    BY <1>2, <2>1, <2>2, JoinTyped DEF NewSession
  <2> QED BY <1>0, <2>1, <2>2, <2>3
<1>3. CASE PlayMain(c) \/ PlaySide(c)
  <2>1. /\ call[c].pc = "joined" /\ ToCall(c, NoCall) /\ UNCHANGED <<created, session>>
    BY <1>3 DEF PlayMain, PlaySide
  <2>2. /\ call' \in [Calls -> Requests] /\ call'[c] = NoCall
        /\ \A o \in Calls \ {c} : call'[o] = call[o]
    BY <2>1, NoCallTyped, CallTyped DEF CallsTyped
  <2>3. InHand(call[c])'
    BY <2>2, NoCallTyped DEF InHand
  <2>4. call[c].session \in 1..MaxSessions
    BY <1>0, <2>1, Bounds DEF CallsTyped, InHand
  <2>5. counters' \in [1..MaxSessions -> [main : Nat, side : Nat]] /\ DOMAIN served' = DOMAIN served
    <3>1. counters[call[c].session] \in [main : Nat, side : Nat]
      BY <1>0, <2>4
    <3>2. CASE PlayMain(c)
      BY <1>0, <2>4, <3>1, <3>2 DEF PlayMain
    <3>3. CASE PlaySide(c)
      BY SMTT(20), <1>0, <2>4, <3>1, <3>3 DEF PlaySide
    <3> QED BY <1>3, <3>2, <3>3
  <2> QED BY <1>0, <2>1, <2>2, <2>3, <2>5
<1> QED BY <1>1, <1>2, <1>3 DEF Plays

LEMMA CallsNext == FilesTyped /\ CallsTyped /\ [Next]_vars => CallsTyped'
<1> SUFFICES ASSUME FilesTyped, CallsTyped, [Next]_vars PROVE CallsTyped'
  OBVIOUS
<1>1. directive' = directive
  BY Footprints DEF vars
<1>2. CASE UNCHANGED <<now, cache, created, session, counters, served, call>>
  BY <1>1, <1>2 DEF CallsTyped, InHand
<1>3. ASSUME NEW c \in Calls, Loads(c), UNCHANGED <<now, sessionVars>> PROVE CallsTyped'
  <2>1. UNCHANGED <<now, created, session, counters, served>>
    BY <1>3 DEF sessionVars
  <2>2. \A o \in Calls \ {c} : InHand(call[o])'
    BY <1>1, <1>3, <2>1, LoadTyped DEF CallsTyped, InHand
  <2> QED BY <1>1, <1>3, <2>1, <2>2, LoadTyped DEF CallsTyped
<1>4. ASSUME NEW c \in Calls, Plays(c), UNCHANGED <<now, cache>> PROVE CallsTyped'
  <2>1. created \in Nat /\ created' \in Nat /\ created <= created'
    BY <1>4, PlayTyped DEF CallsTyped
  <2>2. \A n \in 1..created : n \in 1..created'
    BY <2>1
  <2>3. \A o \in Calls \ {c} : InHand(call[o])'
    BY <1>1, <1>4, <2>2, PlayTyped DEF CallsTyped, InHand
  <2> QED BY <1>1, <1>4, <2>3, PlayTyped DEF CallsTyped
<1>5. CASE Tick /\ UNCHANGED <<cache, sessionVars, call>>
  <2>1. now' \in 0..MaxTime
    BY <1>5, Bounds DEF Tick, CallsTyped
  <2> QED BY <1>1, <1>5, <2>1 DEF CallsTyped, InHand, sessionVars
<1>6. CASE Reset /\ UNCHANGED <<now, cache, created, counters, served, call>>
  <2>1. session' \in 0..created
    BY <1>6, Bounds DEF Reset, CallsTyped
  <2> QED BY <1>1, <1>6, <2>1 DEF CallsTyped, InHand
<1> QED BY <1>2, <1>3, <1>4, <1>5, <1>6, Footprints DEF vars, cassetteVars, sessionVars

-----------------------------------------------------------------------------
(* The scenario file. *)

LEMMA PutSound ==
    ASSUME FilesTyped, FileSound, NEW e \in Editors, Puts(e)
    PROVE  FileSound'
<1>1. /\ scenario.inode \in Nat /\ scenario.size \in Nat /\ scenario.exists \in BOOLEAN
      /\ \A o \in Editors : editor[o].inode \in Nat
      /\ \A o \in Editors : editor[o].pc = "opened" => editor[o].inode <= scenario.inode
  BY Bounds DEF FilesTyped, ScenarioFiles, Edits, FileSound
<1>2. ASSUME NEW d \in Docs, PutOpen(e, d) PROVE FileSound'
  <2>1. /\ scenario' = Truncated /\ spoiled' = (Writers # {})
        /\ editor' = [editor EXCEPT ![e] = [NoEdit EXCEPT !.pc = "opened", !.inode = Inode, !.doc = d]]
    BY <1>2 DEF PutOpen, ToEditor
  <2>2. /\ scenario'.exists /\ scenario'.inode = Inode /\ scenario'.size = 0
        /\ Inode \in Nat /\ scenario.inode <= Inode
        /\ scenario.exists => Inode = scenario.inode
        /\ ~scenario.exists => scenario.inode < Inode
    BY <1>1, <2>1 DEF Truncated, Inode
  <2>3. /\ editor'[e].pc = "opened" /\ editor'[e].inode = Inode
        /\ \A o \in Editors \ {e} : editor'[o] = editor[o]
    BY <2>1 DEF NoEdit, FilesTyped
  <2>4. \A o \in Editors : editor'[o].pc = "opened" => editor'[o].inode <= scenario'.inode
    BY <1>1, <2>2, <2>3
  <2>5. ASSUME ~spoiled' PROVE Writers' = {e}
    <3>1. \A o \in Editors \ {e} : editor[o].pc = "opened" => editor[o].inode # Inode
      BY <1>1, <2>1, <2>2, <2>5 DEF Writers
    <3> QED BY <2>2, <2>3, <3>1 DEF Writers
  <2> QED BY <2>2, <2>4, <2>5 DEF FileSound
<1>3. CASE PutWrite(e) \/ PutFails(e)
  <2>1. editor[e].pc = "opened" /\ ToEditor(e, NoEdit)
    BY <1>3 DEF PutWrite, PutFails
  <2>2. /\ editor'[e].pc = "idle"
        /\ \A o \in Editors \ {e} : editor'[o] = editor[o]
    BY <2>1, EditTyped, NoEditTyped DEF FilesTyped
  <2> DEFINE d == editor[e].doc
  <2>3. d # NoDoc /\ d.size \in Nat
    BY <2>1, SimulatorAssumption DEF FilesTyped, IsDocument
  <2> HIDE DEF d
  <2>4. CASE e \notin Writers
    <3>1. scenario' = scenario /\ spoiled' = spoiled
      BY <1>3, <2>4 DEF PutWrite, PutFails, FilesTyped
    <3>2. Writers' = Writers
      BY <2>2, <2>4, <3>1 DEF Writers
    <3> QED BY <1>1, <2>2, <3>1, <3>2 DEF FileSound
  <2>5. CASE e \in Writers /\ PutFails(e)
    <3>1. spoiled' = TRUE /\ scenario' \in {scenario, Torn(d)}
      BY <2>5 DEF PutFails, FilesTyped, d
    <3>2. scenario'.inode = scenario.inode
      BY <3>1 DEF Torn, FilesTyped, ScenarioFiles
    <3> QED BY <1>1, <2>2, <3>1, <3>2 DEF FileSound
  <2>6. CASE e \in Writers /\ PutWrite(e)
    <3>1. scenario' = Overwritten(d) /\ spoiled' = spoiled /\ scenario.exists
      BY <2>6 DEF PutWrite, d, Writers
    <3>2. /\ scenario'.inode = scenario.inode
          /\ d.size >= scenario.size => scenario'.doc = d
      BY <3>1 DEF Overwritten, FilesTyped, ScenarioFiles
    <3>3. ~spoiled => Writers' = {} /\ scenario'.doc # NoDoc
      <4> SUFFICES ASSUME ~spoiled PROVE Writers' = {} /\ scenario'.doc # NoDoc
        OBVIOUS
      <4>1. scenario.size = 0 /\ Writers = {e}
        BY <2>6, <3>1 DEF FileSound
      <4>2. scenario'.doc # NoDoc
        BY <2>3, <3>2, <4>1
      <4>3. Writers' \subseteq Writers \ {e}
        BY <2>2, <3>1, <3>2 DEF Writers
      <4> QED BY <4>1, <4>2, <4>3
    <3> QED BY <1>1, <2>2, <3>1, <3>2, <3>3 DEF FileSound
  <2> QED BY <1>3, <2>4, <2>5, <2>6
<1> QED BY <1>2, <1>3 DEF Puts

LEMMA FileNext == FilesTyped /\ CallsTyped /\ FileSound /\ [Next]_vars => FileSound'
<1> SUFFICES ASSUME FilesTyped, CallsTyped, FileSound, [Next]_vars PROVE FileSound'
  OBVIOUS
<1>1. CASE UNCHANGED <<scenario, spoiled, editor>>
  <2>1. Writers' = Writers
    BY <1>1 DEF Writers
  <2> QED BY <1>1, <2>1 DEF FileSound
<1>2. ASSUME NEW e \in Editors, Records(e), UNCHANGED scenarioVars PROVE FileSound'
  <2>1. editor[e].pc # "opened"
    BY <1>2 DEF Records, Count, AppendEntry, AppendFails
  <2>2. /\ UNCHANGED <<scenario, spoiled>> /\ editor'[e].pc # "opened"
        /\ \A o \in Editors \ {e} : editor'[o] = editor[o]
    BY <1>2, RecordTyped DEF scenarioVars
  <2>3. Writers' = Writers
    BY <2>1, <2>2 DEF Writers
  <2> QED BY <2>1, <2>2, <2>3 DEF FileSound
<1>3. CASE DeleteScenario /\ UNCHANGED editor
  <2>1. scenario'.exists = FALSE /\ scenario'.inode = scenario.inode
    BY <1>3 DEF DeleteScenario, FilesTyped, ScenarioFiles
  <2> QED BY <1>3, <2>1 DEF FileSound
<1> QED BY <1>1, <1>2, <1>3, PutSound, Footprints DEF vars, scenarioVars

-----------------------------------------------------------------------------
(* The entries of a cassette. *)

LEMMA SeqNext == FilesTyped /\ CallsTyped /\ SeqSound /\ [Next]_vars => SeqSound'
<1> SUFFICES ASSUME FilesTyped, CallsTyped, SeqSound, [Next]_vars PROVE SeqSound'
  OBVIOUS
<1> DEFINE entries == cassette.entries
           n == Len(entries)
<1>0. n \in Nat /\ DOMAIN entries = 1..n /\ entries \in Seq([seq : 0..MaxChanges, main : BOOLEAN])
  BY EntriesTyped
<1>1. CASE UNCHANGED <<cassette, raced, editor>>
  BY <1>1 DEF SeqSound, SeqExact
<1>2. ASSUME NEW e \in Editors, Puts(e), UNCHANGED cassetteVars PROVE SeqSound'
  <2>1. editor[e].pc # "counted"
    BY <1>2 DEF Puts, PutOpen, PutWrite, PutFails
  <2>2. editor'[e].pc # "counted"
    <3>1. ASSUME NEW d \in Docs, PutOpen(e, d) PROVE editor'[e].pc = "opened"
      BY <3>1 DEF PutOpen, ToEditor, NoEdit, FilesTyped
    <3>2. CASE PutWrite(e) \/ PutFails(e)
      BY <3>2, EditTyped, NoEditTyped DEF PutWrite, PutFails, FilesTyped
    <3> QED BY <1>2, <3>1, <3>2 DEF Puts
  <2>3. \A o \in Editors \ {e} : editor'[o] = editor[o]
    BY <1>2, PutTyped
  <2>4. UNCHANGED <<cassette, raced>>
    BY <1>2 DEF cassetteVars
  <2> QED BY <2>1, <2>2, <2>3, <2>4 DEF SeqSound, SeqExact
<1>3. ASSUME NEW e \in Editors, Records(e) PROVE SeqSound'
  <2>0. raced' = raced /\ \A o \in Editors \ {e} : editor'[o] = editor[o]
    BY <1>3, RecordTyped
  <2>1. CASE Count(e)
    <3>1. /\ \A o \in Editors : editor[o].pc # "counted"
          /\ cassette' = cassette
          /\ editor' = [editor EXCEPT ![e] = [NoEdit EXCEPT !.pc = "counted", !.seq = n]]
      BY <2>1 DEF Count, AppendFree, ToEditor, cassetteVars
    <3>2. editor'[e].seq = n
      BY <3>1 DEF NoEdit, FilesTyped
    <3> QED BY <2>0, <3>1, <3>2 DEF SeqSound, SeqExact
  <2>2. CASE AppendFails(e)
    <3>1. editor'[e].pc = "idle" /\ cassette' = cassette
      BY <2>2, EditTyped, NoEditTyped DEF AppendFails, cassetteVars, FilesTyped
    <3> QED BY <2>0, <3>1 DEF SeqSound, SeqExact
  <2>3. ASSUME NEW main \in BOOLEAN, AppendEntry(e, main) PROVE SeqSound'
    <3> DEFINE x == [seq |-> editor[e].seq, main |-> main]
    <3>1. /\ cassette'.entries = Append(entries, x) /\ editor[e].pc = "counted"
          /\ ToEditor(e, NoEdit)
      BY <2>3 DEF AppendEntry, Change
    <3>2. editor'[e].pc = "idle"
      BY <3>1, EditTyped, NoEditTyped DEF FilesTyped
    <3>3. \A o \in Editors : editor'[o].pc # "counted"
      BY <2>0, <3>1, <3>2 DEF SeqSound
    <3>4. SeqExact'
      <4> SUFFICES ASSUME ~raced, NEW i \in DOMAIN cassette'.entries
                   PROVE  cassette'.entries[i].seq = i - 1
        BY <2>0 DEF SeqExact
      <4>1. x.seq = n
        BY <3>1 DEF SeqSound
      <4> HIDE DEF x
      <4>2. /\ i \in 1..(n + 1)
            /\ i \in 1..n => cassette'.entries[i] = entries[i]
            /\ i = n + 1 => cassette'.entries[i] = x
        BY <1>0, <3>1
      <4>3. \A j \in 1..n : entries[j].seq = j - 1
        BY <1>0 DEF SeqSound, SeqExact
      <4> QED BY <1>0, <4>1, <4>2, <4>3
    <3> QED BY <3>3, <3>4 DEF SeqSound
  <2> QED BY <1>3, <2>1, <2>2, <2>3 DEF Records
<1>4. CASE DeleteCassette /\ UNCHANGED editor
  <2>1. cassette'.entries = <<>> /\ raced' = ~AppendFree
    BY <1>4, DeleteTyped
  <2>2. SeqExact'
    BY <2>1 DEF SeqExact
  <2>3. ~raced' => \A e \in Editors : editor'[e].pc # "counted"
    BY <1>4, <2>1 DEF AppendFree
  <2> QED BY <1>4, <2>2, <2>3 DEF SeqSound
<1> QED BY <1>1, <1>2, <1>3, <1>4, Footprints DEF vars, cassetteVars

-----------------------------------------------------------------------------
(* The cassette cache. *)

LEMMA CacheNumbers ==
    ASSUME FilesTyped, CallsTyped
    PROVE  /\ now \in Nat /\ cassette.modTime \in Nat /\ cassette.change \in Nat
           /\ \A cas \in cache : cas.modTime \in Nat /\ cas.readAt \in Nat /\ cas.change \in Nat
           /\ \A c \in Calls : call[c].modTime \in Nat /\ call[c].arrived \in Nat
<1>1. now \in Nat /\ cassette.modTime \in Nat /\ cassette.change \in Nat
  BY EntriesTyped, Bounds DEF CallsTyped
<1>2. \A cas \in cache : cas.modTime \in Nat /\ cas.readAt \in Nat /\ cas.change \in Nat
  BY Bounds DEF CallsTyped, Cassettes
<1>3. \A c \in Calls : call[c].modTime \in Nat /\ call[c].arrived \in Nat
  BY Bounds DEF CallsTyped, Requests
<1> QED BY <1>1, <1>2, <1>3

LEMMA LoadSound ==
    ASSUME FilesTyped, CallsTyped, CacheSound, NEW c \in Calls, Loads(c),
           UNCHANGED <<directive, cassette, now>>
    PROVE  CacheSound'
<1>0. /\ call' \in [Calls -> Requests] /\ \A o \in Calls \ {c} : call'[o] = call[o]
      /\ now \in Nat /\ cassette.modTime \in Nat /\ cassette.change \in Nat
      /\ \A cas \in cache : cas.modTime \in Nat /\ cas.readAt \in Nat /\ cas.change \in Nat
      /\ \A o \in Calls : call[o].modTime \in Nat /\ call[o].arrived \in Nat
  <2>1. created' = created
    BY DEF Loads, LoadScenario, Stat, Lookup, Read, sessionVars
  <2> QED BY <2>1, LoadTyped, CacheNumbers
<1>1. CASE LoadScenario(c)
  <2>1. directive = "scenario" /\ cache' = cache
    BY <1>1 DEF LoadScenario, cassetteVars
  <2>2. call'[c].pc = "loaded"
    BY <1>1 DEF LoadScenario, ToCall, NoCall, CallsTyped
  <2> QED BY <1>0, <2>1, <2>2 DEF CacheSound, ReplayCurrent
<1>2. CASE Stat(c)
  <2>1. /\ call'[c].pc = "dated" /\ call'[c].modTime = cassette.modTime
        /\ call'[c].arrived = cassette.change /\ cache' = cache
    BY <1>2 DEF Stat, ToCall, NoCall, CallsTyped, cassetteVars
  <2> QED BY <1>0, <2>1 DEF CacheSound, ReplayCurrent
<1>3. CASE Lookup(c)
  <2>1. call[c].pc = "dated" /\ cache' = cache
    BY <1>3 DEF Lookup, cassetteVars
  <2>2. ASSUME NEW cas \in Hits(c), ToCall(c, [call[c] EXCEPT !.pc = "loaded", !.source = cas])
        PROVE  CacheSound'
    <3>1. /\ call'[c].pc = "loaded" /\ call'[c].source = cas
          /\ call'[c].modTime = call[c].modTime /\ call'[c].arrived = call[c].arrived
      <4>1. call[c] \in Requests
        BY DEF CallsTyped
      <4> QED BY <2>2, <4>1 DEF ToCall, CallsTyped, Requests
    <3>2. cas \in cache /\ cas.modTime = call[c].modTime
      BY DEF Hits
    <3>3. /\ cas.modTime <= cas.readAt
          /\ cas.change < call[c].arrived => cas.readAt <= call[c].modTime
      BY <2>1, <3>2 DEF CacheSound
    <3>4. cas.change < call[c].arrived => cas.readAt = call[c].modTime
      BY <1>0, <3>2, <3>3
    <3> QED BY <1>0, <2>1, <3>1, <3>4 DEF CacheSound, ReplayCurrent
  <2>3. ASSUME ToCall(c, [call[c] EXCEPT !.pc = "missed"]) PROVE CacheSound'
    <3>1. /\ call'[c].pc = "missed"
          /\ call'[c].modTime = call[c].modTime /\ call'[c].arrived = call[c].arrived
      <4>1. call[c] \in Requests
        BY DEF CallsTyped
      <4> QED BY <2>3, <4>1 DEF ToCall, CallsTyped, Requests
    <3> QED BY <1>0, <2>1, <3>1 DEF CacheSound, ReplayCurrent
  <2> QED BY <1>3, <2>2, <2>3 DEF Lookup
<1>4. CASE Read(c)
  <2>1. call[c].pc = "missed" /\ call[c].modTime <= now /\ call[c].arrived <= cassette.change
    BY <1>4 DEF Read, CacheSound
  <2>2. CASE cassette.exists
    <3> DEFINE cas == Parsed(c)
    <3>1. /\ cas.modTime = call[c].modTime /\ cas.readAt = now /\ cas.change = cassette.change
      BY DEF Parsed
    <3>2. /\ cache' = {cas}
          /\ ToCall(c, [call[c] EXCEPT !.pc = "loaded", !.source = cas])
      BY <1>4, <2>2 DEF Read
    <3> HIDE DEF cas
    <3>3. /\ call'[c].pc = "loaded" /\ call'[c].source = cas
          /\ call'[c].modTime = call[c].modTime /\ call'[c].arrived = call[c].arrived
      <4>1. call[c] \in Requests
        BY DEF CallsTyped
      <4> QED BY <3>2, <4>1 DEF ToCall, CallsTyped, Requests
    <3>4. \A o \in Calls : call'[o].pc \in {"dated", "missed"} =>
            /\ call'[o].modTime <= now /\ call'[o].arrived <= cassette.change
            /\ ~(cas.change < call'[o].arrived)
      BY <1>0, <3>1, <3>3 DEF CacheSound
    <3>5. ReplayCurrent'
      <4>1. ~(cas.change < call[c].arrived)
        BY <1>0, <2>1, <3>1
      <4> QED BY <1>0, <3>3, <4>1 DEF CacheSound, ReplayCurrent
    <3>6. /\ cassette.modTime <= now /\ cas.modTime <= cas.readAt /\ cas.readAt <= now
          /\ cas.change <= cassette.change /\ ~(cas.change < cassette.change)
      BY <1>0, <2>1, <3>1 DEF CacheSound
    <3> QED BY <3>2, <3>4, <3>5, <3>6 DEF CacheSound
  <2>3. CASE ~cassette.exists
    <3>1. cache' = cache /\ call'[c].pc = "idle"
      BY <1>4, <2>3, NoCallTyped, CallTyped DEF Read, CallsTyped
    <3> QED BY <1>0, <3>1 DEF CacheSound, ReplayCurrent
  <2> QED BY <2>2, <2>3
<1> QED BY <1>1, <1>2, <1>3, <1>4 DEF Loads

LEMMA CacheNext == FilesTyped /\ CallsTyped /\ CacheSound /\ [Next]_vars => CacheSound'
<1> SUFFICES ASSUME FilesTyped, CallsTyped, CacheSound, [Next]_vars PROVE CacheSound'
  OBVIOUS
<1>0. directive' = directive
  BY Footprints DEF vars
<1>1. CASE UNCHANGED <<cassette, now, cache, call>>
  BY <1>0, <1>1 DEF CacheSound, ReplayCurrent
<1>2. ASSUME UNCHANGED <<now, cache, call>>, cassette'.modTime = now,
             cassette'.change = cassette.change + 1
      PROVE  CacheSound'
  BY <1>0, <1>2, CacheNumbers DEF CacheSound, ReplayCurrent
<1>3. ASSUME NEW e \in Editors, Records(e), UNCHANGED <<now, cache, call>> PROVE CacheSound'
  <2>1. CASE cassette' = cassette
    BY <1>1, <1>3, <2>1
  <2>2. ASSUME NEW main \in BOOLEAN, AppendEntry(e, main) PROVE CacheSound'
    BY <1>2, <1>3, <2>2 DEF AppendEntry, Change
  <2> QED BY <1>3, <2>1, <2>2 DEF Records, Count, AppendFails, cassetteVars
<1>4. CASE DeleteCassette /\ UNCHANGED <<now, cache, call>>
  BY <1>2, <1>4 DEF DeleteCassette, Change
<1>5. CASE Tick /\ UNCHANGED <<cassette, cache, call>>
  <2>1. now' = now + 1
    BY <1>5 DEF Tick
  <2> QED BY <1>0, <1>5, <2>1, CacheNumbers DEF CacheSound, ReplayCurrent
<1>6. ASSUME NEW c \in Calls, Plays(c), UNCHANGED <<cassette, now, cache>> PROVE CacheSound'
  <2>1. call'[c].pc \in {"joined", "idle"} /\ \A o \in Calls \ {c} : call'[o] = call[o]
    <3>1. \/ ToCall(c, NoCall) \/ \E s : InSession(c, s)
      BY <1>6 DEF Plays, Join, NewSession, PlayMain, PlaySide
    <3>2. ASSUME NEW s, InSession(c, s) PROVE call'[c].pc = "joined"
      BY <3>2 DEF InSession, ToCall, NoCall, CallsTyped
    <3>3. ToCall(c, NoCall) => call'[c].pc = "idle"
      BY DEF ToCall, NoCall, CallsTyped
    <3>4. \A o \in Calls \ {c} : call'[o] = call[o]
      BY <3>1 DEF InSession, ToCall, CallsTyped
    <3> QED BY <3>1, <3>2, <3>3, <3>4
  <2> QED BY <1>0, <1>6, <2>1 DEF CacheSound, ReplayCurrent
<1> QED BY <1>1, <1>3, <1>4, <1>5, <1>6, LoadSound, Footprints DEF vars, cassetteVars

-----------------------------------------------------------------------------
(* The answers of a session. *)

LEMMA AnswersNext == CallsTyped /\ AnswersCounted /\ [Next]_vars => AnswersCounted'
<1> SUFFICES ASSUME CallsTyped, AnswersCounted, [Next]_vars PROVE AnswersCounted'
  OBVIOUS
<1>0. directive' = directive
  BY Footprints DEF vars
<1>1. CASE UNCHANGED <<counters, served>>
  BY <1>0, <1>1 DEF AnswersCounted, Answer
<1>2. ASSUME NEW c \in Calls, PlayMain(c) PROVE AnswersCounted'
  <2> DEFINE s == call[c].session
             n == counters[s].main
  <2>1. /\ counters' = [counters EXCEPT ![s].main = n + 1]
        /\ served' = [served EXCEPT ![s] = [count |-> served[s].count + 1, of |-> call[c].source,
                                            answer |-> Answer(call[c].source, n)]]
    BY <1>2 DEF PlayMain
  <2>2. /\ s \in 1..MaxSessions
        /\ call[c].source \in IF directive = "scenario" THEN Documents ELSE Nat
    BY <1>2, Bounds DEF PlayMain, CallsTyped, InHand
  <2>3. counters[s] \in [main : Nat, side : Nat] /\ n \in Nat /\ served[s].count = n
    BY <2>2 DEF CallsTyped, AnswersCounted
  <2>4. /\ counters'[s].main = n + 1 /\ served'[s].count = n + 1
        /\ served'[s].of = call[c].source /\ served'[s].answer = Answer(call[c].source, n)
    BY <2>1, <2>2, <2>3 DEF CallsTyped
  <2>5. \A t \in (1..MaxSessions) \ {s} : counters'[t] = counters[t] /\ served'[t] = served[t]
    BY <2>1 DEF CallsTyped
  <2> HIDE DEF n, s
  <2>8. ASSUME NEW t \in 1..MaxSessions
        PROVE  /\ served'[t].count = counters'[t].main
               /\ served'[t].count > 0 =>
                    /\ served'[t].of \in IF directive = "scenario" THEN Documents ELSE Nat
                    /\ served'[t].answer = Answer(served'[t].of, served'[t].count - 1)
    <3>1. CASE t = s
      <4>1. served'[t].count = n + 1 /\ counters'[t].main = n + 1
        BY <2>4, <3>1
      <4>2. served'[t].count - 1 = n
        BY <2>3, <4>1
      <4>3. served'[t].of = call[c].source /\ served'[t].answer = Answer(call[c].source, n)
        BY <2>4, <3>1
      <4> QED BY <2>2, <4>1, <4>2, <4>3
    <3>2. CASE t # s
      BY <2>5, <3>2 DEF AnswersCounted
    <3> QED BY <3>1, <3>2
  <2> QED BY <1>0, <2>8 DEF AnswersCounted, Answer
<1>3. ASSUME NEW c \in Calls, PlaySide(c) PROVE AnswersCounted'
  <2> DEFINE s == call[c].session
  <2>1. /\ counters' = [counters EXCEPT ![s].side = counters[s].side + 1] /\ served' = served
    BY <1>3 DEF PlaySide
  <2>2. \A t \in 1..MaxSessions : counters'[t].main = counters[t].main
    BY <2>1 DEF CallsTyped
  <2>3. \A of, k : Answer(of, k)' = Answer(of, k)
    BY <1>0 DEF Answer
  <2> QED BY <1>0, <2>1, <2>2, <2>3 DEF AnswersCounted
<1>4. ASSUME NEW c \in Calls, Join(c) \/ NewSession(c) PROVE AnswersCounted'
  BY <1>1, <1>4 DEF Join, NewSession, sessionVars
<1> QED BY <1>1, <1>2, <1>3, <1>4, Footprints DEF Plays, vars, sessionVars

-----------------------------------------------------------------------------
(* Scripts as they are written. *)

AddRep == [p \in Int \X Int |-> p[1] + Rep(p[2])]

Cum(times) == FoldLeft(LAMBDA cum, t : cum + Rep(t), 0, times)

LEMMA TimesRun ==
    ASSUME NEW s \in Seq(Int)
    PROVE  \E run : Runs(Int, AddRep, 0, s, run) /\ Cum(s) = run[Len(s)]
<1> DEFINE Is(f) == f = [u \in SUBSET (DOMAIN s) |->
                           IF u = {} THEN 0 ELSE f[u \ {Max(u)}] + Rep(s[Max(u)])]
           chosen == CHOOSE f : Is(f)
<1>1. AddRep \in [Int \X Int -> Int] /\ \A x, t \in Int : AddRep[<<x, t>>] = x + Rep(t)
  BY DEF Rep, AddRep
<1>2. /\ Len(s) \in Nat /\ DOMAIN s = 1..Len(s) /\ \A i \in 1..Len(s) : s[i] \in Int
      /\ 0 \in Int
  OBVIOUS
<1>3. \A u \in SUBSET (DOMAIN s) : u # {} => Max(u) \in DOMAIN s
  BY <1>2, MaxUpTo
<1>4. \E f : Is(f)
  <2>1. PICK f : FoldRuns(Int, AddRep, 0, s, f)
    BY <1>1, <1>2, FoldExists
  <2>2. \A u \in SUBSET (DOMAIN s) :
          u # {} => AddRep[<<f[u \ {Max(u)}], s[Max(u)]>>] = f[u \ {Max(u)}] + Rep(s[Max(u)])
    BY <2>1, <1>1, <1>2, <1>3 DEF FoldRuns
  <2>3. Is(f)
    BY <2>1, <2>2 DEF FoldRuns
  <2> QED BY <2>3
<1>5. Is(chosen)
  BY <1>4
<1>6. Cum(s) = chosen[DOMAIN s]
  BY DEF Cum, FoldLeft, MapThenFoldSet
<1> HIDE DEF chosen
<1>7. FoldsBy(Int, Int, AddRep, 0, s, chosen)
  <2>1. chosen[{}] = 0
    BY <1>5
  <2>2. ASSUME NEW u \in SUBSET (DOMAIN s), u # {}, chosen[u \ {Max(u)}] \in Int
        PROVE  chosen[u] = AddRep[<<chosen[u \ {Max(u)}], s[Max(u)]>>]
    <3>1. chosen[u] = chosen[u \ {Max(u)}] + Rep(s[Max(u)])
      BY <1>5, <2>2
    <3>2. s[Max(u)] \in Int
      BY <1>2, <1>3, <2>2
    <3> QED BY <1>1, <2>2, <3>1, <3>2
  <2>3. s \in Seq(Int) /\ 0 \in Int
    OBVIOUS
  <2> QED BY <1>1, <2>1, <2>2, <2>3, Zenon DEF FoldsBy
<1> QED BY <1>6, <1>7, FoldChain

\* What comes before the steps of a document, one after the other.
LEMMA BeforeSteps ==
    ASSUME NEW d, d.times \in Seq(Int)
    PROVE  \E run \in [0..Len(d.times) -> Int] :
             /\ run[0] = 0
             /\ \A i \in 1..Len(d.times) : /\ Before(d, i) = run[i - 1]
                                           /\ run[i] = run[i - 1] + Rep(d.times[i])
<1> DEFINE t == d.times
           N == Len(t)
<1>1. t \in Seq(Int) /\ N \in Nat /\ \A i \in 1..N : t[i] \in Int
  OBVIOUS
<1>2. PICK run : Runs(Int, AddRep, 0, t, run)
  BY <1>1, TimesRun
<1>3. run \in [0..N -> Int] /\ run[0] = 0
  BY <1>2 DEF Runs
<1>4. ASSUME NEW i \in 1..N PROVE run[i] = run[i - 1] + Rep(t[i])
  <2>1. run[i] = AddRep[<<run[i - 1], t[i]>>]
    BY <1>2 DEF Runs
  <2>2. i - 1 \in 0..N
    BY <1>1
  <2>3. run[i - 1] \in Int /\ t[i] \in Int
    BY <1>1, <1>3, <2>2
  <2> QED BY <2>1, <2>3 DEF AddRep
<1>5. ASSUME NEW i \in 1..N PROVE Before(d, i) = run[i - 1]
  <2> DEFINE sub == SubSeq(t, 1, i - 1)
  <2>1. /\ sub \in Seq(Int) /\ Len(sub) = i - 1 /\ i - 1 \in Nat /\ i - 1 <= N
        /\ \A k \in 1..(i - 1) : t[k] = sub[k]
    <3>1. (\A k \in 1..(i - 1) : t[k] \in Int) /\ 1 \in Int /\ i - 1 \in Nat /\ i - 1 <= N
      BY <1>1
    <3> QED BY <3>1
  <2> HIDE DEF t, N
  <2>2. PICK part : Runs(Int, AddRep, 0, sub, part) /\ Cum(sub) = part[Len(sub)]
    <3> HIDE DEF sub
    <3> QED BY <2>1, TimesRun
  <2>3. \A k \in 0..(i - 1) : run[k] = part[k]
    <3> HIDE DEF sub
    <3>1. Len(t) = N
      BY DEF N
    <3>2. /\ i - 1 \in Nat /\ i - 1 <= Len(t) /\ i - 1 <= Len(sub)
          /\ Len(t) \in Nat /\ Len(sub) \in Nat /\ \A k \in 1..(i - 1) : t[k] = sub[k]
      BY <1>1, <2>1, <3>1
    <3>3. \A n \in Nat : /\ n <= Len(t) /\ n <= Len(sub)
                         /\ \A k \in 1..n : t[k] = sub[k]
                         => \A k \in 0..n : run[k] = part[k]
      BY <1>2, <2>2, <3>2, RunsAgree
    <3> QED BY <3>2, <3>3, Zenon
  <2>4. Before(d, i) = part[i - 1] /\ i - 1 \in 0..(i - 1)
    <3>1. Before(d, i) = Cum(sub)
      BY DEF Before, Cum, t, FoldLeft, MapThenFoldSet
    <3> HIDE DEF sub
    <3> QED BY <2>1, <2>2, <3>1
  <2> QED BY <2>3, <2>4
<1> QED BY <1>3, <1>4, <1>5

Repeats(d, k) ==
    [i \in DOMAIN d.times |-> [j \in 1..(IF d.times[i] = -1 THEN k ELSE Rep(d.times[i])) |-> i]]

LEMMA StepsAsWritten ==
    ASSUME NEW d, d.times \in Seq(Int), d.times # <<>>,
           \A i \in DOMAIN d.times : d.times[i] >= -1, NEW k \in Nat \ {0}
    PROVE  StepAt(d, k - 1) = LET answers == Unrolled(d, k)
                              IN IF k <= Len(answers) THEN answers[k] ELSE Exhausted(d)
<1> DEFINE t == d.times
           N == Len(t)
           blocks == Repeats(d, k)
           answers == Unrolled(d, k)
           Times(i) == IF t[i] = -1 THEN k ELSE Rep(t[i])
<1>1. /\ t \in Seq(Int) /\ N \in Nat \ {0} /\ DOMAIN t = 1..N
      /\ \A i \in 1..N : t[i] \in Int /\ t[i] >= -1
      /\ DOMAIN d.times = 1..N /\ Len(d.times) = N
  OBVIOUS
<1>2. \A i \in 1..N : Times(i) \in Nat
  BY <1>1 DEF Rep
<1>3. /\ blocks \in Seq(Seq(Nat)) /\ Len(blocks) = N
      /\ \A i \in 1..N : Len(blocks[i]) = Times(i) /\ \A j \in 1..Times(i) : blocks[i][j] = i
  <2>1. blocks = [i \in 1..N |-> [j \in 1..Times(i) |-> i]]
    BY <1>1 DEF Repeats
  <2> HIDE DEF blocks, Times, t
  <2>2. \A i \in 1..N : [j \in 1..Times(i) |-> i] \in Seq(Nat)
                        /\ Len([j \in 1..Times(i) |-> i]) = Times(i)
    BY <1>1, <1>2
  <2> HIDE DEF N
  <2> QED BY <1>1, <1>2, <2>1, <2>2, SMTT(40)
<1>4. answers = FlattenSeq(blocks)
  BY DEF Unrolled, Repeats
<1>5. PICK run \in [0..N -> Int] :
             /\ run[0] = 0
             /\ \A i \in 1..N : /\ Before(d, i) = run[i - 1]
                                /\ run[i] = run[i - 1] + Rep(t[i])
  BY <1>1, BeforeSteps
<1> HIDE DEF blocks, answers
<1>6. PICK at : /\ Places(blocks, at) /\ Len(answers) = at[N]
                /\ \A i \in 1..N : \A j \in 1..Len(blocks[i]) :
                             answers[at[i - 1] + j] = blocks[i][j]
  <2> HIDE DEF t, N, Times
  <2>1. PICK at : /\ Places(blocks, at) /\ Len(FlattenSeq(blocks)) = at[Len(blocks)]
                  /\ \A i \in 1..Len(blocks) : \A j \in 1..Len(blocks[i]) :
                         FlattenSeq(blocks)[at[i - 1] + j] = blocks[i][j]
    <3>1. blocks \in Seq(Seq(Nat))
      BY <1>3
    <3> QED BY <3>1, FlattenAt, ZenonT(60)
  <2> QED BY <1>3, <1>4, <2>1
<1>7. /\ \A i \in 0..N : at[i] \in Nat
      /\ at[0] = 0 /\ \A i \in 1..N : at[i] = at[i - 1] + Times(i)
      /\ \A i, j \in 0..N : i <= j => at[i] <= at[j]
  <2> HIDE DEF t, N, Times
  <2>1. \A i, j \in 0..N : i <= j => at[i] <= at[j]
    <3>1. Parts(Nat, blocks, at)
      BY <1>3, <1>6, Zenon DEF Parts
    <3> QED BY <1>3, <3>1, PlacesGrow
  <2> QED BY <1>3, <1>6, <2>1 DEF Places
<1>8. Serving(d, k - 1) = {i \in 1..N : t[i] < 0 \/ k - 1 < run[i]}
  BY <1>1, <1>5 DEF Serving
<1> HIDE DEF t, N
\* As long as no step repeats for ever, both count alike.
<1>9. ASSUME NEW m \in 0..N, \A i \in 1..m : t[i] >= 0
      PROVE  at[m] = run[m]
  <2> DEFINE T == {n \in 0..m : at[n] = run[n]}
  <2>1. 0 \in T /\ m \in Nat
    BY <1>1, <1>5, <1>7
  <2>2. ASSUME NEW n \in 0..(m - 1), n \in T PROVE n + 1 \in T
    <3>1. n + 1 \in 1..m /\ n + 1 \in 1..N /\ (n + 1) - 1 = n
      BY <1>1, <2>1
    <3>2. Times(n + 1) = Rep(t[n + 1])
      BY <3>1, <1>1, <1>9
    <3>3. at[n] = run[n]
      BY <2>2
    <3>4. at[n + 1] = at[n] + Times(n + 1)
      BY <3>1, <1>7
    <3>5. run[n + 1] = run[n] + Rep(t[n + 1])
      BY <3>1, <1>5
    <3>6. n + 1 \in 0..m
      BY <3>1, <2>1
    <3> HIDE DEF Times
    <3> QED BY <3>2, <3>3, <3>4, <3>5, <3>6
  <2>3. 0..m \subseteq T
    <3> HIDE DEF T
    <3> QED BY <2>1, <2>2, UpTo
  <2> QED BY <2>1, <2>3
<1> HIDE DEF Times
<1>10. CASE Serving(d, k - 1) = {}
  <2>1. \A i \in 1..N : ~(t[i] < 0) /\ ~(k - 1 < run[i])
    BY <1>8, <1>10
  <2>2. at[N] = run[N]
    <3>1. \A i \in 1..N : t[i] >= 0
      BY <1>1, <2>1
    <3> QED BY <1>1, <1>9, <3>1
  <2>3. ~(k <= Len(answers))
    <3>1. N \in 1..N /\ N \in 0..N
      BY <1>1
    <3>2. run[N] \in Int /\ ~(k - 1 < run[N])
      BY <1>5, <2>1, <3>1
    <3> QED BY <1>6, <2>2, <3>2
  <2> QED BY <1>10, <2>3 DEF StepAt, answers
<1>11. CASE Serving(d, k - 1) # {}
  <2> DEFINE m == Min(Serving(d, k - 1))
  <2>1. m \in Serving(d, k - 1) /\ \A j \in Serving(d, k - 1) : m <= j
    <3>1. Serving(d, k - 1) \subseteq Nat
      BY <1>1, <1>8
    <3>2. \E i \in Serving(d, k - 1) : \A j \in Serving(d, k - 1) : i <= j
      BY <1>11, <3>1, LeastNatural
    <3> QED BY <3>2 DEF Min
  <2> HIDE DEF m
  <2>2. m \in 1..N /\ (t[m] < 0 \/ k - 1 < run[m]) /\ m - 1 \in 0..N
    BY <1>1, <1>8, <2>1, SMTT(40)
  <2>3. \A j \in 1..(m - 1) : j \in 1..N /\ ~(t[j] < 0) /\ ~(k - 1 < run[j])
    <3> SUFFICES ASSUME NEW j \in 1..(m - 1) PROVE j \in 1..N /\ j \notin Serving(d, k - 1)
      BY <1>8
    <3> QED BY <1>1, <2>1, <2>2
  <2>4. at[m - 1] = run[m - 1]
    <3>1. \A j \in 1..(m - 1) : t[j] >= 0
      BY <1>1, <2>3
    <3> QED BY <1>9, <2>2, <3>1
  <2>5. at[m - 1] <= k - 1
    <3>1. CASE m = 1
      BY <1>7, <3>1
    <3>2. CASE m # 1
      <4>1. m - 1 \in 1..(m - 1) /\ run[m - 1] \in Int
        BY <1>1, <1>5, <2>2, <3>2
      <4> QED BY <2>3, <2>4, <4>1
    <3> QED BY <3>1, <3>2
  <2> DEFINE q == k - at[m - 1]
  <2>6. q \in 1..Times(m) /\ at[m - 1] + q = k
    <3>1. at[m - 1] \in Nat /\ t[m] \in Int /\ t[m] >= -1 /\ m \in 0..N
      BY <1>1, <1>7, <2>2
    <3>2. q \in Nat /\ q >= 1 /\ at[m - 1] + q = k
      BY <2>5, <3>1
    <3>3. CASE t[m] < 0
      <4>1. t[m] = -1
        BY <3>1, <3>3
      <4> QED BY <3>1, <3>2, <4>1 DEF Times
    <3>4. CASE ~(t[m] < 0)
      <4>1. k - 1 < run[m] /\ run[m] = run[m - 1] + Rep(t[m]) /\ Times(m) = Rep(t[m])
        BY <1>5, <2>2, <3>1, <3>4 DEF Times
      <4>2. Rep(t[m]) \in Nat
        BY <3>1, <3>4 DEF Rep
      <4> QED BY <2>4, <3>1, <3>2, <4>1, <4>2
    <3> QED BY <3>3, <3>4
  <2> HIDE DEF q
  <2>7. answers[k] = m
    <3>1. q \in 1..Len(blocks[m]) /\ blocks[m][q] = m
      BY <1>3, <2>2, <2>6
    <3> QED BY <1>6, <2>2, <2>6, <3>1
  <2>8. k <= Len(answers)
    <3>1. at[m] = at[m - 1] + Times(m) /\ m \in 0..N /\ N \in 0..N /\ m <= N
      BY <1>1, <1>7, <2>2
    <3>2. at[m] <= at[N] /\ at[m] \in Nat /\ at[N] \in Nat /\ at[m - 1] \in Nat /\ Times(m) \in Nat
      BY <1>2, <1>7, <2>2, <3>1
    <3> QED BY <1>6, <2>6, <3>1, <3>2
  <2> QED BY <1>11, <2>7, <2>8 DEF StepAt, answers, m
<1> QED BY <1>10, <1>11

LEMMA AnswersDue ==
    ASSUME CallsTyped, AnswersCounted
    PROVE  ScriptFollowed
<1> SUFFICES ASSUME NEW s \in 1..MaxSessions, served[s].count > 0
             PROVE  served[s].answer = Due(served[s].of, served[s].count)
  BY DEF ScriptFollowed
<1> DEFINE k == served[s].count
           of == served[s].of
<1>1. /\ k \in Nat \ {0} /\ served[s].answer = Answer(of, k - 1)
      /\ of \in IF directive = "scenario" THEN Documents ELSE Nat
  <2>1. k = counters[s].main /\ counters[s].main \in Nat
    BY DEF AnswersCounted, CallsTyped
  <2> QED BY <2>1 DEF AnswersCounted
<1> HIDE DEF k, of
<1>2. CASE directive = "replay"
  <2>1. Answer(of, k - 1) = IF k - 1 < of THEN k - 1 + 1 ELSE Notice
    BY <1>2 DEF Answer, EntryAt
  <2>2. of \in Nat
    BY <1>1, <1>2
  <2>3. Answer(of, k - 1) = IF k <= of THEN k ELSE Notice
    BY <1>1, <2>1, <2>2
  <2> QED BY <1>1, <1>2, <2>3 DEF Due, k, of
<1>3. CASE directive = "scenario"
  <2>1. Answer(of, k - 1) = StepAt(of, k - 1) /\ of \in Documents
    BY <1>1, <1>3 DEF Answer
  <2>2. Due(of, k) = LET answers == Unrolled(of, k)
                     IN IF k <= Len(answers) THEN answers[k] ELSE Exhausted(of)
    BY <1>3 DEF Due
  <2>3. StepAt(of, k - 1) = Due(of, k)
    <3>1. IsDocument(of)
      BY <2>1, SimulatorAssumption DEF Documents
    <3> QED BY <1>1, <2>1, <2>2, <3>1, StepsAsWritten DEF IsDocument
  <2> QED BY <1>1, <2>1, <2>3 DEF k, of
<1> QED BY <1>2, <1>3 DEF CallsTyped

-----------------------------------------------------------------------------
(* Places of a flattened sequence, and what At selects. *)

\* Every place of a flattened sequence is one of a part.
LEMMA Placed ==
    ASSUME NEW S, NEW seqs, NEW at, Parts(S, seqs, at), NEW p \in 1..at[Len(seqs)]
    PROVE  \E i \in 1..Len(seqs) : \E k \in 1..Len(seqs[i]) : p = at[i - 1] + k
<1> DEFINE N == Len(seqs)
           T == {i \in 0..N : p <= at[i]}
<1>1. /\ N \in Nat /\ \A i \in 1..N : Len(seqs[i]) \in Nat
      /\ \A i \in 0..N : at[i] \in Nat
      /\ at[0] = 0 /\ \A i \in 1..N : at[i] = at[i - 1] + Len(seqs[i])
  BY DEF Parts, Places
<1>2. p \in 1..at[N] /\ p \in Nat /\ p >= 1
  BY <1>1
<1> HIDE DEF N
<1>3. T \subseteq Nat /\ T # {}
  <2>1. N \in T
    BY <1>1, <1>2
  <2>2. T \subseteq Nat
    BY <1>1
  <2> HIDE DEF T
  <2> QED BY <2>1, <2>2
<1>4. PICK i \in T : \A j \in T : i <= j
  <2> HIDE DEF T
  <2> QED BY <1>3, LeastNatural
<1>5. i \in 1..N /\ i - 1 \in 0..N /\ ~(p <= at[i - 1])
  <2>1. i # 0
    BY <1>1, <1>2
  <2>2. i - 1 \in 0..N /\ i \in 1..N
    BY <1>1, <2>1
  <2>3. i - 1 \notin T
    BY <1>1, <1>4
  <2> QED BY <2>2, <2>3
<1>6. at[i] = at[i - 1] + Len(seqs[i]) /\ p <= at[i] /\ at[i - 1] \in Nat /\ Len(seqs[i]) \in Nat
  BY <1>1, <1>5
<1>7. p - at[i - 1] \in 1..Len(seqs[i]) /\ p = at[i - 1] + (p - at[i - 1])
  BY <1>2, <1>5, <1>6
<1> QED BY <1>5, <1>7 DEF N

-----------------------------------------------------------------------------
(* The elements at some places. *)

Enumerates(f, n, places) ==
    /\ n \in Nat /\ places \subseteq Nat
    /\ f \in [1..n -> places]
    /\ \A j, k \in 1..n : j < k => f[j] < f[k]
    /\ \A i \in places : \E k \in 1..n : f[k] = i

LEMMA AtEnumerates ==
    ASSUME NEW S, NEW s \in Seq(S), NEW places \in SUBSET (DOMAIN s)
    PROVE  /\ At(s, places) \in Seq(S)
           /\ \E f : /\ Enumerates(f, Len(At(s, places)), places)
                     /\ \A k \in 1..Len(At(s, places)) : At(s, places)[k] = s[f[k]]
<1> DEFINE N == Len(s)
           parts == [i \in DOMAIN s |-> IF i \in places THEN <<s[i]>> ELSE <<>>]
           r == At(s, places)
<1>1. N \in Nat /\ DOMAIN s = 1..N /\ \A i \in 1..N : s[i] \in S
  OBVIOUS
<1> HIDE DEF N
<1>2. /\ parts \in Seq(Seq(S)) /\ Len(parts) = N
      /\ \A i \in 1..N : parts[i] = IF i \in places THEN <<s[i]>> ELSE <<>>
      /\ \A i \in 1..N : Len(parts[i]) = IF i \in places THEN 1 ELSE 0
  BY <1>1
<1>3. r = FlattenSeq(parts)
  BY DEF At
<1>4. \A i \in 1..N : i \in places => parts[i][1] = s[i]
  BY <1>2
<1> HIDE DEF parts, r
<1>5. r \in Seq(S)
  <2>1. parts \in Seq(Seq(S))
    BY <1>2
  <2> QED BY <1>3, <2>1, FlattenAt, Zenon
<1>6. PICK at : /\ Places(parts, at) /\ Len(r) = at[N]
                /\ \A i \in 1..N : \A k \in 1..Len(parts[i]) : r[at[i - 1] + k] = parts[i][k]
  <2>1. PICK at : /\ Places(parts, at) /\ Len(FlattenSeq(parts)) = at[Len(parts)]
                  /\ \A i \in 1..Len(parts) : \A k \in 1..Len(parts[i]) :
                         FlattenSeq(parts)[at[i - 1] + k] = parts[i][k]
    <3>1. parts \in Seq(Seq(S))
      BY <1>2
    <3> QED BY <3>1, FlattenAt, Zenon
  <2> QED BY <1>2, <1>3, <2>1
<1>7. /\ \A i \in 0..N : at[i] \in Nat
      /\ at[0] = 0 /\ \A i \in 1..N : at[i] = at[i - 1] + Len(parts[i])
      /\ \A i, j \in 0..N : i <= j => at[i] <= at[j]
  <2>1. \A i, j \in 0..N : i <= j => at[i] <= at[j]
    <3>1. Parts(S, parts, at)
      BY <1>2, <1>6, Zenon DEF Parts
    <3> QED BY <1>2, <3>1, PlacesGrow
  <2> QED BY <1>2, <1>6, <2>1 DEF Places
<1>8. \A i \in places : i \in 1..N /\ at[i] = at[i - 1] + 1
  BY <1>1, <1>2, <1>7
<1> DEFINE n == Len(r)
           f == [k \in 1..n |-> CHOOSE i \in places : at[i] = k]
<1>9. ASSUME NEW k \in 1..n PROVE \E i \in places : at[i] = k
  <2>1. PICK i \in 1..N : \E l \in 1..Len(parts[i]) : k = at[i - 1] + l
    <3>1. k \in 1..at[Len(parts)]
      BY <1>2, <1>6
    <3>2. Parts(S, parts, at)
      BY <1>2, <1>6, Zenon DEF Parts
    <3>3. \E i \in 1..Len(parts) : \E l \in 1..Len(parts[i]) : k = at[i - 1] + l
      BY <3>1, <3>2, Placed
    <3> QED BY <1>2, <3>3
  <2>2. i \in places /\ k = at[i - 1] + 1
    <3>1. PICK l \in 1..Len(parts[i]) : k = at[i - 1] + l
      BY <2>1
    <3>2. Len(parts[i]) = IF i \in places THEN 1 ELSE 0
      BY <1>2
    <3>3. i \in places
      <4>1. CASE i \notin places
        BY <3>1, <3>2, <4>1
      <4> QED BY <4>1
    <3>4. l = 1
      BY <3>1, <3>2, <3>3
    <3> QED BY <3>1, <3>3, <3>4
  <2> QED BY <1>8, <2>2
<1>10. \A k \in 1..n : f[k] \in places /\ at[f[k]] = k
  BY <1>9
<1>11. f \in [1..n -> places]
  BY <1>9
<1> HIDE DEF f, n
<1>12. ASSUME NEW j \in 1..n, NEW k \in 1..n, j < k PROVE f[j] < f[k]
  <2>1. f[j] \in 1..N /\ f[k] \in 1..N /\ at[f[j]] = j /\ at[f[k]] = k
    BY <1>8, <1>10
  <2>2. ~(f[k] <= f[j])
    <3>1. f[k] <= f[j] => at[f[k]] <= at[f[j]]
      BY <1>1, <1>7, <2>1
    <3> QED BY <1>12, <2>1, <3>1
  <2> QED BY <1>1, <2>1, <2>2
<1>13. \A j, k \in 1..N : at[j] = at[k] /\ j \in places /\ k \in places => j = k
  <2> SUFFICES ASSUME NEW j \in 1..N, NEW k \in 1..N, j \in places, k \in places, j < k
               PROVE at[j] # at[k]
    BY <1>1
  <2>1. k - 1 \in 0..N /\ j \in 0..N /\ j <= k - 1
    BY <1>1
  <2>2. at[j] <= at[k - 1] /\ at[k] = at[k - 1] + 1 /\ at[j] \in Nat /\ at[k - 1] \in Nat
    BY <1>7, <1>8, <2>1
  <2> QED BY <2>2
<1>14. ASSUME NEW i \in places PROVE \E k \in 1..n : f[k] = i
  <2>1. i \in 1..N /\ at[i] \in 1..n
    <3>1. i \in 1..N /\ i \in 0..N /\ i - 1 \in 0..N /\ N \in 0..N /\ i <= N
      BY <1>1, <1>8
    <3>2. at[i] <= at[N] /\ at[i] >= 1 /\ at[i] \in Nat /\ at[N] \in Nat
      BY <1>7, <1>8, <3>1
    <3> QED BY <1>6, <3>1, <3>2 DEF n
  <2>2. f[at[i]] \in places /\ at[f[at[i]]] = at[i] /\ f[at[i]] \in 1..N
    BY <1>8, <1>10, <2>1
  <2> QED BY <1>13, <2>1, <2>2
<1>15. Enumerates(f, n, places)
  <2>1. n \in Nat /\ places \subseteq Nat
    BY <1>1, <1>5, <1>8 DEF n
  <2> QED BY <2>1, <1>11, <1>12, <1>14 DEF Enumerates
<1>16. ASSUME NEW k \in 1..n PROVE r[k] = s[f[k]]
  <2>1. f[k] \in places /\ at[f[k]] = k /\ f[k] \in 1..N /\ at[f[k]] = at[f[k] - 1] + 1
    BY <1>8, <1>10
  <2>2. 1 \in 1..Len(parts[f[k]]) /\ parts[f[k]][1] = s[f[k]]
    BY <1>2, <1>4, <2>1
  <2> QED BY <1>6, <2>1, <2>2
<1> QED BY <1>5, <1>15, <1>16 DEF n, r

\* There is but one way to enumerate.
LEMMA EnumeratedOnce ==
    ASSUME NEW places, NEW m, NEW f, NEW n, NEW g,
           Enumerates(f, m, places), Enumerates(g, n, places)
    PROVE  m = n /\ \A k \in 1..n : f[k] = g[k]
<1> DEFINE Agree(a, b, k) == k \in 1..a /\ k \in 1..b /\ f[k] = g[k]
           T == {k \in (1..m) \cup (1..n) : ~Agree(m, n, k)}
<1>0. m \in Nat /\ n \in Nat /\ places \subseteq Nat
  BY DEF Enumerates
<1> SUFFICES T = {}
  <2>1. ASSUME T = {} PROVE m = n
    <3>1. \A k \in 1..m : k \in 1..n
      BY <2>1
    <3>2. \A k \in 1..n : k \in 1..m
      BY <2>1
    <3>3. m # 0 => m \in 1..m
      BY <1>0
    <3>4. n # 0 => n \in 1..n
      BY <1>0
    <3> QED BY <1>0, <3>1, <3>2, <3>3, <3>4
  <2> QED BY <2>1
<1> SUFFICES ASSUME T # {} PROVE FALSE
  OBVIOUS
<1>1. PICK k \in T : \A j \in T : k <= j
  <2>1. T \subseteq Nat
    BY <1>0
  <2> HIDE DEF T
  <2> QED BY <2>1, LeastNatural
<1>2. k \in Nat /\ k >= 1 /\ \A j \in 1..(k - 1) : j \in 1..m /\ j \in 1..n /\ f[j] = g[j]
  <2>1. k \in Nat /\ k >= 1
    BY <1>0
  <2>2. ASSUME NEW j \in 1..(k - 1) PROVE Agree(m, n, j)
    <3>1. j \in (1..m) \cup (1..n)
      BY <1>0, <1>1
    <3> QED BY <1>1, <2>1, <3>1
  <2> QED BY <2>1, <2>2
<1>3. ASSUME k \in 1..m PROVE \E j \in 1..n : j >= k /\ g[j] = f[k]
  <2>1. PICK j \in 1..n : g[j] = f[k]
    BY <1>3 DEF Enumerates
  <2>2. ASSUME j < k PROVE FALSE
    <3>1. j \in 1..m /\ f[j] = g[j] /\ f[j] < f[k]
      BY <1>2, <1>3, <2>2 DEF Enumerates
    <3>2. f[j] \in Nat /\ f[k] \in Nat
      BY <1>0, <1>3, <3>1 DEF Enumerates
    <3> QED BY <2>1, <3>1, <3>2
  <2> QED BY <1>0, <1>2, <2>1, <2>2
<1>4. ASSUME k \in 1..n PROVE \E j \in 1..m : j >= k /\ f[j] = g[k]
  <2>1. PICK j \in 1..m : f[j] = g[k]
    BY <1>4 DEF Enumerates
  <2>2. ASSUME j < k PROVE FALSE
    <3>1. j \in 1..n /\ f[j] = g[j] /\ g[j] < g[k]
      BY <1>2, <1>4, <2>2 DEF Enumerates
    <3>2. g[j] \in Nat /\ g[k] \in Nat
      BY <1>0, <1>4, <3>1 DEF Enumerates
    <3> QED BY <2>1, <3>1, <3>2
  <2> QED BY <1>0, <1>2, <2>1, <2>2
<1>5. k \in 1..m /\ k \in 1..n
  <2>1. CASE k \in 1..m
    <3>1. PICK j \in 1..n : j >= k
      BY <1>3, <2>1
    <3> QED BY <1>0, <1>2, <2>1, <3>1
  <2>2. CASE k \in 1..n
    <3>1. PICK j \in 1..m : j >= k
      BY <1>4, <2>2
    <3> QED BY <1>0, <1>2, <2>2, <3>1
  <2> QED BY <2>1, <2>2
<1>6. f[k] \in Nat /\ g[k] \in Nat /\ \A j \in 1..n : g[j] \in Nat
  BY <1>0, <1>5 DEF Enumerates
<1>7. g[k] <= f[k]
  <2>1. PICK j \in 1..n : j >= k /\ g[j] = f[k]
    BY <1>3, <1>5
  <2>2. k < j => g[k] < g[j]
    BY <1>0, <1>5 DEF Enumerates
  <2> QED BY <1>0, <1>2, <1>6, <2>1, <2>2
<1>8. f[k] <= g[k]
  <2>1. PICK j \in 1..m : j >= k /\ f[j] = g[k]
    BY <1>4, <1>5
  <2>2. k < j => f[k] < f[j]
    BY <1>0, <1>5 DEF Enumerates
  <2> QED BY <1>0, <1>2, <1>6, <2>1, <2>2
<1> QED BY <1>1, <1>5, <1>6, <1>7, <1>8

LEMMA AtIs ==
    ASSUME NEW S, NEW s \in Seq(S), NEW places \in SUBSET (DOMAIN s), NEW n, NEW f,
           Enumerates(f, n, places)
    PROVE  /\ At(s, places) \in Seq(S) /\ Len(At(s, places)) = n
           /\ \A k \in 1..n : f[k] \in DOMAIN s /\ At(s, places)[k] = s[f[k]]
<1>1. At(s, places) \in Seq(S) /\ Len(At(s, places)) \in Nat /\ places \subseteq Nat
  BY AtEnumerates
<1>2. PICK g : /\ Enumerates(g, Len(At(s, places)), places)
               /\ \A k \in 1..Len(At(s, places)) : At(s, places)[k] = s[g[k]]
  BY AtEnumerates
<1>3. Len(At(s, places)) = n /\ \A k \in 1..n : g[k] = f[k]
  BY <1>1, <1>2, EnumeratedOnce
<1>4. \A k \in 1..n : f[k] \in DOMAIN s
  BY DEF Enumerates
<1> QED BY <1>1, <1>2, <1>3, <1>4

-----------------------------------------------------------------------------
(* Texts and events: what an SSE stream is made of, and the pings in it. *)

Texts == Seq(STRING)
Indexes == Nat \ {0}
Events ==
    [type : {"message_start", "ping", "message_stop", "error", "encoded"}]
    \cup [type : {"content_block_start", "content_block_stop"}, index : Indexes, kind : BlockTypes]
    \cup [type : {"content_block_delta"}, index : Indexes,
          kind : {"text_delta", "thinking_delta", "input_json_delta"}, text : Texts]
    \cup [type : {"content_block_delta"}, index : Indexes, kind : {"signature_delta"},
          text : Texts \ {<<>>}]
    \cup [type : {"message_delta"}, stop : STRING, tokens : Nat]

\* One sequence of events is another with pings in between; pos says how far into the other
\* each of its events is.
Spaced(events, of, pos) ==
    /\ pos \in [0..Len(events) -> 0..Len(of)]
    /\ pos[0] = 0 /\ pos[Len(events)] = Len(of)
    /\ \A k \in 1..Len(events) :
         \/ events[k] = Ping /\ pos[k] = pos[k - 1]
         \/ pos[k] = pos[k - 1] + 1 /\ events[k] = of[pos[k]]

LEMMA PingIs == Ping \in Events /\ Ping.type = "ping"
BY DEF Ping, Plain, Events

PingStates == [count : Int, events : Seq(Events)]
PingStep(done, e, n) ==
    LET count == done.count + (IF e.type = "content_block_delta" THEN 1 ELSE 0)
        due == n > 0 /\ count >= n
    IN [count |-> IF due THEN 0 ELSE count,
        events |-> done.events \o (IF due THEN <<e, Ping>> ELSE <<e>>)]
PingOp(n) == [p \in PingStates \X Events |-> PingStep(p[1], p[2], n)]

LEMMA PingStepTyped ==
    ASSUME NEW done \in PingStates, NEW e \in Events, NEW n \in Nat
    PROVE  /\ PingStep(done, e, n) \in PingStates
           /\ \/ PingStep(done, e, n).events = done.events \o <<e>>
              \/ PingStep(done, e, n).events = done.events \o <<e, Ping>>
<1>1. done.count \in Int /\ done.events \in Seq(Events)
  BY DEF PingStates
<1>2. <<e>> \in Seq(Events) /\ <<e, Ping>> \in Seq(Events)
  BY PingIs
<1>3. done.events \o <<e>> \in Seq(Events) /\ done.events \o <<e, Ping>> \in Seq(Events)
  BY <1>1, <1>2
<1> DEFINE count == done.count + (IF e.type = "content_block_delta" THEN 1 ELSE 0)
           due == n > 0 /\ count >= n
<1>4. count \in Int /\ 0 \in Int
  BY <1>1
<1>5. PingStep(done, e, n) = [count |-> IF due THEN 0 ELSE count,
                              events |-> done.events \o (IF due THEN <<e, Ping>> ELSE <<e>>)]
  BY DEF PingStep
<1> HIDE DEF count, due
<1>6. CASE due
  BY <1>3, <1>4, <1>5, <1>6 DEF PingStates
<1>7. CASE ~due
  BY <1>3, <1>4, <1>5, <1>7 DEF PingStates
<1> QED BY <1>6, <1>7

NoPings == [count |-> 0, events |-> <<>>]

LEMMA NoPingsTyped == NoPings \in PingStates
<1>1. <<>> \in Seq(Events) /\ 0 \in Int
  OBVIOUS
<1> QED BY <1>1 DEF NoPings, PingStates

LEMMA PingsRun ==
    ASSUME NEW s \in Seq(Events), NEW n \in Nat
    PROVE  \E run : Runs(PingStates, PingOp(n), NoPings, s, run)
                    /\ WithPings(s, n) = run[Len(s)].events
<1> DEFINE Is(f) == f = [u \in SUBSET (DOMAIN s) |->
                           IF u = {} THEN NoPings ELSE PingStep(f[u \ {Max(u)}], s[Max(u)], n)]
           chosen == CHOOSE f : Is(f)
           op == PingOp(n)
<1>1. /\ op \in [PingStates \X Events -> PingStates]
      /\ \A x \in PingStates, e \in Events : op[<<x, e>>] = PingStep(x, e, n)
  BY PingStepTyped DEF PingOp
<1>2. Len(s) \in Nat /\ DOMAIN s = 1..Len(s) /\ \A i \in 1..Len(s) : s[i] \in Events
  OBVIOUS
<1> HIDE DEF op
<1>3. \A u \in SUBSET (DOMAIN s) : u # {} => Max(u) \in DOMAIN s
  BY <1>2, MaxUpTo
<1>4. \E f : Is(f)
  <2>1. PICK f : FoldRuns(PingStates, op, NoPings, s, f)
    BY <1>1, NoPingsTyped, FoldExists
  <2>2. \A u \in SUBSET (DOMAIN s) :
          u # {} => op[<<f[u \ {Max(u)}], s[Max(u)]>>] = PingStep(f[u \ {Max(u)}], s[Max(u)], n)
    BY <2>1, <1>1, <1>2, <1>3 DEF FoldRuns
  <2>3. Is(f)
    BY <2>1, <2>2 DEF FoldRuns
  <2> QED BY <2>3
<1>5. Is(chosen)
  BY <1>4
<1>6. WithPings(s, n) = chosen[DOMAIN s].events
  BY DEF WithPings, FoldLeft, MapThenFoldSet, PingStep, NoPings
<1> HIDE DEF chosen
<1>7. FoldsBy(PingStates, Events, op, NoPings, s, chosen)
  BY <1>1, <1>2, <1>3, <1>5, NoPingsTyped DEF FoldsBy
<1>8. PICK run : Runs(PingStates, op, NoPings, s, run) /\ run[Len(s)] = chosen[DOMAIN s]
  BY <1>7, FoldChain
<1> QED BY <1>6, <1>8 DEF op

LEMMA Beginnings ==
    ASSUME NEW S, NEW s \in Seq(S)
    PROVE  /\ SubSeq(s, 1, 0) = <<>> /\ SubSeq(s, 1, Len(s)) = s
           /\ \A k \in 0..Len(s) :
                /\ SubSeq(s, 1, k) \in Seq(S) /\ Len(SubSeq(s, 1, k)) = k
                /\ \A i \in 1..k : SubSeq(s, 1, k)[i] = s[i]
           /\ \A k \in 0..(Len(s) - 1) : SubSeq(s, 1, k + 1) = SubSeq(s, 1, k) \o <<s[k + 1]>>
<1>1. Len(s) \in Nat /\ \A i \in 1..Len(s) : s[i] \in S
  OBVIOUS
<1>2. ASSUME NEW k \in 0..Len(s)
      PROVE  /\ SubSeq(s, 1, k) \in Seq(S) /\ Len(SubSeq(s, 1, k)) = k
             /\ \A i \in 1..k : SubSeq(s, 1, k)[i] = s[i]
  <2>1. k \in Int /\ 1 \in Int /\ k \in Nat /\ \A i \in 1..k : s[i] \in S
    BY <1>1
  <2> QED BY <2>1
<1>3. ASSUME NEW k \in 0..(Len(s) - 1)
      PROVE  SubSeq(s, 1, k + 1) = SubSeq(s, 1, k) \o <<s[k + 1]>>
  <2> DEFINE a == SubSeq(s, 1, k + 1)
             b == SubSeq(s, 1, k)
  <2>1. k \in Nat /\ k \in 0..Len(s) /\ k + 1 \in 0..Len(s) /\ k + 1 \in 1..Len(s)
    BY <1>1
  <2>2. b \in Seq(S) /\ Len(b) = k /\ \A i \in 1..k : b[i] = s[i]
    BY <1>2, <2>1
  <2>3. a \in Seq(S) /\ Len(a) = k + 1 /\ \A i \in 1..(k + 1) : a[i] = s[i]
    BY <1>2, <2>1
  <2>4. s[k + 1] \in S
    BY <1>1, <2>1
  <2> HIDE DEF a, b
  <2>5. b \o <<s[k + 1]>> \in Seq(S) /\ Len(b \o <<s[k + 1]>>) = k + 1
        /\ (b \o <<s[k + 1]>>)[k + 1] = s[k + 1]
        /\ \A i \in 1..k : (b \o <<s[k + 1]>>)[i] = b[i]
    BY <2>1, <2>2, <2>4
  <2>6. \A i \in 1..(k + 1) : (b \o <<s[k + 1]>>)[i] = a[i]
    <3> SUFFICES ASSUME NEW i \in 1..(k + 1) PROVE (b \o <<s[k + 1]>>)[i] = a[i]
      OBVIOUS
    <3>1. CASE i = k + 1
      BY <2>3, <2>5, <3>1
    <3>2. CASE i # k + 1
      <4>1. i \in 1..k
        BY <2>1, <3>2
      <4> QED BY <2>2, <2>3, <2>5, <4>1
    <3> QED BY <3>1, <3>2
  <2>7. a = b \o <<s[k + 1]>>
    BY <2>3, <2>5, <2>6
  <2> QED BY <2>7 DEF a, b
<1>4. SubSeq(s, 1, 0) = <<>> /\ SubSeq(s, 1, Len(s)) = s
  OBVIOUS
<1> QED BY <1>2, <1>3, <1>4

\* A sequence with one more event, and perhaps a ping after it.
LEMMA SpacedMore ==
    ASSUME NEW w \in Seq(Events), NEW s \in Seq(Events), NEW pos, Spaced(w, s, pos),
           NEW e \in Events, NEW v, v = w \o <<e>> \/ v = w \o <<e, Ping>>
    PROVE  v \in Seq(Events) /\ \E q : Spaced(v, s \o <<e>>, q)
<1> DEFINE L == Len(w)
           N == Len(s)
           t == s \o <<e>>
           q == [k \in 0..Len(v) |-> IF k <= L THEN pos[k] ELSE N + 1]
<1>1. /\ L \in Nat /\ N \in Nat
      /\ t \in Seq(Events) /\ Len(t) = N + 1 /\ t[N + 1] = e
      /\ \A k \in 1..N : t[k] = s[k]
  OBVIOUS
<1>2. /\ v \in Seq(Events) /\ Len(v) \in {L + 1, L + 2}
      /\ v[L + 1] = e /\ (Len(v) = L + 2 => v[L + 2] = Ping)
      /\ \A k \in 1..L : v[k] = w[k]
  <2>1. CASE v = w \o <<e>>
    BY <2>1, <1>1
  <2>2. CASE v = w \o <<e, Ping>>
    <3>1. <<e, Ping>> \in Seq(Events) /\ Len(<<e, Ping>>) = 2
      BY PingIs
    <3> QED BY <2>2, <3>1, <1>1
  <2> QED BY <2>1, <2>2
<1>3. /\ pos \in [0..L -> 0..N] /\ pos[0] = 0 /\ pos[L] = N
      /\ \A k \in 1..L : \/ w[k] = Ping /\ pos[k] = pos[k - 1]
                         \/ pos[k] = pos[k - 1] + 1 /\ w[k] = s[pos[k]]
  BY DEF Spaced
<1> HIDE DEF L, N, t
<1>4. q \in [0..Len(v) -> 0..(N + 1)] /\ q[0] = 0 /\ q[Len(v)] = N + 1
  BY <1>1, <1>2, <1>3, SMTT(40)
<1>5. ASSUME NEW k \in 1..Len(v)
      PROVE \/ v[k] = Ping /\ q[k] = q[k - 1]
            \/ q[k] = q[k - 1] + 1 /\ v[k] = t[q[k]]
  <2>1. CASE k \in 1..L
    <3>0. /\ k \in 0..Len(v) /\ k <= L /\ k - 1 \in 0..Len(v) /\ k - 1 <= L
          /\ k \in 0..L /\ k - 1 \in 0..L
      BY SMTT(20), <1>1, <1>2, <2>1
    <3>1. q[k] = pos[k] /\ q[k - 1] = pos[k - 1] /\ v[k] = w[k] /\ pos[k] \in 0..N
          /\ pos[k - 1] \in 0..N
      BY <1>2, <1>3, <2>1, <3>0
    <3> HIDE DEF q
    <3>2. pos[k] = pos[k - 1] + 1 => t[pos[k]] = s[pos[k]]
      <4>1. pos[k] = pos[k - 1] + 1 => pos[k] \in 1..N
        BY <1>1, <3>1
      <4> QED BY <1>1, <4>1
    <3> QED BY <1>3, <2>1, <3>1, <3>2
  <2>2. CASE k = L + 1
    <3>1. q[k] = N + 1 /\ q[k - 1] = N
      <4>1. k \in 0..Len(v) /\ ~(k <= L) /\ k - 1 \in 0..Len(v) /\ k - 1 <= L /\ k - 1 = L
        BY <1>1, <1>2, <2>2, SMTT(40)
      <4> QED BY <1>3, <4>1
    <3> QED BY <1>1, <1>2, <2>2, <3>1
  <2>3. CASE k = L + 2
    <3>1. q[k] = N + 1 /\ q[k - 1] = N + 1
      <4>1. k \in 0..Len(v) /\ ~(k <= L) /\ k - 1 \in 0..Len(v) /\ ~(k - 1 <= L)
        BY <1>1, <1>2, <2>3
      <4> QED BY <4>1
    <3>2. Len(v) = L + 2
      BY <1>1, <1>2, <2>3
    <3> QED BY <1>2, <2>3, <3>1, <3>2
  <2> QED BY <1>1, <1>2, <2>1, <2>2, <2>3
<1> HIDE DEF q
<1>6. Spaced(v, t, q)
  BY <1>1, <1>4, <1>5 DEF Spaced, L
<1> QED BY <1>2, <1>6 DEF t

LEMMA PingsSpace ==
    ASSUME NEW s \in Seq(Events), NEW n \in Nat
    PROVE  WithPings(s, n) \in Seq(Events) /\ \E pos : Spaced(WithPings(s, n), s, pos)
<1> DEFINE N == Len(s)
           Upto(k) == SubSeq(s, 1, k)
<1>1. PICK run : Runs(PingStates, PingOp(n), NoPings, s, run)
                 /\ WithPings(s, n) = run[Len(s)].events
  BY PingsRun
<1>2. N \in Nat /\ \A i \in 1..N : s[i] \in Events
  OBVIOUS
<1>3. /\ \A k \in 0..N : run[k] \in PingStates /\ run[k].events \in Seq(Events)
      /\ run[0] = NoPings
  BY <1>1 DEF Runs, PingStates
<1>4. \A k \in 1..N : run[k] = PingStep(run[k - 1], s[k], n)
  <2> SUFFICES ASSUME NEW k \in 1..N PROVE run[k] = PingStep(run[k - 1], s[k], n)
    OBVIOUS
  <2>1. k - 1 \in 0..N
    BY <1>2
  <2>2. <<run[k - 1], s[k]>> \in PingStates \X Events
    BY <1>2, <1>3, <2>1
  <2>3. run[k] = PingOp(n)[<<run[k - 1], s[k]>>]
    BY <1>1 DEF Runs
  <2> QED BY <2>2, <2>3 DEF PingOp
<1> HIDE DEF N
<1>5. /\ Upto(0) = <<>> /\ Upto(N) = s
      /\ \A k \in 0..(N - 1) : Upto(k) \in Seq(Events) /\ Upto(k + 1) = Upto(k) \o <<s[k + 1]>>
  <2>1. \A k \in 0..(N - 1) : k \in 0..N
    BY <1>2
  <2> QED BY <2>1, Beginnings DEF N
<1> HIDE DEF Upto
<1> DEFINE T == {k \in 0..N : \E pos : Spaced(run[k].events, Upto(k), pos)}
<1>6. 0 \in T
  <2> DEFINE pos == [k \in 0..0 |-> 0]
  <2>1. run[0].events = <<>> /\ Upto(0) = <<>> /\ Len(<<>>) = 0
    BY <1>3, <1>5 DEF NoPings
  <2>2. Spaced(<<>>, <<>>, pos)
    BY DEF Spaced
  <2> HIDE DEF pos
  <2> QED BY <1>2, <2>1, <2>2
<1>7. ASSUME NEW k \in 0..(N - 1), k \in T PROVE k + 1 \in T
  <2>1. PICK pos : Spaced(run[k].events, Upto(k), pos)
    BY <1>7
  <2>2. k + 1 \in 1..N /\ (k + 1) - 1 = k /\ k \in 0..N /\ k + 1 \in 0..N
    BY <1>2
  <2>3. run[k + 1] = PingStep(run[k], s[k + 1], n)
    BY <1>4, <2>2
  <2>4. run[k + 1].events \in {run[k].events \o <<s[k + 1]>>, run[k].events \o <<s[k + 1], Ping>>}
    <3>1. run[k] \in PingStates /\ s[k + 1] \in Events
      BY <1>2, <1>3, <2>2
    <3>2. \/ PingStep(run[k], s[k + 1], n).events = run[k].events \o <<s[k + 1]>>
          \/ PingStep(run[k], s[k + 1], n).events = run[k].events \o <<s[k + 1], Ping>>
      BY <3>1, PingStepTyped
    <3> QED BY <2>3, <3>2
  <2>5. \E q : Spaced(run[k + 1].events, Upto(k) \o <<s[k + 1]>>, q)
    BY <1>2, <1>3, <1>5, <2>1, <2>2, <2>4, SpacedMore
  <2> QED BY <1>5, <2>2, <2>5
<1>8. N \in T
  <2>1. 0..N \subseteq T
    <3> HIDE DEF T
    <3> QED BY <1>2, <1>6, <1>7, UpTo
  <2> QED BY <1>2, <2>1
<1>9. N \in 0..N
  BY <1>2
<1> QED BY <1>1, <1>3, <1>5, <1>8, <1>9 DEF N

-----------------------------------------------------------------------------
(* Reading a stream: ReadAll as the end of a chain of readings. *)

ReadBlocks == [type : BlockTypes \cup {""}, text : Texts, sig : STRING]
Reads == [blocks : Seq(ReadBlocks), stop : STRING, tokens : Nat]
Unread == Message(<<>>, "", 0)
ReadOp == [p \in Reads \X Events |-> ReadEvent(p[1], p[2])]
ReadAll(events) == FoldLeft(ReadEvent, Unread, events)

LEMMA UnreadTyped == Unread \in Reads
<1>1. <<>> \in Seq(ReadBlocks)
  OBVIOUS
<1>2. "" \in STRING
  BY Literals
<1> QED BY <1>1, <1>2 DEF Unread, Message, Reads

LEMMA OpenedTyped ==
    ASSUME NEW blocks \in Seq(ReadBlocks), NEW e, e.index \in Indexes, e.kind \in BlockTypes
    PROVE  Opened(blocks, e) \in Seq(ReadBlocks)
<1> DEFINE n == IF e.index > Len(blocks) THEN e.index ELSE Len(blocks)
           old(i) == IF i <= Len(blocks) THEN blocks[i] ELSE Block("", <<>>, "")
           new(i) == IF i = e.index THEN [old(i) EXCEPT !.type = e.kind] ELSE old(i)
<1>1. Len(blocks) \in Nat /\ \A i \in 1..Len(blocks) : blocks[i] \in ReadBlocks
  OBVIOUS
<1>2. n \in Nat
  BY <1>1 DEF Indexes
<1>3. Block("", <<>>, "") \in ReadBlocks
  <2>1. <<>> \in Seq(STRING)
    OBVIOUS
  <2>2. "" \in STRING
    BY Literals
  <2> QED BY <2>1, <2>2 DEF Block, ReadBlocks, Texts
<1>4. ASSUME NEW i \in 1..n PROVE old(i) \in ReadBlocks
  <2>1. i \in Nat /\ i >= 1
    BY <1>2
  <2>2. CASE i <= Len(blocks)
    BY <1>1, <2>1, <2>2
  <2>3. CASE ~(i <= Len(blocks))
    BY <1>3, <2>3
  <2> QED BY <2>2, <2>3
<1>5. Opened(blocks, e) = [i \in 1..n |-> new(i)]
  BY DEF Opened
<1> HIDE DEF n, old
<1>6. \A i \in 1..n : new(i) \in ReadBlocks
  BY <1>4 DEF ReadBlocks
<1> HIDE DEF new
<1> QED BY <1>2, <1>5, <1>6

LEMMA ExtendedTyped ==
    ASSUME NEW blocks \in Seq(ReadBlocks), NEW e, e.index \in Indexes, e.text \in Texts,
           e.kind = "signature_delta" => e.text # <<>>
    PROVE  Extended(blocks, e) \in Seq(ReadBlocks)
<1>1. CASE e.index > Len(blocks)
  BY <1>1 DEF Extended
<1>2. CASE ~(e.index > Len(blocks))
  <2> DEFINE i == e.index
             b == blocks[i]
  <2>1. i \in 1..Len(blocks) /\ b \in ReadBlocks
    BY <1>2 DEF Indexes
  <2>2. b.text \o e.text \in Texts
    <3>1. b.text \in Seq(STRING) /\ e.text \in Seq(STRING)
      BY <2>1 DEF ReadBlocks, Texts
    <3> DEFINE s == b.text
               t == e.text
    <3> HIDE DEF s, t
    <3>2. s \in Seq(STRING) /\ t \in Seq(STRING)
      BY <3>1 DEF s, t
    <3>3. s \o t \in Seq(STRING)
      BY <3>2
    <3> QED BY <3>3 DEF s, t, Texts
  <2>3. e.kind = "signature_delta" => e.text[1] \in STRING
    BY DEF Texts
  <2>4. CASE e.kind = "signature_delta"
    <3>1. Extended(blocks, e) = [blocks EXCEPT ![i] = [b EXCEPT !.sig = e.text[1]]]
      BY <1>2, <2>4 DEF Extended
    <3>2. [b EXCEPT !.sig = e.text[1]] \in ReadBlocks
      BY <2>1, <2>3, <2>4 DEF ReadBlocks
    <3> QED BY <2>1, <3>1, <3>2
  <2>5. CASE e.kind # "signature_delta"
    <3>1. Extended(blocks, e) = [blocks EXCEPT ![i] = [b EXCEPT !.text = b.text \o e.text]]
      BY <1>2, <2>5 DEF Extended
    <3>2. [b EXCEPT !.text = b.text \o e.text] \in ReadBlocks
      BY <2>1, <2>2 DEF ReadBlocks
    <3> QED BY <2>1, <3>1, <3>2
  <2> QED BY <2>4, <2>5
<1> QED BY <1>1, <1>2

LEMMA ReadTyped ==
    ASSUME NEW m \in Reads, NEW e \in Events
    PROVE  ReadEvent(m, e) \in Reads
<1>1. m.blocks \in Seq(ReadBlocks) /\ m.stop \in STRING /\ m.tokens \in Nat
  BY DEF Reads
<1>2. CASE e.type = "content_block_start"
  <2>1. e.index \in Indexes /\ e.kind \in BlockTypes
    BY <1>2 DEF Events
  <2>2. Opened(m.blocks, e) \in Seq(ReadBlocks)
    BY <1>1, <2>1, OpenedTyped
  <2>3. ReadEvent(m, e) = [m EXCEPT !.blocks = Opened(m.blocks, e)]
    BY <1>2 DEF ReadEvent
  <2> QED BY <2>2, <2>3 DEF Reads
<1>3. CASE e.type = "content_block_delta"
  <2>1. /\ e.index \in Indexes /\ e.text \in Texts
        /\ e.kind = "signature_delta" => e.text # <<>>
    BY <1>3 DEF Events
  <2>2. Extended(m.blocks, e) \in Seq(ReadBlocks)
    BY <1>1, <2>1, ExtendedTyped
  <2>3. ReadEvent(m, e) = [m EXCEPT !.blocks = Extended(m.blocks, e)]
    BY <1>3 DEF ReadEvent
  <2> QED BY <2>2, <2>3 DEF Reads
<1>4. CASE e.type = "message_delta"
  <2>1. e.stop \in STRING /\ e.tokens \in Nat
    BY <1>4 DEF Events
  <2> DEFINE stop == IF e.stop # "" THEN e.stop ELSE m.stop
             tokens == IF e.tokens > 0 THEN e.tokens ELSE m.tokens
  <2>2. stop \in STRING /\ tokens \in Nat
    BY <1>1, <2>1
  <2>3. ReadEvent(m, e) = [m EXCEPT !.stop = stop, !.tokens = tokens]
    BY <1>4 DEF ReadEvent
  <2> HIDE DEF stop, tokens
  <2> QED BY <2>2, <2>3 DEF Reads
<1>5. CASE e.type \notin {"content_block_start", "content_block_delta", "message_delta"}
  <2>1. ReadEvent(m, e) = m
    BY <1>5 DEF ReadEvent
  <2> QED BY <2>1
<1> QED BY <1>2, <1>3, <1>4, <1>5

LEMMA ReadRun ==
    ASSUME NEW s \in Seq(Events)
    PROVE  \E run : Runs(Reads, ReadOp, Unread, s, run) /\ ReadAll(s) = run[Len(s)]
<1> DEFINE Is(f) == f = [u \in SUBSET (DOMAIN s) |->
                           IF u = {} THEN Unread ELSE ReadEvent(f[u \ {Max(u)}], s[Max(u)])]
           chosen == CHOOSE f : Is(f)
<1>1. /\ ReadOp \in [Reads \X Events -> Reads]
      /\ \A x \in Reads, e \in Events : ReadOp[<<x, e>>] = ReadEvent(x, e)
  BY ReadTyped DEF ReadOp
<1>2. Len(s) \in Nat /\ DOMAIN s = 1..Len(s) /\ \A i \in 1..Len(s) : s[i] \in Events
  OBVIOUS
<1>3. \A u \in SUBSET (DOMAIN s) : u # {} => Max(u) \in DOMAIN s
  BY <1>2, MaxUpTo
<1>4. \E f : Is(f)
  <2>1. PICK f : FoldRuns(Reads, ReadOp, Unread, s, f)
    BY <1>1, UnreadTyped, FoldExists
  <2>2. \A u \in SUBSET (DOMAIN s) :
          u # {} => ReadOp[<<f[u \ {Max(u)}], s[Max(u)]>>] = ReadEvent(f[u \ {Max(u)}], s[Max(u)])
    BY <2>1, <1>1, <1>2, <1>3 DEF FoldRuns
  <2>3. Is(f)
    BY <2>1, <2>2 DEF FoldRuns
  <2> QED BY <2>3
<1>5. Is(chosen)
  BY <1>4
<1>6. ReadAll(s) = chosen[DOMAIN s]
  BY DEF ReadAll, FoldLeft, MapThenFoldSet
<1> HIDE DEF chosen
<1>7. FoldsBy(Reads, Events, ReadOp, Unread, s, chosen)
  BY <1>1, <1>2, <1>3, <1>5, UnreadTyped DEF FoldsBy
<1> QED BY <1>6, <1>7, FoldChain

\* What is read of a sequence of events, one after the other.
Reading(of, st) ==
    /\ st \in [0..Len(of) -> Reads] /\ st[0] = Unread
    /\ \A j \in 1..Len(of) : st[j] = ReadEvent(st[j - 1], of[j])

LEMMA ReadsTyped ==
    ASSUME NEW s \in Seq(Events)
    PROVE  ReadAll(s) \in Reads
<1>1. PICK run : Runs(Reads, ReadOp, Unread, s, run) /\ ReadAll(s) = run[Len(s)]
  BY ReadRun
<1>2. Len(s) \in 0..Len(s)
  OBVIOUS
<1> QED BY <1>1, <1>2 DEF Runs

\* Pings say nothing: the beginning of a spaced sequence is read like that of the other one.
LEMMA ReadSpaced ==
    ASSUME NEW events \in Seq(Events), NEW of \in Seq(Events), NEW pos, Spaced(events, of, pos),
           NEW st, Reading(of, st), NEW n \in 0..Len(events)
    PROVE  pos[n] \in 0..Len(of) /\ ReadAll(SubSeq(events, 1, n)) = st[pos[n]]
<1> DEFINE s == SubSeq(events, 1, n)
<1>1. s \in Seq(Events) /\ Len(s) = n /\ n \in Nat /\ \A k \in 1..n : s[k] = events[k] /\ s[k] \in Events
  BY Beginnings
<1> HIDE DEF s
<1>2. PICK run : Runs(Reads, ReadOp, Unread, s, run) /\ ReadAll(s) = run[Len(s)]
  BY <1>1, ReadRun
<1>3. /\ \A k \in 0..n : pos[k] \in 0..Len(of)
      /\ \A k \in 1..n : \/ events[k] = Ping /\ pos[k] = pos[k - 1]
                         \/ pos[k] = pos[k - 1] + 1 /\ events[k] = of[pos[k]]
      /\ pos[0] = 0
  BY SMTT(20) DEF Spaced
<1>4. /\ run[0] = Unread
      /\ \A k \in 0..n : run[k] \in Reads
      /\ \A k \in 1..n : run[k] = ReadOp[<<run[k - 1], s[k]>>]
  BY <1>1, <1>2 DEF Runs
<1> DEFINE T == {k \in 0..n : run[k] = st[pos[k]]}
<1>5. 0 \in T
  BY <1>1, <1>3, <1>4 DEF Reading
<1>6. ASSUME NEW k \in 0..(n - 1), k \in T PROVE k + 1 \in T
  <2>1. k + 1 \in 1..n /\ (k + 1) - 1 = k /\ k \in 0..n /\ k + 1 \in 0..n
    BY <1>1
  <2>2. run[k + 1] = ReadEvent(run[k], events[k + 1])
    <3>1. <<run[k], s[k + 1]>> \in Reads \X Events
      BY <1>1, <1>4, <2>1
    <3>2. run[k + 1] = ReadOp[<<run[k], s[k + 1]>>]
      BY <1>4, <2>1
    <3> QED BY <1>1, <2>1, <3>1, <3>2 DEF ReadOp
  <2>3. run[k] = st[pos[k]]
    BY <1>6
  <2>4. CASE events[k + 1] = Ping /\ pos[k + 1] = pos[k]
    <3>1. ReadEvent(run[k], Ping) = run[k]
      BY PingIs DEF ReadEvent
    <3> QED BY <2>1, <2>2, <2>3, <2>4, <3>1
  <2>5. CASE pos[k + 1] = pos[k] + 1 /\ events[k + 1] = of[pos[k + 1]]
    <3>1. pos[k + 1] \in 1..Len(of) /\ pos[k + 1] - 1 = pos[k]
      <4>1. pos[k] \in 0..Len(of) /\ pos[k + 1] \in 0..Len(of) /\ Len(of) \in Nat
        BY <1>3, <2>1
      <4>2. pos[k + 1] = pos[k] + 1
        BY <2>5
      <4> DEFINE a == pos[k]
                 b == pos[k + 1]
      <4>3. a \in 0..Len(of) /\ b \in 0..Len(of) /\ Len(of) \in Nat /\ b = a + 1
        BY <4>1, <4>2
      <4> HIDE DEF a
      <4> HIDE DEF b
      <4>4. b \in 1..Len(of) /\ b - 1 = a
        BY <4>3
      <4> QED BY <4>4 DEF a, b
    <3>2. st[pos[k + 1]] = ReadEvent(st[pos[k + 1] - 1], of[pos[k + 1]])
      BY <3>1 DEF Reading
    <3> QED BY <2>1, <2>2, <2>3, <2>5, <3>1, <3>2
  <2> QED BY <1>3, <2>1, <2>4, <2>5
<1>7. n \in T
  <2>1. 0..n \subseteq T
    <3> HIDE DEF T
    <3> QED BY <1>1, <1>5, <1>6, UpTo
  <2> QED BY <1>1, <2>1
<1> QED BY <1>1, <1>2, <1>3, <1>7 DEF s

-----------------------------------------------------------------------------
(* Texts cut into chunks. *)

IsPace(p) == p.chunk \in Int /\ p.ping \in Nat

\* How much of a text is in its first k chunks.
Taken(len, n, k) == IF k * n > len THEN len ELSE k * n

LEMMA ChunkCount ==
    ASSUME NEW len \in Nat, NEW n \in Nat \ {0}
    PROVE  /\ (len + n - 1) \div n \in Nat
           /\ len <= ((len + n - 1) \div n) * n
           /\ \A k \in 1..((len + n - 1) \div n) : (k - 1) * n < len
<1>1. (len + n - 1) \div n \in Nat
  OBVIOUS
<1>2. len <= ((len + n - 1) \div n) * n
  OBVIOUS
<1>3. ((len + n - 1) \div n) * n <= len + n - 1
  OBVIOUS
<1> DEFINE c == (len + n - 1) \div n
<1> HIDE DEF c
<1>4. \A k \in 1..c : (k - 1) * n < len
  <2> SUFFICES ASSUME NEW k \in 1..c PROVE (k - 1) * n < len
    OBVIOUS
  <2>1. c \in Nat /\ c * n <= len + n - 1
    BY <1>1, <1>3 DEF c
  <2>2. k \in Nat /\ k * n <= c * n
    BY <2>1
  <2>3. (k - 1) * n = k * n - n
    BY <2>2
  <2>4. k * n \in Nat /\ c * n \in Nat
    BY <2>1, <2>2
  <2> QED BY <2>1, <2>2, <2>3, <2>4
<1> QED BY <1>1, <1>2, <1>4 DEF c

LEMMA TakenGrows ==
    ASSUME NEW len \in Nat, NEW n \in Nat \ {0}
    PROVE  LET c == (len + n - 1) \div n IN
           /\ Taken(len, n, 0) = 0
           /\ \A k \in Nat : Taken(len, n, k) \in 0..len
           /\ \A k \in Nat : k >= c => Taken(len, n, k) = len
           /\ \A k \in 1..c : /\ Taken(len, n, k - 1) = (k - 1) * n
                              /\ Taken(len, n, k - 1) < Taken(len, n, k)
<1> DEFINE c == (len + n - 1) \div n
<1>1. /\ c \in Nat /\ len <= c * n
      /\ \A k \in 1..c : (k - 1) * n < len
  BY ChunkCount
<1> HIDE DEF c
<1>2. Taken(len, n, 0) = 0
  BY DEF Taken
<1>3. \A k \in Nat : Taken(len, n, k) \in 0..len
  <2> SUFFICES ASSUME NEW k \in Nat PROVE Taken(len, n, k) \in 0..len
    OBVIOUS
  <2>1. k * n \in Nat
    OBVIOUS
  <2> QED BY <2>1 DEF Taken
<1>4. ASSUME NEW k \in Nat, k >= c PROVE Taken(len, n, k) = len
  <2>1. k * n >= c * n /\ k * n \in Nat /\ c * n \in Nat
    BY <1>1, <1>4
  <2> QED BY <1>1, <2>1 DEF Taken
<1>5. ASSUME NEW k \in 1..c
      PROVE  /\ Taken(len, n, k - 1) = (k - 1) * n
             /\ Taken(len, n, k - 1) < Taken(len, n, k)
  <2>1. (k - 1) * n < len /\ k \in Nat /\ (k - 1) * n = k * n - n /\ k * n \in Nat
    BY <1>1
  <2>2. (k - 1) * n \in Nat
    BY <1>1
  <2> QED BY <2>1, <2>2 DEF Taken
<1> QED BY <1>2, <1>3, <1>4, <1>5 DEF c

LEMMA ChunksAre ==
    ASSUME NEW S, NEW s \in Seq(S), NEW n \in Nat \ {0}
    PROVE  LET c == (Len(s) + n - 1) \div n IN
           /\ c \in Nat
           /\ Chunks(s, n) \in Seq(Seq(S)) /\ Len(Chunks(s, n)) = c
           /\ DOMAIN Chunks(s, n) = 1..c
           /\ \A k \in 1..c :
                Chunks(s, n)[k] = SubSeq(s, Taken(Len(s), n, k - 1) + 1, Taken(Len(s), n, k))
<1> DEFINE c == (Len(s) + n - 1) \div n
           len == Len(s)
<1>1. len \in Nat /\ c \in Nat /\ \A i \in 1..len : s[i] \in S
  <2>1. len \in Nat
    OBVIOUS
  <2> QED BY <2>1, ChunkCount
<1>2. Chunks(s, n) = [k \in 1..c |-> SubSeq(s, (k - 1) * n + 1, IF k * n > len THEN len ELSE k * n)]
  BY DEF Chunks
<1>3. /\ \A k \in Nat : Taken(len, n, k) \in 0..len
      /\ \A k \in 1..c : Taken(len, n, k - 1) = (k - 1) * n
  BY <1>1, TakenGrows
<1> HIDE DEF c, len
<1>4. Chunks(s, n) = [k \in 1..c |-> SubSeq(s, Taken(len, n, k - 1) + 1, Taken(len, n, k))]
  <2>1. \A k \in 1..c : SubSeq(s, (k - 1) * n + 1, IF k * n > len THEN len ELSE k * n)
                         = SubSeq(s, Taken(len, n, k - 1) + 1, Taken(len, n, k))
    BY <1>3 DEF Taken
  <2> QED BY <1>2, <2>1
<1>5. \A k \in 1..c : SubSeq(s, Taken(len, n, k - 1) + 1, Taken(len, n, k)) \in Seq(S)
  <2> SUFFICES ASSUME NEW k \in 1..c
               PROVE SubSeq(s, Taken(len, n, k - 1) + 1, Taken(len, n, k)) \in Seq(S)
    OBVIOUS
  <2>1. k \in Nat /\ k - 1 \in Nat
    BY <1>1
  <2>2. Taken(len, n, k - 1) \in 0..len /\ Taken(len, n, k) \in 0..len
    BY <1>3, <2>1
  <2> DEFINE a == Taken(len, n, k - 1)
             b == Taken(len, n, k)
  <2>3. a \in 0..len /\ b \in 0..len
    BY <2>2
  <2> HIDE DEF a, b
  <2>4. \A i \in (a + 1)..b : s[i] \in S
    BY <1>1, <2>3
  <2>5. SubSeq(s, a + 1, b) \in Seq(S)
    BY <1>1, <2>3, <2>4
  <2> QED BY <2>5 DEF a, b
<1> DEFINE part(k) == SubSeq(s, Taken(len, n, k - 1) + 1, Taken(len, n, k))
<1>6. Chunks(s, n) = [k \in 1..c |-> part(k)] /\ \A k \in 1..c : part(k) \in Seq(S)
  BY <1>4, <1>5
<1> HIDE DEF part
<1> DEFINE r == Chunks(s, n)
<1>7. r \in Seq(Seq(S)) /\ Len(r) = c /\ DOMAIN r = 1..c /\ \A k \in 1..c : r[k] = part(k)
  <2> HIDE DEF r
  <2>1. r = [k \in 1..c |-> part(k)]
    BY <1>6 DEF r
  <2> QED BY <1>1, <1>6, <2>1
<1> QED BY <1>1, <1>7 DEF c, len, part

LEMMA Joined ==
    ASSUME NEW S, NEW s \in Seq(S), NEW t \in Seq(S)
    PROVE  /\ s \o t \in Seq(S) /\ Len(s \o t) = Len(s) + Len(t)
           /\ \A i \in 1..Len(s) : (s \o t)[i] = s[i]
           /\ \A i \in 1..Len(t) : (s \o t)[Len(s) + i] = t[i]
<1>1. Len(s) \in Nat /\ Len(t) \in Nat /\ s \o t \in Seq(S) /\ Len(s \o t) = Len(s) + Len(t)
  OBVIOUS
<1>2. \A i \in 1..Len(s) : (s \o t)[i] = s[i]
  OBVIOUS
<1>3. ASSUME NEW i \in 1..Len(t) PROVE (s \o t)[Len(s) + i] = t[i]
  <2> DEFINE p == Len(s) + i
  <2>1. p \in 1..(Len(s) + Len(t)) /\ ~(p <= Len(s)) /\ p - Len(s) = i
    BY <1>1
  <2> HIDE DEF p
  <2>2. (s \o t)[p] = t[p - Len(s)]
    BY <1>1, <2>1
  <2> QED BY <2>1, <2>2 DEF p
<1> QED BY <1>1, <1>2, <1>3

LEMMA SameSeq ==
    ASSUME NEW S, NEW s \in Seq(S), NEW t \in Seq(S), Len(s) = Len(t),
           \A i \in 1..Len(s) : s[i] = t[i]
    PROVE  s = t
OBVIOUS

LEMMA PartIs ==
    ASSUME NEW S, NEW s \in Seq(S), NEW a \in 0..Len(s), NEW b \in 0..Len(s), a <= b
    PROVE  /\ SubSeq(s, a + 1, b) \in Seq(S) /\ Len(SubSeq(s, a + 1, b)) = b - a
           /\ \A i \in 1..(b - a) : SubSeq(s, a + 1, b)[i] = s[a + i]
<1>1. Len(s) \in Nat /\ a \in Nat /\ b \in Nat /\ \A i \in 1..Len(s) : s[i] \in S
  OBVIOUS
<1>2. (\A i \in (a + 1)..b : s[i] \in S) /\ a + 1 \in Int /\ b \in Int
  BY <1>1
<1>3. SubSeq(s, a + 1, b) \in Seq(S)
  BY <1>1, <1>2
<1>4. Len(SubSeq(s, a + 1, b)) = b - a
  BY <1>1
<1>5. \A i \in 1..(b - a) : SubSeq(s, a + 1, b)[i] = s[a + i]
  <2> SUFFICES ASSUME NEW i \in 1..(b - a) PROVE SubSeq(s, a + 1, b)[i] = s[a + i]
    OBVIOUS
  <2>1. a + 1 + i - 1 = a + i
    BY <1>1
  <2> QED BY <1>1, <1>4, <2>1
<1> QED BY <1>3, <1>4, <1>5

LEMMA PartsJoin ==
    ASSUME NEW S, NEW s \in Seq(S), NEW a \in 0..Len(s), NEW b \in 0..Len(s), a <= b
    PROVE  SubSeq(s, 1, a) \o SubSeq(s, a + 1, b) = SubSeq(s, 1, b)
<1> DEFINE x == SubSeq(s, 1, a)
           y == SubSeq(s, a + 1, b)
           z == SubSeq(s, 1, b)
<1>1. a \in Nat /\ b \in Nat /\ Len(s) \in Nat
  OBVIOUS
<1>2. x \in Seq(S) /\ Len(x) = a /\ \A i \in 1..a : x[i] = s[i]
  BY Beginnings
<1>3. z \in Seq(S) /\ Len(z) = b /\ \A i \in 1..b : z[i] = s[i]
  BY Beginnings
<1>4. y \in Seq(S) /\ Len(y) = b - a /\ \A i \in 1..(b - a) : y[i] = s[a + i]
  BY PartIs
<1> HIDE DEF x, y, z
<1>5. /\ x \o y \in Seq(S) /\ Len(x \o y) = Len(x) + Len(y)
      /\ \A i \in 1..Len(x) : (x \o y)[i] = x[i]
      /\ \A i \in 1..Len(y) : (x \o y)[Len(x) + i] = y[i]
  <2>1. x \in Seq(S) /\ y \in Seq(S)
    BY <1>2, <1>4
  <2> QED BY <2>1, Joined
<1> DEFINE w == x \o y
<1> HIDE DEF w
<1>6. ASSUME NEW i \in 1..b PROVE w[i] = z[i]
  <2>1. CASE i <= a
    <3>1. i \in 1..a
      BY <1>1, <2>1
    <3> QED BY <1>2, <1>3, <1>5, <3>1 DEF w
  <2>2. CASE ~(i <= a)
    <3> DEFINE j == i - a
    <3>1. j \in 1..(b - a) /\ a + j = i
      BY <1>1, <2>2
    <3> HIDE DEF j
    <3>2. w[a + j] = y[j]
      BY <1>2, <1>4, <1>5, <3>1 DEF w
    <3> QED BY <1>3, <1>4, <3>1, <3>2
  <2> QED BY <2>1, <2>2
<1>7. w \in Seq(S) /\ Len(w) = b
  BY <1>1, <1>2, <1>4, <1>5 DEF w
<1>8. w = z
  BY <1>3, <1>6, <1>7, SameSeq
<1> QED BY <1>8 DEF w, x, y, z

\* chunkRunes (sim_sse.go) loses nothing and repeats nothing, whatever the size of a chunk.
THEOREM ChunksWhole ==
    ASSUME NEW S, NEW s \in Seq(S), NEW n \in Nat \ {0}
    PROVE  FlattenSeq(Chunks(s, n)) = s
<1> DEFINE len == Len(s)
           c == (Len(s) + n - 1) \div n
           parts == Chunks(s, n)
           r == FlattenSeq(parts)
           taken(k) == Taken(Len(s), n, k)
<1>0. len \in Nat /\ c \in Nat
  <2>1. len \in Nat
    OBVIOUS
  <2> QED BY <2>1, ChunkCount
<1>1. /\ parts \in Seq(Seq(S)) /\ Len(parts) = c
      /\ \A k \in 1..c : parts[k] = SubSeq(s, taken(k - 1) + 1, taken(k))
  BY ChunksAre
<1>2. /\ taken(0) = 0
      /\ \A k \in Nat : taken(k) \in 0..len
      /\ \A k \in Nat : k >= c => taken(k) = len
      /\ \A k \in 1..c : taken(k - 1) < taken(k)
  BY <1>0, TakenGrows
<1> HIDE DEF len, parts, c, taken
<1>3. ASSUME NEW k \in 1..c
      PROVE  /\ Len(parts[k]) = taken(k) - taken(k - 1)
             /\ \A i \in 1..Len(parts[k]) : parts[k][i] = s[taken(k - 1) + i]
  <2> DEFINE a == taken(k - 1)
             b == taken(k)
  <2>1. k \in Nat /\ k - 1 \in Nat
    BY <1>0
  <2>2. a \in 0..Len(s) /\ b \in 0..Len(s) /\ a <= b
    BY <1>2, <2>1 DEF len
  <2>3. parts[k] = SubSeq(s, a + 1, b)
    BY <1>1
  <2> HIDE DEF a, b
  <2>4. Len(parts[k]) = b - a /\ \A i \in 1..(b - a) : parts[k][i] = s[a + i]
    BY <2>2, <2>3, PartIs
  <2> QED BY <2>4 DEF a, b
<1>4. r \in Seq(S)
  <2>1. parts \in Seq(Seq(S)) /\ r = FlattenSeq(parts)
    BY <1>1
  <2> HIDE DEF r
  <2> QED BY <2>1, FlattenAt, Zenon
<1>5. PICK at : /\ Places(parts, at) /\ Len(r) = at[c]
                /\ \A k \in 1..c : \A i \in 1..Len(parts[k]) : r[at[k - 1] + i] = parts[k][i]
  <2>1. PICK at : /\ Places(parts, at) /\ Len(FlattenSeq(parts)) = at[Len(parts)]
                  /\ \A k \in 1..Len(parts) : \A i \in 1..Len(parts[k]) :
                         FlattenSeq(parts)[at[k - 1] + i] = parts[k][i]
    <3>1. parts \in Seq(Seq(S))
      BY <1>1
    <3> QED BY <3>1, FlattenAt, Zenon
  <2> QED BY <1>1, <2>1
<1> HIDE DEF r
<1>6. /\ \A k \in 0..c : at[k] \in Nat
      /\ at[0] = 0 /\ \A k \in 1..c : at[k] = at[k - 1] + Len(parts[k])
  BY <1>1, <1>5 DEF Places
<1> DEFINE T == {k \in 0..c : at[k] = taken(k)}
<1>7. 0 \in T
  BY <1>0, <1>2, <1>6
<1>8. ASSUME NEW k \in 0..(c - 1), k \in T PROVE k + 1 \in T
  <2>1. k + 1 \in 1..c /\ k + 1 \in 0..c /\ (k + 1) - 1 = k /\ k \in Nat /\ k + 1 \in Nat
    BY <1>0
  <2>2. at[k + 1] = taken(k) + (taken(k + 1) - taken(k))
    BY <1>3, <1>6, <1>8, <2>1
  <2>3. taken(k) \in Int /\ taken(k + 1) \in Int
    BY <1>0, <1>2, <2>1
  <2> QED BY <2>1, <2>2, <2>3
<1>9. 0..c \subseteq T
  <2> HIDE DEF T
  <2> QED BY <1>0, <1>7, <1>8, UpTo
<1>10. \A k \in 0..c : at[k] = taken(k)
  BY <1>9
<1>11. Len(r) = len
  <2>1. c \in 0..c /\ c \in Nat /\ c >= c
    BY <1>0
  <2> QED BY <1>2, <1>5, <1>10, <2>1
<1>12. ASSUME NEW p \in 1..len PROVE r[p] = s[p]
  <2>1. p \in 1..at[Len(parts)]
    BY <1>1, <1>5, <1>11
  <2>2. PICK k \in 1..c : \E i \in 1..Len(parts[k]) : p = at[k - 1] + i
    <3>1. \E k \in 1..Len(parts) : \E i \in 1..Len(parts[k]) : p = at[k - 1] + i
      <4>1. Parts(S, parts, at)
        BY <1>1, <1>5, Zenon DEF Parts
      <4> QED BY <2>1, <4>1, Placed
    <3> QED BY <1>1, <3>1
  <2>3. PICK i \in 1..Len(parts[k]) : p = at[k - 1] + i
    BY <2>2
  <2>4. k - 1 \in 0..c
    BY <1>0
  <2>5. r[at[k - 1] + i] = parts[k][i] /\ parts[k][i] = s[taken(k - 1) + i]
    BY <1>3, <1>5
  <2> QED BY <1>10, <2>3, <2>4, <2>5
<1>13. r = s
  BY <1>4, <1>11, <1>12, SameSeq DEF len
<1> QED BY <1>13 DEF r, parts

-----------------------------------------------------------------------------
(* The events of one block. *)

\* The number of the chunks of a block, and of its events.
Pieces(b, p) == (Len(b.text) + ChunkSize(p) - 1) \div ChunkSize(p)
Size(b, p) == Pieces(b, p) + (IF b.type = "thinking" THEN 3 ELSE 2)
TextUpTo(b, p, k) == SubSeq(b.text, 1, Taken(Len(b.text), ChunkSize(p), k))
Chunk(b, p, k) == SubSeq(b.text, Taken(Len(b.text), ChunkSize(p), k - 1) + 1,
                         Taken(Len(b.text), ChunkSize(p), k))

LEMMA ChunkSizeTyped == ASSUME NEW p, IsPace(p) PROVE ChunkSize(p) \in Nat \ {0}
BY DEF IsPace, ChunkSize

LEMMA BlockTyped ==
    ASSUME NEW b \in Blocks
    PROVE  b.type \in BlockTypes /\ b.text \in Texts /\ b.sig \in STRING
           /\ b = Block(b.type, b.text, b.sig)
BY DEF Blocks, Texts, Block

LEMMA EventsTyped ==
    /\ \A t \in {"message_start", "ping", "message_stop", "error"} : Plain(t) \in Events
    /\ \A i \in Indexes, t \in BlockTypes :
         /\ BlockEvent("content_block_start", i, t) \in Events
         /\ BlockEvent("content_block_stop", i, t) \in Events
    /\ \A i \in Indexes, t \in BlockTypes, x \in Texts : Delta(i, DeltaOf(t), x) \in Events
    /\ \A i \in Indexes, x \in Texts \ {<<>>} : Delta(i, "signature_delta", x) \in Events
    /\ \A s \in STRING, n \in Nat : [type |-> "message_delta", stop |-> s, tokens |-> n] \in Events
<1>1. \A t \in {"message_start", "ping", "message_stop", "error"} : Plain(t) \in Events
  BY DEF Plain, Events
<1>2. \A i \in Indexes, t \in BlockTypes :
         /\ BlockEvent("content_block_start", i, t) \in Events
         /\ BlockEvent("content_block_stop", i, t) \in Events
  BY DEF BlockEvent, Events
<1>3. \A i \in Indexes, t \in BlockTypes, x \in Texts : Delta(i, DeltaOf(t), x) \in Events
  <2>1. \A t \in BlockTypes : DeltaOf(t) \in {"text_delta", "thinking_delta", "input_json_delta"}
    BY DEF DeltaOf
  <2> QED BY <2>1 DEF Delta, Events
<1>4. \A i \in Indexes, x \in Texts \ {<<>>} : Delta(i, "signature_delta", x) \in Events
  BY DEF Delta, Events
<1>5. \A s \in STRING, n \in Nat : [type |-> "message_delta", stop |-> s, tokens |-> n] \in Events
  BY DEF Events
<1> QED BY <1>1, <1>2, <1>3, <1>4, <1>5

LEMMA ChunkTyped ==
    ASSUME NEW b \in Blocks, NEW p, IsPace(p)
    PROVE  /\ Pieces(b, p) \in Nat
           /\ DOMAIN Chunks(b.text, ChunkSize(p)) = 1..Pieces(b, p)
           /\ \A k \in 1..Pieces(b, p) : /\ Chunk(b, p, k) \in Texts
                                        /\ Chunks(b.text, ChunkSize(p))[k] = Chunk(b, p, k)
<1> DEFINE s == b.text
           n == ChunkSize(p)
<1>1. s \in Seq(STRING) /\ n \in Nat \ {0}
  BY ChunkSizeTyped, BlockTyped DEF Texts
<1>2. LET c == (Len(s) + n - 1) \div n IN
           /\ c \in Nat
           /\ Chunks(s, n) \in Seq(Seq(STRING)) /\ Len(Chunks(s, n)) = c
           /\ DOMAIN Chunks(s, n) = 1..c
           /\ \A k \in 1..c :
                Chunks(s, n)[k] = SubSeq(s, Taken(Len(s), n, k - 1) + 1, Taken(Len(s), n, k))
  <2> HIDE DEF s, n
  <2> QED BY <1>1, ChunksAre
<1>3. /\ Pieces(b, p) \in Nat /\ Chunks(s, n) \in Seq(Seq(STRING))
      /\ Len(Chunks(s, n)) = Pieces(b, p) /\ DOMAIN Chunks(s, n) = 1..Pieces(b, p)
      /\ \A k \in 1..Pieces(b, p) : Chunks(s, n)[k] = Chunk(b, p, k)
  BY <1>2 DEF Pieces, Chunk
<1> DEFINE cs == Chunks(s, n)
           c == Pieces(b, p)
<1>4. cs \in Seq(Seq(STRING)) /\ Len(cs) = c /\ c \in Nat /\ \A k \in 1..c : cs[k] = Chunk(b, p, k)
  BY <1>3
<1> HIDE DEF cs, c
<1>5. \A k \in 1..c : cs[k] \in Seq(STRING)
  BY <1>4
<1>6. \A k \in 1..c : Chunk(b, p, k) \in Texts
  BY <1>4, <1>5 DEF Texts
<1> QED BY <1>3, <1>6 DEF c

LEMMA BlockEventsAre ==
    ASSUME NEW b \in Blocks, NEW i \in Indexes, NEW p, IsPace(p)
    PROVE  /\ Pieces(b, p) \in Nat
           /\ BlockEvents(b, i, p) \in Seq(Events) /\ Len(BlockEvents(b, i, p)) = Size(b, p)
           /\ BlockEvents(b, i, p)[1] = BlockEvent("content_block_start", i, b.type)
           /\ \A k \in 1..Pieces(b, p) :
                BlockEvents(b, i, p)[1 + k] = Delta(i, DeltaOf(b.type), Chunk(b, p, k))
           /\ b.type = "thinking" =>
                BlockEvents(b, i, p)[Pieces(b, p) + 2] = Delta(i, "signature_delta", <<b.sig>>)
           /\ BlockEvents(b, i, p)[Size(b, p)] = BlockEvent("content_block_stop", i, b.type)
<1> DEFINE c == Pieces(b, p)
           start == <<BlockEvent("content_block_start", i, b.type)>>
           deltas == [k \in 1..c |-> Delta(i, DeltaOf(b.type), Chunk(b, p, k))]
           signed == IF b.type = "thinking" THEN <<Delta(i, "signature_delta", <<b.sig>>)>> ELSE <<>>
           stop == <<BlockEvent("content_block_stop", i, b.type)>>
           x == start \o deltas
           y == x \o signed
           z == y \o stop
<1>0. c \in Nat /\ b.type \in BlockTypes /\ b.text \in Texts /\ b.sig \in STRING
  BY ChunkTyped, BlockTyped
<1>1. BlockEvents(b, i, p) = z
  <2>1. [k \in DOMAIN Chunks(b.text, ChunkSize(p)) |->
           Delta(i, DeltaOf(b.type), Chunks(b.text, ChunkSize(p))[k])] = deltas
    BY ChunkTyped
  <2> HIDE DEF deltas
  <2> QED BY <2>1 DEF BlockEvents
<1>2. start \in Seq(Events) /\ Len(start) = 1
      /\ start[1] = BlockEvent("content_block_start", i, b.type)
  BY <1>0, EventsTyped
<1>3. stop \in Seq(Events) /\ Len(stop) = 1
      /\ stop[1] = BlockEvent("content_block_stop", i, b.type)
  BY <1>0, EventsTyped
<1>4. deltas \in Seq(Events) /\ Len(deltas) = c
      /\ \A k \in 1..c : deltas[k] = Delta(i, DeltaOf(b.type), Chunk(b, p, k))
  <2> DEFINE d(k) == Delta(i, DeltaOf(b.type), Chunk(b, p, k))
  <2>1. \A k \in 1..c : d(k) \in Events
    BY <1>0, ChunkTyped, EventsTyped
  <2> HIDE DEF d, c
  <2>2. [k \in 1..c |-> d(k)] \in Seq(Events) /\ Len([k \in 1..c |-> d(k)]) = c
    BY <1>0, <2>1
  <2> QED BY <2>2 DEF d
<1>5. /\ signed \in Seq(Events)
      /\ Len(signed) = IF b.type = "thinking" THEN 1 ELSE 0
      /\ b.type = "thinking" => signed[1] = Delta(i, "signature_delta", <<b.sig>>)
  <2>1. CASE b.type = "thinking"
    <3>1. <<b.sig>> \in Seq(STRING) /\ <<b.sig>> # <<>>
      BY <1>0
    <3>2. Delta(i, "signature_delta", <<b.sig>>) \in Events
      BY <3>1, EventsTyped DEF Texts
    <3>3. signed = <<Delta(i, "signature_delta", <<b.sig>>)>>
      BY <2>1
    <3> DEFINE e == Delta(i, "signature_delta", <<b.sig>>)
    <3> HIDE DEF e, signed
    <3>4. signed = <<e>> /\ e \in Events
      BY <3>2, <3>3 DEF e
    <3>5. signed \in Seq(Events) /\ Len(signed) = 1 /\ signed[1] = e
      BY <3>4
    <3> QED BY <2>1, <3>5 DEF e
  <2>2. CASE b.type # "thinking"
    <3>1. signed = <<>>
      BY <2>2
    <3> HIDE DEF signed
    <3>2. signed \in Seq(Events) /\ Len(signed) = 0
      BY <3>1
    <3> QED BY <2>2, <3>2
  <2> QED BY <2>1, <2>2
<1> HIDE DEF start, stop, deltas, signed
<1>6. /\ x \in Seq(Events) /\ Len(x) = 1 + c /\ x[1] = start[1]
      /\ \A k \in 1..c : x[1 + k] = deltas[k]
  <2>1. start \in Seq(Events) /\ deltas \in Seq(Events)
    BY <1>2, <1>4
  <2>2. /\ x \in Seq(Events) /\ Len(x) = Len(start) + Len(deltas)
        /\ \A k \in 1..Len(start) : x[k] = start[k]
        /\ \A k \in 1..Len(deltas) : x[Len(start) + k] = deltas[k]
    BY <2>1, Joined
  <2> HIDE DEF x, c
  <2>3. 1 \in 1..Len(start) /\ Len(start) = 1 /\ Len(deltas) = c
    BY <1>2, <1>4
  <2> QED BY <2>2, <2>3
<1> HIDE DEF x
<1>7. /\ y \in Seq(Events) /\ Len(y) = 1 + c + Len(signed) /\ Len(signed) \in {0, 1}
      /\ \A k \in 1..(1 + c) : y[k] = x[k]
      /\ \A k \in 1..Len(signed) : y[1 + c + k] = signed[k]
  <2>1. /\ y \in Seq(Events) /\ Len(y) = Len(x) + Len(signed)
        /\ \A k \in 1..Len(x) : y[k] = x[k]
        /\ \A k \in 1..Len(signed) : y[Len(x) + k] = signed[k]
    <3>1. x \in Seq(Events) /\ signed \in Seq(Events)
      BY <1>5, <1>6
    <3> QED BY <3>1, Joined
  <2>2. Len(signed) \in {0, 1} /\ Len(x) = 1 + c
    BY <1>5, <1>6
  <2> HIDE DEF y, c
  <2> QED BY <2>1, <2>2
<1> HIDE DEF y
<1>8. /\ z \in Seq(Events) /\ Len(z) = 2 + c + Len(signed)
      /\ \A k \in 1..(1 + c + Len(signed)) : z[k] = y[k]
      /\ z[2 + c + Len(signed)] = stop[1]
  <2>1. /\ z \in Seq(Events) /\ Len(z) = Len(y) + Len(stop)
        /\ \A k \in 1..Len(y) : z[k] = y[k]
        /\ \A k \in 1..Len(stop) : z[Len(y) + k] = stop[k]
    <3>1. y \in Seq(Events) /\ stop \in Seq(Events)
      BY <1>3, <1>7
    <3> QED BY <3>1, Joined
  <2>2. Len(y) + 1 = 2 + c + Len(signed) /\ 1 \in 1..Len(stop)
    BY <1>0, <1>3, <1>7
  <2> QED BY <1>0, <1>3, <1>7, <2>1, <2>2
<1> HIDE DEF z
<1>9. Size(b, p) = 2 + c + Len(signed)
  <2>1. Len(signed) = IF b.type = "thinking" THEN 1 ELSE 0
    BY <1>5
  <2>2. Size(b, p) = c + (IF b.type = "thinking" THEN 3 ELSE 2)
    BY DEF Size
  <2> HIDE DEF c
  <2>3. CASE b.type = "thinking"
    BY <1>0, <2>1, <2>2, <2>3
  <2>4. CASE b.type # "thinking"
    BY <1>0, <2>1, <2>2, <2>4
  <2> QED BY <2>3, <2>4
<1>10. z[1] = BlockEvent("content_block_start", i, b.type)
  BY <1>0, <1>2, <1>6, <1>7, <1>8
<1>11. ASSUME NEW k \in 1..c PROVE z[1 + k] = Delta(i, DeltaOf(b.type), Chunk(b, p, k))
  <2>1. 1 + k \in 1..(1 + c) /\ 1 + k \in 1..(1 + c + Len(signed))
    BY <1>0, <1>7
  <2> QED BY <1>4, <1>6, <1>7, <1>8, <2>1
<1>12. ASSUME b.type = "thinking" PROVE z[c + 2] = Delta(i, "signature_delta", <<b.sig>>)
  <2> HIDE DEF c
  <2>1. Len(signed) = 1 /\ 1 \in 1..Len(signed) /\ c + 2 = 1 + c + 1
    BY <1>0, <1>5, <1>12
  <2>2. y[1 + c + 1] = signed[1] /\ c + 2 \in 1..(1 + c + Len(signed))
    BY <1>0, <1>7, <2>1
  <2> QED BY <1>5, <1>8, <1>12, <2>1, <2>2
<1>13. c = Pieces(b, p)
  BY DEF c
<1> HIDE DEF c
<1> QED BY <1>0, <1>1, <1>3, <1>8, <1>9, <1>10, <1>11, <1>12, <1>13

-----------------------------------------------------------------------------
(* A stream without its pings. *)

\* The events of a message without the pings.
Bodies(m, p) == [i \in DOMAIN m.blocks |-> BlockEvents(m.blocks[i], i, p)]
Body(m, p) == FlattenSeq(Bodies(m, p))
End(m) == [type |-> "message_delta", stop |-> m.stop, tokens |-> m.tokens]
Bare(m, p) == <<Plain("message_start")>> \o Body(m, p) \o <<End(m), Plain("message_stop")>>

\* Where the events of its blocks are.
Lays(m, p, at) ==
    /\ at \in [0..Len(m.blocks) -> Nat] /\ at[0] = 1
    /\ \A i \in 1..Len(m.blocks) : at[i] = at[i - 1] + Size(m.blocks[i], p)
    /\ \A i, j \in 0..Len(m.blocks) : i <= j => at[i] <= at[j]
    /\ Len(Bare(m, p)) = at[Len(m.blocks)] + 2
    /\ Bare(m, p)[1] = Plain("message_start")
    /\ Bare(m, p)[at[Len(m.blocks)] + 1] = End(m)
    /\ Bare(m, p)[at[Len(m.blocks)] + 2] = Plain("message_stop")
    /\ \A i \in 1..Len(m.blocks) : \A k \in 1..Size(m.blocks[i], p) :
         Bare(m, p)[at[i - 1] + k] = BlockEvents(m.blocks[i], i, p)[k]
    /\ \A j \in 2..at[Len(m.blocks)] :
         \E i \in 1..Len(m.blocks) : \E k \in 1..Size(m.blocks[i], p) : j = at[i - 1] + k

LEMMA MessageTyped ==
    ASSUME NEW m, IsMessage(m)
    PROVE  /\ m.blocks \in Seq(Blocks) /\ Len(m.blocks) \in Nat
           /\ DOMAIN m.blocks = 1..Len(m.blocks)
           /\ \A i \in 1..Len(m.blocks) : m.blocks[i] \in Blocks
           /\ m.stop \in STRING /\ m.stop # "" /\ m.tokens \in Nat
           /\ m = Message(m.blocks, m.stop, m.tokens)
<1>1. m.blocks \in Seq(Blocks) /\ m.stop \in STRING \ {""} /\ m.tokens \in Nat
      /\ m = Message(m.blocks, m.stop, m.tokens)
  BY DEF IsMessage, Message
<1> DEFINE bs == m.blocks
<1>2. bs \in Seq(Blocks)
  BY <1>1
<1> HIDE DEF bs
<1>3. Len(bs) \in Nat /\ DOMAIN bs = 1..Len(bs) /\ \A i \in 1..Len(bs) : bs[i] \in Blocks
  BY <1>2
<1> QED BY <1>1, <1>3 DEF bs

LEMMA BodyTyped ==
    ASSUME NEW m, IsMessage(m), NEW p, IsPace(p)
    PROVE  /\ Bodies(m, p) \in Seq(Seq(Events)) /\ Len(Bodies(m, p)) = Len(m.blocks)
           /\ \A i \in 1..Len(m.blocks) :
                /\ Bodies(m, p)[i] = BlockEvents(m.blocks[i], i, p)
                /\ Len(Bodies(m, p)[i]) = Size(m.blocks[i], p)
                /\ Size(m.blocks[i], p) \in Nat /\ Size(m.blocks[i], p) >= 2
           /\ Body(m, p) \in Seq(Events) /\ End(m) \in Events
<1> DEFINE N == Len(m.blocks)
           ev(i) == BlockEvents(m.blocks[i], i, p)
           bodies == Bodies(m, p)
<1>1. N \in Nat /\ DOMAIN m.blocks = 1..N
  BY MessageTyped
<1>2. ASSUME NEW i \in 1..N
      PROVE  /\ ev(i) \in Seq(Events) /\ Len(ev(i)) = Size(m.blocks[i], p)
             /\ Size(m.blocks[i], p) \in Nat /\ Size(m.blocks[i], p) >= 2
  <2>0. i \in Indexes
    BY <1>1 DEF Indexes
  <2>1. i \in Indexes /\ m.blocks[i] \in Blocks
    BY <2>0, MessageTyped
  <2>2. ev(i) \in Seq(Events) /\ Len(ev(i)) = Size(m.blocks[i], p) /\ Pieces(m.blocks[i], p) \in Nat
    <3>1. \A b \in Blocks, j \in Indexes :
             /\ BlockEvents(b, j, p) \in Seq(Events) /\ Len(BlockEvents(b, j, p)) = Size(b, p)
             /\ Pieces(b, p) \in Nat
      BY BlockEventsAre
    <3> QED BY <2>1, <3>1, Zenon
  <2>3. Size(m.blocks[i], p) = Pieces(m.blocks[i], p) + 2
        \/ Size(m.blocks[i], p) = Pieces(m.blocks[i], p) + 3
    BY DEF Size
  <2> HIDE DEF ev
  <2> QED BY <2>2, <2>3
<1>3. bodies = [i \in 1..N |-> ev(i)]
  BY <1>1 DEF Bodies
<1> HIDE DEF N, ev, bodies
<1>4. bodies \in Seq(Seq(Events)) /\ Len(bodies) = N /\ \A i \in 1..N : bodies[i] = ev(i)
  BY <1>1, <1>2, <1>3
<1>5. FlattenSeq(bodies) \in Seq(Events)
  <2>1. bodies \in Seq(Seq(Events))
    BY <1>4
  <2> QED BY <2>1, FlattenAt, Zenon
<1>6. End(m) \in Events
  BY MessageTyped, EventsTyped DEF End
<1> QED BY <1>2, <1>4, <1>5, <1>6 DEF N, ev, bodies, Body

LEMMA BareIs ==
    ASSUME NEW m, IsMessage(m), NEW p, IsPace(p)
    PROVE  Bare(m, p) \in Seq(Events) /\ \E at : Lays(m, p, at)
<1> DEFINE N == Len(m.blocks)
           parts == Bodies(m, p)
           body == Body(m, p)
           begin == <<Plain("message_start")>>
           end == <<End(m), Plain("message_stop")>>
           x == begin \o body
           size(i) == Size(m.blocks[i], p)
<1>1. /\ N \in Nat
      /\ parts \in Seq(Seq(Events)) /\ Len(parts) = N
      /\ \A i \in 1..N : parts[i] = BlockEvents(m.blocks[i], i, p) /\ Len(parts[i]) = size(i)
                         /\ size(i) \in Nat
      /\ body \in Seq(Events) /\ End(m) \in Events
  BY MessageTyped, BodyTyped
<1>2. Plain("message_start") \in Events /\ Plain("message_stop") \in Events
  BY EventsTyped
<1>3. begin \in Seq(Events) /\ Len(begin) = 1 /\ begin[1] = Plain("message_start")
  BY <1>2
<1>4. end \in Seq(Events) /\ Len(end) = 2 /\ end[1] = End(m) /\ end[2] = Plain("message_stop")
  BY <1>1, <1>2
<1>5. Bare(m, p) = x \o end
  BY DEF Bare
<1>6. body = FlattenSeq(parts)
  BY DEF Body
<1> HIDE DEF N, parts, body, begin, end, size
<1>7. PICK pl : /\ Places(parts, pl) /\ Len(body) = pl[N]
                /\ \A i \in 1..N : \A k \in 1..Len(parts[i]) : body[pl[i - 1] + k] = parts[i][k]
  <2>1. PICK pl : /\ Places(parts, pl) /\ Len(FlattenSeq(parts)) = pl[Len(parts)]
                  /\ \A i \in 1..Len(parts) : \A k \in 1..Len(parts[i]) :
                         FlattenSeq(parts)[pl[i - 1] + k] = parts[i][k]
    <3>1. parts \in Seq(Seq(Events))
      BY <1>1
    <3> QED BY <3>1, FlattenAt, Zenon
  <2> QED BY <1>1, <1>6, <2>1
<1>8. /\ \A i \in 0..N : pl[i] \in Nat
      /\ pl[0] = 0 /\ \A i \in 1..N : pl[i] = pl[i - 1] + size(i)
      /\ \A i, j \in 0..N : i <= j => pl[i] <= pl[j]
  <2>1. \A i, j \in 0..N : i <= j => pl[i] <= pl[j]
    <3>1. Parts(Events, parts, pl)
      BY <1>1, <1>7, Zenon DEF Parts
    <3> QED BY <1>1, <3>1, PlacesGrow
  <2>2. /\ \A i \in 0..N : pl[i] \in Nat
        /\ pl[0] = 0 /\ \A i \in 1..N : pl[i] = pl[i - 1] + Len(parts[i])
    BY <1>1, <1>7 DEF Places
  <2> QED BY <1>1, <2>1, <2>2
<1>9. /\ x \in Seq(Events) /\ Len(x) = 1 + Len(body) /\ x[1] = begin[1]
      /\ \A k \in 1..Len(body) : x[1 + k] = body[k]
  <2>1. body \in Seq(Events) /\ begin \in Seq(Events)
    BY <1>1, <1>3
  <2>2. /\ x \in Seq(Events) /\ Len(x) = Len(begin) + Len(body)
        /\ \A k \in 1..Len(begin) : x[k] = begin[k]
        /\ \A k \in 1..Len(body) : x[Len(begin) + k] = body[k]
    BY <2>1, Joined
  <2>3. 1 \in 1..Len(begin) /\ Len(begin) = 1
    BY <1>3
  <2> HIDE DEF x
  <2> QED BY <2>2, <2>3
<1> HIDE DEF x
<1> DEFINE z == x \o end
<1>10. /\ z \in Seq(Events) /\ Len(z) = Len(x) + 2
       /\ \A k \in 1..Len(x) : z[k] = x[k]
       /\ z[Len(x) + 1] = end[1] /\ z[Len(x) + 2] = end[2]
  <2>1. x \in Seq(Events) /\ end \in Seq(Events)
    BY <1>4, <1>9
  <2>2. /\ z \in Seq(Events) /\ Len(z) = Len(x) + Len(end)
        /\ \A k \in 1..Len(x) : z[k] = x[k]
        /\ \A k \in 1..Len(end) : z[Len(x) + k] = end[k]
    BY <2>1, Joined
  <2>3. 1 \in 1..Len(end) /\ 2 \in 1..Len(end) /\ Len(end) = 2
    BY <1>4
  <2> HIDE DEF z
  <2> QED BY <2>2, <2>3
<1>11. z = Bare(m, p)
  BY <1>5
<1> HIDE DEF z
<1> DEFINE at == [i \in 0..N |-> 1 + pl[i]]
<1>12. /\ at \in [0..N -> Nat] /\ at[0] = 1
       /\ \A i \in 0..N : at[i] = 1 + pl[i]
  BY <1>1, <1>8
<1> HIDE DEF at
<1>13. \A i \in 1..N : at[i] = at[i - 1] + size(i)
  <2> SUFFICES ASSUME NEW i \in 1..N PROVE at[i] = at[i - 1] + size(i)
    OBVIOUS
  <2>1. i \in 0..N /\ i - 1 \in 0..N
    BY <1>1
  <2>2. at[i] = 1 + pl[i] /\ at[i - 1] = 1 + pl[i - 1] /\ pl[i] = pl[i - 1] + size(i)
        /\ pl[i - 1] \in Nat /\ size(i) \in Nat
    BY <1>1, <1>8, <1>12, <2>1
  <2> QED BY <2>2
<1>14. \A i, j \in 0..N : i <= j => at[i] <= at[j]
  BY <1>8, <1>12
<1>15. N \in 0..N /\ Len(x) = at[N] /\ at[N] \in Nat /\ Len(z) = at[N] + 2
       /\ z[at[N] + 1] = End(m) /\ z[at[N] + 2] = Plain("message_stop")
  <2>1. N \in 0..N
    BY <1>1
  <2> QED BY <1>4, <1>7, <1>8, <1>9, <1>10, <1>12, <2>1
<1>16. z[1] = Plain("message_start")
  <2>1. 1 \in 1..Len(x)
    BY <1>9, <1>7, <1>8, <1>15
  <2> QED BY <1>3, <1>9, <1>10, <2>1
<1>17. ASSUME NEW i \in 1..N, NEW k \in 1..size(i)
       PROVE  z[at[i - 1] + k] = BlockEvents(m.blocks[i], i, p)[k]
  <2> DEFINE q == pl[i - 1] + k
  <2>1. i - 1 \in 0..N /\ i \in 0..N /\ i <= N /\ N \in 0..N
    BY <1>1
  <2>2. pl[i] <= pl[N] /\ pl[i] = pl[i - 1] + size(i) /\ pl[i - 1] \in Nat /\ size(i) \in Nat
        /\ pl[N] \in Nat
    BY <1>1, <1>8, <2>1
  <2>3. q \in 1..Len(body) /\ 1 + q \in 1..Len(x)
    <3>1. Len(body) = pl[N] /\ Len(x) = 1 + Len(body) /\ k \in Nat /\ 1 <= k /\ k <= size(i)
      BY <1>7, <1>9, <2>2
    <3>2. q \in Nat /\ 1 <= q /\ q <= pl[N]
      BY <2>2, <3>1
    <3> HIDE DEF q
    <3> QED BY <2>2, <3>1, <3>2
  <2>4. body[q] = BlockEvents(m.blocks[i], i, p)[k]
    BY <1>1, <1>7
  <2>5. at[i - 1] + k = 1 + q
    BY <1>12, <2>1, <2>2
  <2> HIDE DEF q
  <2> QED BY <1>9, <1>10, <2>3, <2>4, <2>5
<1>18. ASSUME NEW j \in 2..at[N]
       PROVE  \E i \in 1..N : \E k \in 1..size(i) : j = at[i - 1] + k
  <2>1. j - 1 \in 1..pl[N] /\ j \in Nat
    BY <1>12, <1>15, <1>8
  <2>2. \E i \in 1..Len(parts) : \E k \in 1..Len(parts[i]) : j - 1 = pl[i - 1] + k
    <3> DEFINE h == j - 1
    <3>1. h \in 1..pl[Len(parts)] /\ Parts(Events, parts, pl)
      BY <1>1, <1>7, <2>1 DEF Parts
    <3> HIDE DEF h
    <3>2. \E i \in 1..Len(parts) : \E k \in 1..Len(parts[i]) : h = pl[i - 1] + k
      BY <3>1, Placed
    <3> QED BY <3>2 DEF h
  <2>a. PICK i \in 1..N : \E k \in 1..size(i) : j - 1 = pl[i - 1] + k
    BY <1>1, <2>2
  <2>3. PICK k \in 1..size(i) : j - 1 = pl[i - 1] + k
    BY <2>a
  <2>4. i - 1 \in 0..N /\ at[i - 1] = 1 + pl[i - 1] /\ pl[i - 1] \in Nat
    BY <1>1, <1>8, <1>12, SMTT(40)
  <2>5. j = at[i - 1] + k
    <3>1. k \in Nat
      BY <1>1
    <3> QED BY <2>1, <2>3, <2>4, <3>1
  <2> QED BY <2>5
<1>19. Lays(m, p, at)
  BY <1>11, <1>12, <1>13, <1>14, <1>15, <1>16, <1>17, <1>18 DEF Lays, N, size
<1> QED BY <1>10, <1>11, <1>19

BlockKinds == {"content_block_start", "content_block_delta", "content_block_stop"}

\* What the events of a block are, by their place.
LEMMA BlockEventAt ==
    ASSUME NEW b \in Blocks, NEW i \in Indexes, NEW p, IsPace(p), NEW k \in 1..Size(b, p)
    PROVE  LET e == BlockEvents(b, i, p)[k] IN
           \/ k = 1 /\ e = BlockEvent("content_block_start", i, b.type)
           \/ /\ k - 1 \in 1..Pieces(b, p)
              /\ e = Delta(i, DeltaOf(b.type), Chunk(b, p, k - 1))
           \/ /\ b.type = "thinking" /\ k = Pieces(b, p) + 2
              /\ e = Delta(i, "signature_delta", <<b.sig>>)
           \/ /\ k = Size(b, p) /\ k > Pieces(b, p) + 1
              /\ e = BlockEvent("content_block_stop", i, b.type)
<1> DEFINE ev == BlockEvents(b, i, p)
           c == Pieces(b, p)
<1>1. /\ c \in Nat
      /\ ev[1] = BlockEvent("content_block_start", i, b.type)
      /\ \A q \in 1..c : ev[1 + q] = Delta(i, DeltaOf(b.type), Chunk(b, p, q))
      /\ b.type = "thinking" => ev[c + 2] = Delta(i, "signature_delta", <<b.sig>>)
      /\ ev[Size(b, p)] = BlockEvent("content_block_stop", i, b.type)
  BY BlockEventsAre
<1>2. Size(b, p) = c + (IF b.type = "thinking" THEN 3 ELSE 2)
  BY DEF Size
<1> HIDE DEF ev, c
<1>3. CASE k = 1
  BY <1>1, <1>3 DEF ev
<1>4. CASE k - 1 \in 1..c
  <2>1. 1 + (k - 1) = k
    OBVIOUS
  <2>2. ev[1 + (k - 1)] = Delta(i, DeltaOf(b.type), Chunk(b, p, k - 1))
    BY <1>1, <1>4
  <2> QED BY <1>4, <2>1, <2>2 DEF ev, c
<1>5. CASE k > c + 1
  <2>1. CASE b.type = "thinking"
    <3>1. k = c + 2 \/ k = c + 3
      BY <1>1, <1>2, <1>5, <2>1
    <3>2. c + 3 = Size(b, p)
      BY <1>2, <2>1
    <3> QED BY <1>1, <1>5, <2>1, <3>1, <3>2 DEF ev, c
  <2>2. CASE b.type # "thinking"
    <3>1. k = c + 2 /\ k = Size(b, p)
      BY <1>1, <1>2, <1>5, <2>2
    <3> QED BY <1>1, <1>5, <3>1 DEF ev, c
  <2> QED BY <2>1, <2>2
<1> QED BY <1>1, <1>2, <1>3, <1>4, <1>5

LEMMA BlockEventTyped ==
    ASSUME NEW b \in Blocks, NEW i \in Indexes, NEW p, IsPace(p), NEW k \in 1..Size(b, p)
    PROVE  BlockEvents(b, i, p)[k].type \in BlockKinds /\ BlockEvents(b, i, p)[k].index = i
<1> DEFINE e == BlockEvents(b, i, p)[k]
<1>1. \/ e = BlockEvent("content_block_start", i, b.type)
      \/ e = Delta(i, DeltaOf(b.type), Chunk(b, p, k - 1))
      \/ e = Delta(i, "signature_delta", <<b.sig>>)
      \/ e = BlockEvent("content_block_stop", i, b.type)
  BY BlockEventAt
<1> HIDE DEF e
<1>2. e.type \in BlockKinds /\ e.index = i
  BY <1>1 DEF BlockEvent, Delta, BlockKinds
<1> QED BY <1>2 DEF e

LEMMA BareTyped ==
    ASSUME NEW m, IsMessage(m), NEW p, IsPace(p), NEW at, Lays(m, p, at)
    PROVE  /\ Len(Bare(m, p)) = at[Len(m.blocks)] + 2 /\ at[Len(m.blocks)] \in Nat
           /\ at[Len(m.blocks)] >= 1
           /\ Bare(m, p)[1].type = "message_start"
           /\ \A j \in 2..at[Len(m.blocks)] : Bare(m, p)[j].type \in BlockKinds
           /\ Bare(m, p)[at[Len(m.blocks)] + 1].type = "message_delta"
           /\ Bare(m, p)[at[Len(m.blocks)] + 2].type = "message_stop"
<1> DEFINE N == Len(m.blocks)
<1>1. N \in Nat /\ 0 \in 0..N /\ N \in 0..N /\ 0 <= N
  <2>1. N \in Nat
    BY MessageTyped
  <2> QED BY <2>1
<1>2. at[N] \in Nat /\ at[N] >= 1 /\ at[0] = 1
  <2>1. at[0] <= at[N] /\ at[N] \in Nat /\ at[0] = 1
    BY <1>1 DEF Lays
  <2> QED BY <2>1
<1>3. Bare(m, p)[1].type = "message_start"
  BY DEF Lays, Plain
<1>4. ASSUME NEW j \in 2..at[N] PROVE Bare(m, p)[j].type \in BlockKinds
  <2>1. PICK i \in 1..N : \E k \in 1..Size(m.blocks[i], p) : j = at[i - 1] + k
    BY DEF Lays
  <2>2. PICK k \in 1..Size(m.blocks[i], p) : j = at[i - 1] + k
    BY <2>1
  <2>3. Bare(m, p)[j] = BlockEvents(m.blocks[i], i, p)[k]
    BY <2>2 DEF Lays
  <2>4. m.blocks[i] \in Blocks
    BY MessageTyped
  <2>5. i \in Indexes
    BY <1>1 DEF Indexes
  <2> QED BY <2>3, <2>4, <2>5, BlockEventTyped
<1>5. /\ Bare(m, p)[at[N] + 1].type = "message_delta"
      /\ Bare(m, p)[at[N] + 2].type = "message_stop"
  BY DEF Lays, Plain, End
<1> QED BY <1>2, <1>3, <1>4, <1>5 DEF Lays

\* The events of a stream are those of its message with pings between, and the last of
\* them is the last.
LEMMA StreamSpaced ==
    ASSUME NEW m, IsMessage(m), NEW p, IsPace(p)
    PROVE  /\ Stream(m, p) \in Seq(Events)
           /\ \E pos : /\ Spaced(Stream(m, p), Bare(m, p), pos)
                       /\ \A k \in 0..(Len(Stream(m, p)) - 1) : pos[k] < Len(Bare(m, p))
<1> DEFINE f == Body(m, p)
           w == WithPings(f, p.ping)
           begin == <<Plain("message_start"), Ping>>
           end == <<End(m), Plain("message_stop")>>
           x == begin \o w
           z == x \o end
           one == <<Plain("message_start")>>
           y == one \o f
           of == y \o end
           L == Len(w)
           N == Len(f)
<1>1. f \in Seq(Events) /\ End(m) \in Events
  BY BodyTyped
<1>2. w \in Seq(Events) /\ \E pos : Spaced(w, f, pos)
  <2> HIDE DEF f
  <2>1. p.ping \in Nat
    BY DEF IsPace
  <2> QED BY <1>1, <2>1, PingsSpace
<1>3. Plain("message_start") \in Events /\ Plain("message_stop") \in Events /\ Ping \in Events
  BY EventsTyped, PingIs
<1>4. begin \in Seq(Events) /\ Len(begin) = 2 /\ begin[1] = Plain("message_start") /\ begin[2] = Ping
  BY <1>3
<1>5. end \in Seq(Events) /\ Len(end) = 2 /\ end[1] = End(m) /\ end[2] = Plain("message_stop")
  BY <1>1, <1>3
<1>6. one \in Seq(Events) /\ Len(one) = 1 /\ one[1] = Plain("message_start")
  BY <1>3
<1>7. Stream(m, p) = z
  BY DEF Stream, Body, Bodies, End
<1>8. Bare(m, p) = of
  BY DEF Bare
<1> HIDE DEF f, w, begin, end, one
<1>9. L \in Nat /\ N \in Nat
  BY <1>1, <1>2
<1>10. /\ x \in Seq(Events) /\ Len(x) = 2 + L /\ x[1] = begin[1] /\ x[2] = begin[2]
       /\ \A k \in 1..L : x[2 + k] = w[k]
  <2>1. /\ x \in Seq(Events) /\ Len(x) = Len(begin) + Len(w)
        /\ \A k \in 1..Len(begin) : x[k] = begin[k]
        /\ \A k \in 1..Len(w) : x[Len(begin) + k] = w[k]
    <3>1. begin \in Seq(Events) /\ w \in Seq(Events)
      BY <1>2, <1>4
    <3> QED BY <3>1, Joined
  <2>2. 1 \in 1..Len(begin) /\ 2 \in 1..Len(begin)
    BY <1>4
  <2> HIDE DEF x
  <2> QED BY <1>4, <2>1, <2>2
<1> HIDE DEF x
<1>11. /\ z \in Seq(Events) /\ Len(z) = L + 4
       /\ \A k \in 1..(2 + L) : z[k] = x[k]
       /\ z[L + 3] = End(m) /\ z[L + 4] = Plain("message_stop")
  <2>1. /\ z \in Seq(Events) /\ Len(z) = Len(x) + Len(end)
        /\ \A k \in 1..Len(x) : z[k] = x[k]
        /\ \A k \in 1..Len(end) : z[Len(x) + k] = end[k]
    <3>1. x \in Seq(Events) /\ end \in Seq(Events)
      BY <1>5, <1>10
    <3> QED BY <3>1, Joined
  <2>2. 1 \in 1..Len(end) /\ 2 \in 1..Len(end)
    BY <1>5
  <2> HIDE DEF z
  <2>3. z[Len(x) + 1] = end[1] /\ z[Len(x) + 2] = end[2]
    BY <2>1, <2>2
  <2>4. Len(x) + 1 = L + 3 /\ Len(x) + 2 = L + 4 /\ Len(x) + Len(end) = L + 4
    BY <1>5, <1>9, <1>10
  <2> HIDE DEF L
  <2> QED BY <1>5, <1>10, <2>1, <2>3, <2>4
<1>12. /\ y \in Seq(Events) /\ Len(y) = 1 + N /\ y[1] = one[1]
       /\ \A k \in 1..N : y[1 + k] = f[k]
  <2>1. /\ y \in Seq(Events) /\ Len(y) = Len(one) + Len(f)
        /\ \A k \in 1..Len(one) : y[k] = one[k]
        /\ \A k \in 1..Len(f) : y[Len(one) + k] = f[k]
    <3>1. one \in Seq(Events) /\ f \in Seq(Events)
      BY <1>1, <1>6
    <3> QED BY <3>1, Joined
  <2>2. 1 \in 1..Len(one)
    BY <1>6
  <2> HIDE DEF y
  <2> QED BY <1>6, <2>1, <2>2
<1> HIDE DEF y
<1>13. /\ of \in Seq(Events) /\ Len(of) = N + 3
       /\ \A k \in 1..(1 + N) : of[k] = y[k]
       /\ of[N + 2] = End(m) /\ of[N + 3] = Plain("message_stop")
  <2>1. /\ of \in Seq(Events) /\ Len(of) = Len(y) + Len(end)
        /\ \A k \in 1..Len(y) : of[k] = y[k]
        /\ \A k \in 1..Len(end) : of[Len(y) + k] = end[k]
    <3>1. y \in Seq(Events) /\ end \in Seq(Events)
      BY <1>5, <1>12
    <3> QED BY <3>1, Joined
  <2>2. 1 \in 1..Len(end) /\ 2 \in 1..Len(end)
    BY <1>5
  <2> HIDE DEF of
  <2>3. of[Len(y) + 1] = end[1] /\ of[Len(y) + 2] = end[2]
    BY <2>1, <2>2
  <2>4. Len(y) + 1 = N + 2 /\ Len(y) + 2 = N + 3 /\ Len(y) + Len(end) = N + 3
    BY <1>5, <1>9, <1>12
  <2> HIDE DEF N
  <2> QED BY <1>5, <1>12, <2>1, <2>3, <2>4
<1> HIDE DEF z, of
<1>14. PICK pos : Spaced(w, f, pos)
  BY <1>2
<1>15. /\ pos \in [0..L -> 0..N] /\ pos[0] = 0 /\ pos[L] = N
       /\ \A k \in 1..L : \/ w[k] = Ping /\ pos[k] = pos[k - 1]
                          \/ pos[k] = pos[k - 1] + 1 /\ w[k] = f[pos[k]]
  BY <1>14 DEF Spaced
<1> HIDE DEF L, N
<1> DEFINE q == [k \in 0..(L + 4) |->
                   CASE k <= 1 -> k [] k \in 2..(L + 2) -> 1 + pos[k - 2] [] OTHER -> N + k - L - 1]
<1>16. /\ q[0] = 0 /\ q[1] = 1 /\ q[L + 3] = N + 2 /\ q[L + 4] = N + 3
       /\ \A k \in 2..(L + 2) : q[k] = 1 + pos[k - 2]
       /\ q[2] = 1 /\ q[L + 2] = N + 1
  <2>1. q[0] = 0 /\ q[1] = 1
    BY <1>9
  <2>2. ASSUME NEW k \in 2..(L + 2) PROVE q[k] = 1 + pos[k - 2]
    BY <1>9
  <2>3. q[L + 3] = N + 2 /\ q[L + 4] = N + 3
    <3>1. /\ L + 3 \in 0..(L + 4) /\ ~(L + 3 <= 1) /\ L + 3 \notin 2..(L + 2)
          /\ N + (L + 3) - L - 1 = N + 2
      BY <1>9
    <3>2. /\ L + 4 \in 0..(L + 4) /\ ~(L + 4 <= 1) /\ L + 4 \notin 2..(L + 2)
          /\ N + (L + 4) - L - 1 = N + 3
      BY <1>9
    <3> QED BY <3>1, <3>2
  <2> HIDE DEF q
  <2>4. 2 \in 2..(L + 2) /\ L + 2 \in 2..(L + 2) /\ 2 - 2 = 0 /\ (L + 2) - 2 = L
    BY <1>9
  <2>5. q[2] = 1
    BY <1>15, <2>2, <2>4
  <2>6. q[L + 2] = 1 + N
    BY <1>15, <2>2, <2>4
  <2> QED BY <1>9, <2>1, <2>2, <2>3, <2>5, <2>6
<1>17. DOMAIN q = 0..(L + 4) /\ q = [k \in 0..(L + 4) |-> q[k]]
  OBVIOUS
<1> HIDE DEF q
<1>18. \A k \in 0..(L + 4) : /\ q[k] \in 0..(N + 3) /\ (k < L + 4 => q[k] < N + 3)
  <2> SUFFICES ASSUME NEW k \in 0..(L + 4)
               PROVE q[k] \in 0..(N + 3) /\ (k < L + 4 => q[k] < N + 3)
    OBVIOUS
  <2>1. CASE k \in 2..(L + 2)
    <3>1. k - 2 \in 0..L
      BY <1>9, <2>1
    <3>2. pos[k - 2] \in 0..N /\ q[k] = 1 + pos[k - 2]
      BY <1>15, <1>16, <2>1, <3>1
    <3> QED BY <1>9, <3>2
  <2>2. CASE k \in {0, 1}
    BY <1>9, <1>16, <2>2
  <2>3. CASE k \in {L + 3, L + 4}
    BY <1>9, <1>16, <2>3
  <2> QED BY <1>9, <2>1, <2>2, <2>3
<1>19. q \in [0..(L + 4) -> 0..(N + 3)]
  BY <1>17, <1>18
<1>20. ASSUME NEW k \in 1..(L + 4)
       PROVE  \/ z[k] = Ping /\ q[k] = q[k - 1]
              \/ q[k] = q[k - 1] + 1 /\ z[k] = of[q[k]]
  <2>1. CASE k = 1
    <3>1. z[1] = Plain("message_start") /\ of[1] = Plain("message_start")
      <4>1. 1 \in 1..(2 + L) /\ 1 \in 1..(1 + N)
        BY <1>9
      <4> QED BY <1>4, <1>6, <1>10, <1>11, <1>12, <1>13, <4>1
    <3>2. q[k] = 1 /\ q[k - 1] = 0
      BY <1>16, <2>1
    <3> QED BY <2>1, <3>1, <3>2
  <2>2. CASE k = 2
    <3>1. z[2] = Ping
      <4>1. 2 \in 1..(2 + L)
        BY <1>9
      <4> QED BY <1>4, <1>10, <1>11, <4>1
    <3>2. q[k] = 1 /\ q[k - 1] = 1
      BY <1>16, <2>2
    <3> QED BY <2>2, <3>1, <3>2
  <2>3. CASE k \in 3..(L + 2)
    <3> DEFINE j == k - 2
    <3>1. j \in 1..L /\ k - 1 \in 2..(L + 2) /\ k \in 2..(L + 2) /\ (k - 1) - 2 = j - 1
          /\ 2 + j = k /\ k \in 1..(2 + L) /\ j - 1 \in 0..L /\ j \in 0..L
      BY <1>9, <2>3
    <3>2. q[k] = 1 + pos[j]
      BY <1>16, <3>1
    <3>3. q[k - 1] = 1 + pos[j - 1]
      BY <1>16, <3>1
    <3> HIDE DEF j
    <3>4. z[k] = w[j]
      BY <1>10, <1>11, <3>1
    <3>5. pos[j] \in 0..N /\ pos[j - 1] \in 0..N
      BY <1>15, <3>1
    <3>6. CASE w[j] = Ping /\ pos[j] = pos[j - 1]
      BY <3>2, <3>3, <3>4, <3>6
    <3>7. CASE pos[j] = pos[j - 1] + 1 /\ w[j] = f[pos[j]]
      <4>1. pos[j] \in 1..N /\ 1 + pos[j] \in 1..(1 + N)
        BY <1>9, <3>5, <3>7
      <4>2. of[1 + pos[j]] = f[pos[j]]
        BY <1>12, <1>13, <4>1
      <4>3. q[k] = q[k - 1] + 1
        BY <3>2, <3>3, <3>5, <3>7
      <4> QED BY <3>2, <3>4, <3>7, <4>2, <4>3
    <3> QED BY <1>15, <3>1, <3>6, <3>7
  <2>4. CASE k = L + 3
    <3>1. k - 1 = L + 2
      BY <1>9, <2>4
    <3>2. q[k] = N + 2 /\ q[k - 1] = N + 1 /\ z[k] = End(m) /\ of[N + 2] = End(m)
      BY <1>11, <1>13, <1>16, <2>4, <3>1
    <3> QED BY <1>9, <3>2
  <2>5. CASE k = L + 4
    <3>1. k - 1 = L + 3
      BY <1>9, <2>5
    <3>2. /\ q[k] = N + 3 /\ q[k - 1] = N + 2
          /\ z[k] = Plain("message_stop") /\ of[N + 3] = Plain("message_stop")
      BY <1>11, <1>13, <1>16, <2>5, <3>1
    <3> QED BY <1>9, <3>2
  <2> QED BY <1>9, <2>1, <2>2, <2>3, <2>4, <2>5
<1>21. Spaced(z, of, q)
  BY <1>11, <1>13, <1>16, <1>19, <1>20 DEF Spaced
<1>22. \A k \in 0..(Len(z) - 1) : q[k] < Len(of)
  BY <1>9, <1>11, <1>13, <1>18
<1> QED BY <1>7, <1>8, <1>11, <1>21, <1>22

-----------------------------------------------------------------------------
(* What one event does to the message being read. *)

LEMMA TextSteps ==
    ASSUME NEW b \in Blocks, NEW p, IsPace(p)
    PROVE  /\ Pieces(b, p) \in Nat
           /\ TextUpTo(b, p, 0) = <<>>
           /\ \A k \in 1..Pieces(b, p) :
                TextUpTo(b, p, k) = TextUpTo(b, p, k - 1) \o Chunk(b, p, k)
           /\ \A k \in Nat : k >= Pieces(b, p) => TextUpTo(b, p, k) = b.text
           /\ \A k \in Nat : /\ TextUpTo(b, p, k) \in Texts
                             /\ IsPrefix(TextUpTo(b, p, k), b.text)
           /\ \A k \in 1..(Pieces(b, p) - 1) :
                Len(TextUpTo(b, p, k)) \in 1..(Len(b.text) - 1)
<1> DEFINE s == b.text
           n == ChunkSize(p)
           len == Len(s)
           c == (len + n - 1) \div n
           t(k) == Taken(len, n, k)
           u(k) == SubSeq(s, 1, t(k))
<1>1. n \in Nat \ {0} /\ s \in Seq(STRING)
  BY ChunkSizeTyped, BlockTyped DEF Texts
<1> HIDE DEF s, n
<1>2. len \in Nat
  BY <1>1
<1> HIDE DEF len
<1>3. /\ c \in Nat
      /\ t(0) = 0
      /\ \A k \in Nat : t(k) \in 0..len
      /\ \A k \in Nat : k >= c => t(k) = len
      /\ \A k \in 1..c : t(k - 1) < t(k)
  BY <1>1, <1>2, ChunkCount, TakenGrows
<1>4. c = Pieces(b, p) /\ \A k : u(k) = TextUpTo(b, p, k)
  BY DEF Pieces, TextUpTo, s, n, len
<1>5. \A k : Chunk(b, p, k) = SubSeq(s, t(k - 1) + 1, t(k))
  BY DEF Chunk, s, n, len
<1> HIDE DEF c, t
<1>6. \A k \in Nat : u(k) \in Seq(STRING) /\ Len(u(k)) = t(k) /\ \A i \in 1..t(k) : u(k)[i] = s[i]
  <2> SUFFICES ASSUME NEW k \in Nat
               PROVE  u(k) \in Seq(STRING) /\ Len(u(k)) = t(k) /\ \A i \in 1..t(k) : u(k)[i] = s[i]
    OBVIOUS
  <2> DEFINE a == t(k)
  <2>1. a \in 0..Len(s)
    BY <1>3 DEF len
  <2> HIDE DEF a
  <2>2. SubSeq(s, 1, a) \in Seq(STRING) /\ Len(SubSeq(s, 1, a)) = a
        /\ \A i \in 1..a : SubSeq(s, 1, a)[i] = s[i]
    BY <1>1, <2>1, Beginnings
  <2> QED BY <2>2 DEF a
<1>7. u(0) = <<>>
  <2>1. SubSeq(s, 1, 0) = <<>>
    BY <1>1, Beginnings
  <2> QED BY <1>3, <2>1
<1>8. ASSUME NEW k \in 1..c PROVE u(k) = u(k - 1) \o Chunk(b, p, k)
  <2> DEFINE x == t(k - 1)
             y == t(k)
  <2>1. k \in Nat /\ k - 1 \in Nat
    BY <1>3
  <2>2. x \in 0..Len(s) /\ y \in 0..Len(s) /\ x <= y
    BY <1>3, <2>1 DEF len
  <2> HIDE DEF x, y
  <2>3. SubSeq(s, 1, x) \o SubSeq(s, x + 1, y) = SubSeq(s, 1, y)
    BY <1>1, <2>2, PartsJoin
  <2> QED BY <1>5, <2>3 DEF x, y
<1>9. ASSUME NEW k \in Nat, k >= c PROVE u(k) = s
  <2>1. SubSeq(s, 1, Len(s)) = s
    BY <1>1, Beginnings
  <2> QED BY <1>3, <1>9, <2>1 DEF len
<1>10. ASSUME NEW k \in Nat PROVE IsPrefix(u(k), s)
  <2> DEFINE v == u(k)
             a == t(k)
  <2>1. v \in Seq(STRING) /\ Len(v) = a /\ v = SubSeq(s, 1, a) /\ a <= Len(s)
    BY <1>3, <1>6 DEF len
  <2> HIDE DEF v, a
  <2>2. SubSeq(v, 1, Len(v)) = v
    BY <2>1, Beginnings
  <2>3. IsPrefix(v, s)
    BY <2>1, <2>2 DEF IsPrefix
  <2> QED BY <2>3 DEF v
<1>11. ASSUME NEW k \in 1..(c - 1) PROVE Len(u(k)) \in 1..(len - 1)
  <2>1. /\ k \in Nat /\ k + 1 \in Nat /\ k - 1 \in Nat /\ k \in 1..c /\ k + 1 \in 1..c
        /\ (k + 1) - 1 = k
    BY <1>3
  <2>2. t(k - 1) < t(k) /\ t(k) < t(k + 1) /\ t(k - 1) \in 0..len /\ t(k) \in 0..len
        /\ t(k + 1) \in 0..len
    BY <1>3, <2>1
  <2>3. Len(u(k)) = t(k)
    BY <1>6, <2>1
  <2> HIDE DEF u
  <2> QED BY <1>2, <2>2, <2>3
<1> HIDE DEF u
<1> QED BY <1>3, <1>4, <1>6, <1>7, <1>8, <1>9, <1>10, <1>11 DEF s, len, Texts

-----------------------------------------------------------------------------
(* What is read of one block. *)

With(before, i, last) == [x \in 1..i |-> IF x < i THEN before[x] ELSE last]
Part(b, p, k) ==
    Block(b.type, TextUpTo(b, p, k - 1),
          IF b.type = "thinking" /\ k >= Pieces(b, p) + 2 THEN b.sig ELSE "")

LEMMA BlockChanged ==
    ASSUME NEW t, NEW text, NEW sig
    PROVE  LET b == Block(t, text, sig) IN
           /\ b.type = t /\ b.text = text /\ b.sig = sig
           /\ \A x : [b EXCEPT !.type = x] = Block(x, text, sig)
           /\ \A x : [b EXCEPT !.text = x] = Block(t, x, sig)
           /\ \A x : [b EXCEPT !.sig = x] = Block(t, text, x)
<1> DEFINE b == Block(t, text, sig)
<1>1. b.type = t /\ b.text = text /\ b.sig = sig
  BY DEF Block
<1>2. \A x : [b EXCEPT !.type = x] = Block(x, text, sig)
  BY DEF Block
<1>3. \A x : [b EXCEPT !.text = x] = Block(t, x, sig)
  BY DEF Block
<1>4. \A x : [b EXCEPT !.sig = x] = Block(t, text, x)
  BY DEF Block
<1> QED BY <1>1, <1>2, <1>3, <1>4

LEMMA OpensBlock ==
    ASSUME NEW i \in Indexes, NEW before \in Seq(ReadBlocks), Len(before) = i - 1, NEW e,
           e.index = i
    PROVE  Opened(before, e) = With(before, i, Block(e.kind, <<>>, ""))
<1>1. i \in Nat /\ i >= 1 /\ Len(before) \in Nat /\ i > Len(before)
  BY DEF Indexes
<1>2. \A x \in 1..i : x <= Len(before) <=> x < i
  BY <1>1
<1>3. \A x \in 1..i : x = i <=> ~(x < i)
  BY <1>1
<1>4. [Block("", <<>>, "") EXCEPT !.type = e.kind] = Block(e.kind, <<>>, "")
  <2> DEFINE none == <<>>
             type == e.kind
             empty == ""
  <2> HIDE DEF none, type, empty
  <2>1. LET b == Block(empty, none, empty) IN \A x : [b EXCEPT !.type = x] = Block(x, none, empty)
    BY BlockChanged
  <2>2. [Block(empty, none, empty) EXCEPT !.type = type] = Block(type, none, empty)
    BY <2>1
  <2> QED BY <2>2 DEF none, type, empty
<1>5. Opened(before, e) = [x \in 1..i |-> IF x = i THEN Block(e.kind, <<>>, "") ELSE before[x]]
  <2>1. \A x \in 1..i : x # i => x <= Len(before)
    BY <1>1
  <2>2. \A x \in 1..i : x = i => ~(x <= Len(before))
    BY <1>1
  <2> QED BY <1>1, <1>4, <2>1, <2>2 DEF Opened
<1> QED BY <1>3, <1>5 DEF With

LEMMA ExtendsBlock ==
    ASSUME NEW i \in Indexes, NEW before
    PROVE  \A t, text, sig, kind, x :
             Extended(With(before, i, Block(t, text, sig)), Delta(i, kind, x))
               = With(before, i, IF kind = "signature_delta" THEN Block(t, text, x[1])
                                                             ELSE Block(t, text \o x, sig))
<1> SUFFICES ASSUME NEW t, NEW text, NEW sig, NEW kind, NEW x
             PROVE  Extended(With(before, i, Block(t, text, sig)), Delta(i, kind, x))
                      = With(before, i, IF kind = "signature_delta"
                                        THEN Block(t, text, x[1]) ELSE Block(t, text \o x, sig))
  OBVIOUS
<1> DEFINE b == Block(t, text, sig)
           w == With(before, i, b)
           e == Delta(i, kind, x)
<1>1. i \in Nat /\ i >= 1 /\ i \in 1..i
  BY DEF Indexes
<1>2. w = [y \in 1..i |-> IF y < i THEN before[y] ELSE b] /\ Len(w) = i /\ w[i] = b
  BY <1>1 DEF With
<1>3. e.index = i /\ e.kind = kind /\ e.text = x
  BY DEF Delta
<1> DEFINE both == text \o x
<1> HIDE DEF both
<1>4. /\ b.text = text /\ b.sig = sig
      /\ [b EXCEPT !.sig = x[1]] = Block(t, text, x[1])
      /\ [b EXCEPT !.text = both] = Block(t, both, sig)
  BY BlockChanged
<1> HIDE DEF b, e, w
<1>5. CASE kind = "signature_delta"
  <2>1. Extended(w, e) = [w EXCEPT ![i] = [b EXCEPT !.sig = x[1]]]
    BY <1>1, <1>2, <1>3, <1>5 DEF Extended
  <2>2. [w EXCEPT ![i] = [b EXCEPT !.sig = x[1]]] = With(before, i, [b EXCEPT !.sig = x[1]])
    BY SMTT(20), <1>1, <1>2 DEF With
  <2> QED BY <1>4, <1>5, <2>1, <2>2 DEF b, e, w
<1>6. CASE kind # "signature_delta"
  <2>0. Extended(w, e) = [w EXCEPT ![i].text = w[i].text \o x]
    <3>1. ~(e.index > Len(w)) /\ e.kind # "signature_delta"
      BY <1>1, <1>2, <1>3, <1>6
    <3> QED BY <1>3, <3>1 DEF Extended
  <2>1. Extended(w, e) = [w EXCEPT ![i] = [b EXCEPT !.text = both]]
    <3>1. w[i].text \o x = both
      BY <1>2, <1>4 DEF both
    <3> DEFINE joined == w[i].text \o x
    <3> HIDE DEF joined
    <3>2. Extended(w, e) = [w EXCEPT ![i].text = joined] /\ joined = both
      BY <2>0, <3>1 DEF joined
    <3>3. [w EXCEPT ![i].text = both] = [w EXCEPT ![i] = [w[i] EXCEPT !.text = both]]
      BY <1>1, <1>2
    <3> QED BY <1>2, <3>2, <3>3
  <2>2. [w EXCEPT ![i] = [b EXCEPT !.text = both]] = With(before, i, [b EXCEPT !.text = both])
    <3> DEFINE c == [b EXCEPT !.text = both]
    <3> HIDE DEF c
    <3>1. [w EXCEPT ![i] = c] = With(before, i, c)
      BY <1>1, <1>2 DEF With
    <3> QED BY <3>1 DEF c
  <2> QED BY <1>4, <1>6, <2>1, <2>2 DEF b, e, w, both
<1> QED BY <1>5, <1>6

-----------------------------------------------------------------------------
(* Reading the events of one block. *)

\* What is read before the message_delta.
SoFar(blocks) == Message(blocks, "", 0)

LEMMA ReadSoFar ==
    ASSUME NEW blocks, NEW e
    PROVE  /\ e.type = "content_block_start" => ReadEvent(SoFar(blocks), e) = SoFar(Opened(blocks, e))
           /\ e.type = "content_block_delta" => ReadEvent(SoFar(blocks), e) = SoFar(Extended(blocks, e))
           /\ e.type \notin {"content_block_start", "content_block_delta", "message_delta"} =>
                ReadEvent(SoFar(blocks), e) = SoFar(blocks)
<1> DEFINE m == SoFar(blocks)
<1>0. m.blocks = blocks /\ \A o : [m EXCEPT !.blocks = o] = SoFar(o)
  <2> DEFINE none == ""
             zero == 0
  <2> HIDE DEF none, zero
  <2>1. Message(blocks, none, zero).blocks = blocks
    BY DEF Message
  <2>2. \A o : [Message(blocks, none, zero) EXCEPT !.blocks = o] = Message(o, none, zero)
    BY DEF Message
  <2> QED BY <2>1, <2>2 DEF SoFar, none, zero
<1> HIDE DEF m
<1>1. ASSUME e.type = "content_block_start" PROVE ReadEvent(m, e) = SoFar(Opened(blocks, e))
  <2> DEFINE o == Opened(blocks, e)
  <2>1. ReadEvent(m, e) = [m EXCEPT !.blocks = Opened(m.blocks, e)]
    BY <1>1 DEF ReadEvent
  <2>2. ReadEvent(m, e) = [m EXCEPT !.blocks = o]
    BY <1>0, <2>1
  <2> HIDE DEF o
  <2> QED BY <1>0, <2>2 DEF o
<1>2. ASSUME e.type = "content_block_delta" PROVE ReadEvent(m, e) = SoFar(Extended(blocks, e))
  <2> DEFINE o == Extended(blocks, e)
  <2>1. ReadEvent(m, e) = [m EXCEPT !.blocks = Extended(m.blocks, e)]
    BY <1>2 DEF ReadEvent
  <2>2. ReadEvent(m, e) = [m EXCEPT !.blocks = o]
    BY <1>0, <2>1
  <2> HIDE DEF o
  <2> QED BY <1>0, <2>2 DEF o
<1>3. e.type \notin {"content_block_start", "content_block_delta", "message_delta"} =>
        ReadEvent(m, e) = m
  BY DEF ReadEvent
<1> QED BY <1>1, <1>2, <1>3 DEF m

\* The events of a block, read one after the other.
BlockReading(st, before, b, i, p) ==
    /\ b \in Blocks /\ i \in Indexes /\ IsPace(p)
    /\ before \in Seq(ReadBlocks) /\ Len(before) = i - 1
    /\ st[0] = SoFar(before)
    /\ \A k \in 1..Size(b, p) : st[k] = ReadEvent(st[k - 1], BlockEvents(b, i, p)[k])

LEMMA BlockRead ==
    ASSUME NEW st, NEW before, NEW b, NEW i, NEW p, BlockReading(st, before, b, i, p)
    PROVE  \A k \in 1..Size(b, p) : st[k] = SoFar(With(before, i, Part(b, p, k)))
<1> DEFINE c == Pieces(b, p)
           N == Size(b, p)
           ev(k) == BlockEvents(b, i, p)[k]
           upto(k) == SoFar(With(before, i, Part(b, p, k)))
           text(k) == TextUpTo(b, p, k)
           sig(k) == IF b.type = "thinking" /\ k >= c + 2 THEN b.sig ELSE ""
           T == {k \in 0..N : k = 0 \/ st[k] = upto(k)}
<1>0. b \in Blocks /\ i \in Indexes /\ IsPace(p) /\ before \in Seq(ReadBlocks) /\ Len(before) = i - 1
  BY DEF BlockReading
<1>b. \A t, old, last, kind, x :
        Extended(With(before, i, Block(t, old, last)), Delta(i, kind, x))
          = With(before, i, IF kind = "signature_delta" THEN Block(t, old, x[1])
                                                        ELSE Block(t, old \o x, last))
  BY <1>0, ExtendsBlock
<1>1. /\ c \in Nat
      /\ text(0) = <<>>
      /\ \A k \in 1..c : text(k) = text(k - 1) \o Chunk(b, p, k)
      /\ \A k \in Nat : k >= c => text(k) = b.text
  BY <1>0, TextSteps
<1>2. N = c + (IF b.type = "thinking" THEN 3 ELSE 2)
  BY DEF Size
<1>3. \A k : Part(b, p, k) = Block(b.type, text(k - 1), sig(k))
  BY DEF Part
<1>4. \A k \in 1..N :
           \/ k = 1 /\ ev(k) = BlockEvent("content_block_start", i, b.type)
           \/ /\ k - 1 \in 1..c
              /\ ev(k) = Delta(i, DeltaOf(b.type), Chunk(b, p, k - 1))
           \/ /\ b.type = "thinking" /\ k = c + 2
              /\ ev(k) = Delta(i, "signature_delta", <<b.sig>>)
           \/ /\ k = N /\ k > c + 1
              /\ ev(k) = BlockEvent("content_block_stop", i, b.type)
  BY <1>0, BlockEventAt
<1>5. st[0] = SoFar(before) /\ \A k \in 1..N : st[k] = ReadEvent(st[k - 1], ev(k))
  BY DEF BlockReading
<1>a. \A k : sig(k) = IF b.type = "thinking" /\ k >= c + 2 THEN b.sig ELSE ""
  OBVIOUS
<1> HIDE DEF c, N, ev, upto, text, sig
<1>6. N \in Nat /\ N >= c + 2
  BY <1>1, <1>2
<1>7. 0 \in T
  BY <1>6
<1>8. ASSUME NEW k \in 0..(N - 1), k \in T PROVE k + 1 \in T
  <2> DEFINE j == k + 1
  <2>1. j \in 1..N /\ j \in 0..N /\ j - 1 = k /\ j \in Nat /\ k \in Nat
    BY <1>6
  <2> HIDE DEF j
  <2>2. st[j] = ReadEvent(st[k], ev(j))
    BY <1>5, <2>1
  <2>3. k = 0 \/ st[k] = upto(k)
    BY <1>8
  <2>4. upto(j) = SoFar(With(before, i, Block(b.type, text(k), sig(j))))
    BY <1>3, <2>1 DEF upto
  <2>5. upto(k) = SoFar(With(before, i, Block(b.type, text(k - 1), sig(k))))
    BY <1>3 DEF upto
  <2>6. CASE j = 1 /\ ev(j) = BlockEvent("content_block_start", i, b.type)
    <3> DEFINE e == ev(j)
    <3>0. k = 0
      BY <2>1, <2>6
    <3>1. k = 0 /\ st[k] = SoFar(before)
      BY <1>5, <3>0
    <3>2. e.type = "content_block_start" /\ e.index = i /\ e.kind = b.type
      BY <2>6 DEF BlockEvent
    <3> HIDE DEF e
    <3>3. ReadEvent(SoFar(before), e) = SoFar(Opened(before, e))
      BY <3>2, ReadSoFar
    <3>4. Opened(before, e) = With(before, i, Block(b.type, <<>>, ""))
      <4>1. Opened(before, e) = With(before, i, Block(e.kind, <<>>, ""))
        <5>1. i \in Indexes /\ before \in Seq(ReadBlocks) /\ Len(before) = i - 1 /\ e.index = i
          BY <1>0, <3>2
        <5> QED BY <5>1, OpensBlock, Zenon
      <4> QED BY <3>2, <4>1
    <3>5. text(k) = <<>> /\ sig(j) = ""
      <4>1. ~(j >= c + 2)
        BY <1>1, <2>6
      <4>2. sig(j) = ""
        BY <1>a, <4>1
      <4> QED BY <1>1, <3>1, <4>2
    <3>6. st[j] = upto(j)
      BY <2>2, <2>4, <3>1, <3>3, <3>4, <3>5 DEF e
    <3> QED BY <2>1, <3>6 DEF j
  <2>7. CASE j - 1 \in 1..c /\ ev(j) = Delta(i, DeltaOf(b.type), Chunk(b, p, j - 1))
    <3> DEFINE x == Chunk(b, p, k)
               e == Delta(i, DeltaOf(b.type), x)
    <3>1. k \in 1..c /\ ev(j) = e
      BY <2>1, <2>7
    <3>2. e.type = "content_block_delta" /\ DeltaOf(b.type) # "signature_delta"
      BY DEF Delta, DeltaOf
    <3>3. st[k] = upto(k)
      BY <2>3, <3>1
    <3>4. text(k) = text(k - 1) \o x
      BY <1>1, <3>1
    <3>5. sig(k) = "" /\ sig(j) = ""
      <4>1. ~(j >= c + 2) /\ ~(k >= c + 2)
        BY <1>1, <2>1, <3>1
      <4> QED BY <1>a, <4>1
    <3>6. Extended(With(before, i, Block(b.type, text(k - 1), "")), e)
            = With(before, i, Block(b.type, text(k - 1) \o x, ""))
      <4> DEFINE kind == DeltaOf(b.type)
                 t == b.type
                 old == text(k - 1)
                 none == ""
      <4> HIDE DEF kind, t, old, none, x
      <4>1. Extended(With(before, i, Block(t, old, none)), Delta(i, kind, x))
              = With(before, i, IF kind = "signature_delta" THEN Block(t, old, x[1])
                                                            ELSE Block(t, old \o x, none))
        BY <1>b
      <4> QED BY <3>2, <4>1 DEF kind, t, old, none
    <3> DEFINE w == With(before, i, Block(b.type, text(k - 1), ""))
    <3> HIDE DEF e, x, w
    <3>7. ReadEvent(SoFar(w), e) = SoFar(Extended(w, e))
      BY <3>2, ReadSoFar
    <3>8. st[k] = SoFar(w)
      BY <2>5, <3>3, <3>5 DEF w
    <3>9. Extended(w, e) = With(before, i, Block(b.type, text(k), ""))
      BY <3>4, <3>6 DEF w
    <3>10. st[j] = upto(j)
      BY <2>2, <2>4, <3>1, <3>5, <3>7, <3>8, <3>9
    <3> QED BY <2>1, <3>10 DEF j
  <2>8. CASE /\ b.type = "thinking" /\ j = c + 2
             /\ ev(j) = Delta(i, "signature_delta", <<b.sig>>)
    <3> DEFINE x == <<b.sig>>
               e == Delta(i, "signature_delta", x)
               w == With(before, i, Block(b.type, text(k - 1), sig(k)))
    <3>1. k = c + 1 /\ k # 0 /\ ev(j) = e /\ x[1] = b.sig
      BY <1>1, <2>1, <2>8
    <3>2. e.type = "content_block_delta"
      BY DEF Delta
    <3>3. st[k] = upto(k)
      BY <2>3, <3>1
    <3>4. sig(k) = "" /\ sig(j) = b.sig
      <4>1. ~(k >= c + 2) /\ j >= c + 2
        BY <1>1, <2>8, <3>1
      <4> QED BY <1>a, <2>8, <4>1
    <3>5. text(k) = text(k - 1)
      <4>1. k \in Nat /\ k - 1 \in Nat /\ k >= c /\ k - 1 >= c
        BY <1>1, <3>1
      <4> QED BY <1>1, <4>1
    <3>6. Extended(w, e) = With(before, i, Block(b.type, text(k - 1), x[1]))
      <4> DEFINE kind == "signature_delta"
                 t == b.type
                 old == text(k - 1)
                 none == ""
      <4> HIDE DEF kind, t, old, none, x
      <4>1. Extended(With(before, i, Block(t, old, none)), Delta(i, kind, x))
              = With(before, i, IF kind = "signature_delta" THEN Block(t, old, x[1])
                                                            ELSE Block(t, old \o x, none))
        BY <1>b
      <4>2. sig(k) = none
        BY <3>4 DEF none
      <4> QED BY <4>1, <4>2 DEF kind, t, old, none
    <3>7. ReadEvent(SoFar(w), e) = SoFar(Extended(w, e))
      <4> HIDE DEF e, w
      <4> QED BY <3>2, ReadSoFar
    <3> HIDE DEF e, x, w
    <3>8. st[k] = SoFar(w)
      BY <2>5, <3>3 DEF w
    <3>9. Extended(w, e) = With(before, i, Block(b.type, text(k), b.sig))
      BY <3>1, <3>5, <3>6
    <3>10. st[j] = upto(j)
      BY <2>2, <2>4, <3>1, <3>4, <3>7, <3>8, <3>9
    <3> QED BY <2>1, <3>10 DEF j
  <2>9. CASE /\ j = N /\ j > c + 1
             /\ ev(j) = BlockEvent("content_block_stop", i, b.type)
    <3> DEFINE e == ev(j)
               w == With(before, i, Block(b.type, text(k - 1), sig(k)))
    <3>1. k # 0 /\ k >= c + 1
      BY <1>1, <2>1, <2>9
    <3>2. e.type = "content_block_stop"
      BY <2>9 DEF BlockEvent
    <3> HIDE DEF e, w
    <3>3. st[k] = SoFar(w)
      BY <2>3, <2>5, <3>1 DEF w
    <3>4. ReadEvent(SoFar(w), e) = SoFar(w)
      BY <3>2, ReadSoFar
    <3>5. text(k) = text(k - 1)
      <4>1. k \in Nat /\ k - 1 \in Nat /\ k >= c /\ k - 1 >= c
        BY <1>1, <2>1, <3>1
      <4> QED BY <1>1, <4>1
    <3>6. sig(j) = sig(k)
      <4>1. CASE b.type = "thinking"
        <5>1. k >= c + 2 /\ j >= c + 2
          BY <1>1, <1>2, <2>1, <2>9, <4>1
        <5> QED BY <4>1, <5>1, <1>a
      <4>2. CASE b.type # "thinking"
        BY <4>2, <1>a
      <4> QED BY <4>1, <4>2
    <3>7. st[j] = upto(j)
      BY <2>2, <2>4, <3>3, <3>4, <3>5, <3>6 DEF e, w
    <3> QED BY <2>1, <3>7 DEF j
  <2> QED BY <1>4, <2>1, <2>6, <2>7, <2>8, <2>9
<1>9. 0..N \subseteq T
  <2> HIDE DEF T
  <2> QED BY <1>6, <1>7, <1>8, UpTo
<1>10. \A k \in 1..N : k \in 0..N /\ k # 0
  BY <1>6
<1> QED BY <1>9, <1>10 DEF N, upto

-----------------------------------------------------------------------------
(* Reading a whole message. *)

\* The empty string, by a name that need not be expanded.
NoString == ""

LEMMA MessageChanged ==
    \A blocks, stop, tokens :
        /\ Message(blocks, stop, tokens).blocks = blocks
        /\ Message(blocks, stop, tokens).stop = stop
        /\ Message(blocks, stop, tokens).tokens = tokens
        /\ \A x : [Message(blocks, stop, tokens) EXCEPT !.stop = x] = Message(blocks, x, tokens)
        /\ \A x : [Message(blocks, stop, tokens) EXCEPT !.tokens = x] = Message(blocks, stop, x)
<1> TAKE blocks, stop, tokens
<1> DEFINE m == Message(blocks, stop, tokens)
<1>1. m.blocks = blocks /\ m.stop = stop /\ m.tokens = tokens
  BY DEF Message
<1>2. \A x : [m EXCEPT !.stop = x] = Message(blocks, x, tokens)
  BY DEF Message
<1>3. \A x : [m EXCEPT !.tokens = x] = Message(blocks, stop, x)
  BY DEF Message
<1> QED BY <1>1, <1>2, <1>3

LEMMA ReadEnd ==
    ASSUME NEW blocks, NEW stop, NEW tokens \in Nat, stop # NoString
    PROVE  ReadEvent(SoFar(blocks), End(Message(blocks, stop, tokens))) = Message(blocks, stop, tokens)
<1> DEFINE u == Message(blocks, NoString, 0)
           e == End(Message(blocks, stop, tokens))
           s == IF e.stop # NoString THEN e.stop ELSE u.stop
           t == IF e.tokens > 0 THEN e.tokens ELSE u.tokens
<1>1. e.type = "message_delta" /\ e.stop = stop /\ e.tokens = tokens
  BY MessageChanged DEF End
<1> HIDE DEF e
<1>4. u.blocks = blocks /\ u.stop = NoString /\ u.tokens = 0
  BY MessageChanged
<1>5. \A x : [u EXCEPT !.stop = x] = Message(blocks, x, 0)
  BY MessageChanged
<1>6. s = stop /\ t = tokens
  BY <1>1, <1>4
<1>7. ReadEvent(u, e) = [[u EXCEPT !.stop = s] EXCEPT !.tokens = t]
  <2>1. ReadEvent(u, e) = [u EXCEPT !.stop = s, !.tokens = t]
    BY <1>1, Zenon DEF ReadEvent, NoString
  <2> HIDE DEF u, s, t
  <2> QED BY <2>1
<1> HIDE DEF s, t, u
<1>8. ReadEvent(u, e) = [Message(blocks, s, 0) EXCEPT !.tokens = t]
  BY <1>5, <1>7
<1>9. [Message(blocks, s, 0) EXCEPT !.tokens = t] = Message(blocks, s, t)
  BY MessageChanged
<1> QED BY <1>6, <1>8, <1>9, Zenon DEF u, e, SoFar, NoString

\* Only a thinking block is signed.
Unsigned(m) == \A i \in 1..Len(m.blocks) : m.blocks[i].type # "thinking" => m.blocks[i].sig = NoString

\* The first blocks of a message.
First(m, i) == [x \in 1..i |-> m.blocks[x]]

\* The events of a message, where its blocks lie among them, and their reading.
BareReading(m, p, at, st) ==
    /\ IsMessage(m) /\ Unsigned(m) /\ IsPace(p)
    /\ Lays(m, p, at)
    /\ Reading(Bare(m, p), st)

LEMMA FirstTyped ==
    ASSUME NEW m, IsMessage(m), NEW i \in 0..Len(m.blocks)
    PROVE  First(m, i) \in Seq(Blocks) /\ First(m, i) \in Seq(ReadBlocks) /\ Len(First(m, i)) = i
<1>1. m.blocks \in Seq(Blocks) /\ Len(m.blocks) \in Nat
      /\ \A x \in 1..Len(m.blocks) : m.blocks[x] \in Blocks
  BY MessageTyped
<1>2. Blocks \subseteq ReadBlocks
  BY DEF Blocks, ReadBlocks, Texts
<1>3. \A x \in 1..i : m.blocks[x] \in Blocks /\ m.blocks[x] \in ReadBlocks
  BY <1>1, <1>2
<1>4. i \in Nat
  BY <1>1
<1> QED BY <1>3, <1>4 DEF First

LEMMA PartWhole ==
    ASSUME NEW b \in Blocks, NEW p, IsPace(p), b.type # "thinking" => b.sig = NoString
    PROVE  Part(b, p, Size(b, p)) = b
<1> DEFINE c == Pieces(b, p)
           N == Size(b, p)
           none == NoString
<1>1. c \in Nat /\ \A k \in Nat : k >= c => TextUpTo(b, p, k) = b.text
  BY TextSteps
<1>2. N = c + (IF b.type = "thinking" THEN 3 ELSE 2)
  BY DEF Size
<1>3. Part(b, p, N) = Block(b.type, TextUpTo(b, p, N - 1),
          IF b.type = "thinking" /\ N >= c + 2 THEN b.sig ELSE none)
  BY Zenon DEF Part, NoString
<1>4. b.type # "thinking" => b.sig = none
  OBVIOUS
<1>5. b = Block(b.type, b.text, b.sig)
  BY BlockTyped
<1> HIDE DEF c, N, none
<1>6. N - 1 \in Nat /\ N - 1 >= c /\ N >= c + 2
  BY <1>1, <1>2
<1>7. TextUpTo(b, p, N - 1) = b.text
  BY <1>1, <1>6
<1>8. (IF b.type = "thinking" /\ N >= c + 2 THEN b.sig ELSE none) = b.sig
  BY <1>4, <1>6
<1>9. Part(b, p, N) = b
  BY <1>3, <1>5, <1>7, <1>8
<1> QED BY <1>9 DEF N

LEMMA ReadBare ==
    ASSUME NEW m, NEW p, NEW at, NEW st, BareReading(m, p, at, st)
    PROVE  LET N == Len(m.blocks) IN
           /\ st[0] = Unread
           /\ \A i \in 0..N : st[at[i]] = SoFar(First(m, i))
           /\ \A i \in 1..N : \A k \in 1..Size(m.blocks[i], p) :
                st[at[i - 1] + k] = SoFar(With(First(m, i - 1), i, Part(m.blocks[i], p, k)))
           /\ st[at[N] + 1] = m /\ st[at[N] + 2] = m
<1> DEFINE N == Len(m.blocks)
           of == Bare(m, p)
           size(i) == Size(m.blocks[i], p)
           upto(i, k) == SoFar(With(First(m, i - 1), i, Part(m.blocks[i], p, k)))
           T == {i \in 0..N : st[at[i]] = SoFar(First(m, i))}
<1>1. IsMessage(m) /\ Unsigned(m) /\ IsPace(p) /\ Lays(m, p, at) /\ Reading(of, st)
  BY DEF BareReading
<1>2. /\ m.blocks \in Seq(Blocks) /\ N \in Nat
      /\ \A i \in 1..N : m.blocks[i] \in Blocks
      /\ m.stop # NoString /\ m.tokens \in Nat /\ m = Message(m.blocks, m.stop, m.tokens)
  BY <1>1, MessageTyped DEF NoString
<1>3. /\ at \in [0..N -> Nat] /\ at[0] = 1
      /\ \A i \in 1..N : at[i] = at[i - 1] + size(i)
      /\ \A i, j \in 0..N : i <= j => at[i] <= at[j]
      /\ Len(of) = at[N] + 2
      /\ of[at[N] + 1] = End(m)
      /\ \A i \in 1..N : \A k \in 1..size(i) : of[at[i - 1] + k] = BlockEvents(m.blocks[i], i, p)[k]
  BY <1>1 DEF Lays
<1>4. at[N] \in Nat /\ at[N] >= 1 /\ of[1].type = "message_start"
      /\ of[at[N] + 2].type = "message_stop"
  BY <1>1, BareTyped
<1>5. st[0] = Unread /\ \A j \in 1..Len(of) : st[j] = ReadEvent(st[j - 1], of[j])
  BY <1>1 DEF Reading
<1>6. \A i \in 1..N : size(i) \in Nat /\ size(i) >= 2
  BY <1>1, BodyTyped
<1>a. Len(of) = at[N] + 2
  BY <1>3
<1> HIDE DEF of, size, N
<1>7. st[at[0]] = SoFar(First(m, 0))
  <2>1. st[1] = ReadEvent(st[0], of[1])
    <3>1. 1 \in 1..Len(of) /\ 1 - 1 = 0
      BY <1>3, <1>4
    <3> QED BY <1>5, <3>1
  <2>2. First(m, 0) = <<>>
    BY DEF First
  <2>3. Unread = SoFar(First(m, 0))
    BY <2>2, Zenon DEF Unread, SoFar
  <2>4. ReadEvent(SoFar(First(m, 0)), of[1]) = SoFar(First(m, 0))
    BY <1>4, ReadSoFar
  <2> QED BY <1>3, <1>5, <2>1, <2>3, <2>4
<1>8. ASSUME NEW i \in 1..N, i - 1 \in T
      PROVE  \A k \in 1..size(i) : st[at[i - 1] + k] = upto(i, k)
  <2> DEFINE a == at[i - 1]
             b == m.blocks[i]
             r == [k \in 0..size(i) |-> st[a + k]]
             before == First(m, i - 1)
  <2>1. i \in Indexes /\ i - 1 \in 0..N /\ a \in Nat /\ b \in Blocks /\ i \in Nat
    BY <1>2, <1>3, SMTT(40) DEF Indexes
  <2>2. before \in Seq(ReadBlocks) /\ Len(before) = i - 1
    BY <1>1, <2>1, FirstTyped DEF N
  <2>3. r[0] = SoFar(before)
    <3>1. st[a] = SoFar(before)
      BY <1>8
    <3>2. r[0] = st[a + 0] /\ a + 0 = a
      BY <1>6, <2>1
    <3> QED BY <3>1, <3>2
  <2>4. a + size(i) <= at[N]
    <3>1. i \in 0..N /\ N \in 0..N /\ i <= N
      BY <1>2
    <3>2. at[i] <= at[N]
      BY <1>3, <3>1
    <3>3. at[i] = a + size(i)
      BY <1>3
    <3> QED BY <3>2, <3>3
  <2>5. ASSUME NEW k \in 1..size(i) PROVE r[k] = ReadEvent(r[k - 1], BlockEvents(b, i, p)[k])
    <3> DEFINE q == a + k
    <3>1. q \in 1..Len(of) /\ q - 1 = a + (k - 1) /\ k \in 0..size(i) /\ k - 1 \in 0..size(i)
      <4>1. a \in Nat /\ size(i) \in Nat /\ at[N] \in Nat
        BY <1>4, <1>6, <2>1
      <4> HIDE DEF a
      <4> QED BY <1>a, <2>4, <4>1
    <3>2. of[q] = BlockEvents(b, i, p)[k]
      BY <1>3
    <3>3. r[k] = st[q] /\ r[k - 1] = st[a + (k - 1)]
      BY <3>1
    <3> HIDE DEF q, r
    <3>4. st[q] = ReadEvent(st[q - 1], of[q])
      BY <1>5, <3>1
    <3> QED BY <3>1, <3>2, <3>3, <3>4
  <2>6. \A k \in 0..size(i) : r[k] = st[a + k]
    OBVIOUS
  <2> HIDE DEF a, b, before, r
  <2>7. BlockReading(r, before, b, i, p)
    <3>1. size(i) = Size(b, p)
      BY DEF size, b
    <3> QED BY <1>1, <2>1, <2>2, <2>3, <2>5, <3>1 DEF BlockReading
  <2>8. \A k \in 1..size(i) : r[k] = SoFar(With(before, i, Part(b, p, k)))
    BY <2>7, BlockRead DEF size, b
  <2>9. \A k \in 1..size(i) : st[a + k] = SoFar(With(before, i, Part(b, p, k)))
    <3>1. \A k \in 1..size(i) : k \in 0..size(i)
      BY <1>6
    <3> QED BY <2>6, <2>8, <3>1
  <2> QED BY <2>9 DEF a, b, before
<1>9. ASSUME NEW j \in 0..(N - 1), j \in T PROVE j + 1 \in T
  <2> DEFINE i == j + 1
             b == m.blocks[i]
  <2>1. i \in 1..N /\ i - 1 = j /\ i \in 0..N /\ size(i) \in 1..size(i)
    BY <1>2, <1>6
  <2> HIDE DEF i
  <2>2. st[at[i - 1] + size(i)] = upto(i, size(i))
    BY <1>8, <1>9, <2>1
  <2>3. Part(b, p, size(i)) = b
    <3>1. b.type # "thinking" => b.sig = NoString
      BY <1>1, <2>1 DEF Unsigned, N
    <3> QED BY <1>1, <1>2, <2>1, <3>1, PartWhole DEF size
  <2>4. With(First(m, i - 1), i, b) = First(m, i)
    <3>1. \A x \in 1..i : /\ x < i => x \in 1..(i - 1)
                          /\ ~(x < i) => x = i
      BY <1>2, <2>1
    <3> QED BY <3>1 DEF With, First
  <2>5. st[at[i]] = SoFar(First(m, i))
    <3>1. at[i] = at[i - 1] + size(i)
      BY <1>3, <2>1
    <3> HIDE DEF size, b
    <3>2. upto(i, size(i)) = SoFar(With(First(m, i - 1), i, b))
      BY <2>3 DEF b
    <3> QED BY <2>2, <2>4, <3>1, <3>2
  <2> QED BY <2>1, <2>5 DEF i
<1>10. 0 \in T
  BY <1>2, <1>7
<1>11. 0..N \subseteq T
  <2> HIDE DEF T
  <2> QED BY <1>2, <1>9, <1>10, UpTo
<1>12. \A i \in 1..N : i - 1 \in T
  <2>1. \A i \in 1..N : i - 1 \in 0..N
    BY <1>2
  <2> QED BY <1>11, <2>1
<1>13. st[at[N] + 1] = m /\ st[at[N] + 2] = m
  <2> DEFINE q == at[N] + 1
             q2 == at[N] + 2
  <2>1. q \in 1..Len(of) /\ q - 1 = at[N] /\ q2 \in 1..Len(of) /\ q2 - 1 = q
    BY <1>a, <1>4
  <2>2. of[q] = End(m) /\ of[q2].type = "message_stop"
    BY <1>3, <1>4
  <2> HIDE DEF q, q2
  <2>3. st[q - 1] = SoFar(First(m, N))
    BY <1>2, <1>11, <2>1
  <2>4. First(m, N) = m.blocks
    BY <1>2 DEF First, N
  <2>5. ReadEvent(SoFar(m.blocks), End(m)) = m
    <3>1. ReadEvent(SoFar(m.blocks), End(Message(m.blocks, m.stop, m.tokens)))
            = Message(m.blocks, m.stop, m.tokens)
      BY <1>2, ReadEnd
    <3> QED BY <1>2, <3>1, Zenon
  <2>6. st[q] = m
    BY <1>5, <2>1, <2>2, <2>3, <2>4, <2>5
  <2>7. st[q2] = ReadEvent(m, of[q2])
    BY <1>5, <2>1, <2>6
  <2>8. ReadEvent(m, of[q2]) = m
    BY <2>2 DEF ReadEvent
  <2> QED BY <2>6, <2>7, <2>8 DEF q, q2
<1>14. \A i \in 1..N : \A k \in 1..size(i) : st[at[i - 1] + k] = upto(i, k)
  BY <1>8, <1>12
<1>15. \A i \in 0..N : st[at[i]] = SoFar(First(m, i))
  BY <1>11
<1> HIDE DEF T, upto
<1> QED BY <1>5, <1>13, <1>14, <1>15 DEF N, size, upto

-----------------------------------------------------------------------------
(* Where the events of the bare stream are, once pings are between them. *)

\* Where the events of a sequence are once others are put between them.
Locates(events, of, pos, loc) ==
    /\ loc \in [1..Len(of) -> 1..Len(events)]
    /\ \A q \in 1..Len(of) : events[loc[q]] = of[q] /\ pos[loc[q]] = q
    /\ \A q, r \in 1..Len(of) : q < r => loc[q] < loc[r]
    /\ \A x \in 1..Len(events) : events[x] = Ping \/ (pos[x] \in 1..Len(of) /\ x = loc[pos[x]])
    /\ \A n \in 0..Len(events), q \in 1..Len(of) : q <= pos[n] <=> loc[q] <= n

LEMMA SpacedGrows ==
    ASSUME NEW events \in Seq(Events), NEW of \in Seq(Events), NEW pos, Spaced(events, of, pos)
    PROVE  \A j, k \in 0..Len(events) : j <= k => pos[j] <= pos[k]
<1> DEFINE N == Len(events)
<1>1. N \in Nat /\ Len(of) \in Nat
  OBVIOUS
<1>2. /\ \A k \in 0..N : pos[k] \in Nat
      /\ \A k \in 1..N : pos[k] = pos[k - 1] \/ pos[k] = pos[k - 1] + 1
  <2>1. pos \in [0..N -> 0..Len(of)]
    BY DEF Spaced
  <2>2. \A k \in 1..N : pos[k] = pos[k - 1] \/ pos[k] = pos[k - 1] + 1
    BY DEF Spaced
  <2>3. \A x \in 0..Len(of) : x \in Nat
    BY <1>1
  <2> HIDE DEF N
  <2>4. \A k \in 0..N : pos[k] \in 0..Len(of)
    BY <2>1
  <2> QED BY <2>2, <2>3, <2>4
<1> HIDE DEF N
<1>3. SUFFICES ASSUME NEW j \in 0..N PROVE \A k \in 0..N : j <= k => pos[j] <= pos[k]
  BY DEF N
<1> DEFINE T == {k \in 0..N : j <= k => pos[j] <= pos[k]}
<1>4. 0 \in T
  BY <1>1, <1>2
<1>5. ASSUME NEW k \in 0..(N - 1), k \in T PROVE k + 1 \in T
  <2> DEFINE i == k + 1
  <2>1. i \in 1..N /\ i \in 0..N /\ i - 1 = k /\ (j <= i => j <= k \/ j = i)
    BY <1>1
  <2> HIDE DEF i
  <2>2. pos[i] = pos[k] \/ pos[i] = pos[k] + 1
    BY <1>2, <2>1
  <2>3. pos[i] \in Nat /\ pos[k] \in Nat /\ pos[j] \in Nat
    BY <1>1, <1>2, <2>1
  <2>4. i \in T
    BY <1>5, <2>1, <2>2, <2>3
  <2> QED BY <2>4 DEF i
<1>6. 0..N \subseteq T
  <2> HIDE DEF T
  <2> QED BY <1>1, <1>4, <1>5, UpTo
<1> QED BY <1>6

LEMMA SpacedLocated ==
    ASSUME NEW events \in Seq(Events), NEW of \in Seq(Events), NEW pos, Spaced(events, of, pos)
    PROVE  \E loc : Locates(events, of, pos, loc)
<1> DEFINE L == Len(events)
           N == Len(of)
           IsAt(q, j) == /\ j \in 1..L /\ pos[j] = q /\ pos[j - 1] = q - 1 /\ events[j] = of[q]
                         /\ \A k \in 0..L : q <= pos[k] <=> j <= k
           loc == [q \in 1..N |-> CHOOSE j \in 1..L : IsAt(q, j)]
<1>1. L \in Nat /\ N \in Nat
  OBVIOUS
<1>2. /\ \A k \in 0..L : pos[k] \in 0..N
      /\ pos[0] = 0 /\ pos[L] = N
      /\ \A k \in 1..L : \/ events[k] = Ping /\ pos[k] = pos[k - 1]
                         \/ pos[k] = pos[k - 1] + 1 /\ events[k] = of[pos[k]]
  BY <1>1 DEF Spaced
<1>3. \A j, k \in 0..L : j <= k => pos[j] <= pos[k]
  BY SpacedGrows
<1> HIDE DEF L, N
<1>4. ASSUME NEW q \in 1..N PROVE \E j \in 1..L : IsAt(q, j)
  <2> DEFINE T == {k \in 0..L : q <= pos[k]}
  <2>1. T \subseteq Nat /\ L \in T
    BY <1>1, <1>2
  <2>2. PICK j \in T : \A k \in T : j <= k
    <3> HIDE DEF T
    <3>1. T \subseteq Nat /\ T # {}
      BY <2>1
    <3> QED BY <3>1, LeastNatural
  <2>3. j \in 0..L /\ q <= pos[j]
    OBVIOUS
  <2>4. j # 0
    BY <1>2, <2>3
  <2>5. j \in 1..L /\ j - 1 \in 0..L /\ j \in Nat
    BY <1>1, <2>3, <2>4
  <2>6. j - 1 \notin T
    BY <2>2, <2>5
  <2>7. pos[j - 1] < q
    BY <1>2, <2>5, <2>6
  <2>8. pos[j] \in 0..N /\ pos[j - 1] \in 0..N
    BY <1>2, <2>3, <2>5
  <2>9. pos[j] = q /\ pos[j - 1] = q - 1 /\ events[j] = of[q]
    <3>1. \/ pos[j] = pos[j - 1]
          \/ pos[j] = pos[j - 1] + 1 /\ events[j] = of[pos[j]]
      BY <1>2, <2>5
    <3> DEFINE x == pos[j]
               y == pos[j - 1]
    <3> HIDE DEF x, y
    <3>2. x \in Nat /\ y \in Nat /\ q \in Nat
      BY <1>1, <2>8 DEF x, y
    <3>3. q <= x /\ y < q /\ (x = y \/ x = y + 1)
      BY <2>3, <2>7, <3>1 DEF x, y
    <3>4. x = q /\ y = q - 1 /\ x # y
      BY <3>2, <3>3
    <3> QED BY <3>1, <3>4 DEF x, y
  <2>10. ASSUME NEW k \in 0..L PROVE q <= pos[k] <=> j <= k
    <3>1. q <= pos[k] => j <= k
      BY <2>2
    <3>2. j <= k => q <= pos[k]
      BY <1>3, <2>3, <2>9
    <3> QED BY <3>1, <3>2
  <2> QED BY <2>5, <2>9, <2>10
<1>5. \A q \in 1..N : loc[q] \in 1..L /\ IsAt(q, loc[q])
  BY <1>4
<1>6. loc \in [1..N -> 1..L]
  <2> HIDE DEF IsAt
  <2> QED BY <1>5
<1> HIDE DEF loc
<1>7. \A q \in 1..N : events[loc[q]] = of[q] /\ pos[loc[q]] = q
  BY <1>5
<1>8. \A k \in 0..L, q \in 1..N : q <= pos[k] <=> loc[q] <= k
  BY <1>5
<1>9. ASSUME NEW q \in 1..N, NEW r \in 1..N, q < r PROVE loc[q] < loc[r]
  <2>1. loc[q] \in 1..L /\ loc[r] \in 1..L
    BY <1>5
  <2>2. pos[loc[q]] = q
    BY <1>7
  <2>3. loc[q] \in 0..L
    BY <1>1, <2>1
  <2>4. r <= pos[loc[q]] <=> loc[r] <= loc[q]
    BY <1>8, <2>3
  <2> QED BY <1>1, <1>9, <2>1, <2>2, <2>4
<1>10. ASSUME NEW x \in 1..L, events[x] # Ping PROVE pos[x] \in 1..N /\ x = loc[pos[x]]
  <2> DEFINE q == pos[x]
  <2>1. x \in 0..L /\ x - 1 \in 0..L /\ x \in Nat
    BY <1>1
  <2>2. q = pos[x - 1] + 1 /\ pos[x - 1] \in 0..N /\ q \in 0..N
    BY <1>2, <1>10, <2>1
  <2> HIDE DEF q
  <2>3. q \in 1..N
    BY <1>1, <2>2
  <2>4. loc[q] <= x
    BY <1>8, <2>1, <2>3 DEF q
  <2>5. ~(loc[q] <= x - 1)
    <3>1. ~(q <= pos[x - 1])
      BY <1>1, <2>2
    <3> QED BY <1>8, <2>1, <2>3, <3>1
  <2>6. loc[q] \in 1..L
    BY <1>5, <2>3
  <2>7. x = loc[q]
    BY <1>1, <2>1, <2>4, <2>5, <2>6
  <2> QED BY <2>3, <2>7 DEF q
<1>11. Locates(events, of, pos, loc)
  BY <1>6, <1>7, <1>8, <1>9, <1>10 DEF Locates, L, N
<1> QED BY <1>11

\* Behind the last event that a beginning has of the others there are only pings.
LEMMA OnlyPingsBehind ==
    ASSUME NEW events \in Seq(Events), NEW of \in Seq(Events), NEW pos, Spaced(events, of, pos),
           NEW loc, Locates(events, of, pos, loc), NEW n \in 0..Len(events), pos[n] # 0
    PROVE  /\ pos[n] \in 1..Len(of) /\ loc[pos[n]] \in 1..n
           /\ \A x \in (loc[pos[n]] + 1)..n : events[x] = Ping
<1> DEFINE L == Len(events)
           N == Len(of)
           q == pos[n]
<1>1. L \in Nat /\ N \in Nat
  OBVIOUS
<1>2. pos \in [0..L -> 0..N]
  BY DEF Spaced
<1>3. /\ loc \in [1..N -> 1..L]
      /\ \A i, r \in 1..N : i < r => loc[i] < loc[r]
      /\ \A x \in 1..L : events[x] = Ping \/ (pos[x] \in 1..N /\ x = loc[pos[x]])
      /\ \A k \in 0..L, i \in 1..N : i <= pos[k] <=> loc[i] <= k
  BY DEF Locates
<1>4. \A j, k \in 0..L : j <= k => pos[j] <= pos[k]
  BY SpacedGrows
<1> HIDE DEF L, N
<1>5. n \in 0..L
  BY DEF L
<1>6. q \in 1..N
  BY <1>1, <1>2, <1>5
<1>7. loc[q] <= n /\ loc[q] \in 1..L
  BY <1>1, <1>3, <1>5, <1>6
<1>8. ASSUME NEW x \in (loc[q] + 1)..n PROVE events[x] = Ping
  <2>1. x \in 1..L /\ x \in 0..L /\ x <= n
    BY <1>1, <1>5, <1>7
  <2>2. SUFFICES ASSUME pos[x] \in 1..N /\ x = loc[pos[x]] PROVE FALSE
    BY <1>3, <2>1
  <2>3. pos[x] <= q
    BY <1>4, <1>5, <2>1
  <2> DEFINE r == pos[x]
  <2>4. r = q \/ r < q
    BY <1>1, <1>6, <2>2, <2>3
  <2>5. r \in 1..N /\ x = loc[r]
    BY <2>2
  <2> HIDE DEF r, q
  <2>6. loc[r] = loc[q] \/ loc[r] < loc[q]
    BY <1>3, <1>6, <2>4, <2>5
  <2>7. x \in Nat /\ loc[q] \in Nat
    BY <1>1, <1>7, <2>1
  <2> QED BY <2>5, <2>6, <2>7
<1> QED BY <1>1, <1>5, <1>6, <1>7, <1>8 DEF N, L

-----------------------------------------------------------------------------
(* The JSON of a block, and the body of a stream. *)

LEMMA BlockFields ==
    \A t, x, s : Block(t, x, s).type = t /\ Block(t, x, s).text = x /\ Block(t, x, s).sig = s
BY DEF Block

LEMMA SignatureIs ==
    ASSUME NEW b
    PROVE  /\ b.sig = NoString => SignatureOf(b) = "sim-signature"
           /\ b.sig # NoString => SignatureOf(b) = b.sig
BY Zenon DEF SignatureOf, NoString

LEMMA DefaultIs ==
    /\ \A stop : stop # NoString => Default(stop) = stop
    /\ Default(NoString) = "end_turn"
BY Zenon DEF Default, NoString

JsonBlock(b) ==
    CASE b.type = "thinking" -> Block("thinking", b.text, SignatureOf(b))
      [] b.type = "tool_use" -> Block("tool_use", Tight(InputOf(b)), NoString)
      [] OTHER -> Block("text", b.text, NoString)

LEMMA JsonBlockIs ==
    ASSUME NEW b
    PROVE  /\ b.type = "thinking" => jsonBlock(b) = Block("thinking", b.text, SignatureOf(b))
           /\ b.type = "tool_use" => jsonBlock(b) = Block("tool_use", Tight(InputOf(b)), NoString)
           /\ b.type \notin {"thinking", "tool_use"} => jsonBlock(b) = Block("text", b.text, NoString)
<1>1. jsonBlock(b) = JsonBlock(b)
  BY Zenon DEF jsonBlock, JsonBlock, NoString
<1>2. /\ b.type = "thinking" => JsonBlock(b) = Block("thinking", b.text, SignatureOf(b))
      /\ b.type = "tool_use" => JsonBlock(b) = Block("tool_use", Tight(InputOf(b)), NoString)
      /\ b.type \notin {"thinking", "tool_use"} => JsonBlock(b) = Block("text", b.text, NoString)
  BY DEF JsonBlock
<1> QED BY <1>1, <1>2

LEMMA InputIs ==
    ASSUME NEW b
    PROVE  /\ b.text = <<>> => InputOf(b) = <<"{", "}">>
           /\ b.text # <<>> => InputOf(b) = b.text
BY DEF InputOf

\* All places of a sequence: the sequence.
LEMMA AtAll ==
    ASSUME NEW S, NEW s \in Seq(S), NEW places, places = DOMAIN s
    PROVE  At(s, places) = s
<1> DEFINE n == Len(s)
           f == [k \in 1..n |-> k]
<1>1. n \in Nat /\ DOMAIN s = 1..n
  OBVIOUS
<1>2. Enumerates(f, n, places)
  <2>1. f \in [1..n -> places] /\ places \subseteq Nat
    BY <1>1
  <2>2. \A j, k \in 1..n : j < k => f[j] < f[k]
    OBVIOUS
  <2>3. \A i \in places : \E k \in 1..n : f[k] = i
    BY <1>1
  <2> HIDE DEF f, n
  <2> QED BY <1>1, <2>1, <2>2, <2>3 DEF Enumerates
<1>3. \A k \in 1..n : f[k] = k
  OBVIOUS
<1> HIDE DEF f
<1>4. /\ At(s, places) \in Seq(S) /\ Len(At(s, places)) = n
      /\ \A k \in 1..n : At(s, places)[k] = s[f[k]]
  <2>1. places \in SUBSET (DOMAIN s)
    OBVIOUS
  <2> HIDE DEF n
  <2> QED BY <1>2, <2>1, AtIs
<1>5. \A k \in 1..n : At(s, places)[k] = s[k]
  BY <1>3, <1>4
<1> QED BY <1>4, <1>5, SameSeq

LEMMA TightTyped ==
    ASSUME NEW s \in Texts
    PROVE  Tight(s) \in Texts
<1> DEFINE places == {i \in DOMAIN s : s[i] # " "}
<1>1. places \in SUBSET (DOMAIN s)
  OBVIOUS
<1> HIDE DEF places
<1>2. At(s, places) \in Seq(STRING)
  BY <1>1, AtEnumerates DEF Texts
<1> QED BY <1>2 DEF Tight, places, Texts

\* The strings that stand for braces and spaces, by names that need not be expanded.
LeftBrace == "{"
RightBrace == "}"
Space == " "

LEMMA PairIs ==
    ASSUME NEW S, NEW a \in S, NEW b \in S
    PROVE  /\ <<a, b>> \in Seq(S) /\ Len(<<a, b>>) = 2 /\ DOMAIN <<a, b>> = 1..2
           /\ <<a, b>>[1] = a /\ <<a, b>>[2] = b /\ <<a, b>> # <<>>
<1>1. <<a, b>> \in Seq(S)
  OBVIOUS
<1>2. Len(<<a, b>>) = 2 /\ DOMAIN <<a, b>> = 1..2
  OBVIOUS
<1>3. <<a, b>>[1] = a /\ <<a, b>>[2] = b
  OBVIOUS
<1>4. <<a, b>> # <<>>
  OBVIOUS
<1> QED BY <1>1, <1>2, <1>3, <1>4

LEMMA Braces ==
    /\ <<"{", "}">> \in Texts /\ <<"{", "}">> # <<>>
    /\ IsJSON(<<"{", "}">>) /\ Tight(<<"{", "}">>) = <<"{", "}">>
<1> DEFINE s == <<LeftBrace, RightBrace>>
<1>1. LeftBrace \in STRING /\ RightBrace \in STRING
  BY Literals, Zenon DEF LeftBrace, RightBrace
<1>2. s \in Seq(STRING) /\ Len(s) = 2 /\ s[1] = LeftBrace /\ s[2] = RightBrace
      /\ s # <<>> /\ DOMAIN s = 1..2
  <2> DEFINE S == STRING
             a == LeftBrace
             b == RightBrace
  <2>1. a \in S /\ b \in S
    BY <1>1
  <2> HIDE DEF S, a, b
  <2>2. /\ <<a, b>> \in Seq(S) /\ Len(<<a, b>>) = 2 /\ DOMAIN <<a, b>> = 1..2
        /\ <<a, b>>[1] = a /\ <<a, b>>[2] = b /\ <<a, b>> # <<>>
    BY <2>1, PairIs
  <2> QED BY <2>2, Zenon DEF S, a, b
<1> HIDE DEF s
<1>3. IsJSON(s)
  <2>1. Len(s) >= 2 /\ Last(s) = s[2]
    BY <1>2 DEF Last
  <2>2. s[1] = "{" /\ s[2] = "}"
    BY <1>2, Zenon DEF LeftBrace, RightBrace
  <2> QED BY <2>1, <2>2, Zenon DEF IsJSON
<1>4. Tight(s) = s
  <2> DEFINE places == {i \in DOMAIN s : s[i] # Space}
  <2>1. places = DOMAIN s
    <3>1. \A i \in DOMAIN s : i = 1 \/ i = 2
      BY <1>2
    <3>2. LeftBrace # Space /\ RightBrace # Space
      BY DEF LeftBrace, RightBrace, Space
    <3>3. \A i \in DOMAIN s : s[i] # Space
      BY <1>2, <3>1, <3>2
    <3> QED BY <3>3
  <2>2. At(s, places) = s
    <3> HIDE DEF places
    <3> QED BY <1>2, <2>1, AtAll
  <2>3. Tight(s) = At(s, places)
    BY Zenon DEF Tight, Space
  <2> QED BY <2>2, <2>3
<1>6. s = <<"{", "}">>
  BY Zenon DEF s, LeftBrace, RightBrace
<1>7. s \in Texts
  BY <1>2 DEF Texts
<1> QED BY <1>2, <1>3, <1>4, <1>6, <1>7, Zenon

LEMMA InputTyped ==
    ASSUME NEW b, b.text \in Texts
    PROVE  InputOf(b) \in Texts
BY InputIs, Braces

LEMMA JsonBlockTyped ==
    ASSUME NEW b \in ReadBlocks
    PROVE  jsonBlock(b) \in Blocks
<1>1. b.text \in Texts /\ b.sig \in STRING
  BY DEF ReadBlocks
<1>2. InputOf(b) \in Texts
  BY <1>1, InputTyped
<1>3. Tight(InputOf(b)) \in Texts
  BY <1>2, TightTyped
<1>4. NoString \in STRING /\ "sim-signature" \in STRING
  BY Literals, Zenon DEF NoString
<1>5. SignatureOf(b) \in STRING
  BY <1>1, <1>4, SignatureIs
<1>6. \A t \in {"text", "thinking", "tool_use"}, x \in Texts, s \in STRING : Block(t, x, s) \in Blocks
  BY DEF Block, Blocks, BlockTypes, Texts
<1> QED BY <1>1, <1>3, <1>4, <1>5, <1>6, JsonBlockIs

LEMMA SseIs ==
    ASSUME NEW events \in Seq(Events)
    PROVE  /\ Has(events, "error") \/ ~Has(events, "message_start") => sseToMessage(events) = Refusal
           /\ ~Has(events, "error") /\ Has(events, "message_start") =>
                sseToMessage(events) = Message(ReadAll(events).blocks, Default(ReadAll(events).stop),
                                               ReadAll(events).tokens)
<1> DEFINE r == ReadAll(events)
<1>1. r \in Reads
  BY ReadsTyped
<1>2. sseToMessage(events) = IF Has(events, "error") \/ ~Has(events, "message_start") THEN Refusal
                             ELSE [r EXCEPT !.stop = Default(@)]
  BY Zenon DEF sseToMessage, ReadAll, Unread
<1> HIDE DEF r
<1>3. r = Message(r.blocks, r.stop, r.tokens)
  BY <1>1 DEF Reads, Message
<1>4. [r EXCEPT !.stop = Default(@)] = [r EXCEPT !.stop = Default(r.stop)]
  OBVIOUS
<1> DEFINE d == Default(r.stop)
<1> HIDE DEF d
<1>5. [Message(r.blocks, r.stop, r.tokens) EXCEPT !.stop = d] = Message(r.blocks, d, r.tokens)
  BY MessageChanged
<1>6. [r EXCEPT !.stop = d] = Message(r.blocks, d, r.tokens)
  BY <1>3, <1>5, Zenon
<1> QED BY <1>2, <1>4, <1>6, Zenon DEF r, d

LEMMA WriteTyped ==
    ASSUME NEW m, m.blocks \in Seq(ReadBlocks), m.stop \in STRING \ {NoString}, m.tokens \in Nat
    PROVE  IsMessage(writeMessageJSON(m))
<1> DEFINE w == [i \in DOMAIN m.blocks |-> jsonBlock(m.blocks[i])]
<1>1. \A x \in Seq(Blocks), s \in STRING \ {NoString}, t \in Nat : IsMessage(Message(x, s, t))
  BY DEF IsMessage, Message, NoString
<1>2. w \in Seq(Blocks)
  <2>1. DOMAIN m.blocks = 1..Len(m.blocks) /\ Len(m.blocks) \in Nat
        /\ \A i \in 1..Len(m.blocks) : m.blocks[i] \in ReadBlocks
    OBVIOUS
  <2>2. \A i \in 1..Len(m.blocks) : jsonBlock(m.blocks[i]) \in Blocks
    BY <2>1, JsonBlockTyped
  <2> QED BY <2>1, <2>2
<1>3. IsMessage(Blank)
  <2>1. <<>> \in Seq(Blocks) /\ 0 \in Nat
    OBVIOUS
  <2>2. "blank" \in STRING
    BY Literals, Zenon
  <2>3. "blank" # NoString
    BY DEF NoString
  <2> QED BY <1>1, <2>1, <2>2, <2>3 DEF Blank
<1> HIDE DEF w
<1>4. IsMessage(Message(w, m.stop, m.tokens))
  BY <1>1, <1>2
<1>5. writeMessageJSON(m) = Message(w, m.stop, m.tokens) \/ writeMessageJSON(m) = Blank
  BY DEF writeMessageJSON, w
<1> QED BY <1>3, <1>4, <1>5

\* A stream that was recorded, read and written as one body, is a message.
LEMMA BodyOfStreamTyped ==
    ASSUME NEW events \in Seq(Events), sseToMessage(events) # Refusal
    PROVE  IsMessage(writeMessageJSON(sseToMessage(events)))
<1> DEFINE r == ReadAll(events)
           m == Message(r.blocks, Default(r.stop), r.tokens)
<1>1. sseToMessage(events) = m
  BY SseIs
<1>2. r.blocks \in Seq(ReadBlocks) /\ r.stop \in STRING /\ r.tokens \in Nat
  BY ReadsTyped DEF Reads
<1> HIDE DEF r
<1>3. Default(r.stop) \in STRING \ {NoString}
  <2>1. "end_turn" \in STRING /\ "end_turn" # NoString
    BY Literals, Zenon DEF NoString
  <2> QED BY <1>2, <2>1, DefaultIs
<1>4. m.blocks = r.blocks /\ m.stop = Default(r.stop) /\ m.tokens = r.tokens
  BY MessageChanged
<1> HIDE DEF m
<1> QED BY <1>1, <1>2, <1>3, <1>4, WriteTyped

-----------------------------------------------------------------------------
(* Beginnings: of a block, of a message, of a stream. *)

\* A block as an upstream sends it.
Tidy(b) ==
    /\ b \in Blocks
    /\ b.type # "thinking" => b.sig = NoString
    /\ b.type = "other" => b.text = <<>>
    /\ b.type = "tool_use" /\ b.text # <<>> =>
         IsJSON(b.text) /\ \A k \in 2..(Len(b.text) - 1) : b.text[k] \notin {LeftBrace, RightBrace}

Encoded(b) == b.type = "tool_use" => IsJSON(InputOf(b))

LEMMA UpstreamTidy ==
    ASSUME NEW m, FromUpstream(m)
    PROVE  /\ IsMessage(m) /\ m.stop \notin {"nothing", "error", "blank", "encoded"} /\ Unsigned(m)
           /\ \A i \in 1..Len(m.blocks) : Tidy(m.blocks[i])
<1>1. IsMessage(m) /\ m.stop \notin {"nothing", "error", "blank", "encoded"}
  BY Zenon DEF FromUpstream
<1>2. \A i \in DOMAIN m.blocks :
        /\ m.blocks[i].type # "thinking" => m.blocks[i].sig = NoString
        /\ m.blocks[i].type = "other" => m.blocks[i].text = <<>>
        /\ m.blocks[i].type = "tool_use" /\ m.blocks[i].text # <<>> =>
             IsJSON(m.blocks[i].text) /\ \A k \in 2..(Len(m.blocks[i].text) - 1) :
                m.blocks[i].text[k] \notin {LeftBrace, RightBrace}
  BY Zenon DEF FromUpstream, NoString, LeftBrace, RightBrace
<1>3. DOMAIN m.blocks = 1..Len(m.blocks) /\ \A i \in 1..Len(m.blocks) : m.blocks[i] \in Blocks
  BY <1>1, MessageTyped
<1>4. Unsigned(m)
  BY <1>2, <1>3 DEF Unsigned
<1>5. \A i \in 1..Len(m.blocks) : Tidy(m.blocks[i])
  BY <1>2, <1>3 DEF Tidy
<1> QED BY <1>1, <1>4, <1>5

LEMMA TidyEncoded ==
    ASSUME NEW b, Tidy(b)
    PROVE  Encoded(b)
<1>1. b.text = <<>> => IsJSON(InputOf(b))
  BY InputIs, Braces, Zenon
<1>2. b.text # <<>> /\ b.type = "tool_use" => IsJSON(InputOf(b))
  BY InputIs, Zenon DEF Tidy
<1> QED BY <1>1, <1>2 DEF Encoded

\* A beginning of a tool's input that is JSON is the whole input.
LEMMA WholeInput ==
    ASSUME NEW s \in Texts, NEW t \in Texts, IsPrefix(t, s), IsJSON(t),
           \A k \in 2..(Len(s) - 1) : s[k] # RightBrace
    PROVE  t = s
<1> DEFINE n == Len(t)
           l == Len(s)
<1>1. n \in Nat /\ l \in Nat /\ n <= l
  BY DEF IsPrefix, Texts
<1>2. SubSeq(t, 1, n) = SubSeq(s, 1, n)
  BY DEF IsPrefix
<1>3. s \in Seq(STRING) /\ t \in Seq(STRING)
  BY DEF Texts
<1>4. SubSeq(t, 1, Len(t)) = t /\ SubSeq(s, 1, Len(s)) = s
  BY <1>3, Beginnings
<1>5. \A k \in 0..Len(s) : \A i \in 1..k : SubSeq(s, 1, k)[i] = s[i]
  BY <1>3, Beginnings
<1>6. n >= 2 /\ t[n] = RightBrace
  <2>1. Len(t) >= 2 /\ Last(t) = "}"
    BY Zenon DEF IsJSON
  <2>2. t[n] = "}"
    BY <2>1, Zenon DEF Last
  <2> QED BY <2>1, <2>2, Zenon DEF RightBrace
<1> HIDE DEF n, l
<1>7. t[n] = s[n]
  <2>1. n \in 0..l /\ n \in 1..n
    BY <1>1, <1>6
  <2>2. SubSeq(s, 1, n)[n] = s[n]
    BY <1>5, <2>1 DEF l
  <2> QED BY <1>2, <1>4, <2>2 DEF n
<1>8. ~(n \in 2..(l - 1))
  BY <1>6, <1>7 DEF l
<1>9. n = l
  BY <1>1, <1>6, <1>8
<1> QED BY <1>2, <1>4, <1>9 DEF n, l

LEMMA PartIsPart ==
    ASSUME NEW b \in Blocks, NEW p, IsPace(p), NEW k \in 1..Size(b, p)
    PROVE  /\ Part(b, p, k).type = b.type
           /\ Part(b, p, k).text \in Texts /\ IsPrefix(Part(b, p, k).text, b.text)
           /\ b.type = "thinking" => Part(b, p, k).sig \in {b.sig, NoString}
           /\ b.type # "thinking" => Part(b, p, k).sig = NoString
           /\ Part(b, p, k) \in ReadBlocks
           /\ k = 1 => Part(b, p, k).text = <<>>
<1> DEFINE c == Pieces(b, p)
           x == TextUpTo(b, p, k - 1)
           g == IF b.type = "thinking" /\ k >= c + 2 THEN b.sig ELSE NoString
<1>1. Part(b, p, k) = Block(b.type, x, g)
  BY Zenon DEF Part, NoString
<1>2. k - 1 \in Nat
  OBVIOUS
<1>3. x \in Texts /\ IsPrefix(x, b.text)
  BY <1>2, TextSteps
<1>4. k = 1 => x = <<>>
  <2>1. TextUpTo(b, p, 0) = <<>>
    BY TextSteps
  <2>2. k = 1 => k - 1 = 0
    OBVIOUS
  <2> QED BY <2>1, <2>2
<1> HIDE DEF x
<1>5. /\ b.type = "thinking" => g \in {b.sig, NoString}
      /\ b.type # "thinking" => g = NoString
  OBVIOUS
<1>6. g \in STRING /\ b.type \in BlockTypes
  <2>1. NoString \in STRING
    BY Literals, Zenon DEF NoString
  <2>2. b.sig \in STRING /\ b.type \in BlockTypes
    BY BlockTyped
  <2> HIDE DEF g
  <2> QED BY <1>5, <2>1, <2>2
<1> HIDE DEF g
<1>7. Block(b.type, x, g) \in ReadBlocks
  BY <1>3, <1>6 DEF Block, ReadBlocks
<1> QED BY <1>1, <1>3, <1>4, <1>5, <1>7, BlockFields

\* A block in which the stream stopped, written as JSON.
LEMMA PartBegun ==
    ASSUME NEW b, Tidy(b), NEW p, IsPace(p), NEW k \in 1..Size(b, p), Encoded(Part(b, p, k))
    PROVE  Begun(jsonBlock(Part(b, p, k)), b)
<1> DEFINE c == Part(b, p, k)
           j == jsonBlock(c)
           o == jsonBlock(b)
<1>1. b \in Blocks /\ b.text \in Texts
  BY BlockTyped DEF Tidy
<1>2. /\ c.type = b.type /\ c.text \in Texts /\ IsPrefix(c.text, b.text)
      /\ b.type = "thinking" => c.sig \in {b.sig, NoString}
      /\ b.type # "thinking" => c.sig = NoString
  BY <1>1, PartIsPart
<1>3. b.type # "thinking" => b.sig = NoString
  BY DEF Tidy
<1>4. b.type = "tool_use" /\ b.text # <<>> => \A x \in 2..(Len(b.text) - 1) : b.text[x] # RightBrace
  BY DEF Tidy
<1>5. c.type = "tool_use" => IsJSON(InputOf(c))
  BY DEF Encoded
<1>a. SUFFICES Begun(j, b)
  OBVIOUS
<1> HIDE DEF c
<1>b. Begun(j, b) <=>
        /\ j.type = o.type
        /\ IF j.type = "tool_use" THEN j.text \in {o.text, <<"{", "}">>} ELSE IsPrefix(j.text, b.text)
        /\ j.sig \in {o.sig, "sim-signature"}
  BY Zenon DEF Begun
<1> DEFINE braces == <<"{", "}">>
<1> HIDE DEF braces
<1>c. Begun(j, b) <=>
        /\ j.type = o.type
        /\ IF j.type = "tool_use" THEN j.text \in {o.text, braces} ELSE IsPrefix(j.text, b.text)
        /\ j.sig \in {o.sig, "sim-signature"}
  BY <1>b, Zenon DEF braces
<1> HIDE DEF j, o
<1>6. CASE b.type = "thinking"
  <2>1. j = Block("thinking", c.text, SignatureOf(c)) /\ o = Block("thinking", b.text, SignatureOf(b))
    BY <1>2, <1>6, JsonBlockIs DEF j, o
  <2>2. SignatureOf(c) \in {SignatureOf(b), "sim-signature"}
    BY <1>2, <1>6, SignatureIs
  <2>3. /\ j.type = "thinking" /\ j.text = c.text /\ j.sig = SignatureOf(c)
        /\ o.type = "thinking" /\ o.sig = SignatureOf(b)
    BY <2>1, BlockFields
  <2> QED BY <1>2, <1>c, <2>2, <2>3
<1>7. CASE b.type = "tool_use"
  <2>1. /\ j = Block("tool_use", Tight(InputOf(c)), NoString)
        /\ o = Block("tool_use", Tight(InputOf(b)), NoString)
    BY <1>2, <1>7, JsonBlockIs DEF j, o
  <2>2. /\ j.type = "tool_use" /\ j.text = Tight(InputOf(c)) /\ j.sig = NoString
        /\ o.type = "tool_use" /\ o.text = Tight(InputOf(b)) /\ o.sig = NoString
    BY <2>1, BlockFields
  <2>3. CASE c.text = <<>>
    <3>1. j.text = braces
      BY <2>2, <2>3, InputIs, Braces, Zenon DEF braces
    <3> QED BY <1>c, <2>2, <3>1
  <2>4. CASE c.text # <<>>
    <3>1. InputOf(c) = c.text
      BY <2>4, InputIs
    <3>2. IsJSON(c.text)
      BY <1>2, <1>5, <1>7, <3>1
    <3>3. b.text # <<>>
      <4>1. Len(c.text) <= Len(b.text)
        BY <1>2 DEF IsPrefix
      <4>2. c.text \in Seq(STRING)
        BY <1>2 DEF Texts
      <4> DEFINE t == c.text
                 s == b.text
      <4>3. t \in Seq(STRING) /\ t # <<>> /\ Len(t) <= Len(s)
        BY <2>4, <4>1, <4>2
      <4> HIDE DEF t, s
      <4>4. s # <<>>
        BY <4>3
      <4> QED BY <4>4 DEF s
    <3>4. c.text = b.text
      BY <1>1, <1>2, <1>4, <1>7, <3>2, <3>3, WholeInput
    <3>5. InputOf(b) = InputOf(c)
      BY <3>1, <3>3, <3>4, InputIs
    <3> QED BY <1>c, <2>2, <3>5
  <2> QED BY <2>3, <2>4
<1>8. CASE b.type \notin {"thinking", "tool_use"}
  <2>1. j = Block("text", c.text, NoString) /\ o = Block("text", b.text, NoString)
    BY <1>2, <1>8, JsonBlockIs DEF j, o
  <2>2. /\ j.type = "text" /\ j.text = c.text /\ j.sig = NoString
        /\ o.type = "text" /\ o.sig = NoString
    BY <2>1, BlockFields
  <2> QED BY <1>2, <1>c, <2>2
<1> QED BY <1>6, <1>7, <1>8

LEMMA ReadingExists ==
    ASSUME NEW of \in Seq(Events)
    PROVE  \E st : Reading(of, st)
<1>1. PICK run : Runs(Reads, ReadOp, Unread, of, run) /\ ReadAll(of) = run[Len(of)]
  BY ReadRun
<1>2. /\ run[0] = Unread
      /\ \A k \in 0..Len(of) : run[k] \in Reads
      /\ \A k \in 1..Len(of) : run[k] = ReadOp[<<run[k - 1], of[k]>>]
  BY <1>1 DEF Runs
<1>3. Len(of) \in Nat /\ \A k \in 1..Len(of) : of[k] \in Events /\ k - 1 \in 0..Len(of)
  OBVIOUS
<1>4. \A x \in Reads, e \in Events : ReadOp[<<x, e>>] = ReadEvent(x, e)
  BY DEF ReadOp
<1> DEFINE st == [k \in 0..Len(of) |-> run[k]]
<1>5. st \in [0..Len(of) -> Reads]
  BY <1>2
<1>6. \A k \in 0..Len(of) : st[k] = run[k]
  OBVIOUS
<1> HIDE DEF st
<1>7. st[0] = Unread
  BY <1>2, <1>3, <1>6
<1>8. ASSUME NEW k \in 1..Len(of) PROVE st[k] = ReadEvent(st[k - 1], of[k])
  <2>1. k \in 0..Len(of) /\ k - 1 \in 0..Len(of) /\ of[k] \in Events
    BY <1>3
  <2>2. run[k - 1] \in Reads
    BY <1>2, <2>1
  <2>3. ReadOp[<<run[k - 1], of[k]>>] = ReadEvent(run[k - 1], of[k])
    BY <1>4, <2>1, <2>2
  <2> QED BY <1>2, <1>6, <2>1, <2>3
<1> QED BY <1>5, <1>7, <1>8 DEF Reading

\* A beginning of the events of a message, with whatever pings between them.
Begins(events, m, p, whole, pos, n) ==
    /\ FromUpstream(m) /\ IsPace(p)
    /\ whole \in Seq(Events) /\ Spaced(whole, Bare(m, p), pos)
    /\ n \in 0..Len(whole) /\ events = SubSeq(whole, 1, n)

LEMMA BeginsTyped ==
    ASSUME NEW events, NEW m, NEW p, NEW whole, NEW pos, NEW n, Begins(events, m, p, whole, pos, n)
    PROVE  events \in Seq(Events) /\ Len(events) = n /\ n \in Nat
           /\ \A i \in 1..n : events[i] = whole[i]
<1>1. whole \in Seq(Events) /\ n \in 0..Len(whole) /\ events = SubSeq(whole, 1, n)
  BY DEF Begins
<1>2. n \in Nat
  BY <1>1
<1>3. /\ SubSeq(whole, 1, n) \in Seq(Events) /\ Len(SubSeq(whole, 1, n)) = n
      /\ \A i \in 1..n : SubSeq(whole, 1, n)[i] = whole[i]
  BY <1>1, Beginnings
<1> QED BY <1>1, <1>2, <1>3

\* Where a beginning stops: before the first block, in a block, or behind the last one.
LEMMA StopsAt ==
    ASSUME NEW events, NEW m, NEW p, NEW whole, NEW pos, NEW n,
           Begins(events, m, p, whole, pos, n)
    PROVE  \/ ReadAll(events) = SoFar(<<>>)
           \/ ReadAll(events) = m
           \/ \E i \in 1..Len(m.blocks) : \E k \in 1..Size(m.blocks[i], p) :
                /\ ReadAll(events) = SoFar(With(First(m, i - 1), i, Part(m.blocks[i], p, k)))
                /\ \E x \in 1..Len(events) :
                     /\ events[x] = BlockEvents(m.blocks[i], i, p)[k]
                     /\ \A y \in (x + 1)..Len(events) : events[y] = Ping
<1> DEFINE of == Bare(m, p)
           N == Len(m.blocks)
           size(i) == Size(m.blocks[i], p)
<1>1. /\ FromUpstream(m) /\ IsPace(p) /\ whole \in Seq(Events) /\ Spaced(whole, of, pos)
      /\ n \in 0..Len(whole) /\ events = SubSeq(whole, 1, n)
  BY DEF Begins
<1>2. IsMessage(m) /\ Unsigned(m)
  BY <1>1, UpstreamTidy
<1>3. of \in Seq(Events)
  BY <1>1, <1>2, BareIs
<1>4. PICK at : Lays(m, p, at)
  BY <1>1, <1>2, BareIs
<1>5. PICK st : Reading(of, st)
  BY <1>3, ReadingExists
<1>6. BareReading(m, p, at, st)
  BY <1>1, <1>2, <1>4, <1>5 DEF BareReading
<1>7. /\ st[0] = Unread
      /\ \A i \in 0..N : st[at[i]] = SoFar(First(m, i))
      /\ \A i \in 1..N : \A k \in 1..size(i) :
           st[at[i - 1] + k] = SoFar(With(First(m, i - 1), i, Part(m.blocks[i], p, k)))
      /\ st[at[N] + 1] = m /\ st[at[N] + 2] = m
  BY <1>6, ReadBare
<1>8. /\ at[0] = 1 /\ Len(of) = at[N] + 2
      /\ \A i \in 1..N : \A k \in 1..size(i) : of[at[i - 1] + k] = BlockEvents(m.blocks[i], i, p)[k]
      /\ \A j \in 2..at[N] : \E i \in 1..N : \E k \in 1..size(i) : j = at[i - 1] + k
  BY <1>4 DEF Lays
<1>9. at[N] \in Nat
  BY <1>1, <1>2, <1>4, BareTyped
<1>10. N \in Nat
  BY <1>2, MessageTyped
<1>11. pos[n] \in 0..Len(of) /\ ReadAll(SubSeq(whole, 1, n)) = st[pos[n]]
  BY <1>1, <1>3, <1>5, ReadSpaced
<1>12. PICK loc : Locates(whole, of, pos, loc)
  BY <1>1, <1>3, SpacedLocated
<1>13. pos[n] # 0 => /\ pos[n] \in 1..Len(of) /\ loc[pos[n]] \in 1..n
                     /\ \A x \in (loc[pos[n]] + 1)..n : whole[x] = Ping
  BY <1>1, <1>3, <1>12, OnlyPingsBehind
<1>14. \A q \in 1..Len(of) : whole[loc[q]] = of[q]
  BY <1>12 DEF Locates
<1>15. Len(events) = n /\ n \in Nat /\ \A i \in 1..n : events[i] = whole[i]
  BY BeginsTyped
<1>16. First(m, 0) = <<>> /\ SoFar(<<>>) = Unread
  <2>1. First(m, 0) = <<>>
    BY DEF First
  <2>2. SoFar(<<>>) = Unread
    BY Zenon DEF SoFar, Unread
  <2> QED BY <2>1, <2>2
<1> DEFINE j == pos[n]
           r == ReadAll(events)
<1>17. r = st[j]
  BY <1>1, <1>11
<1>18. j = 0 \/ j = 1 \/ j \in 2..at[N] \/ j = at[N] + 1 \/ j = at[N] + 2
  <2>1. j \in 0..(at[N] + 2)
    BY <1>8, <1>11
  <2> HIDE DEF j
  <2> QED BY <1>9, <2>1
<1> HIDE DEF of, N, size, r, j
<1>19. CASE j = 0 \/ j = 1
  <2>1. st[1] = SoFar(<<>>)
    <3>1. 0 \in 0..N
      BY <1>10
    <3> QED BY <1>7, <1>8, <1>16, <3>1
  <2>2. r = SoFar(<<>>)
    BY <1>7, <1>16, <1>17, <1>19, <2>1
  <2> QED BY <2>2 DEF r
<1>20. CASE j = at[N] + 1 \/ j = at[N] + 2
  <2>1. r = m
    BY <1>7, <1>17, <1>20
  <2> QED BY <2>1 DEF r
<1>21. CASE j \in 2..at[N]
  <2>1. PICK i \in 1..N : \E k \in 1..size(i) : j = at[i - 1] + k
    BY <1>8, <1>21
  <2>2. PICK k \in 1..size(i) : j = at[i - 1] + k
    BY <2>1
  <2>3. r = SoFar(With(First(m, i - 1), i, Part(m.blocks[i], p, k)))
    BY <1>7, <1>17, <2>2
  <2> DEFINE x == loc[j]
  <2>4. j # 0
    BY <1>9, <1>21
  <2>5. j \in 1..Len(of) /\ x \in 1..n /\ \A y \in (x + 1)..n : whole[y] = Ping
    BY <1>13, <2>4 DEF j
  <2>6. whole[x] = of[j] /\ of[j] = BlockEvents(m.blocks[i], i, p)[k]
    BY <1>8, <1>14, <2>2, <2>5
  <2> HIDE DEF x
  <2>7. events[x] = BlockEvents(m.blocks[i], i, p)[k]
    BY <1>15, <2>5, <2>6
  <2>8. \A y \in (x + 1)..n : y \in 1..n
    BY <1>15, <2>5
  <2>9. \A y \in (x + 1)..n : events[y] = Ping
    BY <1>15, <2>5, <2>8
  <2> QED BY <1>15, <2>3, <2>5, <2>7, <2>9 DEF r, N, size
<1> QED BY <1>18, <1>19, <1>20, <1>21

\* What a beginning has: a kind of event that comes only once, if it is read that far.
LEMMA WholeStops ==
    ASSUME NEW events, NEW m, NEW p, NEW whole, NEW pos, NEW n,
           Begins(events, m, p, whole, pos, n), Has(events, "message_stop")
    PROVE  pos[n] = Len(Bare(m, p)) /\ ReadAll(events) = m
<1> DEFINE of == Bare(m, p)
           N == Len(m.blocks)
<1>1. /\ FromUpstream(m) /\ IsPace(p) /\ whole \in Seq(Events) /\ Spaced(whole, of, pos)
      /\ n \in 0..Len(whole) /\ events = SubSeq(whole, 1, n)
  BY DEF Begins
<1>2. IsMessage(m) /\ Unsigned(m)
  BY <1>1, UpstreamTidy
<1>3. of \in Seq(Events)
  BY <1>1, <1>2, BareIs
<1>4. PICK at : Lays(m, p, at)
  BY <1>1, <1>2, BareIs
<1>5. PICK st : Reading(of, st)
  BY <1>3, ReadingExists
<1>6. BareReading(m, p, at, st)
  BY <1>1, <1>2, <1>4, <1>5 DEF BareReading
<1>7. st[at[N] + 2] = m
  BY <1>6, ReadBare
<1>8. /\ Len(of) = at[N] + 2 /\ at[N] \in Nat
      /\ of[1].type = "message_start"
      /\ \A j \in 2..at[N] : of[j].type \in BlockKinds
      /\ of[at[N] + 1].type = "message_delta"
  BY <1>1, <1>2, <1>4, BareTyped
<1>9. pos[n] \in 0..Len(of) /\ ReadAll(SubSeq(whole, 1, n)) = st[pos[n]]
  BY <1>1, <1>3, <1>5, ReadSpaced
<1>10. PICK loc : Locates(whole, of, pos, loc)
  BY <1>1, <1>3, SpacedLocated
<1>11. /\ loc \in [1..Len(of) -> 1..Len(whole)]
       /\ \A q \in 1..Len(of) : whole[loc[q]] = of[q]
       /\ \A x \in 1..Len(whole) : whole[x] = Ping \/ (pos[x] \in 1..Len(of) /\ x = loc[pos[x]])
       /\ \A k \in 0..Len(whole), q \in 1..Len(of) : q <= pos[k] <=> loc[q] <= k
  BY <1>10 DEF Locates
<1>12. Len(events) = n /\ n \in Nat /\ events \in Seq(Events) /\ \A i \in 1..n : events[i] = whole[i]
  BY BeginsTyped
<1>13. PICK x \in 1..n : events[x].type = "message_stop"
  BY <1>12 DEF Has
<1>14. Len(whole) \in Nat /\ x \in 1..Len(whole) /\ whole[x].type = "message_stop" /\ x <= n
  BY <1>1, <1>12, <1>13
<1>15. whole[x] # Ping
  BY <1>14, PingIs
<1>16. pos[x] \in 1..Len(of) /\ x = loc[pos[x]] /\ of[pos[x]].type = "message_stop"
  BY <1>11, <1>14, <1>15
<1> DEFINE j == pos[x]
<1> HIDE DEF of, N
<1>17. j = at[N] + 2
  <2>1. j \in 1..(at[N] + 2)
    BY <1>8, <1>16
  <2>2. j = 1 \/ j \in 2..at[N] \/ j = at[N] + 1 \/ j = at[N] + 2
    <3> HIDE DEF j
    <3> QED BY <1>8, <2>1
  <2>3. of[j].type = "message_stop"
    BY <1>16
  <2> HIDE DEF j
  <2> QED BY <1>8, <2>2, <2>3 DEF BlockKinds
<1>18. Len(of) <= pos[n]
  <2>1. loc[Len(of)] <= n
    BY <1>8, <1>14, <1>16, <1>17
  <2>2. Len(of) \in 1..Len(of)
    BY <1>8
  <2>3. n \in 0..Len(whole)
    BY <1>1
  <2> QED BY <1>11, <2>1, <2>2, <2>3
<1>19. pos[n] = Len(of)
  BY <1>8, <1>9, <1>18
<1>20. ReadAll(events) = m
  BY <1>1, <1>7, <1>8, <1>9, <1>19
<1> QED BY <1>19, <1>20 DEF of

LEMMA ErrorsAre ==
    /\ Refusal.stop = "error" /\ Blank.stop = "blank" /\ Nothing.stop = "nothing"
    /\ Refusal.blocks = <<>> /\ Blank.blocks = <<>> /\ Nothing.blocks = <<>>
<1>1. Refusal.stop = "error" /\ Refusal.blocks = <<>>
  BY MessageChanged DEF Refusal
<1>2. Blank.stop = "blank" /\ Blank.blocks = <<>>
  BY MessageChanged DEF Blank
<1>3. Nothing.stop = "nothing" /\ Nothing.blocks = <<>>
  BY MessageChanged DEF Nothing
<1> QED BY <1>1, <1>2, <1>3

LEMMA WrittenIs ==
    ASSUME NEW u, u.blocks \in Seq(ReadBlocks)
    PROVE  /\ (\A i \in 1..Len(u.blocks) : Encoded(u.blocks[i])) =>
                /\ Encodable(u)
                /\ writeMessageJSON(u).blocks = [i \in 1..Len(u.blocks) |-> jsonBlock(u.blocks[i])]
                /\ writeMessageJSON(u).stop = u.stop
                /\ writeMessageJSON(u).tokens = u.tokens
           /\ (\E i \in 1..Len(u.blocks) : ~Encoded(u.blocks[i])) => writeMessageJSON(u) = Blank
<1>1. DOMAIN u.blocks = 1..Len(u.blocks)
  OBVIOUS
<1>2. Encodable(u) <=> \A i \in 1..Len(u.blocks) : Encoded(u.blocks[i])
  BY <1>1, Zenon DEF Encodable, Encoded
<1> DEFINE w == [i \in 1..Len(u.blocks) |-> jsonBlock(u.blocks[i])]
<1>3. writeMessageJSON(u) = IF Encodable(u) THEN Message(w, u.stop, u.tokens) ELSE Blank
  BY <1>1, Zenon DEF writeMessageJSON
<1> HIDE DEF w
<1>4. Message(w, u.stop, u.tokens).blocks = w /\ Message(w, u.stop, u.tokens).stop = u.stop
      /\ Message(w, u.stop, u.tokens).tokens = u.tokens
  BY MessageChanged
<1>5. (\A i \in 1..Len(u.blocks) : Encoded(u.blocks[i])) =>
                /\ Encodable(u)
                /\ writeMessageJSON(u).blocks = w
                /\ writeMessageJSON(u).stop = u.stop
                /\ writeMessageJSON(u).tokens = u.tokens
  BY <1>2, <1>3, <1>4, Zenon
<1>6. (\E i \in 1..Len(u.blocks) : ~Encoded(u.blocks[i])) => writeMessageJSON(u) = Blank
  BY <1>2, <1>3, Zenon
<1> QED BY <1>5, <1>6 DEF w

\* The blocks of the answer: those of the message, up to the one in which the stream stopped.
Answers(w, m) ==
    /\ w \notin {Refusal, Blank}
    /\ Len(w.blocks) <= Len(m.blocks)
    /\ \A i \in 1..Len(w.blocks) :
         IF i < Len(w.blocks) THEN w.blocks[i] = jsonBlock(m.blocks[i])
                              ELSE Begun(w.blocks[i], m.blocks[i])

Stopped(u, m) ==
    /\ u.blocks \in Seq(ReadBlocks) /\ u.stop \notin {"error", "blank"}
    /\ Len(u.blocks) <= Len(m.blocks)
    /\ \A i \in 1..Len(u.blocks) :
         /\ Encoded(u.blocks[i])
         /\ IF i < Len(u.blocks) THEN u.blocks[i] = m.blocks[i]
                                 ELSE Begun(jsonBlock(u.blocks[i]), m.blocks[i])

LEMMA StoppedAnswers ==
    ASSUME NEW u, NEW m, Stopped(u, m)
    PROVE  Answers(writeMessageJSON(u), m)
<1> DEFINE w == writeMessageJSON(u)
           n == Len(u.blocks)
<1>1. /\ u.blocks \in Seq(ReadBlocks) /\ u.stop \notin {"error", "blank"}
      /\ n <= Len(m.blocks)
      /\ \A i \in 1..n : Encoded(u.blocks[i])
      /\ \A i \in 1..n : IF i < n THEN u.blocks[i] = m.blocks[i]
                                  ELSE Begun(jsonBlock(u.blocks[i]), m.blocks[i])
  BY DEF Stopped
<1>2. w.blocks = [i \in 1..n |-> jsonBlock(u.blocks[i])] /\ w.stop = u.stop
  BY <1>1, WrittenIs
<1>3. n \in Nat
  BY <1>1
<1> HIDE DEF w, n
<1>4. Len(w.blocks) = n /\ \A i \in 1..n : w.blocks[i] = jsonBlock(u.blocks[i])
  BY <1>2, <1>3
<1>5. w \notin {Refusal, Blank}
  BY <1>1, <1>2, ErrorsAre
<1>6. ASSUME NEW i \in 1..n
      PROVE  IF i < n THEN w.blocks[i] = jsonBlock(m.blocks[i]) ELSE Begun(w.blocks[i], m.blocks[i])
  <2>1. CASE i < n
    BY <1>1, <1>4, <2>1
  <2>2. CASE ~(i < n)
    BY <1>1, <1>4, <2>2
  <2> QED BY <2>1, <2>2
<1> QED BY <1>1, <1>4, <1>5, <1>6 DEF Answers, w

LEMMA InsideAt ==
    ASSUME NEW events \in Seq(Events), NEW x \in 1..Len(events),
           events[x].type = "content_block_delta", events[x].kind = "input_json_delta",
           \A y \in (x + 1)..Len(events) : events[y] = Ping
    PROVE  InsideInput(events)
<1> DEFINE n == Len(events)
           a == x - 1
           s == SubSeq(events, a + 1, n)
<1>1. n \in Nat /\ a \in 0..n /\ n \in 0..n /\ a <= n /\ a + 1 = x
  OBVIOUS
<1>2. s \in Seq(Events) /\ Len(s) = n - a /\ \A i \in 1..(n - a) : s[i] = events[a + i]
  <2> HIDE DEF a
  <2>1. n = Len(events)
    OBVIOUS
  <2> QED BY <1>1, <2>1, PartIs
<1>3. s = SubSeq(events, x, Len(events))
  BY <1>1
<1> HIDE DEF s
<1>4. ASSUME NEW i \in DOMAIN s PROVE s[i].type # "content_block_stop"
  <2>1. i \in 1..(n - a)
    BY <1>2
  <2>2. i = 1 \/ i \in 2..(n - a)
    BY <1>1, <2>1
  <2>3. CASE i = 1
    <3>1. s[i] = events[x]
      BY <1>1, <1>2, <2>1, <2>3
    <3> QED BY <3>1
  <2>4. CASE i \in 2..(n - a)
    <3>1. a + i \in (x + 1)..n
      BY <1>1, <2>4
    <3> DEFINE y == a + i
    <3>2. s[i] = events[y] /\ y \in (x + 1)..n
      BY <1>2, <2>1, <3>1
    <3> HIDE DEF y
    <3>3. s[i] = Ping
      BY <3>2
    <3> QED BY <3>3, PingIs
  <2> QED BY <2>2, <2>3, <2>4
<1>5. ~Has(s, "content_block_stop")
  BY <1>4 DEF Has
<1>6. x \in DOMAIN events
  OBVIOUS
<1> QED BY <1>3, <1>5, <1>6 DEF InsideInput

LEMMA PartUnencoded ==
    ASSUME NEW b, Tidy(b), NEW i \in Indexes, NEW p, IsPace(p), NEW k \in 1..Size(b, p),
           ~Encoded(Part(b, p, k))
    PROVE  /\ BlockEvents(b, i, p)[k].type = "content_block_delta"
           /\ BlockEvents(b, i, p)[k].kind = "input_json_delta"
<1> DEFINE c == Part(b, p, k)
           e == BlockEvents(b, i, p)[k]
<1>1. b \in Blocks /\ (b.type # "thinking" => b.sig = NoString)
  BY DEF Tidy
<1>2. c.type = "tool_use" /\ ~IsJSON(InputOf(c))
  BY DEF Encoded
<1>3. b.type = "tool_use" /\ (k = 1 => c.text = <<>>)
  BY <1>1, <1>2, PartIsPart
<1>4. k # 1
  <2>1. c.text = <<>> => IsJSON(InputOf(c))
    BY InputIs, Braces, Zenon
  <2> HIDE DEF c
  <2> QED BY <1>2, <1>3, <2>1
<1>5. k # Size(b, p)
  <2>1. Part(b, p, Size(b, p)) = b
    BY <1>1, PartWhole
  <2>2. Encoded(b)
    BY TidyEncoded
  <2> QED BY <2>1, <2>2
<1>6. e = Delta(i, DeltaOf(b.type), Chunk(b, p, k - 1))
  <2>1. \/ k = 1 /\ e = BlockEvent("content_block_start", i, b.type)
        \/ k - 1 \in 1..Pieces(b, p) /\ e = Delta(i, DeltaOf(b.type), Chunk(b, p, k - 1))
        \/ /\ b.type = "thinking" /\ k = Pieces(b, p) + 2
           /\ e = Delta(i, "signature_delta", <<b.sig>>)
        \/ /\ k = Size(b, p) /\ k > Pieces(b, p) + 1
           /\ e = BlockEvent("content_block_stop", i, b.type)
    BY <1>1, BlockEventAt
  <2> HIDE DEF e
  <2> QED BY <1>3, <1>4, <1>5, <2>1
<1>7. DeltaOf(b.type) = "input_json_delta"
  BY <1>3 DEF DeltaOf
<1> HIDE DEF e
<1>8. e.type = "content_block_delta" /\ e.kind = "input_json_delta"
  BY <1>6, <1>7 DEF Delta
<1> QED BY <1>8 DEF e

\* A recording that was read and written as one body.
LEMMA BodyOfBeginning ==
    ASSUME NEW events, NEW m, NEW p, NEW whole, NEW pos, NEW n,
           Begins(events, m, p, whole, pos, n),
           ~Has(events, "error"), Has(events, "message_start")
    PROVE  /\ sseToMessage(events) # Refusal
           /\ \/ writeMessageJSON(sseToMessage(events)) = Blank /\ InsideInput(events)
              \/ Answers(writeMessageJSON(sseToMessage(events)), m)
<1> DEFINE r == ReadAll(events)
           u == sseToMessage(events)
           N == Len(m.blocks)
<1>1. FromUpstream(m) /\ IsPace(p)
  BY DEF Begins
<1>2. /\ IsMessage(m) /\ m.stop \notin {"nothing", "error", "blank"}
      /\ \A i \in 1..N : Tidy(m.blocks[i])
  BY <1>1, UpstreamTidy
<1>3. /\ m.blocks \in Seq(Blocks) /\ N \in Nat /\ m.stop # NoString
      /\ \A i \in 1..N : m.blocks[i] \in Blocks
      /\ m = Message(m.blocks, m.stop, m.tokens)
  BY <1>2, MessageTyped DEF NoString
<1>4. events \in Seq(Events)
  BY BeginsTyped
<1>5. u = Message(r.blocks, Default(r.stop), r.tokens)
  BY <1>4, SseIs
<1>6. u.blocks = r.blocks /\ u.stop = Default(r.stop)
  BY <1>5, MessageChanged
<1>7. u.blocks \in Seq(ReadBlocks)
  BY <1>4, <1>6, ReadsTyped DEF Reads
<1>8. \A x : SoFar(x).blocks = x /\ SoFar(x).stop = NoString
  <2>1. \A x : SoFar(x) = Message(x, NoString, 0)
    BY Zenon DEF SoFar, NoString
  <2> QED BY <2>1, MessageChanged
<1>9. \/ r = SoFar(<<>>)
      \/ r = m
      \/ \E i \in 1..N : \E k \in 1..Size(m.blocks[i], p) :
           /\ r = SoFar(With(First(m, i - 1), i, Part(m.blocks[i], p, k)))
           /\ \E x \in 1..Len(events) :
                /\ events[x] = BlockEvents(m.blocks[i], i, p)[k]
                /\ \A y \in (x + 1)..Len(events) : events[y] = Ping
  BY StopsAt
<1> HIDE DEF r, u, N
<1>10. CASE r = SoFar(<<>>)
  <2>1. u.blocks = <<>> /\ u.stop = "end_turn" /\ Len(u.blocks) = 0
    BY <1>6, <1>8, <1>10, DefaultIs
  <2>2. Stopped(u, m)
    BY <1>3, <1>7, <2>1 DEF Stopped, N
  <2>3. u # Refusal
    BY <2>1, ErrorsAre
  <2> QED BY <2>2, <2>3, StoppedAnswers DEF u
<1>11. CASE r = m
  <2>1. u.blocks = m.blocks /\ u.stop = m.stop
    BY <1>3, <1>6, <1>11, DefaultIs
  <2>2. ASSUME NEW i \in 1..N PROVE Encoded(m.blocks[i]) /\ Begun(jsonBlock(m.blocks[i]), m.blocks[i])
    <3> DEFINE b == m.blocks[i]
               k == Size(b, p)
    <3>1. Tidy(b) /\ b \in Blocks /\ (b.type # "thinking" => b.sig = NoString)
      BY <1>2 DEF Tidy
    <3>2. Encoded(b)
      BY <3>1, TidyEncoded
    <3>3. Part(b, p, k) = b /\ k \in 1..Size(b, p)
      <4>1. Part(b, p, k) = b
        BY <1>1, <3>1, PartWhole
      <4>2. k \in Nat /\ k >= 2
        BY <1>1, <1>2, BodyTyped DEF N
      <4> QED BY <4>1, <4>2
    <3>4. Begun(jsonBlock(Part(b, p, k)), b)
      <4> HIDE DEF b, k
      <4> QED BY <1>1, <3>1, <3>2, <3>3, PartBegun
    <3> QED BY <3>2, <3>3, <3>4
  <2>3. Stopped(u, m)
    BY <1>2, <1>3, <1>7, <2>1, <2>2 DEF Stopped, N
  <2>4. u # Refusal
    BY <1>2, <2>1, ErrorsAre
  <2> QED BY <2>3, <2>4, StoppedAnswers DEF u
<1>12. ASSUME NEW i \in 1..N, NEW k \in 1..Size(m.blocks[i], p),
              r = SoFar(With(First(m, i - 1), i, Part(m.blocks[i], p, k))),
              NEW x \in 1..Len(events), events[x] = BlockEvents(m.blocks[i], i, p)[k],
              \A y \in (x + 1)..Len(events) : events[y] = Ping
       PROVE  /\ u # Refusal
              /\ \/ writeMessageJSON(u) = Blank /\ InsideInput(events)
                 \/ Answers(writeMessageJSON(u), m)
  <2> DEFINE b == m.blocks[i]
             c == Part(b, p, k)
             f == With(First(m, i - 1), i, c)
  <2>1. u.blocks = f /\ u.stop = "end_turn"
    BY <1>6, <1>8, <1>12, DefaultIs
  <2>2. u # Refusal
    BY <2>1, ErrorsAre
  <2>3. i \in Nat /\ i \in Indexes /\ i <= N /\ i \in 1..i
    BY <1>3 DEF Indexes
  <2>4. Tidy(b)
    BY <1>2
  <2> HIDE DEF c
  <2>5. Len(f) = i /\ f[i] = c /\ \A y \in 1..i : y < i => f[y] = m.blocks[y]
    <3>1. f = [y \in 1..i |-> IF y < i THEN First(m, i - 1)[y] ELSE c]
      BY DEF With
    <3>2. \A y \in 1..i : y < i => y \in 1..(i - 1)
      BY <2>3
    <3>3. \A y \in 1..(i - 1) : First(m, i - 1)[y] = m.blocks[y]
      BY DEF First
    <3> HIDE DEF f
    <3>4. Len(f) = i /\ f[i] = c
      BY <2>3, <3>1
    <3>5. \A y \in 1..i : y < i => f[y] = m.blocks[y]
      BY <3>1, <3>2, <3>3
    <3> QED BY <3>4, <3>5
  <2> HIDE DEF f
  <2>6. CASE Encoded(c)
    <3>1. Begun(jsonBlock(c), b)
      BY <1>1, <2>4, <2>6, PartBegun DEF c
    <3>2. \A y \in 1..i : Encoded(f[y])
      <4>1. \A y \in 1..i : y < i \/ y = i
        BY <2>3
      <4>2. \A y \in 1..i : y \in 1..N
        BY <1>3, <2>3
      <4>3. \A y \in 1..N : Encoded(m.blocks[y])
        BY <1>2, TidyEncoded
      <4> QED BY <2>5, <2>6, <4>1, <4>2, <4>3
    <3>3. \A y \in 1..i : ~(y < i) => y = i
      BY <2>3
    <3>4. Stopped(u, m)
      BY <1>7, <2>1, <2>3, <2>5, <3>1, <3>2, <3>3 DEF Stopped, N
    <3> QED BY <2>2, <3>4, StoppedAnswers
  <2>7. CASE ~Encoded(c)
    <3>1. events[x].type = "content_block_delta" /\ events[x].kind = "input_json_delta"
      BY <1>1, <1>12, <2>3, <2>4, <2>7, PartUnencoded DEF c
    <3>2. InsideInput(events)
      BY <1>4, <1>12, <3>1, InsideAt
    <3>3. writeMessageJSON(u) = Blank
      <4>1. i \in 1..Len(u.blocks) /\ ~Encoded(u.blocks[i])
        BY <2>1, <2>3, <2>5, <2>7
      <4> QED BY <1>7, <4>1, WrittenIs
    <3> QED BY <2>2, <3>2, <3>3
  <2> QED BY <2>6, <2>7
<1> QED BY <1>9, <1>10, <1>11, <1>12 DEF u

-----------------------------------------------------------------------------
(* The stream that breaks off with an error. *)

OneRune == [chunk |-> 1, ping |-> 0]

LEMMA FillerIs ==
    ASSUME NEW k \in Nat
    PROVE  /\ FromUpstream(Filler(k)) /\ IsPace(OneRune)
           /\ Len(Filler(k).blocks) = 1
           /\ Filler(k).blocks[1].type = "text"
           /\ Len(Filler(k).blocks[1].text) = k
           /\ \A q \in 1..k : Filler(k).blocks[1].text[q] = "filler"
<1> DEFINE t == [q \in 1..k |-> "filler"]
           b == Block("text", t, NoString)
           s == <<b>>
           m == Message(s, "unsaid", 0)
<1>1. "filler" \in STRING /\ "unsaid" \in STRING /\ NoString \in STRING /\ "unsaid" # NoString
  BY Literals, Zenon DEF NoString
<1>2. t \in Texts /\ Len(t) = k /\ \A q \in 1..k : t[q] = "filler"
  <2>1. t \in Seq(STRING)
    BY <1>1
  <2>2. Len(t) = k /\ \A q \in 1..k : t[q] = "filler"
    OBVIOUS
  <2> QED BY <2>1, <2>2 DEF Texts
<1> HIDE DEF t
<1>3. b.type = "text" /\ b.text = t /\ b.sig = NoString
  BY BlockFields
<1>4. b \in Blocks
  BY <1>1, <1>2 DEF Block, Blocks, BlockTypes, Texts
<1> HIDE DEF b
<1>5. s \in Seq(Blocks) /\ Len(s) = 1 /\ s[1] = b /\ DOMAIN s = 1..1
  BY <1>4
<1> HIDE DEF s
<1>6. m.blocks = s /\ m.stop = "unsaid" /\ m.tokens = 0
  BY MessageChanged
<1>7. IsMessage(m)
  BY <1>1, <1>5 DEF IsMessage, Message, NoString
<1> HIDE DEF m
<1>8. \A i \in DOMAIN m.blocks : m.blocks[i] = b
  <2>1. \A i \in 1..1 : i = 1
    OBVIOUS
  <2> QED BY <1>5, <1>6, <2>1
<1>9. \A i \in DOMAIN m.blocks :
        /\ m.blocks[i].type # "thinking" => m.blocks[i].sig = NoString
        /\ m.blocks[i].type = "other" => m.blocks[i].text = <<>>
        /\ m.blocks[i].type = "tool_use" /\ m.blocks[i].text # <<>> =>
             IsJSON(m.blocks[i].text) /\ \A x \in 2..(Len(m.blocks[i].text) - 1) :
                m.blocks[i].text[x] \notin {LeftBrace, RightBrace}
  BY <1>3, <1>8
<1>10. m.stop \notin {"nothing", "error", "blank", "encoded"}
  BY <1>6
<1>11. FromUpstream(m)
  BY <1>7, <1>9, <1>10, Zenon DEF FromUpstream, NoString, LeftBrace, RightBrace
<1>12. m = Filler(k)
  BY Zenon DEF m, s, b, t, Filler, NoString
<1>13. IsPace(OneRune)
  BY DEF IsPace, OneRune
<1> QED BY <1>2, <1>3, <1>5, <1>6, <1>11, <1>12, <1>13

LEMMA FillerBare ==
    ASSUME NEW k \in Nat
    PROVE  /\ Len(Bare(Filler(k), OneRune)) = k + 5
           /\ Bare(Filler(k), OneRune)[1] = Plain("message_start")
           /\ Bare(Filler(k), OneRune)[2] = BlockEvent("content_block_start", 1, "text")
           /\ \A q \in 1..k : Bare(Filler(k), OneRune)[2 + q] = Delta(1, "text_delta", <<"filler">>)
<1> DEFINE m == Filler(k)
           p == OneRune
           b == m.blocks[1]
           of == Bare(m, p)
<1>1. /\ FromUpstream(m) /\ IsPace(p) /\ Len(m.blocks) = 1 /\ b.type = "text"
      /\ Len(b.text) = k /\ \A q \in 1..k : b.text[q] = "filler"
  BY FillerIs
<1>2. IsMessage(m)
  BY <1>1, UpstreamTidy
<1>3. b \in Blocks
  <2>1. \A i \in 1..Len(m.blocks) : m.blocks[i] \in Blocks
    BY <1>2, MessageTyped
  <2>2. 1 \in 1..Len(m.blocks)
    BY <1>1
  <2> QED BY <2>1, <2>2
<1>4. PICK at : Lays(m, p, at)
  BY <1>1, <1>2, BareIs
<1>5. ChunkSize(p) = 1
  BY DEF ChunkSize, OneRune
<1>6. Pieces(b, p) = k
  BY <1>1, <1>5 DEF Pieces
<1>7. Size(b, p) = k + 2
  BY <1>1, <1>6 DEF Size
<1> HIDE DEF of, m, p, b
<1>8. /\ at[0] = 1 /\ at[1] = k + 3 /\ Len(of) = at[1] + 2
      /\ of[1] = Plain("message_start")
      /\ \A x \in 1..Size(b, p) : of[1 + x] = BlockEvents(b, 1, p)[x]
  <2>1. /\ at[0] = 1 /\ Len(of) = at[Len(m.blocks)] + 2 /\ of[1] = Plain("message_start")
        /\ \A i \in 1..Len(m.blocks) : at[i] = at[i - 1] + Size(m.blocks[i], p)
        /\ \A i \in 1..Len(m.blocks) : \A x \in 1..Size(m.blocks[i], p) :
             of[at[i - 1] + x] = BlockEvents(m.blocks[i], i, p)[x]
    BY <1>4 DEF Lays, of
  <2>2. 1 \in 1..Len(m.blocks) /\ 1 - 1 = 0
    BY <1>1
  <2>3. at[1] = at[0] + Size(b, p)
    BY <2>1, <2>2 DEF b
  <2>4. at[1] = k + 3
    BY <1>7, <2>1, <2>3
  <2>5. \A x \in 1..Size(b, p) : of[at[0] + x] = BlockEvents(b, 1, p)[x]
    BY <2>1, <2>2 DEF b
  <2> QED BY <1>1, <2>1, <2>4, <2>5
<1>9. Len(of) = k + 5
  BY <1>8
<1>10. of[2] = BlockEvent("content_block_start", 1, "text")
  <2>1. 1 \in 1..Size(b, p) /\ 1 + 1 = 2 /\ 1 \in Indexes
    BY <1>7 DEF Indexes
  <2>2. BlockEvents(b, 1, p)[1] = BlockEvent("content_block_start", 1, b.type)
    BY <1>1, <1>3, <2>1, BlockEventsAre
  <2> QED BY <1>1, <1>8, <2>1, <2>2
<1>11. ASSUME NEW q \in 1..k PROVE of[2 + q] = Delta(1, "text_delta", <<"filler">>)
  <2> DEFINE x == 1 + q
  <2>1. x \in 1..Size(b, p) /\ 1 + x = 2 + q /\ 1 \in Indexes /\ q \in 1..Pieces(b, p)
    BY <1>6, <1>7 DEF Indexes
  <2>2. BlockEvents(b, 1, p)[x] = Delta(1, DeltaOf(b.type), Chunk(b, p, q))
    BY <1>1, <1>3, <2>1, BlockEventsAre
  <2>3. of[1 + x] = BlockEvents(b, 1, p)[x]
    BY <1>8, <2>1
  <2>4. DeltaOf(b.type) = "text_delta"
    BY <1>1 DEF DeltaOf
  <2>5. Chunk(b, p, q) = <<"filler">>
    <3>1. Taken(Len(b.text), ChunkSize(p), q - 1) = q - 1 /\ Taken(Len(b.text), ChunkSize(p), q) = q
      BY <1>1, <1>5 DEF Taken
    <3>2. Chunk(b, p, q) = SubSeq(b.text, (q - 1) + 1, q)
      BY <3>1 DEF Chunk
    <3> DEFINE t == b.text
               a == q - 1
               c == SubSeq(t, a + 1, q)
    <3>3. t \in Seq(STRING)
      BY <1>3, BlockTyped DEF Texts
    <3>4. a \in 0..Len(t) /\ q \in 0..Len(t) /\ a <= q /\ q - a = 1 /\ a + 1 = q
      BY <1>1
    <3> HIDE DEF a, t
    <3>5. c \in Seq(STRING) /\ Len(c) = q - a /\ \A i \in 1..(q - a) : c[i] = t[a + i]
      BY <3>3, <3>4, PartIs
    <3>6. Len(c) = 1 /\ c[1] = "filler"
      <4>1. 1 \in 1..(q - a)
        BY <3>4
      <4>2. c[1] = t[q]
        BY <3>4, <3>5, <4>1
      <4> QED BY <1>1, <3>4, <3>5, <4>2 DEF t
    <3>7. c = <<"filler">>
      <4> HIDE DEF c
      <4> DEFINE S == STRING
                 g == "filler"
      <4>1. c \in Seq(S) /\ Len(c) = 1 /\ c[1] = g
        BY <3>5, <3>6
      <4> HIDE DEF S, g
      <4>2. c = <<g>>
        BY <4>1
      <4> QED BY <4>2 DEF g
    <3> QED BY <3>2, <3>7 DEF c, t, a
  <2> QED BY <2>1, <2>2, <2>3, <2>4, <2>5
<1> QED BY <1>8, <1>9, <1>10, <1>11 DEF of, m, p

LEMMA MidStreamIs ==
    ASSUME NEW k \in Nat
    PROVE  /\ writeMidStreamErrorSSE(k) \in Seq(Events) /\ Len(writeMidStreamErrorSSE(k)) = k + 3
           /\ writeMidStreamErrorSSE(k)[1] = Plain("message_start")
           /\ writeMidStreamErrorSSE(k)[2] = BlockEvent("content_block_start", 1, "text")
           /\ \A q \in 1..k : writeMidStreamErrorSSE(k)[2 + q] = Delta(1, "text_delta", <<"filler">>)
           /\ writeMidStreamErrorSSE(k)[k + 3] = Plain("error")
<1> DEFINE x == Plain("message_start")
           y == BlockEvent("content_block_start", 1, "text")
           d == Delta(1, "text_delta", <<"filler">>)
           z == Plain("error")
           a == <<x, y>>
           c == [q \in 1..k |-> d]
           e == <<z>>
           ac == a \o c
           w == ac \o e
<1>1. x \in Events /\ z \in Events
  BY EventsTyped
<1>2. y \in Events /\ d \in Events
  <2>1. 1 \in Indexes /\ "text" \in BlockTypes
    BY DEF Indexes, BlockTypes
  <2>2. <<"filler">> \in Texts
    <3>1. "filler" \in STRING
      BY Literals, Zenon
    <3> DEFINE S == STRING
               g == "filler"
    <3>2. g \in S
      BY <3>1
    <3> HIDE DEF S, g
    <3>3. <<g>> \in Seq(S)
      BY <3>2
    <3> QED BY <3>3 DEF g, S, Texts
  <2>3. DeltaOf("text") = "text_delta"
    BY DEF DeltaOf
  <2>4. BlockEvent("content_block_start", 1, "text") \in Events
    BY <2>1, EventsTyped
  <2>5. Delta(1, DeltaOf("text"), <<"filler">>) \in Events
    BY <2>1, <2>2, EventsTyped
  <2> QED BY <2>3, <2>4, <2>5
<1> HIDE DEF x, y, d, z
<1>3. a \in Seq(Events) /\ Len(a) = 2 /\ a[1] = x /\ a[2] = y
  BY <1>1, <1>2, PairIs
<1>4. c \in Seq(Events) /\ Len(c) = k /\ \A q \in 1..k : c[q] = d
  BY <1>2
<1>5. e \in Seq(Events) /\ Len(e) = 1 /\ e[1] = z
  BY <1>1
<1> HIDE DEF a, c, e
<1>6. /\ ac \in Seq(Events) /\ Len(ac) = 2 + k /\ ac[1] = x /\ ac[2] = y
      /\ \A q \in 1..k : ac[2 + q] = d
  <2>1. a \in Seq(Events) /\ c \in Seq(Events)
    BY <1>3, <1>4
  <2>2. /\ ac \in Seq(Events) /\ Len(ac) = Len(a) + Len(c)
        /\ \A i \in 1..Len(a) : ac[i] = a[i]
        /\ \A i \in 1..Len(c) : ac[Len(a) + i] = c[i]
    BY <2>1, Joined
  <2> HIDE DEF ac
  <2>3. Len(ac) = 2 + k /\ 1 \in 1..Len(a) /\ 2 \in 1..Len(a)
    BY <1>3, <1>4, <2>2
  <2>4. ac[1] = x /\ ac[2] = y
    BY <1>3, <2>2, <2>3
  <2>5. \A q \in 1..k : ac[2 + q] = d
    BY <1>3, <1>4, <2>2
  <2> QED BY <2>2, <2>3, <2>4, <2>5
<1> HIDE DEF ac
<1>7. /\ w \in Seq(Events) /\ Len(w) = k + 3 /\ w[1] = x /\ w[2] = y
      /\ \A q \in 1..k : w[2 + q] = d
      /\ w[k + 3] = z
  <2>1. ac \in Seq(Events) /\ e \in Seq(Events)
    BY <1>5, <1>6
  <2>2. /\ w \in Seq(Events) /\ Len(w) = Len(ac) + Len(e)
        /\ \A i \in 1..Len(ac) : w[i] = ac[i]
        /\ \A i \in 1..Len(e) : w[Len(ac) + i] = e[i]
    BY <2>1, Joined
  <2> HIDE DEF w
  <2>3. Len(ac) + 1 = k + 3 /\ 1 \in 1..Len(e) /\ 1 \in 1..Len(ac) /\ 2 \in 1..Len(ac)
    BY <1>5, <1>6
  <2>4. Len(w) = k + 3 /\ w[1] = x /\ w[2] = y /\ w[k + 3] = z
    BY <1>5, <1>6, <2>2, <2>3
  <2>5. \A q \in 1..k : 2 + q \in 1..Len(ac)
    BY <1>6
  <2>6. \A q \in 1..k : w[2 + q] = d
    BY <1>6, <2>2, <2>5
  <2> QED BY <2>2, <2>4, <2>6
<1>8. w = writeMidStreamErrorSSE(k)
  BY DEF w, ac, a, c, e, x, y, d, z, writeMidStreamErrorSSE
<1> HIDE DEF w
<1> QED BY <1>7, <1>8 DEF x, y, d, z

\* Up to the error, an overload is the beginning of a message.
LEMMA MidStreamBegins ==
    ASSUME NEW k \in Nat, NEW n \in 0..Len(writeMidStreamErrorSSE(k)),
           ~Has(SubSeq(writeMidStreamErrorSSE(k), 1, n), "error")
    PROVE  \E p, whole, pos, j : Begins(SubSeq(writeMidStreamErrorSSE(k), 1, n), Filler(k), p, whole, pos, j)
<1> DEFINE w == writeMidStreamErrorSSE(k)
           m == Filler(k)
           of == Bare(m, OneRune)
           events == SubSeq(w, 1, n)
           pos == [i \in 0..Len(of) |-> i]
<1>1. /\ w \in Seq(Events) /\ Len(w) = k + 3
      /\ w[1] = Plain("message_start") /\ w[2] = BlockEvent("content_block_start", 1, "text")
      /\ \A q \in 1..k : w[2 + q] = Delta(1, "text_delta", <<"filler">>)
      /\ w[k + 3] = Plain("error")
  BY MidStreamIs
<1>2. /\ Len(of) = k + 5
      /\ of[1] = Plain("message_start") /\ of[2] = BlockEvent("content_block_start", 1, "text")
      /\ \A q \in 1..k : of[2 + q] = Delta(1, "text_delta", <<"filler">>)
  BY FillerBare
<1>3. FromUpstream(m) /\ IsPace(OneRune)
  BY FillerIs
<1>4. of \in Seq(Events)
  BY <1>3, UpstreamTidy, BareIs
<1> HIDE DEF w, m, of
<1>5. n \in 0..(k + 3) /\ n \in 0..Len(w)
  BY <1>1 DEF w
<1>6. events \in Seq(Events) /\ Len(events) = n /\ \A i \in 1..n : events[i] = w[i]
  BY <1>1, <1>5, Beginnings
<1>7. n <= k + 2
  <2>1. SUFFICES ASSUME n = k + 3 PROVE FALSE
    BY <1>5
  <2>2. events[n] = Plain("error") /\ n \in 1..n
    BY <1>1, <1>6, <2>1
  <2>3. n \in DOMAIN events /\ events[n].type = "error"
    <3> HIDE DEF events
    <3> QED BY <1>6, <2>2 DEF Plain
  <2>4. Has(events, "error")
    BY <2>3 DEF Has
  <2> QED BY <2>4 DEF w
<1>8. \A i \in 1..(k + 2) : w[i] = of[i]
  <2> SUFFICES ASSUME NEW i \in 1..(k + 2) PROVE w[i] = of[i]
    OBVIOUS
  <2>1. CASE i = 1 \/ i = 2
    BY <1>1, <1>2, <2>1
  <2>2. CASE i # 1 /\ i # 2
    <3> DEFINE q == i - 2
    <3>1. q \in 1..k /\ 2 + q = i
      BY <2>2
    <3> HIDE DEF q
    <3>2. w[2 + q] = of[2 + q]
      BY <1>1, <1>2, <3>1
    <3> QED BY <3>1, <3>2
  <2> QED BY <2>1, <2>2
<1>9. n \in 0..Len(of)
  BY <1>2, <1>5, <1>7
<1>10. events = SubSeq(of, 1, n)
  <2> DEFINE v == SubSeq(of, 1, n)
  <2>1. v \in Seq(Events) /\ Len(v) = n /\ \A i \in 1..n : v[i] = of[i]
    BY <1>4, <1>9, Beginnings
  <2>2. \A i \in 1..n : i \in 1..(k + 2)
    BY <1>5, <1>7
  <2> HIDE DEF v, events
  <2>3. \A i \in 1..n : events[i] = v[i]
    BY <1>6, <1>8, <2>1, <2>2
  <2>4. events \in Seq(Events) /\ v \in Seq(Events) /\ Len(events) = Len(v)
        /\ \A i \in 1..Len(events) : events[i] = v[i]
    BY <1>6, <2>1, <2>3
  <2>5. events = v
    BY <2>4, SameSeq
  <2> QED BY <2>5 DEF v
<1>11. Spaced(of, of, pos)
  <2> DEFINE L == Len(of)
  <2>1. L \in Nat
    BY <1>2
  <2> HIDE DEF L
  <2>2. \A i \in 0..L : pos[i] = i
    BY DEF L
  <2>3. pos \in [0..L -> 0..L]
    BY DEF L
  <2> HIDE DEF pos
  <2>4. pos[0] = 0 /\ pos[L] = L
    BY <2>1, <2>2
  <2>5. \A i \in 1..L : pos[i] = pos[i - 1] + 1 /\ pos[i] = i
    <3>1. \A i \in 1..L : i \in 0..L /\ i - 1 \in 0..L /\ i = (i - 1) + 1
      BY <2>1
    <3> QED BY <2>2, <3>1
  <2> QED BY <2>3, <2>4, <2>5 DEF Spaced, L
<1>12. Begins(events, m, OneRune, of, pos, n)
  <2> HIDE DEF events, pos
  <2> QED BY <1>3, <1>4, <1>9, <1>10, <1>11 DEF Begins, of
<1> QED BY <1>12 DEF w, m

-----------------------------------------------------------------------------
(* The stream written for an answer recorded as JSON. *)

LEMMA MessageMade ==
    \A x \in Seq(Blocks), s \in STRING \ {NoString}, t \in Nat : IsMessage(Message(x, s, t))
BY DEF IsMessage, Message, NoString

LEMMA NoBlocks ==
    /\ IsMessage(Nothing) /\ IsMessage(Refusal) /\ IsMessage(Blank) /\ IsMessage(Coded)
<1>1. \A s \in STRING \ {NoString} : IsMessage(Message(<<>>, s, 0))
  <2>1. <<>> \in Seq(Blocks) /\ 0 \in Nat
    OBVIOUS
  <2> DEFINE x == <<>>
             t == 0
  <2> HIDE DEF x, t
  <2>2. \A s \in STRING \ {NoString} : IsMessage(Message(x, s, t))
    BY <2>1, MessageMade DEF x, t
  <2> QED BY <2>2 DEF x, t
<1>2. "nothing" \in STRING /\ "error" \in STRING /\ "blank" \in STRING /\ "encoded" \in STRING
  BY Literals, Zenon
<1>3. /\ "nothing" # NoString /\ "error" # NoString
      /\ "blank" # NoString /\ "encoded" # NoString
  BY DEF NoString
<1> QED BY <1>1, <1>2, <1>3 DEF Nothing, Refusal, Blank, Coded

LEMMA RoundedTyped ==
    ASSUME NEW s \in Texts
    PROVE  Rounded(s) \in Texts /\ Len(Rounded(s)) = Len(s)
           /\ \A i \in 1..Len(s) : Rounded(s)[i] = IF s[i] = "wide" THEN "rounded" ELSE s[i]
<1>1. "rounded" \in STRING
  BY Literals, Zenon
<1>2. DOMAIN s = 1..Len(s) /\ Len(s) \in Nat /\ \A i \in 1..Len(s) : s[i] \in STRING
  BY DEF Texts
<1> DEFINE r == [i \in 1..Len(s) |-> IF s[i] = "wide" THEN "rounded" ELSE s[i]]
<1>3. Rounded(s) = r
  BY <1>2, Zenon DEF Rounded
<1>4. \A i \in 1..Len(s) : r[i] = IF s[i] = "wide" THEN "rounded" ELSE s[i]
  OBVIOUS
<1>5. \A i \in 1..Len(s) : r[i] \in STRING
  BY <1>1, <1>2, <1>4
<1>6. r \in [1..Len(s) -> STRING]
  <2> DEFINE S == STRING
  <2>1. \A i \in 1..Len(s) : r[i] \in S
    BY <1>5
  <2> HIDE DEF S
  <2>2. r \in [1..Len(s) -> S]
    BY <2>1
  <2> QED BY <2>2 DEF S
<1> HIDE DEF r
<1>7. r \in Seq(STRING) /\ Len(r) = Len(s)
  BY <1>2, <1>6
<1> QED BY <1>3, <1>4, <1>7 DEF Texts

JsonStreamed(b) ==
    CASE b.type = "thinking" -> Block("thinking", b.text, SignatureOf(b))
      [] b.type = "tool_use" -> Block("tool_use", compactJSON(InputOf(b)), NoString)
      [] OTHER -> b

LEMMA StreamedIs ==
    ASSUME NEW b
    PROVE  /\ b.type = "thinking" => Streamed(b) = Block("thinking", b.text, SignatureOf(b))
           /\ b.type = "tool_use" => Streamed(b) = Block("tool_use", compactJSON(InputOf(b)), NoString)
           /\ b.type \notin {"thinking", "tool_use"} => Streamed(b) = b
<1>1. Streamed(b) = JsonStreamed(b)
  BY Zenon DEF Streamed, JsonStreamed, NoString
<1>2. /\ b.type = "thinking" => JsonStreamed(b) = Block("thinking", b.text, SignatureOf(b))
      /\ b.type = "tool_use" => JsonStreamed(b) = Block("tool_use", compactJSON(InputOf(b)), NoString)
      /\ b.type \notin {"thinking", "tool_use"} => JsonStreamed(b) = b
  BY DEF JsonStreamed
<1> QED BY <1>1, <1>2

LEMMA SignatureTyped ==
    ASSUME NEW b, b.sig \in STRING
    PROVE  SignatureOf(b) \in STRING /\ SignatureOf(b) # NoString
<1>1. "sim-signature" \in STRING /\ "sim-signature" # NoString
  BY Literals, Zenon DEF NoString
<1> QED BY <1>1, SignatureIs

LEMMA StreamedTyped ==
    ASSUME NEW b \in Blocks
    PROVE  Streamed(b) \in Blocks /\ Streamed(b).type = b.type
<1>1. b.type \in BlockTypes /\ b.text \in Texts /\ b.sig \in STRING
  BY BlockTyped
<1>2. compactJSON(InputOf(b)) \in Texts
  BY <1>1, InputTyped, TightTyped, RoundedTyped DEF compactJSON
<1>3. SignatureOf(b) \in STRING /\ NoString \in STRING
  <2>1. NoString \in STRING
    BY Literals, Zenon DEF NoString
  <2> QED BY <1>1, <2>1, SignatureTyped
<1>4. \A t \in BlockTypes, x \in Texts, s \in STRING : Block(t, x, s) \in Blocks
  BY DEF Block, Blocks, Texts
<1>5. "thinking" \in BlockTypes /\ "tool_use" \in BlockTypes
  BY DEF BlockTypes
<1>6. CASE b.type = "thinking"
  <2>1. Streamed(b) = Block("thinking", b.text, SignatureOf(b))
    BY <1>6, StreamedIs
  <2> DEFINE g == SignatureOf(b)
             x == b.text
  <2>2. x \in Texts /\ g \in STRING
    BY <1>1, <1>3
  <2> HIDE DEF g, x
  <2>3. Block("thinking", x, g) \in Blocks
    BY <1>4, <1>5, <2>2
  <2>4. Block("thinking", x, g).type = "thinking"
    BY BlockFields
  <2> QED BY <1>6, <2>1, <2>3, <2>4 DEF x, g
<1>7. CASE b.type = "tool_use"
  <2>1. Streamed(b) = Block("tool_use", compactJSON(InputOf(b)), NoString)
    BY <1>7, StreamedIs
  <2> QED BY <1>2, <1>3, <1>4, <1>5, <1>7, <2>1, BlockFields
<1>8. CASE b.type \notin {"thinking", "tool_use"}
  BY <1>8, StreamedIs
<1> QED BY <1>6, <1>7, <1>8

\* The blocks that are read from one body: those of types that are known.
Known(m) == {i \in DOMAIN m.blocks : m.blocks[i].type # "other"}
Kept(m) == Message(At(m.blocks, Known(m)), m.stop, m.tokens)
Said(m) == Message([i \in DOMAIN m.blocks |-> Streamed(m.blocks[i])], m.stop, m.tokens)
Default16 == [chunk |-> 0, ping |-> 0]

LEMMA SaidTyped ==
    ASSUME NEW m, IsMessage(m)
    PROVE  /\ IsMessage(Said(m)) /\ Said(m).stop = m.stop /\ Said(m).tokens = m.tokens
           /\ Len(Said(m).blocks) = Len(m.blocks)
           /\ \A i \in 1..Len(m.blocks) : Said(m).blocks[i] = Streamed(m.blocks[i])
<1>1. /\ m.blocks \in Seq(Blocks) /\ Len(m.blocks) \in Nat /\ DOMAIN m.blocks = 1..Len(m.blocks)
      /\ \A i \in 1..Len(m.blocks) : m.blocks[i] \in Blocks
      /\ m.stop \in STRING /\ m.stop # NoString /\ m.tokens \in Nat
  BY MessageTyped DEF NoString
<1> DEFINE f == [i \in 1..Len(m.blocks) |-> Streamed(m.blocks[i])]
<1>2. \A i \in 1..Len(m.blocks) : Streamed(m.blocks[i]) \in Blocks
  BY <1>1, StreamedTyped
<1>3. f \in Seq(Blocks) /\ Len(f) = Len(m.blocks)
  BY <1>1, <1>2
<1>4. \A i \in 1..Len(m.blocks) : f[i] = Streamed(m.blocks[i])
  OBVIOUS
<1>5. Said(m) = Message(f, m.stop, m.tokens)
  BY <1>1, Zenon DEF Said
<1> HIDE DEF f
<1>7. IsMessage(Message(f, m.stop, m.tokens))
  BY <1>1, <1>3, MessageMade
<1>8. /\ Message(f, m.stop, m.tokens).blocks = f /\ Message(f, m.stop, m.tokens).stop = m.stop
      /\ Message(f, m.stop, m.tokens).tokens = m.tokens
  BY MessageChanged
<1> QED BY <1>3, <1>4, <1>5, <1>7, <1>8

LEMMA KeptTyped ==
    ASSUME NEW m, IsMessage(m)
    PROVE  /\ messageFromJSON(m) = Kept(m) /\ IsMessage(Kept(m))
           /\ Kept(m).blocks = At(m.blocks, Known(m))
           /\ Kept(m).stop = m.stop /\ Kept(m).tokens = m.tokens
<1>1. /\ m.blocks \in Seq(Blocks)
      /\ m.stop \in STRING /\ m.stop # NoString /\ m.tokens \in Nat
  BY MessageTyped DEF NoString
<1>2. Known(m) \in SUBSET (DOMAIN m.blocks)
  BY DEF Known
<1>3. At(m.blocks, Known(m)) \in Seq(Blocks)
  BY <1>1, <1>2, AtEnumerates
<1>5. IsMessage(Kept(m))
  BY <1>1, <1>3, MessageMade DEF Kept
<1>6. Default(m.stop) = m.stop
  BY <1>1, DefaultIs
<1>7. messageFromJSON(m) = Kept(m)
  BY <1>6, Zenon DEF messageFromJSON, Kept, Known
<1>8. /\ Kept(m).blocks = At(m.blocks, Known(m)) /\ Kept(m).stop = m.stop
      /\ Kept(m).tokens = m.tokens
  BY MessageChanged DEF Kept
<1> QED BY <1>5, <1>7, <1>8

LEMMA RewrittenTyped ==
    ASSUME NEW m, IsMessage(m)
    PROVE  writeMessageSSE(messageFromJSON(m), Default16) \in Seq(Events)
           /\ writeMessageSSE(messageFromJSON(m), Default16) = Stream(Said(Kept(m)), Default16)
<1>1. messageFromJSON(m) = Kept(m) /\ IsMessage(Kept(m))
  BY KeptTyped
<1>2. IsMessage(Said(Kept(m)))
  BY <1>1, SaidTyped
<1>3. writeMessageSSE(Kept(m), Default16) = Stream(Said(Kept(m)), Default16)
  BY Zenon DEF writeMessageSSE, Said
<1>4. IsPace(Default16)
  BY DEF IsPace, Default16
<1> QED BY <1>1, <1>2, <1>3, <1>4, StreamSpaced

-----------------------------------------------------------------------------
(* The exchange: what went through and what is on record. *)

\* A stream of an upstream's, and what it tells of.
Tells(events, m) ==
    \/ m \in Messages /\ \E p \in Paces : events = Stream(m, p)
    \/ \E k \in 0..MaxFiller : m = Filler(k) /\ events = writeMidStreamErrorSSE(k)
    \/ m \in Messages /\ events = CodedStream

\* What went through of such a stream.
Recording(events, m) ==
    \E whole : Tells(whole, m) /\ \E n \in 0..Len(whole) : events = SubSeq(whole, 1, n)

OnRecord(e, m) ==
    \/ e = Entry("error", <<>>, Refusal) /\ m = Nothing
    \/ \E body \in {m, Coded} : e = Entry("json", <<>>, body) /\ m \in Messages
    \/ \E events : e = Entry("sse", events, Nothing) /\ Recording(events, m)

\* What the playback of an entry sends.
ReplayedStream(e) ==
    IF e.form = "sse" THEN e.events
    ELSE writeMessageSSE(messageFromJSON(e.body), [chunk |-> 0, ping |-> 0])
ReplayedBody(e) ==
    IF e.form = "json" THEN e.body
    ELSE LET m == sseToMessage(e.events) IN IF m = Refusal THEN Refusal ELSE writeMessageJSON(m)

\* A client has a beginning of the stream that is written, which is the upstream's.
WireSound ==
    /\ stage \in {"off", "idle", "upstream", "recorded", "replay", "played"}
    /\ wire \in Seq(Events) /\ \E n \in 0..Len(wire) : sent = SubSeq(wire, 1, n)
    /\ stage = "upstream" => Tells(wire, origin)
    /\ stage \in {"off", "idle"} => origin = Nothing
    /\ stage \in {"off", "idle", "recorded"} => sent = <<>>

\* The entry records what the upstream said.
EntrySound ==
    /\ stage \in {"off", "idle", "upstream"} => entry = NoEntry
    /\ stage \in {"recorded", "replay", "played"} => OnRecord(entry, origin)

\* A client gets what the entry is played as.
PlaySound ==
    /\ asked \in {"body", "stream"}
    /\ stage # "played" => got = Nothing
    /\ stage = "replay" => /\ entry.form \in {"json", "sse"} /\ asked = "stream"
                           /\ wire = ReplayedStream(entry)
    /\ stage = "played" =>
         \/ entry.form = "error" /\ got = Refusal
         \/ /\ entry.form \in {"json", "sse"}
            /\ asked = "body" /\ got = ReplayedBody(entry)
         \/ /\ entry.form \in {"json", "sse"}
            /\ asked = "stream" /\ got = Nothing /\ sent = ReplayedStream(entry)
         \/ entry.form = "json" /\ entry.body = Coded /\ asked = "stream" /\ got = Refusal

StreamInv == WireSound /\ EntrySound /\ PlaySound

LEMMA EntryIs ==
    \A form, events, body : /\ Entry(form, events, body).form = form
                            /\ Entry(form, events, body).events = events
                            /\ Entry(form, events, body).body = body
BY DEF Entry

LEMMA NoEntryIs == NoEntry.form = "none"
BY EntryIs DEF NoEntry

LEMMA EmptyIs ==
    /\ <<>> \in Seq(Events) /\ Len(<<>>) = 0
    /\ \A w \in Seq(Events) : SubSeq(w, 1, 0) = <<>> /\ 0 \in 0..Len(w)
<1>1. <<>> \in Seq(Events) /\ Len(<<>>) = 0
  OBVIOUS
<1>2. \A w \in Seq(Events) : SubSeq(w, 1, 0) = <<>>
  BY Beginnings
<1>3. \A w \in Seq(Events) : 0 \in 0..Len(w)
  OBVIOUS
<1> QED BY <1>1, <1>2, <1>3

\* Nothing is found in a stream in a content coding, nor in a beginning of one.
LEMMA CodedIs ==
    /\ CodedStream \in Seq(Events)
    /\ \A n \in 0..Len(CodedStream) :
         /\ ~Has(SubSeq(CodedStream, 1, n), "message_start")
         /\ ~Has(SubSeq(CodedStream, 1, n), "message_stop")
<1> DEFINE e == Plain("encoded")
           w == <<e>>
<1>1. e \in Events /\ e.type = "encoded"
  BY DEF Plain, Events
<1> HIDE DEF e
<1>2. w \in Seq(Events) /\ Len(w) = 1 /\ w[1] = e
  BY <1>1
<1> HIDE DEF w
<1>3. ASSUME NEW n \in 0..Len(w), NEW i \in DOMAIN SubSeq(w, 1, n)
      PROVE  SubSeq(w, 1, n)[i].type = "encoded"
  <2> DEFINE s == SubSeq(w, 1, n)
  <2>1. s \in Seq(Events) /\ Len(s) = n /\ \A k \in 1..n : s[k] = w[k]
    BY <1>2, Beginnings
  <2> HIDE DEF s
  <2>2. i \in 1..n /\ i = 1
    BY <1>2, <1>3, <2>1 DEF s
  <2>3. s[i] = e
    BY <1>2, <2>1, <2>2
  <2> QED BY <1>1, <2>3 DEF s
<1>4. ASSUME NEW n \in 0..Len(w)
      PROVE  ~Has(SubSeq(w, 1, n), "message_start") /\ ~Has(SubSeq(w, 1, n), "message_stop")
  <2>1. \A i \in DOMAIN SubSeq(w, 1, n) : SubSeq(w, 1, n)[i].type = "encoded"
    BY <1>3
  <2> QED BY <2>1 DEF Has
<1>5. w = CodedStream
  BY DEF w, e, CodedStream
<1> QED BY <1>2, <1>4, <1>5

LEMMA TellsTyped ==
    ASSUME NEW events, NEW m, Tells(events, m)
    PROVE  /\ events \in Seq(Events) /\ FromUpstream(m)
           /\ m \in Messages \cup {Filler(k) : k \in 0..MaxFiller}
<1>1. ASSUME m \in Messages, NEW p \in Paces, events = Stream(m, p)
      PROVE  events \in Seq(Events) /\ FromUpstream(m)
  <2>1. FromUpstream(m) /\ IsPace(p)
    BY <1>1, StreamAssumption DEF IsPace
  <2>2. IsMessage(m)
    BY <2>1, UpstreamTidy
  <2> QED BY <1>1, <2>1, <2>2, StreamSpaced
<1>2. ASSUME NEW k \in 0..MaxFiller, m = Filler(k), events = writeMidStreamErrorSSE(k)
      PROVE  events \in Seq(Events) /\ FromUpstream(m)
  <2>1. k \in Nat
    BY StreamAssumption
  <2> QED BY <1>2, <2>1, MidStreamIs, FillerIs
<1>3. ASSUME m \in Messages, events = CodedStream
      PROVE  events \in Seq(Events) /\ FromUpstream(m)
  BY <1>3, CodedIs, StreamAssumption
<1> QED BY <1>1, <1>2, <1>3 DEF Tells

LEMMA RecordingTyped ==
    ASSUME NEW events, NEW m, Recording(events, m)
    PROVE  /\ events \in Seq(Events) /\ FromUpstream(m)
           /\ m \in Messages \cup {Filler(k) : k \in 0..MaxFiller}
<1>1. PICK whole : Tells(whole, m) /\ \E n \in 0..Len(whole) : events = SubSeq(whole, 1, n)
  BY DEF Recording
<1>2. PICK n \in 0..Len(whole) : events = SubSeq(whole, 1, n)
  BY <1>1
<1>3. whole \in Seq(Events) /\ FromUpstream(m)
      /\ m \in Messages \cup {Filler(k) : k \in 0..MaxFiller}
  BY <1>1, TellsTyped
<1>4. SubSeq(whole, 1, n) \in Seq(Events)
  BY <1>3, Beginnings
<1> QED BY <1>2, <1>3, <1>4

LEMMA RecordsIs ==
    ASSUME NEW e, NEW m, OnRecord(e, m)
    PROVE  /\ e.form \in {"error", "json", "sse"} /\ e # NoEntry
           /\ e.form = "error" => e.body = Refusal /\ m = Nothing
           /\ e.form = "json" => e.body \in {m, Coded} /\ m \in Messages
           /\ e.form = "sse" => Recording(e.events, m)
<1>1. CASE e = Entry("error", <<>>, Refusal) /\ m = Nothing
  <2>1. e.form = "error" /\ e.body = Refusal
    BY <1>1, EntryIs
  <2> QED BY <1>1, <2>1, NoEntryIs
<1>2. ASSUME NEW body \in {m, Coded}, e = Entry("json", <<>>, body), m \in Messages
      PROVE  e.form = "json" /\ e.body \in {m, Coded} /\ e # NoEntry
  <2>1. e.form = "json" /\ e.body = body
    BY <1>2, EntryIs
  <2> QED BY <1>2, <2>1, NoEntryIs
<1>3. ASSUME NEW events, e = Entry("sse", events, Nothing), Recording(events, m)
      PROVE  e.form = "sse" /\ Recording(e.events, m) /\ e # NoEntry
  <2>1. e.form = "sse" /\ e.events = events
    BY <1>3, EntryIs
  <2> QED BY <1>3, <2>1, NoEntryIs
<1> QED BY <1>1, <1>2, <1>3 DEF OnRecord

LEMMA ReplayedTyped ==
    ASSUME NEW e, NEW m, OnRecord(e, m), e.form \in {"json", "sse"}
    PROVE  ReplayedStream(e) \in Seq(Events) /\ IsMessage(ReplayedBody(e))
<1>1. CASE e.form = "json"
  <2>1. e.body \in {m, Coded} /\ m \in Messages
    BY <1>1, RecordsIs
  <2>2. IsMessage(e.body)
    BY <2>1, StreamAssumption, UpstreamTidy, NoBlocks
  <2>3. ReplayedStream(e) = writeMessageSSE(messageFromJSON(e.body), Default16)
    BY <1>1 DEF ReplayedStream, Default16
  <2>4. ReplayedBody(e) = e.body
    BY <1>1 DEF ReplayedBody
  <2> QED BY <2>2, <2>3, <2>4, RewrittenTyped
<1>2. CASE e.form = "sse"
  <2>1. e.events \in Seq(Events)
    BY <1>2, RecordsIs, RecordingTyped
  <2>2. ReplayedStream(e) = e.events
    BY <1>2 DEF ReplayedStream
  <2>3. ReplayedBody(e) = Refusal \/ (/\ sseToMessage(e.events) # Refusal
                                      /\ ReplayedBody(e) = writeMessageJSON(sseToMessage(e.events)))
    BY <1>2 DEF ReplayedBody
  <2> QED BY <2>1, <2>2, <2>3, BodyOfStreamTyped, NoBlocks
<1> QED BY <1>1, <1>2

LEMMA AppendIs ==
    ASSUME NEW S, NEW s \in Seq(S), NEW x \in S
    PROVE  Append(s, x) = s \o <<x>>
OBVIOUS

LEMMA StreamInitSound == StreamInit => StreamInv
<1> SUFFICES ASSUME StreamInit PROVE StreamInv
  OBVIOUS
<1>1. /\ stage \in {"off", "idle"} /\ origin = Nothing /\ wire = <<>> /\ sent = <<>>
      /\ entry = NoEntry /\ asked = "body" /\ got = Nothing
  BY DEF StreamInit
<1>2. wire \in Seq(Events) /\ \E n \in 0..Len(wire) : sent = SubSeq(wire, 1, n)
  BY <1>1, EmptyIs
<1>3. WireSound
  BY <1>1, <1>2 DEF WireSound
<1>4. EntrySound
  BY <1>1 DEF EntrySound
<1>5. PlaySound
  BY <1>1 DEF PlaySound
<1> QED BY <1>3, <1>4, <1>5 DEF StreamInv

\* The client of the stream before the entry, and that of the playback after it, have
\* their own streams.
LEMMA CleanWire ==
    ASSUME wire' = <<>>, sent' = <<>>
    PROVE  wire' \in Seq(Events) /\ \E n \in 0..Len(wire') : sent' = SubSeq(wire', 1, n)
BY EmptyIs

LEMMA NewWire ==
    ASSUME wire' \in Seq(Events), sent' = <<>>
    PROVE  \E n \in 0..Len(wire') : sent' = SubSeq(wire', 1, n)
BY EmptyIs

LEMMA RecordedSound ==
    ASSUME NEW e, Recorded(e), StreamInv, stage \in {"idle", "upstream"},
           UNCHANGED <<asked, got>>, OnRecord(e, origin')
    PROVE  StreamInv'
<1>1. stage' = "recorded" /\ entry' = e /\ sent' = <<>> /\ wire' = <<>>
  BY DEF Recorded
<1>2. got' = Nothing /\ asked' \in {"body", "stream"}
  BY DEF StreamInv, PlaySound
<1>3. WireSound'
  BY <1>1, CleanWire DEF WireSound
<1>4. EntrySound'
  BY <1>1 DEF EntrySound
<1>5. PlaySound'
  BY <1>1, <1>2 DEF PlaySound
<1> QED BY <1>3, <1>4, <1>5 DEF StreamInv

LEMMA AnswersSound ==
    StreamInv /\ (AnswerError \/ (\E m \in Messages : AnswerBody(m)) \/ EndStream) => StreamInv'
<1> SUFFICES ASSUME StreamInv PROVE AnswerError \/ (\E m \in Messages : AnswerBody(m)) \/ EndStream
                                    => StreamInv'
  OBVIOUS
<1>1. ASSUME AnswerError PROVE StreamInv'
  <2>1. /\ stage = "idle" /\ Recorded(Entry("error", <<>>, Refusal))
        /\ origin' = origin /\ UNCHANGED <<asked, got>>
    BY <1>1 DEF AnswerError
  <2>2. origin' = Nothing
    BY <2>1 DEF StreamInv, WireSound
  <2>3. OnRecord(Entry("error", <<>>, Refusal), origin')
    BY <2>2 DEF OnRecord
  <2> QED BY <2>1, <2>3, RecordedSound
<1>2. ASSUME NEW m \in Messages, AnswerBody(m) PROVE StreamInv'
  <2>1. PICK body \in {m, Coded} : Recorded(Entry("json", <<>>, body))
    BY <1>2 DEF AnswerBody
  <2>2. stage = "idle" /\ origin' = m /\ UNCHANGED <<asked, got>>
    BY <1>2 DEF AnswerBody
  <2>3. OnRecord(Entry("json", <<>>, body), origin')
    BY <2>2 DEF OnRecord
  <2> QED BY <2>1, <2>2, <2>3, RecordedSound
<1>3. ASSUME EndStream PROVE StreamInv'
  <2>1. /\ stage = "upstream" /\ Recorded(Entry("sse", sent, Nothing))
        /\ origin' = origin /\ UNCHANGED <<asked, got>>
    BY <1>3 DEF EndStream
  <2>2. Tells(wire, origin) /\ \E n \in 0..Len(wire) : sent = SubSeq(wire, 1, n)
    BY <2>1 DEF StreamInv, WireSound
  <2>3. Recording(sent, origin')
    BY <2>1, <2>2 DEF Recording
  <2>4. OnRecord(Entry("sse", sent, Nothing), origin')
    BY <2>3 DEF OnRecord
  <2> QED BY <2>1, <2>4, RecordedSound
<1> QED BY <1>1, <1>2, <1>3

LEMMA BeginsSound ==
    ASSUME StreamInv, NEW m, NEW events, BeginStream(m, events), Tells(events, m)
    PROVE  StreamInv'
<1>1. /\ stage = "idle" /\ stage' = "upstream" /\ origin' = m /\ wire' = events
      /\ sent' = sent /\ entry' = entry /\ asked' = asked /\ got' = got
  BY DEF BeginStream
<1>2. Tells(wire', origin') /\ wire' \in Seq(Events)
  BY <1>1, TellsTyped
<1>3. /\ sent' = <<>> /\ entry' = NoEntry
      /\ got' = Nothing /\ asked' \in {"body", "stream"}
  BY <1>1 DEF StreamInv, WireSound, EntrySound, PlaySound
<1>4. WireSound'
  BY <1>1, <1>2, <1>3, NewWire DEF WireSound
<1>5. EntrySound'
  BY <1>1, <1>3 DEF EntrySound
<1>6. PlaySound'
  BY <1>1, <1>3 DEF PlaySound
<1> QED BY <1>4, <1>5, <1>6 DEF StreamInv

LEMMA PassSound == StreamInv /\ Pass => StreamInv'
<1> SUFFICES ASSUME StreamInv, Pass PROVE StreamInv'
  OBVIOUS
<1>1. /\ stage \in {"upstream", "replay"} /\ sent # wire
      /\ sent' = Append(sent, wire[Len(sent) + 1])
      /\ stage' = stage /\ origin' = origin /\ wire' = wire /\ entry' = entry
      /\ asked' = asked /\ got' = got
  BY DEF Pass
<1>2. wire \in Seq(Events)
  BY DEF StreamInv, WireSound
<1>3. PICK n \in 0..Len(wire) : sent = SubSeq(wire, 1, n)
  BY DEF StreamInv, WireSound
<1>4. /\ SubSeq(wire, 1, Len(wire)) = wire
      /\ SubSeq(wire, 1, n) \in Seq(Events) /\ Len(SubSeq(wire, 1, n)) = n
      /\ \A k \in 0..(Len(wire) - 1) : SubSeq(wire, 1, k + 1) = SubSeq(wire, 1, k) \o <<wire[k + 1]>>
  BY <1>2, Beginnings
<1>5. n # Len(wire)
  BY <1>1, <1>3, <1>4
<1>6. n \in 0..(Len(wire) - 1) /\ n + 1 \in 0..Len(wire) /\ n + 1 \in 1..Len(wire)
  BY <1>2, <1>5
<1>7. SubSeq(wire, 1, n + 1) = SubSeq(wire, 1, n) \o <<wire[n + 1]>>
  BY <1>4, <1>6
<1>8. sent' = SubSeq(wire, 1, n + 1)
  <2>1. sent \in Seq(Events) /\ wire[n + 1] \in Events /\ Len(sent) = n
    BY <1>2, <1>3, <1>4, <1>6
  <2>2. Append(sent, wire[n + 1]) = sent \o <<wire[n + 1]>>
    BY <2>1, AppendIs
  <2> QED BY <1>1, <1>3, <1>7, <2>1, <2>2
<1>9. wire' \in Seq(Events) /\ \E k \in 0..Len(wire') : sent' = SubSeq(wire', 1, k)
  BY <1>1, <1>2, <1>6, <1>8
<1>10. WireSound'
  BY <1>1, <1>9 DEF StreamInv, WireSound
<1>11. EntrySound'
  BY <1>1 DEF StreamInv, EntrySound
<1>12. PlaySound'
  BY <1>1 DEF StreamInv, PlaySound
<1> QED BY <1>10, <1>11, <1>12 DEF StreamInv

LEMMA UnrecordedSound == StreamInv /\ Unrecorded => StreamInv'
<1> SUFFICES ASSUME StreamInv, Unrecorded PROVE StreamInv'
  OBVIOUS
<1>1. /\ stage = "upstream" /\ stage' = "idle" /\ origin' = Nothing /\ wire' = <<>> /\ sent' = <<>>
      /\ entry' = entry /\ asked' = asked /\ got' = got
  BY DEF Unrecorded
<1>2. WireSound'
  BY <1>1, CleanWire DEF WireSound
<1>3. EntrySound'
  BY <1>1 DEF StreamInv, EntrySound
<1>4. PlaySound'
  BY <1>1 DEF StreamInv, PlaySound
<1> QED BY <1>2, <1>3, <1>4 DEF StreamInv

LEMMA ReplaysSound ==
    ASSUME StreamInv
    PROVE  (\E form \in {"body", "stream"} : ReplayError(form))
           \/ ReplayBody \/ ReplayStream \/ RefuseStream => StreamInv'
<1>1. stage = "recorded" =>
        /\ OnRecord(entry, origin) /\ got = Nothing /\ sent = <<>>
        /\ wire \in Seq(Events) /\ \E n \in 0..Len(wire) : sent = SubSeq(wire, 1, n)
  BY DEF StreamInv, WireSound, EntrySound, PlaySound
<1>2. ASSUME NEW form \in {"body", "stream"}, ReplayError(form) PROVE StreamInv'
  <2>1. /\ stage = "recorded" /\ entry.form = "error" /\ stage' = "played"
        /\ asked' = form /\ got' = entry.body
        /\ origin' = origin /\ wire' = wire /\ sent' = sent /\ entry' = entry
    BY <1>2 DEF ReplayError
  <2>2. got' = Refusal
    BY <1>1, <2>1, RecordsIs
  <2>3. WireSound'
    BY <1>1, <2>1 DEF WireSound
  <2>4. EntrySound'
    BY <1>1, <2>1 DEF EntrySound
  <2>5. PlaySound'
    BY <2>1, <2>2 DEF PlaySound
  <2> QED BY <2>3, <2>4, <2>5 DEF StreamInv
<1>3. ASSUME ReplayBody PROVE StreamInv'
  <2>1. /\ stage = "recorded" /\ entry.form \in {"json", "sse"} /\ stage' = "played"
        /\ asked' = "body" /\ got' = ReplayedBody(entry)
        /\ origin' = origin /\ wire' = wire /\ sent' = sent /\ entry' = entry
    BY <1>3 DEF ReplayBody, ReplayedBody
  <2>2. WireSound'
    BY <1>1, <2>1 DEF WireSound
  <2>3. EntrySound'
    BY <1>1, <2>1 DEF EntrySound
  <2>4. PlaySound'
    BY <2>1 DEF PlaySound
  <2> QED BY <2>2, <2>3, <2>4 DEF StreamInv
<1>4. ASSUME ReplayStream PROVE StreamInv'
  <2>1. /\ stage = "recorded" /\ entry.form \in {"json", "sse"} /\ stage' = "replay"
        /\ asked' = "stream" /\ wire' = ReplayedStream(entry)
        /\ origin' = origin /\ sent' = sent /\ entry' = entry /\ got' = got
    BY <1>4 DEF ReplayStream, ReplayedStream
  <2>2. wire' \in Seq(Events) /\ sent' = <<>>
    BY <1>1, <2>1, ReplayedTyped
  <2>3. WireSound'
    BY <2>1, <2>2, NewWire DEF WireSound
  <2>4. EntrySound'
    BY <1>1, <2>1 DEF EntrySound
  <2>5. PlaySound'
    BY <1>1, <2>1 DEF PlaySound
  <2> QED BY <2>3, <2>4, <2>5 DEF StreamInv
<1>5. ASSUME RefuseStream PROVE StreamInv'
  <2>1. /\ stage = "recorded" /\ entry.form = "json" /\ entry.body = Coded /\ stage' = "played"
        /\ asked' = "stream" /\ got' = Refusal
        /\ origin' = origin /\ wire' = wire /\ sent' = sent /\ entry' = entry
    BY <1>5 DEF RefuseStream
  <2>2. WireSound'
    BY <1>1, <2>1 DEF WireSound
  <2>3. EntrySound'
    BY <1>1, <2>1 DEF EntrySound
  <2>4. PlaySound'
    BY <2>1 DEF PlaySound
  <2> QED BY <2>2, <2>3, <2>4 DEF StreamInv
<1> QED BY <1>2, <1>3, <1>4, <1>5

LEMMA EndsSound ==
    ASSUME StreamInv
    PROVE  EndReplay \/ LeaveReplay => StreamInv'
<1>1. stage \in {"replay", "played"} => OnRecord(entry, origin)
  BY DEF StreamInv, EntrySound
<1>2. ASSUME EndReplay PROVE StreamInv'
  <2>1. /\ stage = "replay" /\ sent = wire /\ stage' = "played"
        /\ origin' = origin /\ wire' = wire /\ sent' = sent /\ entry' = entry
        /\ asked' = asked /\ got' = got
    BY <1>2 DEF EndReplay
  <2>2. WireSound'
    BY <2>1 DEF StreamInv, WireSound
  <2>3. EntrySound'
    BY <1>1, <2>1 DEF EntrySound
  <2>4. PlaySound'
    BY <2>1 DEF StreamInv, PlaySound
  <2> QED BY <2>2, <2>3, <2>4 DEF StreamInv
<1>3. ASSUME LeaveReplay PROVE StreamInv'
  <2>1. /\ stage \in {"replay", "played"} /\ stage' = "recorded"
        /\ wire' = <<>> /\ sent' = <<>> /\ asked' = "body" /\ got' = Nothing
        /\ origin' = origin /\ entry' = entry
    BY <1>3 DEF LeaveReplay
  <2>2. WireSound'
    BY <2>1, CleanWire DEF WireSound
  <2>3. EntrySound'
    BY <1>1, <2>1 DEF EntrySound
  <2>4. PlaySound'
    BY <2>1 DEF PlaySound
  <2> QED BY <2>2, <2>3, <2>4 DEF StreamInv
<1> QED BY <1>2, <1>3

LEMMA StreamKeeps == StreamInv /\ [StreamNext]_streamVars => StreamInv'
<1> SUFFICES ASSUME StreamInv, [StreamNext]_streamVars PROVE StreamInv'
  OBVIOUS
<1>1. CASE UNCHANGED streamVars
  <2>1. /\ stage' = stage /\ origin' = origin /\ wire' = wire /\ sent' = sent
        /\ entry' = entry /\ asked' = asked /\ got' = got
    BY <1>1 DEF streamVars
  <2>2. WireSound'
    BY <2>1 DEF StreamInv, WireSound
  <2>3. EntrySound'
    BY <2>1 DEF StreamInv, EntrySound
  <2>4. PlaySound'
    BY <2>1 DEF StreamInv, PlaySound
  <2> QED BY <2>2, <2>3, <2>4 DEF StreamInv
<1>2. ASSUME NEW m \in Messages, NEW p \in Paces, BeginStream(m, Stream(m, p)) PROVE StreamInv'
  <2>1. Tells(Stream(m, p), m)
    BY DEF Tells
  <2> QED BY <1>2, <2>1, BeginsSound
<1>3. ASSUME NEW n \in 0..MaxFiller, BeginStream(Filler(n), writeMidStreamErrorSSE(n)) PROVE StreamInv'
  <2>1. Tells(writeMidStreamErrorSSE(n), Filler(n))
    BY DEF Tells
  <2> QED BY <1>3, <2>1, BeginsSound
<1>4. CASE AnswerError \/ (\E m \in Messages : AnswerBody(m)) \/ EndStream
  BY <1>4, AnswersSound
<1>5. CASE Pass
  BY <1>5, PassSound
<1>6. CASE Unrecorded
  BY <1>6, UnrecordedSound
<1>7. CASE (\E form \in {"body", "stream"} : ReplayError(form))
           \/ ReplayBody \/ ReplayStream \/ RefuseStream
  BY <1>7, ReplaysSound
<1>8. CASE EndReplay \/ LeaveReplay
  BY <1>8, EndsSound
<1>9. ASSUME NEW m \in Messages, BeginStream(m, CodedStream) PROVE StreamInv'
  <2>1. Tells(CodedStream, m)
    BY DEF Tells
  <2> QED BY <1>9, <2>1, BeginsSound
<1> QED BY <1>1, <1>2, <1>3, <1>4, <1>5, <1>6, <1>7, <1>8, <1>9 DEF StreamNext

LEMMA TypesOfStream == StreamInv => StreamTypeOK
<1> SUFFICES ASSUME StreamInv PROVE StreamTypeOK
  OBVIOUS
<1>1. /\ stage \in {"off", "idle", "upstream", "recorded", "replay", "played"}
      /\ wire \in Seq(Events) /\ asked \in {"body", "stream"}
  BY DEF StreamInv, WireSound, PlaySound
<1>2. /\ stage \in {"off", "idle"} => origin = Nothing
      /\ stage = "upstream" => Tells(wire, origin)
      /\ stage \in {"off", "idle", "upstream"} => entry = NoEntry
      /\ stage \in {"recorded", "replay", "played"} => OnRecord(entry, origin)
  BY DEF StreamInv, WireSound, EntrySound
<1>3. OnRecord(entry, origin) =>
        /\ entry.form \in {"error", "json", "sse"} /\ entry # NoEntry
        /\ entry.form = "error" => origin = Nothing
        /\ entry.form = "json" => entry.body \in {origin, Coded} /\ origin \in Messages
        /\ entry.form = "sse" => Recording(entry.events, origin)
  BY RecordsIs
<1>4. origin \in Messages \cup {Nothing} \cup {Filler(n) : n \in 0..MaxFiller}
  <2>1. CASE stage \in {"off", "idle"}
    BY <1>2, <2>1
  <2>2. CASE stage = "upstream"
    BY <1>2, <2>2, TellsTyped
  <2>3. CASE stage \in {"recorded", "replay", "played"}
    <3>1. Recording(entry.events, origin) =>
            origin \in Messages \cup {Filler(n) : n \in 0..MaxFiller}
      BY RecordingTyped
    <3> QED BY <1>2, <1>3, <2>3, <3>1
  <2> QED BY <1>1, <2>1, <2>2, <2>3
<1>5. IsPrefix(sent, wire)
  <2>1. PICK n \in 0..Len(wire) : sent = SubSeq(wire, 1, n)
    BY DEF StreamInv, WireSound
  <2>2. SubSeq(wire, 1, n) \in Seq(Events) /\ Len(SubSeq(wire, 1, n)) = n
    BY <1>1, Beginnings
  <2> DEFINE s == SubSeq(wire, 1, n)
  <2>3. SubSeq(s, 1, Len(s)) = s
    <3>1. s \in Seq(Events)
      BY <2>2
    <3> HIDE DEF s
    <3> QED BY <3>1, Beginnings
  <2>4. Len(s) = n /\ n <= Len(wire)
    BY <1>1, <2>2
  <2> HIDE DEF s
  <2>5. IsPrefix(s, wire)
    BY <2>3, <2>4 DEF IsPrefix, s
  <2> QED BY <2>1, <2>5 DEF s
<1>6. /\ entry.form \in {"none", "error", "json", "sse"}
      /\ entry.form = "json" => entry.body \in {origin, Coded}
      /\ (stage \in {"recorded", "replay", "played"}) = (entry # NoEntry)
  <2>1. CASE stage \in {"off", "idle", "upstream"}
    <3>1. entry = NoEntry
      BY <1>2, <2>1
    <3>2. entry.form = "none"
      BY <3>1, NoEntryIs
    <3>3. ~(stage \in {"recorded", "replay", "played"}) /\ ~(entry # NoEntry)
      BY <2>1, <3>1
    <3>4. (stage \in {"recorded", "replay", "played"}) = (entry # NoEntry)
      BY <3>3
    <3> QED BY <3>2, <3>4
  <2>2. CASE stage \in {"recorded", "replay", "played"}
    <3>1. entry # NoEntry /\ entry.form \in {"error", "json", "sse"}
          /\ (entry.form = "json" => entry.body \in {origin, Coded})
      BY <1>2, <1>3, <2>2
    <3>2. (stage \in {"recorded", "replay", "played"}) = (entry # NoEntry)
      BY <2>2, <3>1, Zenon
    <3> QED BY <3>1, <3>2
  <2> QED BY <1>1, <2>1, <2>2
<1>7. IsMessage(got)
  <2>1. CASE stage # "played"
    <3>1. got = Nothing
      BY <2>1 DEF StreamInv, PlaySound
    <3> QED BY <3>1, NoBlocks
  <2>2. CASE stage = "played"
    <3>1. \/ got = Refusal
          \/ entry.form \in {"json", "sse"} /\ got = ReplayedBody(entry)
          \/ got = Nothing
      BY <2>2 DEF StreamInv, PlaySound
    <3>2. OnRecord(entry, origin)
      BY <1>2, <2>2
    <3> QED BY <3>1, <3>2, ReplayedTyped, NoBlocks
  <2> QED BY <2>1, <2>2
<1> QED BY <1>1, <1>4, <1>5, <1>6, <1>7 DEF StreamTypeOK

\* What is recorded begins a message, unless there is an error or no beginning in it.
LEMMA RecordingBegins ==
    ASSUME NEW events, NEW m, Recording(events, m), ~Has(events, "error"),
           Has(events, "message_start")
    PROVE  \E p, whole, pos, n : Begins(events, m, p, whole, pos, n)
<1>1. PICK whole : Tells(whole, m) /\ \E n \in 0..Len(whole) : events = SubSeq(whole, 1, n)
  BY DEF Recording
<1>2. PICK n \in 0..Len(whole) : events = SubSeq(whole, 1, n)
  BY <1>1
<1>3. ASSUME m \in Messages, NEW p \in Paces, whole = Stream(m, p)
      PROVE  \E q, w, pos, x : Begins(events, m, q, w, pos, x)
  <2>1. FromUpstream(m) /\ IsPace(p)
    BY <1>3, StreamAssumption DEF IsPace
  <2>2. IsMessage(m)
    BY <2>1, UpstreamTidy
  <2>3. whole \in Seq(Events)
    BY <1>3, <2>1, <2>2, StreamSpaced
  <2>4. PICK pos : Spaced(whole, Bare(m, p), pos)
    BY <1>3, <2>1, <2>2, StreamSpaced
  <2>5. Begins(events, m, p, whole, pos, n)
    BY <1>2, <2>1, <2>3, <2>4 DEF Begins
  <2> QED BY <2>5
<1>4. ASSUME NEW k \in 0..MaxFiller, m = Filler(k), whole = writeMidStreamErrorSSE(k)
      PROVE  \E q, w, pos, x : Begins(events, m, q, w, pos, x)
  <2>1. k \in Nat
    BY StreamAssumption
  <2>2. n \in 0..Len(writeMidStreamErrorSSE(k)) /\ events = SubSeq(writeMidStreamErrorSSE(k), 1, n)
    BY <1>2, <1>4
  <2> QED BY <1>4, <2>1, <2>2, MidStreamBegins
<1>5. whole # CodedStream
  BY <1>2, CodedIs
<1> QED BY <1>1, <1>3, <1>4, <1>5 DEF Tells

LEMMA NothingIsMadeUp == StreamInv => NothingMadeUp
<1> SUFFICES ASSUME StreamInv, stage = "played", asked = "body", entry.form = "sse"
             PROVE  \/ got = Refusal
                    \/ got = Blank /\ InsideInput(entry.events)
                    \/ ~Has(entry.events, "error") /\ Answers(got, origin)
  BY DEF NothingMadeUp, Answers
<1> DEFINE events == entry.events
           u == sseToMessage(events)
<1>1. got = Refusal \/ got = ReplayedBody(entry)
  BY DEF StreamInv, PlaySound
<1>2. ReplayedBody(entry) = IF u = Refusal THEN Refusal ELSE writeMessageJSON(u)
  BY DEF ReplayedBody
<1>3. Recording(events, origin)
  <2>1. OnRecord(entry, origin)
    BY DEF StreamInv, EntrySound
  <2> QED BY <2>1, RecordsIs
<1>4. events \in Seq(Events)
  BY <1>3, RecordingTyped
<1> HIDE DEF events
<1>5. CASE Has(events, "error") \/ ~Has(events, "message_start")
  <2>1. u = Refusal
    BY <1>4, <1>5, SseIs
  <2> QED BY <1>1, <1>2, <2>1
<1>6. CASE ~Has(events, "error") /\ Has(events, "message_start")
  <2>1. PICK p, whole, pos, n : Begins(events, origin, p, whole, pos, n)
    BY <1>3, <1>6, RecordingBegins
  <2>2. /\ u # Refusal
        /\ \/ writeMessageJSON(u) = Blank /\ InsideInput(events)
           \/ Answers(writeMessageJSON(u), origin)
    BY <1>6, <2>1, BodyOfBeginning
  <2> HIDE DEF u
  <2> QED BY <1>1, <1>2, <1>6, <2>2 DEF events
<1> QED BY <1>5, <1>6

-----------------------------------------------------------------------------
(* A client's own reading of a stream. *)

\* Places of a sequence, and their enumeration.
Selects(S, s, places) == s \in Seq(S) /\ places \in SUBSET (DOMAIN s)
Picks(S, s, places, n, f) == Selects(S, s, places) /\ Enumerates(f, n, places)

LEMMA AtSelects ==
    ASSUME NEW S, NEW s, NEW places, Selects(S, s, places)
    PROVE  /\ At(s, places) \in Seq(S)
           /\ \E f : /\ Enumerates(f, Len(At(s, places)), places)
                     /\ \A k \in 1..Len(At(s, places)) : At(s, places)[k] = s[f[k]]
BY AtEnumerates DEF Selects

LEMMA AtPicks ==
    ASSUME NEW S, NEW s, NEW places, NEW n, NEW f, Picks(S, s, places, n, f)
    PROVE  /\ At(s, places) \in Seq(S) /\ Len(At(s, places)) = n
           /\ \A k \in 1..n : f[k] \in DOMAIN s /\ At(s, places)[k] = s[f[k]]
BY AtIs DEF Picks, Selects

\* Places of two sequences that correspond.
Same(events, of, loc, places, chosen) ==
    /\ chosen \subseteq DOMAIN of
    /\ places = {loc[q] : q \in chosen}

\* What At selects of a sequence with others between, at the places of some of its elements.
LEMMA AtLocated ==
    ASSUME NEW events \in Seq(Events), NEW of \in Seq(Events), NEW pos, NEW loc,
           Locates(events, of, pos, loc), NEW places, NEW chosen,
           Same(events, of, loc, places, chosen)
    PROVE  At(events, places) = At(of, chosen)
<1> DEFINE x == At(of, chosen)
           c == Len(x)
<1>0. Selects(Events, of, chosen) /\ chosen \subseteq DOMAIN of
  BY DEF Selects, Same
<1>1. x \in Seq(Events) /\ c \in Nat
  BY <1>0, AtSelects
<1>2. PICK f : Enumerates(f, c, chosen) /\ \A k \in 1..c : x[k] = of[f[k]]
  BY <1>0, AtSelects
<1> HIDE DEF x
<1> HIDE DEF c
<1> DEFINE g == [k \in 1..c |-> loc[f[k]]]
<1>3. /\ loc \in [1..Len(of) -> 1..Len(events)]
      /\ \A q \in 1..Len(of) : events[loc[q]] = of[q]
      /\ \A q, r \in 1..Len(of) : q < r => loc[q] < loc[r]
  BY DEF Locates
<1>4. /\ Len(of) \in Nat /\ DOMAIN of = 1..Len(of)
      /\ Len(events) \in Nat /\ DOMAIN events = 1..Len(events)
  OBVIOUS
<1>5. /\ f \in [1..c -> chosen] /\ \A j, k \in 1..c : j < k => f[j] < f[k]
      /\ \A i \in chosen : \E k \in 1..c : f[k] = i
  BY <1>2 DEF Enumerates
<1>6. /\ places \in SUBSET (DOMAIN events) /\ places \subseteq Nat
      /\ \A q \in chosen : loc[q] \in places
      /\ \A e \in places : \E q \in chosen : e = loc[q]
  BY <1>0, <1>3, <1>4 DEF Same
<1>7. \A k \in 1..c : f[k] \in chosen /\ f[k] \in 1..Len(of) /\ g[k] = loc[f[k]]
  BY <1>0, <1>4, <1>5
<1>8. g \in [1..c -> places]
  BY <1>6, <1>7
<1> HIDE DEF g
<1>9. \A j, k \in 1..c : j < k => g[j] < g[k]
  BY <1>3, <1>5, <1>7
<1>10. ASSUME NEW e \in places PROVE \E k \in 1..c : g[k] = e
  <2>1. PICK q \in chosen : e = loc[q]
    BY <1>6
  <2>2. PICK k \in 1..c : f[k] = q
    BY <1>5
  <2> QED BY <1>7, <2>1, <2>2
<1>11. Enumerates(g, c, places)
  BY <1>1, <1>6, <1>8, <1>9, <1>10 DEF Enumerates
<1> DEFINE y == At(events, places)
<1>12. /\ y \in Seq(Events) /\ Len(y) = c
       /\ \A k \in 1..c : g[k] \in DOMAIN events /\ y[k] = events[g[k]]
  <2>1. Picks(Events, events, places, c, g)
    BY <1>6, <1>11 DEF Picks, Selects
  <2> QED BY <2>1, AtPicks
<1> HIDE DEF y
<1>13. ASSUME NEW k \in 1..c PROVE y[k] = x[k]
  <2>1. y[k] = events[g[k]] /\ g[k] = loc[f[k]] /\ f[k] \in 1..Len(of) /\ x[k] = of[f[k]]
    BY <1>2, <1>7, <1>12
  <2>2. events[loc[f[k]]] = of[f[k]]
    BY <1>3, <2>1
  <2> QED BY <2>1, <2>2
<1>14. y = x
  <2>1. Len(x) = c
    BY DEF c
  <2> QED BY <1>1, <1>12, <1>13, <2>1, SameSeq
<1> QED BY <1>14 DEF x, y

\* The places of a client's own reading.
OfType(events, type) == {e \in DOMAIN events : events[e].type = type}
OfBlock(events, i) ==
    {e \in DOMAIN events :
        events[e].type \in {"content_block_start", "content_block_delta"} /\ events[e].index = i}
Starts(events, i) == {e \in OfBlock(events, i) : events[e].type = "content_block_start"}
Signed(events, i) ==
    {e \in OfBlock(events, i) \ Starts(events, i) : events[e].kind = "signature_delta"}
Telling(events, i) == OfBlock(events, i) \ (Starts(events, i) \cup Signed(events, i))
Spoken(texts) == FlattenSeq([k \in DOMAIN texts |-> texts[k].text])

LEMMA HeardIs ==
    \A events :
      /\ Heard(events) =
           Message([i \in DOMAIN At(events, OfType(events, "content_block_start"))
                      |-> HeardBlock(events, i)],
                   At(events, OfType(events, "message_delta"))[1].stop,
                   At(events, OfType(events, "message_delta"))[1].tokens)
      /\ \A i : HeardBlock(events, i) =
           Block(At(events, Starts(events, i))[1].kind, Spoken(At(events, Telling(events, i))),
                 IF Signed(events, i) = {} THEN NoString
                 ELSE At(events, Signed(events, i))[1].text[1])
<1> SUFFICES ASSUME NEW events
    PROVE /\ Heard(events) =
               Message([i \in DOMAIN At(events, OfType(events, "content_block_start"))
                          |-> HeardBlock(events, i)],
                       At(events, OfType(events, "message_delta"))[1].stop,
                       At(events, OfType(events, "message_delta"))[1].tokens)
          /\ \A i : HeardBlock(events, i) =
               Block(At(events, Starts(events, i))[1].kind, Spoken(At(events, Telling(events, i))),
                     IF Signed(events, i) = {} THEN NoString
                     ELSE At(events, Signed(events, i))[1].text[1])
  OBVIOUS
<1>1. Heard(events) =
        Message([i \in DOMAIN At(events, OfType(events, "content_block_start"))
                   |-> HeardBlock(events, i)],
                At(events, OfType(events, "message_delta"))[1].stop,
                At(events, OfType(events, "message_delta"))[1].tokens)
  BY Zenon DEF Heard, OfType
<1>2. ASSUME NEW i
      PROVE HeardBlock(events, i) =
              Block(At(events, Starts(events, i))[1].kind, Spoken(At(events, Telling(events, i))),
                    IF Signed(events, i) = {} THEN NoString
                    ELSE At(events, Signed(events, i))[1].text[1])
  BY Zenon DEF HeardBlock, OfBlock, Starts, Signed, Telling, Spoken, NoString
<1> QED BY <1>1, <1>2, Zenon

\* Pings are not heard.
LEMMA PlacesLocated ==
    ASSUME NEW events \in Seq(Events), NEW of \in Seq(Events), NEW pos, NEW loc,
           Locates(events, of, pos, loc)
    PROVE  /\ \A t \in {"content_block_start", "message_delta"} :
                Same(events, of, loc, OfType(events, t), OfType(of, t))
           /\ \A i : /\ Same(events, of, loc, Starts(events, i), Starts(of, i))
                     /\ Same(events, of, loc, Signed(events, i), Signed(of, i))
                     /\ Same(events, of, loc, Telling(events, i), Telling(of, i))
<1>1. /\ loc \in [1..Len(of) -> 1..Len(events)]
      /\ \A q \in 1..Len(of) : events[loc[q]] = of[q]
      /\ \A x \in 1..Len(events) : events[x] = Ping \/ \E q \in 1..Len(of) : x = loc[q]
  BY DEF Locates
<1>2. /\ Len(of) \in Nat /\ DOMAIN of = 1..Len(of)
      /\ Len(events) \in Nat /\ DOMAIN events = 1..Len(events)
  OBVIOUS
<1>3. \A q \in DOMAIN of : loc[q] \in DOMAIN events /\ events[loc[q]] = of[q]
  BY <1>1, <1>2
<1>4. ASSUME NEW x \in DOMAIN events, events[x].type # "ping" PROVE \E q \in DOMAIN of : x = loc[q]
  BY <1>1, <1>2, <1>4, PingIs
<1>5. ASSUME NEW t \in {"content_block_start", "message_delta"}
      PROVE  Same(events, of, loc, OfType(events, t), OfType(of, t))
  BY <1>3, <1>4 DEF Same, OfType
<1>6. ASSUME NEW i
      PROVE  /\ Same(events, of, loc, Starts(events, i), Starts(of, i))
             /\ Same(events, of, loc, Signed(events, i), Signed(of, i))
             /\ Same(events, of, loc, Telling(events, i), Telling(of, i))
  <2>1. \A x \in OfBlock(events, i) : x \in DOMAIN events /\ \E q \in DOMAIN of : x = loc[q]
    BY <1>4 DEF OfBlock
  <2>2. \A q \in DOMAIN of : /\ loc[q] \in OfBlock(events, i) <=> q \in OfBlock(of, i)
                             /\ loc[q] \in Starts(events, i) <=> q \in Starts(of, i)
    BY <1>3 DEF OfBlock, Starts
  <2>3. \A q \in DOMAIN of : loc[q] \in Signed(events, i) <=> q \in Signed(of, i)
    BY <1>3, <2>2 DEF Signed
  <2>4. \A q \in DOMAIN of : loc[q] \in Telling(events, i) <=> q \in Telling(of, i)
    BY <2>2, <2>3 DEF Telling
  <2>5. /\ Starts(events, i) \subseteq OfBlock(events, i) /\ Signed(events, i) \subseteq OfBlock(events, i)
        /\ Telling(events, i) \subseteq OfBlock(events, i)
        /\ Starts(of, i) \subseteq OfBlock(of, i) /\ Signed(of, i) \subseteq OfBlock(of, i)
        /\ Telling(of, i) \subseteq OfBlock(of, i) /\ OfBlock(of, i) \subseteq DOMAIN of
    BY DEF Starts, Signed, Telling, OfBlock
  <2>6. Same(events, of, loc, Starts(events, i), Starts(of, i))
    BY <2>1, <2>2, <2>5 DEF Same
  <2>7. Same(events, of, loc, Signed(events, i), Signed(of, i))
    BY <2>1, <2>3, <2>5 DEF Same
  <2>8. Same(events, of, loc, Telling(events, i), Telling(of, i))
    BY <2>1, <2>4, <2>5 DEF Same
  <2> QED BY <2>6, <2>7, <2>8
<1> QED BY <1>5, <1>6

LEMMA PingsUnheard ==
    ASSUME NEW events \in Seq(Events), NEW of \in Seq(Events), NEW pos, NEW loc,
           Locates(events, of, pos, loc)
    PROVE  Heard(events) = Heard(of)
<1>1. ASSUME NEW places, NEW chosen, Same(events, of, loc, places, chosen)
      PROVE  At(events, places) = At(of, chosen) /\ (places = {} <=> chosen = {})
  <2>1. At(events, places) = At(of, chosen)
    BY <1>1, AtLocated DEF Same
  <2> QED BY <1>1, <2>1 DEF Same
<1>2. \A t \in {"content_block_start", "message_delta"} :
        At(events, OfType(events, t)) = At(of, OfType(of, t))
  BY <1>1, PlacesLocated
<1>3. ASSUME NEW i PROVE HeardBlock(events, i) = HeardBlock(of, i)
  <2>1. /\ At(events, Starts(events, i)) = At(of, Starts(of, i))
        /\ At(events, Telling(events, i)) = At(of, Telling(of, i))
        /\ At(events, Signed(events, i)) = At(of, Signed(of, i))
        /\ Signed(events, i) = {} <=> Signed(of, i) = {}
    BY <1>1, PlacesLocated
  <2>2. CASE Signed(events, i) = {}
    BY <2>1, <2>2, HeardIs, Zenon
  <2>3. CASE Signed(events, i) # {}
    BY <2>1, <2>3, HeardIs, Zenon
  <2> QED BY <2>2, <2>3
<1>4. At(events, OfType(events, "content_block_start")) = At(of, OfType(of, "content_block_start"))
      /\ At(events, OfType(events, "message_delta")) = At(of, OfType(of, "message_delta"))
  BY <1>2
<1> DEFINE blocks(es) == [i \in DOMAIN At(es, OfType(es, "content_block_start")) |-> HeardBlock(es, i)]
<1>5. blocks(events) = blocks(of)
  BY <1>3, <1>4
<1>6. \A es : Heard(es) = Message(blocks(es), At(es, OfType(es, "message_delta"))[1].stop,
                                  At(es, OfType(es, "message_delta"))[1].tokens)
  BY HeardIs, Zenon
<1> HIDE DEF blocks
<1> QED BY <1>4, <1>5, <1>6

\* A message that is to be heard, and where its events lie.
Laid(m, p, at) == IsMessage(m) /\ Unsigned(m) /\ IsPace(p) /\ Lays(m, p, at)

LEMMA AtOne ==
    ASSUME NEW S, NEW s \in Seq(S), NEW x \in DOMAIN s, NEW places, places = {x}
    PROVE  At(s, places)[1] = s[x]
<1> DEFINE f == [k \in 1..1 |-> x]
<1>1. x \in Nat /\ places \in SUBSET (DOMAIN s) /\ places \subseteq Nat
  OBVIOUS
<1>2. f \in [1..1 -> places] /\ f[1] = x /\ \A k \in 1..1 : k = 1
  OBVIOUS
<1> HIDE DEF f
<1>3. Enumerates(f, 1, places)
  BY <1>1, <1>2 DEF Enumerates
<1>4. 1 \in 1..1 /\ At(s, places)[1] = s[f[1]]
  BY <1>1, <1>3, AtIs
<1> QED BY <1>2, <1>4

\* Places one after the other.
Row(s, places, a, c) ==
    /\ a \in Nat /\ c \in Nat /\ \A k \in 1..c : a + k \in DOMAIN s
    /\ places = {a + k : k \in 1..c}

LEMMA AtRow ==
    ASSUME NEW S, NEW s \in Seq(S), NEW a, NEW c, NEW places, Row(s, places, a, c)
    PROVE  /\ At(s, places) \in Seq(S) /\ Len(At(s, places)) = c
           /\ \A k \in 1..c : At(s, places)[k] = s[a + k]
<1> DEFINE f == [k \in 1..c |-> a + k]
<1>1. /\ places \in SUBSET (DOMAIN s) /\ places \subseteq Nat /\ a \in Nat /\ c \in Nat
      /\ \A k \in 1..c : a + k \in places
      /\ \A i \in places : \E k \in 1..c : a + k = i
  <2>1. a \in Nat /\ c \in Nat /\ \A k \in 1..c : a + k \in DOMAIN s /\ a + k \in Nat
    BY DEF Row
  <2>2. /\ \A k \in 1..c : a + k \in places
        /\ \A i \in places : \E k \in 1..c : a + k = i
    BY DEF Row
  <2>3. places \in SUBSET (DOMAIN s) /\ places \subseteq Nat
    BY <2>1, <2>2
  <2> QED BY <2>1, <2>2, <2>3
<1>2. f \in [1..c -> places] /\ \A k \in 1..c : f[k] = a + k
  BY <1>1
<1> HIDE DEF f
<1>3. \A i \in places : \E k \in 1..c : f[k] = i
  BY <1>1, <1>2
<1>4. \A j, k \in 1..c : j < k => f[j] < f[k]
  BY <1>1, <1>2
<1>5. Enumerates(f, c, places)
  BY <1>1, <1>2, <1>3, <1>4 DEF Enumerates
<1>6. /\ At(s, places) \in Seq(S) /\ Len(At(s, places)) = c
      /\ \A k \in 1..c : At(s, places)[k] = s[f[k]]
  <2>1. Picks(S, s, places, c, f)
    BY <1>1, <1>5 DEF Picks, Selects
  <2> QED BY <2>1, AtPicks
<1> QED BY <1>2, <1>6

\* The deltas of a text are of a kind of their own.
LEMMA KindsOf ==
    \A i, t, x : /\ BlockEvent("content_block_start", i, t).type = "content_block_start"
                 /\ BlockEvent("content_block_start", i, t).index = i
                 /\ BlockEvent("content_block_start", i, t).kind = t
                 /\ BlockEvent("content_block_stop", i, t).type = "content_block_stop"
                 /\ Delta(i, t, x).type = "content_block_delta"
                 /\ Delta(i, t, x).index = i /\ Delta(i, t, x).kind = t /\ Delta(i, t, x).text = x
                 /\ DeltaOf(t) # "signature_delta"
BY DEF BlockEvent, Delta, DeltaOf

\* The place of an event of a block among all events.
LEMMA PlaceOf ==
    ASSUME NEW m, NEW p, NEW at, Laid(m, p, at)
    PROVE  /\ Bare(m, p) \in Seq(Events) /\ Len(Bare(m, p)) = at[Len(m.blocks)] + 2
           /\ \A i \in 1..Len(m.blocks) :
                /\ m.blocks[i] \in Blocks /\ i \in Indexes
                /\ Pieces(m.blocks[i], p) \in Nat /\ at[i - 1] \in Nat
                /\ Size(m.blocks[i], p) \in Nat
                /\ \A k \in 1..Size(m.blocks[i], p) :
                     /\ at[i - 1] + k \in 2..at[Len(m.blocks)]
                     /\ at[i - 1] + k \in DOMAIN Bare(m, p)
                     /\ Bare(m, p)[at[i - 1] + k] = BlockEvents(m.blocks[i], i, p)[k]
<1> DEFINE N == Len(m.blocks)
           of == Bare(m, p)
<1>1. IsMessage(m) /\ IsPace(p) /\ Lays(m, p, at)
  BY DEF Laid
<1>2. N \in Nat /\ \A i \in 1..N : m.blocks[i] \in Blocks
  BY <1>1, MessageTyped
<1>3. of \in Seq(Events)
  BY <1>1, BareIs
<1>4. /\ at \in [0..N -> Nat] /\ at[0] = 1
      /\ \A i \in 1..N : at[i] = at[i - 1] + Size(m.blocks[i], p)
      /\ \A i, j \in 0..N : i <= j => at[i] <= at[j]
      /\ Len(of) = at[N] + 2
      /\ \A i \in 1..N : \A k \in 1..Size(m.blocks[i], p) :
           of[at[i - 1] + k] = BlockEvents(m.blocks[i], i, p)[k]
  BY <1>1 DEF Lays
<1> HIDE DEF of
<1> HIDE DEF N
<1>5. ASSUME NEW i \in 1..N
      PROVE  /\ m.blocks[i] \in Blocks /\ i \in Indexes
             /\ Pieces(m.blocks[i], p) \in Nat /\ at[i - 1] \in Nat
             /\ Size(m.blocks[i], p) \in Nat
             /\ \A k \in 1..Size(m.blocks[i], p) :
                  /\ at[i - 1] + k \in 2..at[N]
                  /\ at[i - 1] + k \in DOMAIN of
                  /\ of[at[i - 1] + k] = BlockEvents(m.blocks[i], i, p)[k]
  <2>1. m.blocks[i] \in Blocks /\ i \in Indexes
    BY <1>2 DEF Indexes
  <2>2. Pieces(m.blocks[i], p) \in Nat /\ Size(m.blocks[i], p) \in Nat
    <3>1. Pieces(m.blocks[i], p) \in Nat
      BY <1>1, <2>1, ChunkTyped
    <3> QED BY <3>1 DEF Size
  <2>3. i - 1 \in 0..N /\ i \in 0..N /\ N \in 0..N /\ i <= N /\ 0 \in 0..N /\ 0 <= i - 1
    BY <1>2
  <2>4. /\ at[i - 1] \in Nat /\ at[i] \in Nat /\ at[N] \in Nat
        /\ at[i] <= at[N] /\ 1 <= at[i - 1] /\ at[i] = at[i - 1] + Size(m.blocks[i], p)
    BY <1>4, <2>3
  <2> DEFINE size == Size(m.blocks[i], p)
  <2> HIDE DEF size
  <2>5. ASSUME NEW k \in 1..size PROVE at[i - 1] + k \in 2..at[N] /\ at[i - 1] + k \in 1..Len(of)
    BY <1>4, <2>2, <2>4, SMTT(40) DEF size
  <2>6. DOMAIN of = 1..Len(of)
    BY <1>3
  <2> QED BY <1>4, <2>1, <2>2, <2>4, <2>5, <2>6 DEF size
<1> QED BY <1>3, <1>4, <1>5 DEF of, N

\* The places of the start, the deltas and the signature of a block.
StartAt(at, i) == at[i - 1] + 1
DeltaAt(at, i, k) == (at[i - 1] + 1) + k
SignAt(m, p, at, i) == at[i - 1] + (Pieces(m.blocks[i], p) + 2)

\* Which events of the bare stream are starts, deltas and signatures.
LEMMA StartPlaces ==
    ASSUME NEW m, NEW p, NEW at, Laid(m, p, at)
    PROVE  \A i \in 1..Len(m.blocks) :
              /\ StartAt(at, i) \in DOMAIN Bare(m, p)
              /\ Bare(m, p)[StartAt(at, i)] = BlockEvent("content_block_start", i, m.blocks[i].type)
<1> SUFFICES ASSUME NEW i \in 1..Len(m.blocks)
    PROVE /\ StartAt(at, i) \in DOMAIN Bare(m, p)
          /\ Bare(m, p)[StartAt(at, i)] = BlockEvent("content_block_start", i, m.blocks[i].type)
  OBVIOUS
<1> DEFINE b == m.blocks[i]
           of == Bare(m, p)
           Z == Size(b, p)
<1>1. /\ b \in Blocks /\ i \in Indexes /\ Pieces(b, p) \in Nat
      /\ \A k \in 1..Z : at[i - 1] + k \in DOMAIN of /\ of[at[i - 1] + k] = BlockEvents(b, i, p)[k]
  BY PlaceOf
<1>2. IsPace(p)
  BY DEF Laid
<1>3. /\ BlockEvents(b, i, p)[1] = BlockEvent("content_block_start", i, b.type)
      /\ \A j \in 1..Pieces(b, p) :
           BlockEvents(b, i, p)[1 + j] = Delta(i, DeltaOf(b.type), Chunk(b, p, j))
      /\ b.type = "thinking" =>
           BlockEvents(b, i, p)[Pieces(b, p) + 2] = Delta(i, "signature_delta", <<b.sig>>)
  BY <1>1, <1>2, BlockEventsAre
<1>4. 1 \in 1..Z
  BY <1>1 DEF Size
<1> HIDE DEF b
<1> HIDE DEF of
<1> HIDE DEF Z
<1>5. at[i - 1] + 1 \in DOMAIN of /\ of[at[i - 1] + 1] = BlockEvent("content_block_start", i, b.type)
  BY <1>1, <1>3, <1>4
<1> QED BY <1>5 DEF b, of, StartAt

LEMMA DeltaPlaces ==
    ASSUME NEW m, NEW p, NEW at, Laid(m, p, at)
    PROVE  \A i \in 1..Len(m.blocks) : \A k \in 1..Pieces(m.blocks[i], p) :
              /\ DeltaAt(at, i, k) \in DOMAIN Bare(m, p)
              /\ Bare(m, p)[DeltaAt(at, i, k)]
                   = Delta(i, DeltaOf(m.blocks[i].type), Chunk(m.blocks[i], p, k))
<1> SUFFICES ASSUME NEW i \in 1..Len(m.blocks), NEW k \in 1..Pieces(m.blocks[i], p)
    PROVE /\ DeltaAt(at, i, k) \in DOMAIN Bare(m, p)
          /\ Bare(m, p)[DeltaAt(at, i, k)]
               = Delta(i, DeltaOf(m.blocks[i].type), Chunk(m.blocks[i], p, k))
  OBVIOUS
<1> DEFINE b == m.blocks[i]
           of == Bare(m, p)
           Z == Size(b, p)
<1>1. /\ b \in Blocks /\ i \in Indexes /\ Pieces(b, p) \in Nat /\ at[i - 1] \in Nat
      /\ \A j \in 1..Z : at[i - 1] + j \in DOMAIN of /\ of[at[i - 1] + j] = BlockEvents(b, i, p)[j]
  BY PlaceOf
<1>2. IsPace(p)
  BY DEF Laid
<1>3. /\ BlockEvents(b, i, p)[1] = BlockEvent("content_block_start", i, b.type)
      /\ \A j \in 1..Pieces(b, p) :
           BlockEvents(b, i, p)[1 + j] = Delta(i, DeltaOf(b.type), Chunk(b, p, j))
      /\ b.type = "thinking" =>
           BlockEvents(b, i, p)[Pieces(b, p) + 2] = Delta(i, "signature_delta", <<b.sig>>)
  BY <1>1, <1>2, BlockEventsAre
<1>4. 1 + k \in 1..Z /\ (at[i - 1] + 1) + k = at[i - 1] + (1 + k)
  <2>1. k \in Nat /\ 1 <= k /\ k <= Pieces(b, p)
    BY <1>1
  <2>2. Z = Pieces(b, p) + (IF b.type = "thinking" THEN 3 ELSE 2)
    BY DEF Size
  <2> DEFINE a == at[i - 1]
             c == Pieces(b, p)
  <2>3. a \in Nat /\ c \in Nat
    BY <1>1
  <2>4. Z = c + 3 \/ Z = c + 2
    BY <2>2
  <2> HIDE DEF Z
  <2>5. k \in Nat /\ 1 <= k /\ k <= c
    BY <2>1
  <2> HIDE DEF c
  <2> HIDE DEF a
  <2>6. 1 + k \in 1..Z
    BY <2>3, <2>4, <2>5
  <2>7. (a + 1) + k = a + (1 + k)
    BY <2>3, <2>5
  <2> QED BY <2>6, <2>7 DEF a
<1> HIDE DEF b
<1> HIDE DEF of
<1> HIDE DEF Z
<1>5. at[i - 1] + (1 + k) \in DOMAIN of
      /\ of[at[i - 1] + (1 + k)] = Delta(i, DeltaOf(b.type), Chunk(b, p, k))
  <2>1. k \in 1..Pieces(b, p)
    BY DEF b
  <2> QED BY <1>1, <1>3, <1>4, <2>1
<1> QED BY <1>4, <1>5 DEF b, of, DeltaAt

LEMMA SignPlaces ==
    ASSUME NEW m, NEW p, NEW at, Laid(m, p, at)
    PROVE  \A i \in 1..Len(m.blocks) :
              m.blocks[i].type = "thinking" =>
                /\ SignAt(m, p, at, i) \in DOMAIN Bare(m, p)
                /\ Bare(m, p)[SignAt(m, p, at, i)] = Delta(i, "signature_delta", <<m.blocks[i].sig>>)
<1> SUFFICES ASSUME NEW i \in 1..Len(m.blocks), m.blocks[i].type = "thinking"
    PROVE /\ SignAt(m, p, at, i) \in DOMAIN Bare(m, p)
          /\ Bare(m, p)[SignAt(m, p, at, i)] = Delta(i, "signature_delta", <<m.blocks[i].sig>>)
  OBVIOUS
<1> DEFINE b == m.blocks[i]
           of == Bare(m, p)
           Z == Size(b, p)
           P == Pieces(b, p)
<1>1. /\ b \in Blocks /\ i \in Indexes /\ P \in Nat /\ at[i - 1] \in Nat
      /\ \A j \in 1..Z : at[i - 1] + j \in DOMAIN of /\ of[at[i - 1] + j] = BlockEvents(b, i, p)[j]
  BY PlaceOf
<1>2. IsPace(p)
  BY DEF Laid
<1>3. BlockEvents(b, i, p)[P + 2] = Delta(i, "signature_delta", <<b.sig>>)
  BY <1>1, <1>2, BlockEventsAre
<1>4. P + 2 \in 1..Z
  BY <1>1 DEF Size
<1> HIDE DEF b
<1> HIDE DEF of
<1> HIDE DEF Z
<1> HIDE DEF P
<1>5. at[i - 1] + (P + 2) \in DOMAIN of
      /\ of[at[i - 1] + (P + 2)] = Delta(i, "signature_delta", <<b.sig>>)
  BY <1>1, <1>3, <1>4
<1> QED BY <1>5 DEF b, of, P, SignAt

LEMMA KnownPlaces ==
    ASSUME NEW m, NEW p, NEW at, Laid(m, p, at), NEW q \in DOMAIN Bare(m, p)
    PROVE  /\ Bare(m, p)[q].type = "content_block_start" =>
                \E i \in 1..Len(m.blocks) : q = StartAt(at, i)
           /\ Bare(m, p)[q].type = "content_block_delta" =>
                \E i \in 1..Len(m.blocks) :
                  \/ \E k \in 1..Pieces(m.blocks[i], p) : q = DeltaAt(at, i, k)
                  \/ m.blocks[i].type = "thinking" /\ q = SignAt(m, p, at, i)
           /\ Bare(m, p)[q].type = "message_delta" => q = at[Len(m.blocks)] + 1
<1> DEFINE N == Len(m.blocks)
           of == Bare(m, p)
<1>1. IsMessage(m) /\ IsPace(p) /\ Lays(m, p, at)
  BY DEF Laid
<1>2. /\ of \in Seq(Events) /\ Len(of) = at[N] + 2 /\ at[N] \in Nat /\ at[N] >= 1
      /\ of[1].type = "message_start" /\ of[at[N] + 2].type = "message_stop"
      /\ of[at[N] + 1].type = "message_delta"
      /\ \A j \in 2..at[N] : of[j].type \in BlockKinds
  BY <1>1, BareTyped, BareIs
<1>3. \A j \in 2..at[N] : \E i \in 1..N : \E k \in 1..Size(m.blocks[i], p) : j = at[i - 1] + k
  BY <1>1 DEF Lays
<1>4. \A i \in 1..N : /\ m.blocks[i] \in Blocks /\ i \in Indexes /\ Pieces(m.blocks[i], p) \in Nat
                      /\ at[i - 1] \in Nat
                      /\ \A k \in 1..Size(m.blocks[i], p) :
                           of[at[i - 1] + k] = BlockEvents(m.blocks[i], i, p)[k]
  BY PlaceOf
<1> HIDE DEF of
<1> HIDE DEF N
<1>5. q \in 1..Len(of)
  BY <1>2 DEF of
<1>6. q = 1 \/ q \in 2..at[N] \/ q = at[N] + 1 \/ q = at[N] + 2
  BY <1>2, <1>5
<1>7. CASE q = 1 \/ q = at[N] + 1 \/ q = at[N] + 2
  BY <1>2, <1>7 DEF of, N
<1>8. CASE q \in 2..at[N]
  <2>1. PICK i \in 1..N : \E k \in 1..Size(m.blocks[i], p) : q = at[i - 1] + k
    BY <1>3, <1>8
  <2>2. PICK k \in 1..Size(m.blocks[i], p) : q = at[i - 1] + k
    BY <2>1
  <2> DEFINE b == m.blocks[i]
             e == BlockEvents(b, i, p)[k]
             P == Pieces(b, p)
  <2>3. of[q] = e /\ b \in Blocks /\ i \in Indexes /\ P \in Nat /\ at[i - 1] \in Nat
    BY <1>4, <2>2
  <2>4. \/ k = 1 /\ e = BlockEvent("content_block_start", i, b.type)
        \/ /\ k - 1 \in 1..P
           /\ e = Delta(i, DeltaOf(b.type), Chunk(b, p, k - 1))
        \/ /\ b.type = "thinking" /\ k = P + 2
           /\ e = Delta(i, "signature_delta", <<b.sig>>)
        \/ e = BlockEvent("content_block_stop", i, b.type)
    BY <1>1, <2>3, BlockEventAt
  <2>5. k \in Nat
    <3>1. Size(b, p) \in Nat
      BY PlaceOf DEF N
    <3> QED BY <3>1
  <2> HIDE DEF e
  <2> HIDE DEF P
  <2> HIDE DEF b
  <2>6. of[q].type # "message_delta"
    BY <1>2, <1>8 DEF BlockKinds
  <2>7. of[q].type = "content_block_start" => k = 1
    BY <2>3, <2>4, KindsOf
  <2>8. of[q].type = "content_block_delta" => k - 1 \in 1..P \/ (b.type = "thinking" /\ k = P + 2)
    BY <2>3, <2>4, KindsOf
  <2>9. k - 1 \in 1..P => q = (at[i - 1] + 1) + (k - 1)
    BY <2>2, <2>3, <2>5
  <2>10. of[q].type = "content_block_delta" =>
           \/ \E j \in 1..P : q = (at[i - 1] + 1) + j
           \/ b.type = "thinking" /\ q = at[i - 1] + (P + 2)
    BY <2>2, <2>8, <2>9
  <2> QED BY <2>2, <2>6, <2>7, <2>10 DEF of, N, b, P, StartAt, DeltaAt, SignAt
<1> QED BY <1>6, <1>7, <1>8

\* The places of what is heard of a block.
LEMMA BlockPlaces ==
    ASSUME NEW m, NEW p, NEW at, Laid(m, p, at), NEW i \in 1..Len(m.blocks)
    PROVE  /\ Starts(Bare(m, p), i) = {StartAt(at, i)}
           /\ Signed(Bare(m, p), i) =
                IF m.blocks[i].type = "thinking" THEN {SignAt(m, p, at, i)} ELSE {}
           /\ Telling(Bare(m, p), i) = {DeltaAt(at, i, k) : k \in 1..Pieces(m.blocks[i], p)}
<1> DEFINE of == Bare(m, p)
           P == Pieces(m.blocks[i], p)
           N == Len(m.blocks)
           head == StartAt(at, i)
           sign == SignAt(m, p, at, i)
           rows == {DeltaAt(at, i, k) : k \in 1..P}
           thinks == m.blocks[i].type = "thinking"
<1>1. \A j \in 1..N :
        /\ StartAt(at, j) \in DOMAIN of
        /\ of[StartAt(at, j)].type = "content_block_start" /\ of[StartAt(at, j)].index = j
        /\ \A k \in 1..Pieces(m.blocks[j], p) :
             /\ DeltaAt(at, j, k) \in DOMAIN of
             /\ of[DeltaAt(at, j, k)].type = "content_block_delta"
             /\ of[DeltaAt(at, j, k)].index = j
             /\ of[DeltaAt(at, j, k)].kind # "signature_delta"
        /\ m.blocks[j].type = "thinking" =>
             /\ SignAt(m, p, at, j) \in DOMAIN of
             /\ of[SignAt(m, p, at, j)].type = "content_block_delta"
             /\ of[SignAt(m, p, at, j)].index = j
             /\ of[SignAt(m, p, at, j)].kind = "signature_delta"
  <2> HIDE DEF of
  <2>1. \A j, t : /\ BlockEvent("content_block_start", j, t).type = "content_block_start"
                  /\ BlockEvent("content_block_start", j, t).index = j
    BY KindsOf
  <2>2. \A j, t, x : /\ Delta(j, t, x).type = "content_block_delta" /\ Delta(j, t, x).index = j
                     /\ Delta(j, t, x).kind = t /\ DeltaOf(t) # "signature_delta"
    BY KindsOf
  <2> SUFFICES ASSUME NEW j \in 1..N
      PROVE  /\ StartAt(at, j) \in DOMAIN of
             /\ of[StartAt(at, j)].type = "content_block_start" /\ of[StartAt(at, j)].index = j
             /\ \A k \in 1..Pieces(m.blocks[j], p) :
                  /\ DeltaAt(at, j, k) \in DOMAIN of
                  /\ of[DeltaAt(at, j, k)].type = "content_block_delta"
                  /\ of[DeltaAt(at, j, k)].index = j
                  /\ of[DeltaAt(at, j, k)].kind # "signature_delta"
             /\ m.blocks[j].type = "thinking" =>
                  /\ SignAt(m, p, at, j) \in DOMAIN of
                  /\ of[SignAt(m, p, at, j)].type = "content_block_delta"
                  /\ of[SignAt(m, p, at, j)].index = j
                  /\ of[SignAt(m, p, at, j)].kind = "signature_delta"
    OBVIOUS
  <2>4. /\ StartAt(at, j) \in DOMAIN of
        /\ of[StartAt(at, j)].type = "content_block_start" /\ of[StartAt(at, j)].index = j
    <3>1. /\ StartAt(at, j) \in DOMAIN of
          /\ of[StartAt(at, j)] = BlockEvent("content_block_start", j, m.blocks[j].type)
      BY StartPlaces DEF of
    <3> QED BY <2>1, <3>1
  <2>5. ASSUME NEW k \in 1..Pieces(m.blocks[j], p)
        PROVE  /\ DeltaAt(at, j, k) \in DOMAIN of
               /\ of[DeltaAt(at, j, k)].type = "content_block_delta"
               /\ of[DeltaAt(at, j, k)].index = j
               /\ of[DeltaAt(at, j, k)].kind # "signature_delta"
    <3>1. /\ DeltaAt(at, j, k) \in DOMAIN of
          /\ of[DeltaAt(at, j, k)]
               = Delta(j, DeltaOf(m.blocks[j].type), Chunk(m.blocks[j], p, k))
      BY DeltaPlaces DEF of
    <3> QED BY <2>2, <3>1
  <2>6. m.blocks[j].type = "thinking" =>
          /\ SignAt(m, p, at, j) \in DOMAIN of
          /\ of[SignAt(m, p, at, j)].type = "content_block_delta"
          /\ of[SignAt(m, p, at, j)].index = j
          /\ of[SignAt(m, p, at, j)].kind = "signature_delta"
    <3>1. m.blocks[j].type = "thinking" =>
            /\ SignAt(m, p, at, j) \in DOMAIN of
            /\ of[SignAt(m, p, at, j)] = Delta(j, "signature_delta", <<m.blocks[j].sig>>)
      BY SignPlaces DEF of
    <3> QED BY <2>2, <3>1
  <2> QED BY <2>4, <2>5, <2>6
<1>2. \A q \in DOMAIN of : of[q].type = "content_block_start" => \E j \in 1..N : q = StartAt(at, j)
  BY KnownPlaces
<1>3. \A q \in DOMAIN of : of[q].type = "content_block_delta" =>
        \E j \in 1..N :
          \/ \E k \in 1..Pieces(m.blocks[j], p) : q = DeltaAt(at, j, k)
          \/ m.blocks[j].type = "thinking" /\ q = SignAt(m, p, at, j)
  BY KnownPlaces
<1> HIDE DEF of
<1>4. ASSUME NEW q \in DOMAIN of, of[q].type = "content_block_start", of[q].index = i
      PROVE  q = head
  BY <1>1, <1>2, <1>4
<1>5. ASSUME NEW q \in DOMAIN of, of[q].type = "content_block_delta", of[q].index = i
      PROVE  (q \in rows /\ of[q].kind # "signature_delta")
             \/ (thinks /\ q = sign /\ of[q].kind = "signature_delta")
  <2>1. PICK j \in 1..N :
          \/ \E k \in 1..Pieces(m.blocks[j], p) : q = DeltaAt(at, j, k)
          \/ m.blocks[j].type = "thinking" /\ q = SignAt(m, p, at, j)
    BY <1>3, <1>5
  <2>2. j = i
    BY <1>1, <1>5, <2>1
  <2>3. CASE \E k \in 1..Pieces(m.blocks[j], p) : q = DeltaAt(at, j, k)
    <3>1. PICK k \in 1..P : q = DeltaAt(at, i, k)
      BY <2>2, <2>3
    <3>2. of[q].kind # "signature_delta"
      BY <1>1, <3>1
    <3> QED BY <3>1, <3>2
  <2>4. CASE m.blocks[j].type = "thinking" /\ q = SignAt(m, p, at, j)
    BY <1>1, <2>2, <2>4
  <2> QED BY <2>1, <2>3, <2>4
<1>6. /\ head \in DOMAIN of /\ of[head].type = "content_block_start" /\ of[head].index = i
      /\ \A q \in rows : /\ q \in DOMAIN of /\ of[q].type = "content_block_delta"
                         /\ of[q].index = i /\ of[q].kind # "signature_delta"
      /\ thinks => /\ sign \in DOMAIN of /\ of[sign].type = "content_block_delta"
                   /\ of[sign].index = i /\ of[sign].kind = "signature_delta"
  BY <1>1
<1> HIDE DEF head
<1> HIDE DEF sign
<1> HIDE DEF rows
<1> HIDE DEF thinks
<1>7. Starts(of, i) = {head}
  BY <1>4, <1>6 DEF Starts, OfBlock
<1>8. \A q \in OfBlock(of, i) \ Starts(of, i) :
         q \in DOMAIN of /\ of[q].type = "content_block_delta" /\ of[q].index = i
  BY DEF Starts, OfBlock
<1>9. \A q \in rows : q \in OfBlock(of, i) /\ q \notin Starts(of, i)
  BY <1>6 DEF Starts, OfBlock
<1>10. thinks => sign \in OfBlock(of, i) /\ sign \notin Starts(of, i)
  BY <1>6 DEF Starts, OfBlock
<1>11. Signed(of, i) = IF thinks THEN {sign} ELSE {}
  <2>1. \A q \in Signed(of, i) : thinks /\ q = sign
    BY <1>5, <1>8 DEF Signed
  <2>2. thinks => sign \in Signed(of, i)
    BY <1>6, <1>10 DEF Signed
  <2> QED BY <2>1, <2>2
<1>12. Telling(of, i) = rows
  <2>1. \A q \in Telling(of, i) : q \in rows
    BY <1>5, <1>8 DEF Signed, Telling
  <2>2. \A q \in rows : q \in Telling(of, i)
    BY <1>6, <1>9 DEF Signed, Telling
  <2> QED BY <2>1, <2>2
<1> QED BY <1>7, <1>11, <1>12 DEF of, head, sign, rows, thinks, P

\* The deltas of a block make its text.
LEMMA BlockHeard ==
    ASSUME NEW m, NEW p, NEW at, Laid(m, p, at), NEW i \in 1..Len(m.blocks)
    PROVE  HeardBlock(Bare(m, p), i) = m.blocks[i]
<1> DEFINE of == Bare(m, p)
           b == m.blocks[i]
           P == Pieces(b, p)
           head == StartAt(at, i)
           sign == SignAt(m, p, at, i)
           texts == At(of, Telling(of, i))
<1>1. of \in Seq(Events) /\ b \in Blocks /\ P \in Nat /\ at[i - 1] \in Nat /\ IsPace(p)
  BY PlaceOf DEF Laid
<1>2. /\ head \in DOMAIN of /\ of[head] = BlockEvent("content_block_start", i, b.type)
      /\ \A k \in 1..P : head + k \in DOMAIN of
                         /\ of[head + k] = Delta(i, DeltaOf(b.type), Chunk(b, p, k))
      /\ b.type = "thinking" =>
           sign \in DOMAIN of /\ of[sign] = Delta(i, "signature_delta", <<b.sig>>)
  <2>1. \A k : DeltaAt(at, i, k) = head + k
    BY DEF DeltaAt, StartAt
  <2>2. /\ head \in DOMAIN of /\ of[head] = BlockEvent("content_block_start", i, b.type)
        /\ \A k \in 1..P : DeltaAt(at, i, k) \in DOMAIN of
              /\ of[DeltaAt(at, i, k)] = Delta(i, DeltaOf(b.type), Chunk(b, p, k))
        /\ b.type = "thinking" =>
             sign \in DOMAIN of /\ of[sign] = Delta(i, "signature_delta", <<b.sig>>)
    BY StartPlaces, DeltaPlaces, SignPlaces
  <2> QED BY <2>1, <2>2
<1>3. /\ Starts(of, i) = {head}
      /\ Signed(of, i) = IF b.type = "thinking" THEN {sign} ELSE {}
      /\ Telling(of, i) = {head + k : k \in 1..P}
  <2>1. \A k : DeltaAt(at, i, k) = head + k
    BY DEF DeltaAt, StartAt
  <2>2. /\ Starts(of, i) = {head}
        /\ Signed(of, i) = IF b.type = "thinking" THEN {sign} ELSE {}
        /\ Telling(of, i) = {DeltaAt(at, i, k) : k \in 1..P}
    BY BlockPlaces
  <2>3. {DeltaAt(at, i, k) : k \in 1..P} = {head + k : k \in 1..P}
    BY <2>1
  <2> QED BY <2>2, <2>3
<1>4. b.text \in Texts /\ b = Block(b.type, b.text, b.sig)
  BY <1>1, BlockTyped
<1>5. b.type # "thinking" => b.sig = NoString
  BY DEF Laid, Unsigned
<1>6. head \in Nat
  BY <1>1 DEF StartAt
<1> HIDE DEF of
<1> HIDE DEF head
<1> HIDE DEF sign
<1>7. HeardBlock(of, i) =
        Block(At(of, Starts(of, i))[1].kind, Spoken(texts),
              IF Signed(of, i) = {} THEN NoString ELSE At(of, Signed(of, i))[1].text[1])
  BY HeardIs, Zenon
<1>8. At(of, Starts(of, i))[1].kind = b.type
  <2>1. At(of, Starts(of, i))[1] = of[head]
    BY <1>1, <1>2, <1>3, AtOne
  <2> QED BY <1>2, <2>1, KindsOf
<1>9. Spoken(texts) = b.text
  <2> DEFINE S == STRING
             pieces == Chunks(b.text, ChunkSize(p))
             told == [k \in DOMAIN texts |-> texts[k].text]
  <2>1. /\ texts \in Seq(Events) /\ Len(texts) = P
        /\ \A k \in 1..P : texts[k] = of[head + k]
    <3> DEFINE places == Telling(of, i)
    <3>1. places = {head + k : k \in 1..P}
      BY <1>3
    <3>2. \A k \in 1..P : head + k \in DOMAIN of
      BY <1>2
    <3>3. P \in Nat
      BY <1>1
    <3> HIDE DEF places
    <3> HIDE DEF P
    <3>4. Row(of, places, head, P)
      BY <1>6, <3>1, <3>2, <3>3 DEF Row
    <3>5. /\ At(of, places) \in Seq(Events) /\ Len(At(of, places)) = P
          /\ \A k \in 1..P : At(of, places)[k] = of[head + k]
      BY <1>1, <3>4, AtRow
    <3> QED BY <3>5 DEF places
  <2> HIDE DEF texts
  <2>2. DOMAIN texts = 1..P
    BY <1>1, <2>1
  <2>3. DOMAIN pieces = 1..P /\ \A k \in 1..P : pieces[k] = Chunk(b, p, k)
    BY <1>1, ChunkTyped
  <2>4. \A k \in 1..P : texts[k].text = Chunk(b, p, k)
    BY <1>2, <2>1, KindsOf
  <2>5. pieces = [k \in DOMAIN pieces |-> pieces[k]]
    <3>1. ChunkSize(p) \in Nat \ {0} /\ b.text \in Seq(S)
      BY <1>1, <1>4, ChunkSizeTyped DEF Texts
    <3> HIDE DEF S
    <3>2. pieces \in Seq(Seq(S))
      BY <3>1, ChunksAre
    <3> HIDE DEF pieces
    <3> QED BY <3>2
  <2> HIDE DEF pieces
  <2> HIDE DEF P
  <2>6. told = pieces
    BY <2>2, <2>3, <2>4, <2>5
  <2>7. Spoken(texts) = FlattenSeq(told)
    BY DEF Spoken
  <2> HIDE DEF told
  <2>8. FlattenSeq(pieces) = b.text
    <3>1. ChunkSize(p) \in Nat \ {0} /\ b.text \in Seq(S)
      BY <1>1, <1>4, ChunkSizeTyped DEF Texts
    <3> HIDE DEF S
    <3> QED BY <3>1, ChunksWhole DEF pieces
  <2> QED BY <2>6, <2>7, <2>8
<1>10. (IF Signed(of, i) = {} THEN NoString ELSE At(of, Signed(of, i))[1].text[1]) = b.sig
  <2>1. CASE b.type = "thinking"
    <3>1. Signed(of, i) = {sign} /\ Signed(of, i) # {}
      BY <1>3, <2>1
    <3>2. At(of, Signed(of, i))[1] = of[sign]
      BY <1>1, <1>2, <2>1, <3>1, AtOne
    <3>3. of[sign].text = <<b.sig>>
      BY <1>2, <2>1, KindsOf
    <3>4. <<b.sig>>[1] = b.sig
      OBVIOUS
    <3> QED BY <3>1, <3>2, <3>3, <3>4
  <2>2. CASE b.type # "thinking"
    BY <1>3, <1>5, <2>2
  <2> QED BY <2>1, <2>2
<1> HIDE DEF texts
<1> HIDE DEF b
<1>11. HeardBlock(of, i) = Block(b.type, b.text, b.sig)
  BY <1>7, <1>8, <1>9, <1>10
<1> QED BY <1>4, <1>11 DEF of, b

\* A client that hears the bare events of a message hears the message.
LEMMA BareHeard ==
    ASSUME NEW m, NEW p, NEW at, Laid(m, p, at)
    PROVE  Heard(Bare(m, p)) = m
<1> DEFINE of == Bare(m, p)
           N == Len(m.blocks)
           heads == OfType(of, "content_block_start")
           ends == OfType(of, "message_delta")
           g == [i \in 1..N |-> StartAt(at, i)]
<1>1. IsMessage(m) /\ IsPace(p) /\ Lays(m, p, at)
  BY DEF Laid
<1>2. /\ m.blocks \in Seq(Blocks) /\ N \in Nat /\ DOMAIN m.blocks = 1..N
      /\ m = Message(m.blocks, m.stop, m.tokens)
      /\ \A i \in 1..N : m.blocks[i] \in Blocks
  BY <1>1, MessageTyped
<1>3. of \in Seq(Events) /\ Len(of) = at[N] + 2
  BY PlaceOf
<1>4. /\ at \in [0..N -> Nat]
      /\ \A i \in 1..N : at[i] = at[i - 1] + Size(m.blocks[i], p)
      /\ \A i, j \in 0..N : i <= j => at[i] <= at[j]
      /\ of[at[N] + 1] = End(m)
  BY <1>1 DEF Lays
<1>5. \A i \in 1..N : Size(m.blocks[i], p) \in Nat /\ Size(m.blocks[i], p) >= 2
  BY <1>1, BodyTyped
<1>6. \A i \in 1..N : StartAt(at, i) \in DOMAIN of /\ of[StartAt(at, i)].type = "content_block_start"
  <2> HIDE DEF of
  <2>1. \A i \in 1..Len(m.blocks) :
          /\ StartAt(at, i) \in DOMAIN Bare(m, p)
          /\ Bare(m, p)[StartAt(at, i)] = BlockEvent("content_block_start", i, m.blocks[i].type)
    BY StartPlaces
  <2>2. \A i, t : BlockEvent("content_block_start", i, t).type = "content_block_start"
    BY KindsOf
  <2> QED BY <2>1, <2>2, ZenonT(60) DEF of, N
<1>7. \A q \in DOMAIN of :
        /\ of[q].type = "content_block_start" => \E i \in 1..N : q = StartAt(at, i)
        /\ of[q].type = "message_delta" => q = at[N] + 1
  BY KnownPlaces
<1>8. DOMAIN of = 1..Len(of) /\ at[N] \in Nat
  <2>1. N \in 0..N
    BY <1>2
  <2> QED BY <1>3, <1>4, <2>1
<1>9. \A i \in 1..N : HeardBlock(of, i) = m.blocks[i]
  BY BlockHeard
<1>10. End(m).type = "message_delta" /\ End(m).stop = m.stop /\ End(m).tokens = m.tokens
  BY DEF End
<1>11. Heard(of) = Message([i \in DOMAIN At(of, heads) |-> HeardBlock(of, i)],
                           At(of, ends)[1].stop, At(of, ends)[1].tokens)
  BY HeardIs, Zenon
<1> HIDE DEF of
<1> HIDE DEF N
<1>12. /\ g \in [1..N -> heads] /\ \A i \in 1..N : g[i] = StartAt(at, i)
       /\ \A q \in heads : \E i \in 1..N : g[i] = q
  BY <1>6, <1>7 DEF OfType
<1>13. ASSUME NEW i \in 1..N, NEW j \in 1..N, i < j PROVE g[i] < g[j]
  <2>1. i - 1 \in 0..N /\ i \in 0..N /\ j - 1 \in 0..N /\ i <= j - 1
    BY <1>2, <1>13
  <2>2. /\ at[i - 1] \in Nat /\ at[i] \in Nat /\ at[j - 1] \in Nat /\ at[i] <= at[j - 1]
        /\ at[i] = at[i - 1] + Size(m.blocks[i], p)
    BY <1>4, <2>1
  <2>3. g[i] = at[i - 1] + 1 /\ g[j] = at[j - 1] + 1
    BY <1>12 DEF StartAt
  <2> QED BY <1>5, <2>2, <2>3
<1>14. heads \in SUBSET (DOMAIN of) /\ heads \subseteq Nat
  BY <1>8 DEF OfType
<1>15. Enumerates(g, N, heads)
  BY <1>2, <1>12, <1>13, <1>14 DEF Enumerates
<1>16. At(of, heads) \in Seq(Events) /\ Len(At(of, heads)) = N
  BY <1>3, <1>14, <1>15, AtIs
<1>17. ends = {at[N] + 1} /\ at[N] + 1 \in DOMAIN of
  <2>1. at[N] + 1 \in DOMAIN of
    BY <1>3, <1>8
  <2> QED BY <1>4, <1>7, <1>10, <2>1 DEF OfType
<1>18. At(of, ends)[1] = End(m)
  BY <1>3, <1>4, <1>17, AtOne
<1> HIDE DEF heads
<1> HIDE DEF ends
<1>19. [i \in DOMAIN At(of, heads) |-> HeardBlock(of, i)] = m.blocks
  <2>1. DOMAIN At(of, heads) = 1..N
    BY <1>16
  <2>2. m.blocks = [i \in DOMAIN m.blocks |-> m.blocks[i]]
    BY <1>2
  <2> QED BY <1>2, <1>9, <2>1, <2>2
<1> QED BY <1>2, <1>10, <1>11, <1>18, <1>19 DEF of

\* "Stream shape adapts both ways": whoever hears a whole stream, in chunks of any size and with
\* any pings between them, hears the message.
LEMMA StreamHeard ==
    ASSUME NEW m, IsMessage(m), Unsigned(m), NEW p, IsPace(p), NEW events \in Seq(Events),
           NEW pos, Spaced(events, Bare(m, p), pos)
    PROVE  Heard(events) = m
<1>1. Bare(m, p) \in Seq(Events)
  BY BareIs
<1>2. PICK at : Lays(m, p, at)
  BY BareIs
<1>3. PICK loc : Locates(events, Bare(m, p), pos, loc)
  BY <1>1, SpacedLocated
<1>4. Heard(events) = Heard(Bare(m, p))
  BY <1>1, <1>3, PingsUnheard
<1>5. Laid(m, p, at)
  BY <1>2 DEF Laid
<1> QED BY <1>4, <1>5, BareHeard

-----------------------------------------------------------------------------
(* What a message says, in either form. *)

\* What a message says, of the blocks that say something.
Loud(blocks) == {i \in DOMAIN blocks : ~Silent(blocks[i])}
Saying(blocks) ==
    [i \in DOMAIN At(blocks, Loud(blocks)) |-> Streamed(At(blocks, Loud(blocks))[i])]

LEMMA SaysIs == \A m : Says(m) = Message(Saying(m.blocks), m.stop, m.tokens)
BY Zenon DEF Says, Saying, Loud

\* Block by block, two messages say the same.
SayAlike(a, b) == (Silent(a) <=> Silent(b)) /\ (~Silent(b) => Streamed(a) = Streamed(b))

LEMMA SameSaid ==
    ASSUME NEW x \in Seq(Blocks), NEW y \in Seq(Blocks), Len(x) = Len(y),
           \A i \in 1..Len(y) : SayAlike(x[i], y[i])
    PROVE  Saying(x) = Saying(y)
<1> DEFINE P == Loud(y)
           u == At(x, P)
           v == At(y, P)
           c == Len(v)
<1>1. DOMAIN x = 1..Len(y) /\ DOMAIN y = 1..Len(y) /\ Len(y) \in Nat
  OBVIOUS
<1>2. Loud(x) = P
  BY <1>1 DEF Loud, SayAlike
<1>3. P \in SUBSET (DOMAIN y) /\ P \in SUBSET (DOMAIN x)
  BY <1>1 DEF Loud
<1>4. \A i \in P : Streamed(x[i]) = Streamed(y[i])
  BY <1>1 DEF Loud, SayAlike
<1> HIDE DEF P
<1>5. v \in Seq(Blocks) /\ c \in Nat
  BY <1>3, AtEnumerates
<1>6. PICK f : Enumerates(f, c, P) /\ \A k \in 1..c : v[k] = y[f[k]]
  BY <1>3, AtEnumerates
<1>7. u \in Seq(Blocks) /\ Len(u) = c /\ \A k \in 1..c : u[k] = x[f[k]]
  <2>1. Picks(Blocks, x, P, c, f)
    BY <1>3, <1>6 DEF Picks, Selects
  <2> QED BY <2>1, AtPicks
<1> HIDE DEF c
<1>8. \A k \in 1..c : f[k] \in P
  BY <1>6 DEF Enumerates
<1> HIDE DEF u
<1>9. DOMAIN u = 1..c /\ \A k \in 1..c : Streamed(u[k]) = Streamed(v[k])
  BY <1>4, <1>5, <1>6, <1>7, <1>8
<1>10. DOMAIN v = 1..c
  BY <1>5 DEF c
<1> HIDE DEF v
<1>11. [i \in DOMAIN u |-> Streamed(u[i])] = [i \in DOMAIN v |-> Streamed(v[i])]
  BY <1>9, <1>10
<1>12. Saying(x) = [i \in DOMAIN u |-> Streamed(u[i])]
  BY <1>2, Zenon DEF Saying, u
<1>13. Saying(y) = [i \in DOMAIN v |-> Streamed(v[i])]
  BY Zenon DEF Saying, v, P
<1> QED BY <1>11, <1>12, <1>13

\* Who selects the good ones of what was selected has all that are good.
Twice(S, s, places, good, all, t, some) ==
    /\ s \in Seq(S) /\ places \in SUBSET (DOMAIN s) /\ t = At(s, places)
    /\ all = {i \in DOMAIN s : s[i] \in good} /\ all \subseteq places
    /\ some = {j \in DOMAIN t : t[j] \in good}

LEMMA AtTwice ==
    ASSUME NEW S, NEW s, NEW places, NEW good, NEW all, NEW t, NEW some,
           Twice(S, s, places, good, all, t, some)
    PROVE  At(t, some) = At(s, all)
<1> DEFINE c == Len(t)
           d == Len(At(t, some))
<1>0. /\ Selects(S, s, places) /\ t = At(s, places) /\ all \subseteq places
      /\ all = {i \in DOMAIN s : s[i] \in good} /\ some = {j \in DOMAIN t : t[j] \in good}
  BY DEF Twice, Selects
<1>1. t \in Seq(S) /\ c \in Nat /\ s \in Seq(S)
  BY <1>0, AtSelects DEF Selects
<1>2. PICK f : Enumerates(f, c, places) /\ \A k \in 1..c : t[k] = s[f[k]]
  BY <1>0, AtSelects
<1>3. /\ DOMAIN t = 1..c /\ some \in SUBSET (DOMAIN t) /\ all \in SUBSET (DOMAIN s)
      /\ all \subseteq places /\ places \subseteq DOMAIN s
      /\ \A j \in 1..c : j \in some <=> t[j] \in good
      /\ \A i \in DOMAIN s : i \in all <=> s[i] \in good
  BY <1>0, <1>1 DEF Selects
<1>4. At(t, some) \in Seq(S) /\ d \in Nat
  <2>1. Selects(S, t, some)
    BY <1>1, <1>3 DEF Selects
  <2> QED BY <2>1, AtSelects
<1>5. PICK g : Enumerates(g, d, some) /\ \A k \in 1..d : At(t, some)[k] = t[g[k]]
  <2>1. Selects(S, t, some)
    BY <1>1, <1>3 DEF Selects
  <2> QED BY <2>1, AtSelects
<1> HIDE DEF c
<1> HIDE DEF d
<1> DEFINE h == [k \in 1..d |-> f[g[k]]]
<1>6. /\ f \in [1..c -> places] /\ \A j, k \in 1..c : j < k => f[j] < f[k]
      /\ \A i \in places : \E k \in 1..c : f[k] = i
  BY <1>2 DEF Enumerates
<1>7. /\ g \in [1..d -> some] /\ \A j, k \in 1..d : j < k => g[j] < g[k]
      /\ \A i \in some : \E k \in 1..d : g[k] = i
  BY <1>5 DEF Enumerates
<1>8. \A k \in 1..d : /\ g[k] \in some /\ g[k] \in 1..c /\ t[g[k]] \in good
                      /\ t[g[k]] = s[f[g[k]]] /\ f[g[k]] \in DOMAIN s /\ h[k] = f[g[k]]
  BY <1>2, <1>3, <1>6, <1>7
<1>9. \A k \in 1..d : h[k] \in all
  BY <1>3, <1>8
<1>10. h \in [1..d -> all]
  BY <1>9
<1> HIDE DEF h
<1>11. \A j, k \in 1..d : j < k => h[j] < h[k]
  BY <1>6, <1>7, <1>8
<1>12. ASSUME NEW i \in all PROVE \E k \in 1..d : h[k] = i
  <2>1. PICK j \in 1..c : f[j] = i
    BY <1>3, <1>6
  <2>2. j \in some
    BY <1>2, <1>3, <2>1
  <2>3. PICK k \in 1..d : g[k] = j
    BY <1>7, <2>2
  <2> QED BY <1>8, <2>1, <2>3
<1>13. all \subseteq Nat
  BY <1>1, <1>3
<1>14. Enumerates(h, d, all)
  BY <1>4, <1>10, <1>11, <1>12, <1>13 DEF Enumerates
<1>15. At(s, all) \in Seq(S) /\ Len(At(s, all)) = d /\ \A k \in 1..d : At(s, all)[k] = s[h[k]]
  <2>1. Picks(S, s, all, d, h)
    BY <1>1, <1>3, <1>14 DEF Picks, Selects
  <2> QED BY <2>1, AtPicks
<1> DEFINE x == At(t, some)
           y == At(s, all)
<1>16. x \in Seq(S) /\ Len(x) = d /\ \A k \in 1..d : x[k] = t[g[k]]
  BY <1>4, <1>5 DEF d
<1>17. y \in Seq(S) /\ Len(y) = d /\ \A k \in 1..d : y[k] = s[h[k]]
  BY <1>15
<1> HIDE DEF x
<1> HIDE DEF y
<1>18. \A k \in 1..d : x[k] = y[k]
  BY <1>8, <1>16, <1>17
<1>19. x = y
  BY <1>16, <1>17, <1>18, SameSeq
<1> QED BY <1>19 DEF x, y

\* Blocks of types that are not known say nothing.
LEMMA KeptSaid ==
    ASSUME NEW m, IsMessage(m)
    PROVE  Saying(Kept(m).blocks) = Saying(m.blocks)
<1> DEFINE s == m.blocks
           t == At(s, Known(m))
           good == {b \in Blocks : ~Silent(b)}
<1>1. s \in Seq(Blocks)
  BY MessageTyped
<1>2. Known(m) \in SUBSET (DOMAIN s)
  BY DEF Known
<1>3. t \in Seq(Blocks)
  BY <1>1, <1>2, AtEnumerates
<1>4. Kept(m).blocks = t
  BY KeptTyped
<1> HIDE DEF t
<1>5. Loud(s) = {i \in DOMAIN s : s[i] \in good}
  BY <1>1 DEF Loud
<1>6. Loud(t) = {i \in DOMAIN t : t[i] \in good}
  BY <1>3 DEF Loud
<1>7. Loud(s) \subseteq Known(m)
  BY DEF Loud, Known, Silent
<1> HIDE DEF s
<1> HIDE DEF good
<1>8. At(t, Loud(t)) = At(s, Loud(s))
  <2>1. Twice(Blocks, s, Known(m), good, Loud(s), t, Loud(t))
    BY <1>1, <1>2, <1>5, <1>6, <1>7, Zenon DEF Twice, t
  <2> QED BY <2>1, AtTwice
<1>9. Saying(t) = Saying(s)
  BY <1>8, Zenon DEF Saying
<1> QED BY <1>4, <1>9 DEF s

\* Spaces that are gone are gone, and what is rounded stays so.
LEMMA TightAgain ==
    ASSUME NEW s \in Texts
    PROVE  /\ \A i \in 1..Len(Tight(s)) : Tight(s)[i] # Space
           /\ (\A i \in 1..Len(s) : s[i] # Space) => Tight(s) = s
           /\ s # <<>> /\ s[1] # Space => Tight(s) # <<>>
<1> DEFINE S == STRING
           places == {i \in DOMAIN s : s[i] # Space}
           t == At(s, places)
<1>1. s \in Seq(S) /\ Tight(s) = t
  <2>1. Tight(s) = t
    BY Zenon DEF Tight, Space
  <2> QED BY <2>1 DEF Texts
<1> HIDE DEF S
<1>2. places \in SUBSET (DOMAIN s)
  OBVIOUS
<1>3. \A i \in places : s[i] # Space
  OBVIOUS
<1>4. DOMAIN s = 1..Len(s) /\ Len(s) \in Nat
  BY <1>1
<1>5. (\A i \in 1..Len(s) : s[i] # Space) => places = DOMAIN s
  BY <1>4
<1>6. s # <<>> /\ s[1] # Space => 1 \in places
  BY <1>1, <1>4
<1> HIDE DEF places
<1>7. t \in Seq(S)
  BY <1>1, <1>2, AtEnumerates
<1>8. PICK f : Enumerates(f, Len(t), places) /\ \A k \in 1..Len(t) : t[k] = s[f[k]]
  BY <1>1, <1>2, AtEnumerates
<1> HIDE DEF t
<1>9. \A k \in 1..Len(t) : t[k] # Space
  BY <1>3, <1>8 DEF Enumerates
<1>10. (\A i \in 1..Len(s) : s[i] # Space) => t = s
  BY <1>1, <1>5, AtAll DEF t
<1>11. s # <<>> /\ s[1] # Space => t # <<>>
  <2> SUFFICES ASSUME s # <<>>, s[1] # Space PROVE t # <<>>
    OBVIOUS
  <2>1. PICK k \in 1..Len(t) : f[k] = 1
    BY <1>6, <1>8 DEF Enumerates
  <2> QED BY <1>7, <2>1
<1> QED BY <1>1, <1>9, <1>10, <1>11

LEMMA CompactAgain ==
    ASSUME NEW s \in Texts, s # <<>>, s[1] # Space
    PROVE  /\ Tight(s) \in Texts /\ Tight(s) # <<>>
           /\ compactJSON(s) \in Texts /\ compactJSON(s) # <<>>
           /\ compactJSON(Tight(s)) = compactJSON(s)
           /\ compactJSON(compactJSON(s)) = compactJSON(s)
<1> DEFINE t == Tight(s)
           r == Rounded(t)
<1>1. t \in Texts /\ t # <<>> /\ \A i \in 1..Len(t) : t[i] # Space
  BY TightTyped, TightAgain
<1>2. Tight(t) = t
  BY <1>1, TightAgain
<1> HIDE DEF t
<1>3. /\ r \in Texts /\ Len(r) = Len(t)
      /\ \A i \in 1..Len(t) : r[i] = IF t[i] = "wide" THEN "rounded" ELSE t[i]
  BY <1>1, RoundedTyped
<1>4. "rounded" # Space /\ "rounded" # "wide"
  <2>1. "rounded" # Space
    BY Zenon DEF Space
  <2>2. "rounded" # "wide"
    OBVIOUS
  <2> QED BY <2>1, <2>2
<1>5. /\ Rounded(r) \in Texts /\ Len(Rounded(r)) = Len(r)
      /\ \A i \in 1..Len(r) : Rounded(r)[i] = IF r[i] = "wide" THEN "rounded" ELSE r[i]
  BY <1>3, RoundedTyped
<1> HIDE DEF r
<1>6. \A i \in 1..Len(r) : r[i] # Space /\ r[i] # "wide"
  BY <1>1, <1>3, <1>4
<1>7. Tight(r) = r
  BY <1>3, <1>6, TightAgain
<1>8. Rounded(r) = r
  <2> DEFINE S == STRING
             x == Rounded(r)
  <2>1. x \in Seq(S) /\ r \in Seq(S)
    BY <1>3, <1>5 DEF Texts
  <2>2. Len(x) = Len(r) /\ \A i \in 1..Len(r) : x[i] = r[i]
    BY <1>5, <1>6
  <2> HIDE DEF S
  <2> HIDE DEF x
  <2>3. x = r
    BY <2>1, <2>2, SameSeq
  <2> QED BY <2>3 DEF x
<1>9. r # <<>>
  <2>1. Len(t) # 0
    BY <1>1 DEF Texts
  <2> QED BY <1>3, <2>1
<1>10. compactJSON(s) = r /\ compactJSON(t) = r /\ compactJSON(r) = r
  BY <1>2, <1>7, <1>8, Zenon DEF compactJSON, r, t
<1> QED BY <1>1, <1>3, <1>9, <1>10 DEF t

\* The input of a tool, as a whole.
LEMMA JsonBegins ==
    ASSUME NEW s \in Texts, IsJSON(s)
    PROVE  s # <<>> /\ s[1] # Space
<1>1. Len(s) >= 2 /\ s[1] = LeftBrace
  BY Zenon DEF IsJSON, LeftBrace
<1>2. LeftBrace # Space
  BY DEF LeftBrace, Space
<1>3. s # <<>>
  <2>1. Len(s) # 0
    BY <1>1 DEF Texts
  <2> QED BY <2>1
<1> QED BY <1>1, <1>2, <1>3

LEMMA InputAgain ==
    ASSUME NEW b, b.text \in Texts, IsJSON(InputOf(b))
    PROVE  /\ \A c : c.text = Tight(InputOf(b)) \/ c.text = compactJSON(InputOf(b)) =>
                compactJSON(InputOf(c)) = compactJSON(InputOf(b))
<1> DEFINE s == InputOf(b)
<1>1. s \in Texts /\ s # <<>> /\ s[1] # Space
  BY InputTyped, JsonBegins
<1> HIDE DEF s
<1>2. /\ Tight(s) # <<>> /\ compactJSON(s) # <<>>
      /\ compactJSON(Tight(s)) = compactJSON(s)
      /\ compactJSON(compactJSON(s)) = compactJSON(s)
  BY <1>1, CompactAgain
<1>3. \A c : c.text # <<>> => InputOf(c) = c.text
  BY InputIs
<1>4. \A c : c.text = Tight(s) \/ c.text = compactJSON(s) => compactJSON(InputOf(c)) = compactJSON(s)
  BY <1>2, <1>3
<1> QED BY <1>4 DEF s

LEMMA BlockWhole ==
    ASSUME NEW b \in Blocks
    PROVE  b = Block(b.type, b.text, b.sig) /\ b.type \in BlockTypes /\ b.text \in Texts /\ b.sig \in STRING
BY DEF Blocks, Block, Texts

\* Every form of a block says what the block says.
LEMMA FormsAlike ==
    ASSUME NEW b, Tidy(b)
    PROVE  SayAlike(Streamed(b), b) /\ SayAlike(jsonBlock(b), b)
<1>1. /\ b \in Blocks /\ (b.type # "thinking" => b.sig = NoString)
      /\ (b.type = "other" => b.text = <<>>)
  BY DEF Tidy
<1>2. b = Block(b.type, b.text, b.sig) /\ b.type \in BlockTypes /\ b.text \in Texts /\ b.sig \in STRING
  BY <1>1, BlockWhole
<1>3. CASE b.type = "thinking"
  <2> DEFINE c == Block("thinking", b.text, SignatureOf(b))
  <2>1. Streamed(b) = c /\ jsonBlock(b) = c
    BY <1>3, StreamedIs, JsonBlockIs
  <2>2. c.type = "thinking" /\ c.text = b.text /\ c.sig = SignatureOf(b)
    BY BlockFields
  <2> HIDE DEF c
  <2>3. SignatureOf(c) = SignatureOf(b)
    BY <1>2, <2>2, SignatureIs, SignatureTyped
  <2>4. Streamed(c) = Block("thinking", c.text, SignatureOf(c))
    BY <2>2, StreamedIs
  <2>5. Streamed(c) = Streamed(b)
    BY <2>1, <2>2, <2>3, <2>4 DEF c
  <2>6. ~Silent(c) /\ ~Silent(b)
    BY <1>3, <2>2 DEF Silent
  <2> QED BY <2>1, <2>5, <2>6 DEF SayAlike
<1>4. CASE b.type = "tool_use"
  <2>1. IsJSON(InputOf(b))
    BY <1>4, TidyEncoded DEF Encoded
  <2>2. ASSUME NEW t, t = Tight(InputOf(b)) \/ t = compactJSON(InputOf(b))
        PROVE  SayAlike(Block("tool_use", t, NoString), b)
    <3> DEFINE c == Block("tool_use", t, NoString)
    <3>1. c.type = "tool_use" /\ c.text = t
      BY BlockFields
    <3> HIDE DEF c
    <3>2. compactJSON(InputOf(c)) = compactJSON(InputOf(b))
      BY <1>2, <2>1, <2>2, <3>1, InputAgain
    <3>3. /\ Streamed(c) = Block("tool_use", compactJSON(InputOf(c)), NoString)
          /\ Streamed(b) = Block("tool_use", compactJSON(InputOf(b)), NoString)
      BY <1>4, <3>1, StreamedIs
    <3>4. ~Silent(c) /\ ~Silent(b)
      BY <1>4, <3>1 DEF Silent
    <3>5. SayAlike(c, b)
      BY <3>2, <3>3, <3>4 DEF SayAlike
    <3> QED BY <3>5 DEF c
  <2>3. /\ Streamed(b) = Block("tool_use", compactJSON(InputOf(b)), NoString)
        /\ jsonBlock(b) = Block("tool_use", Tight(InputOf(b)), NoString)
    BY <1>4, StreamedIs, JsonBlockIs
  <2> QED BY <2>2, <2>3
<1>5. CASE b.type = "text"
  <2>1. Streamed(b) = b /\ jsonBlock(b) = Block("text", b.text, NoString)
    BY <1>5, StreamedIs, JsonBlockIs
  <2>2. jsonBlock(b) = b
    BY <1>1, <1>2, <1>5, <2>1
  <2> QED BY <2>1, <2>2 DEF SayAlike
<1>6. CASE b.type = "other"
  <2>1. Streamed(b) = b /\ jsonBlock(b) = Block("text", <<>>, NoString)
    BY <1>1, <1>6, StreamedIs, JsonBlockIs
  <2>2. Silent(b) /\ Silent(jsonBlock(b))
    BY <1>6, <2>1, BlockFields DEF Silent
  <2> QED BY <2>1, <2>2 DEF SayAlike
<1> QED BY <1>2, <1>3, <1>4, <1>5, <1>6 DEF BlockTypes

\* A message of tidy blocks, and others that say the same.
TidyMessage(m) == IsMessage(m) /\ \A i \in 1..Len(m.blocks) : Tidy(m.blocks[i])

LEMMA SaysAlike ==
    ASSUME NEW m, TidyMessage(m), NEW w, w.blocks \in Seq(Blocks), Len(w.blocks) = Len(m.blocks),
           w.stop = m.stop, w.tokens = m.tokens,
           \A i \in 1..Len(m.blocks) : SayAlike(w.blocks[i], m.blocks[i])
    PROVE  Says(w) = Says(m)
<1>1. m.blocks \in Seq(Blocks)
  BY MessageTyped DEF TidyMessage
<1>2. Saying(w.blocks) = Saying(m.blocks)
  BY <1>1, SameSaid
<1> QED BY <1>2, SaysIs

LEMMA SaidSays ==
    ASSUME NEW m, TidyMessage(m)
    PROVE  Says(Said(m)) = Says(m) /\ IsMessage(Said(m)) /\ Unsigned(Said(m))
<1>1. IsMessage(m) /\ \A i \in 1..Len(m.blocks) : Tidy(m.blocks[i])
  BY DEF TidyMessage
<1>2. /\ IsMessage(Said(m)) /\ Said(m).stop = m.stop /\ Said(m).tokens = m.tokens
      /\ Len(Said(m).blocks) = Len(m.blocks)
      /\ \A i \in 1..Len(m.blocks) : Said(m).blocks[i] = Streamed(m.blocks[i])
  BY <1>1, SaidTyped
<1>3. \A i \in 1..Len(m.blocks) : SayAlike(Said(m).blocks[i], m.blocks[i])
  BY <1>1, <1>2, FormsAlike
<1>4. Says(Said(m)) = Says(m)
  <2>1. Said(m).blocks \in Seq(Blocks)
    BY <1>2, MessageTyped
  <2> QED BY <1>2, <1>3, <2>1, SaysAlike
<1>5. ASSUME NEW b, Tidy(b) PROVE Streamed(b).type # "thinking" => Streamed(b).sig = NoString
  <2>1. b \in Blocks /\ (b.type # "thinking" => b.sig = NoString)
    BY <1>5 DEF Tidy
  <2>2. Streamed(b).type = b.type
    BY <2>1, StreamedTyped
  <2>3. b.type = "tool_use" => Streamed(b).sig = NoString
    BY StreamedIs, BlockFields
  <2>4. b.type \notin {"thinking", "tool_use"} => Streamed(b) = b
    BY StreamedIs
  <2> QED BY <2>1, <2>2, <2>3, <2>4
<1>6. Unsigned(Said(m))
  BY <1>1, <1>2, <1>5 DEF Unsigned
<1> QED BY <1>2, <1>4, <1>6

LEMMA KeptTidy ==
    ASSUME NEW m, TidyMessage(m)
    PROVE  TidyMessage(Kept(m)) /\ Says(Kept(m)) = Says(m)
<1> DEFINE S == {b \in Blocks : Tidy(b)}
           s == m.blocks
           t == At(s, Known(m))
<1>1. IsMessage(m) /\ \A i \in 1..Len(s) : Tidy(s[i])
  BY DEF TidyMessage
<1>2. s \in Seq(Blocks) /\ Known(m) \in SUBSET (DOMAIN s)
  BY <1>1, MessageTyped DEF Known
<1>3. s \in Seq(S)
  BY <1>1, <1>2
<1>4. IsMessage(Kept(m)) /\ Kept(m).blocks = t /\ Kept(m).stop = m.stop /\ Kept(m).tokens = m.tokens
  BY <1>1, KeptTyped
<1>5. \A b \in S : Tidy(b)
  OBVIOUS
<1> HIDE DEF S
<1> HIDE DEF s
<1>6. t \in Seq(S)
  BY <1>2, <1>3, AtEnumerates
<1> HIDE DEF t
<1>7. \A i \in 1..Len(t) : Tidy(t[i])
  BY <1>5, <1>6
<1>8. TidyMessage(Kept(m))
  BY <1>4, <1>7 DEF TidyMessage
<1>9. Saying(Kept(m).blocks) = Saying(m.blocks)
  BY <1>1, KeptSaid
<1> QED BY <1>4, <1>8, <1>9, SaysIs

\* A body that is written of a message says what the message says.
LEMMA BodySays ==
    ASSUME NEW m, TidyMessage(m)
    PROVE  Says(writeMessageJSON(m)) = Says(m)
<1> DEFINE w == writeMessageJSON(m)
<1>1. IsMessage(m) /\ \A i \in 1..Len(m.blocks) : Tidy(m.blocks[i])
  BY DEF TidyMessage
<1>2. m.blocks \in Seq(Blocks) /\ m.blocks \in Seq(ReadBlocks) /\ Len(m.blocks) \in Nat
  <2>1. m.blocks \in Seq(Blocks) /\ Len(m.blocks) \in Nat
    BY <1>1, MessageTyped
  <2>2. Blocks \subseteq ReadBlocks
    BY DEF Blocks, ReadBlocks, Texts
  <2> QED BY <2>1, <2>2
<1>3. \A i \in 1..Len(m.blocks) : Encoded(m.blocks[i])
  BY <1>1, TidyEncoded
<1>4. w.blocks = [i \in 1..Len(m.blocks) |-> jsonBlock(m.blocks[i])] /\ w.stop = m.stop /\ w.tokens = m.tokens
  BY <1>2, <1>3, WrittenIs
<1> HIDE DEF w
<1>5. \A i \in 1..Len(m.blocks) : jsonBlock(m.blocks[i]) \in Blocks
  <2>1. \A i \in 1..Len(m.blocks) : m.blocks[i] \in ReadBlocks
    BY <1>2
  <2> QED BY <2>1, JsonBlockTyped
<1>6. w.blocks \in Seq(Blocks) /\ Len(w.blocks) = Len(m.blocks)
      /\ \A i \in 1..Len(m.blocks) : w.blocks[i] = jsonBlock(m.blocks[i])
  BY <1>2, <1>4, <1>5
<1>7. \A i \in 1..Len(m.blocks) : SayAlike(w.blocks[i], m.blocks[i])
  BY <1>1, <1>6, FormsAlike
<1> QED BY <1>4, <1>6, <1>7, SaysAlike DEF w

LEMMA UpstreamSays ==
    ASSUME NEW m, FromUpstream(m)
    PROVE  TidyMessage(m) /\ Unsigned(m) /\ m # Refusal
<1>1. IsMessage(m) /\ m.stop \notin {"nothing", "error", "blank"} /\ Unsigned(m)
      /\ \A i \in 1..Len(m.blocks) : Tidy(m.blocks[i])
  BY UpstreamTidy
<1>2. m # Refusal
  BY <1>1, ErrorsAre
<1> QED BY <1>1, <1>2 DEF TidyMessage

\* A whole stream has a beginning and an end, and no error.
LEMMA StreamSound ==
    ASSUME NEW m, IsMessage(m), NEW p, IsPace(p), NEW events \in Seq(Events),
           NEW pos, Spaced(events, Bare(m, p), pos)
    PROVE  Has(events, "message_start") /\ ~Has(events, "error") /\ Has(events, "message_stop")
<1> DEFINE of == Bare(m, p)
           N == Len(m.blocks)
<1>1. of \in Seq(Events)
  BY BareIs
<1>2. PICK at : Lays(m, p, at)
  BY BareIs
<1>3. /\ Len(of) = at[N] + 2 /\ at[N] \in Nat /\ at[N] >= 1
      /\ of[1].type = "message_start"
      /\ \A j \in 2..at[N] : of[j].type \in BlockKinds
      /\ of[at[N] + 1].type = "message_delta"
      /\ of[at[N] + 2].type = "message_stop"
  BY <1>2, BareTyped
<1>4. PICK loc : Locates(events, of, pos, loc)
  BY <1>1, SpacedLocated
<1> HIDE DEF of
<1> HIDE DEF N
<1>5. /\ loc \in [1..Len(of) -> 1..Len(events)]
      /\ \A q \in 1..Len(of) : events[loc[q]] = of[q]
      /\ \A x \in 1..Len(events) : events[x] = Ping \/ (pos[x] \in 1..Len(of) /\ x = loc[pos[x]])
  BY <1>4 DEF Locates
<1>6. DOMAIN events = 1..Len(events)
  OBVIOUS
<1>7. Has(events, "message_start")
  <2>1. 1 \in 1..Len(of)
    BY <1>3
  <2>2. loc[1] \in DOMAIN events /\ events[loc[1]].type = "message_start"
    BY <1>3, <1>5, <1>6, <2>1
  <2> QED BY <2>2 DEF Has
<1>10. Has(events, "message_stop")
  <2> DEFINE q == at[N] + 2
  <2>1. q \in 1..Len(of) /\ of[q].type = "message_stop"
    BY <1>3
  <2> HIDE DEF q
  <2>2. loc[q] \in DOMAIN events /\ events[loc[q]].type = "message_stop"
    BY <1>5, <1>6, <2>1
  <2> QED BY <2>2 DEF Has
<1>8. \A q \in 1..Len(of) : of[q].type # "error"
  <2> SUFFICES ASSUME NEW q \in 1..Len(of) PROVE of[q].type # "error"
    OBVIOUS
  <2>1. q = 1 \/ q \in 2..at[N] \/ q = at[N] + 1 \/ q = at[N] + 2
    BY <1>3
  <2>2. CASE q \in 2..at[N]
    BY <1>3, <2>2 DEF BlockKinds
  <2>3. CASE q = 1 \/ q = at[N] + 1 \/ q = at[N] + 2
    BY <1>3, <2>3
  <2> QED BY <2>1, <2>2, <2>3
<1>9. \A x \in DOMAIN events : events[x].type # "error"
  <2> SUFFICES ASSUME NEW x \in 1..Len(events) PROVE events[x].type # "error"
    BY <1>6
  <2>1. CASE events[x] = Ping
    BY <2>1, PingIs
  <2>2. CASE pos[x] \in 1..Len(of) /\ x = loc[pos[x]]
    <3> DEFINE q == pos[x]
    <3>1. q \in 1..Len(of) /\ x = loc[q]
      BY <2>2
    <3> HIDE DEF q
    <3>2. events[x] = of[q]
      BY <1>5, <3>1
    <3> QED BY <1>8, <3>1, <3>2
  <2> QED BY <1>5, <2>1, <2>2
<1> QED BY <1>7, <1>9, <1>10 DEF Has

LEMMA NoStopInError ==
    ASSUME NEW k \in Nat, NEW n \in 0..Len(writeMidStreamErrorSSE(k))
    PROVE  ~Has(SubSeq(writeMidStreamErrorSSE(k), 1, n), "message_stop")
<1> DEFINE w == writeMidStreamErrorSSE(k)
           s == SubSeq(w, 1, n)
<1>1. /\ w \in Seq(Events) /\ Len(w) = k + 3
      /\ w[1].type = "message_start" /\ w[2].type = "content_block_start"
      /\ \A q \in 1..k : w[2 + q].type = "content_block_delta"
      /\ w[k + 3].type = "error"
  <2>1. /\ w \in Seq(Events) /\ Len(w) = k + 3
        /\ w[1] = Plain("message_start") /\ w[2] = BlockEvent("content_block_start", 1, "text")
        /\ \A q \in 1..k : w[2 + q] = Delta(1, "text_delta", <<"filler">>)
        /\ w[k + 3] = Plain("error")
    BY MidStreamIs
  <2> HIDE DEF w
  <2>2. \A t : Plain(t).type = t
    BY DEF Plain
  <2> QED BY <2>1, <2>2, KindsOf
<1>2. n \in 0..Len(w)
  OBVIOUS
<1> HIDE DEF w
<1>3. s \in Seq(Events) /\ Len(s) = n /\ \A i \in 1..n : s[i] = w[i]
  BY <1>1, <1>2, Beginnings
<1> HIDE DEF s
<1>4. \A i \in 1..Len(w) : w[i].type # "message_stop"
  <2> SUFFICES ASSUME NEW i \in 1..Len(w) PROVE w[i].type # "message_stop"
    OBVIOUS
  <2>1. i = 1 \/ i = 2 \/ i = k + 3 \/ (i - 2 \in 1..k /\ i = 2 + (i - 2))
    BY <1>1
  <2> DEFINE q == i - 2
  <2>2. CASE q \in 1..k /\ i = 2 + q
    <3> HIDE DEF q
    <3> QED BY <1>1, <2>2
  <2>3. CASE i = 1 \/ i = 2 \/ i = k + 3
    BY <1>1, <2>3
  <2> QED BY <2>1, <2>2, <2>3
<1>5. \A i \in DOMAIN s : s[i].type # "message_stop"
  BY <1>1, <1>2, <1>3, <1>4
<1> QED BY <1>5 DEF Has, s, w

\* A whole stream, in chunks of any size and with any number of pings, is read as the
\* message that it was written for, by sseToMessage (sim_sse.go) as by any client that puts
\* the deltas of a block one after the other.
THEOREM RoundTrip ==
    ASSUME NEW m, FromUpstream(m), NEW p, IsPace(p)
    PROVE  sseToMessage(Stream(m, p)) = m /\ Heard(Stream(m, p)) = m
<1> DEFINE events == Stream(m, p)
           of == Bare(m, p)
           n == Len(events)
<1>1. IsMessage(m) /\ Unsigned(m) /\ m = Message(m.blocks, m.stop, m.tokens) /\ m.stop # NoString
  <2>1. IsMessage(m) /\ Unsigned(m)
    BY UpstreamTidy
  <2> QED BY <2>1, MessageTyped DEF NoString
<1>2. events \in Seq(Events) /\ of \in Seq(Events)
  BY <1>1, StreamSpaced, BareIs
<1>3. PICK pos : Spaced(events, of, pos)
  BY <1>1, StreamSpaced
<1>4. Has(events, "message_start") /\ ~Has(events, "error") /\ Has(events, "message_stop")
  BY <1>1, <1>2, <1>3, StreamSound
<1>5. Begins(events, m, p, events, pos, n)
  <2>1. n \in 0..n /\ events = SubSeq(events, 1, n)
    BY <1>2, Beginnings
  <2> QED BY <1>2, <1>3, <2>1 DEF Begins
<1>6. ReadAll(events) = m
  BY <1>4, <1>5, WholeStops
<1>7. sseToMessage(events) = Message(m.blocks, Default(m.stop), m.tokens)
  <2>1. sseToMessage(events) = Message(ReadAll(events).blocks, Default(ReadAll(events).stop),
                                       ReadAll(events).tokens)
    BY <1>2, <1>4, SseIs
  <2> QED BY <1>6, <2>1
<1>8. sseToMessage(events) = m
  BY <1>1, <1>7, DefaultIs
<1>9. Heard(events) = m
  BY <1>1, <1>2, <1>3, StreamHeard
<1> QED BY <1>8, <1>9

\* A recording that has the end of a stream has all of it: the message is read from it, and heard.
LEMMA WholeRecording ==
    ASSUME NEW events, NEW m, Recording(events, m), Has(events, "message_stop")
    PROVE  sseToMessage(events) = m /\ Heard(events) = m
<1>1. PICK whole : Tells(whole, m) /\ \E n \in 0..Len(whole) : events = SubSeq(whole, 1, n)
  BY DEF Recording
<1>2. PICK n \in 0..Len(whole) : events = SubSeq(whole, 1, n)
  BY <1>1
<1>3. FromUpstream(m) /\ whole \in Seq(Events)
  BY <1>1, TellsTyped
<1>4. ~ \E k \in 0..MaxFiller : m = Filler(k) /\ whole = writeMidStreamErrorSSE(k)
  <2> SUFFICES ASSUME NEW k \in 0..MaxFiller, whole = writeMidStreamErrorSSE(k) PROVE FALSE
    OBVIOUS
  <2>1. k \in Nat
    BY StreamAssumption
  <2>2. ~Has(SubSeq(writeMidStreamErrorSSE(k), 1, n), "message_stop")
    BY <2>1, NoStopInError
  <2> QED BY <1>2, <2>2
<1>5. PICK p \in Paces : whole = Stream(m, p)
  <2>1. whole # CodedStream
    BY <1>2, CodedIs
  <2> QED BY <1>1, <1>4, <2>1 DEF Tells
<1>6. IsPace(p)
  BY StreamAssumption DEF IsPace
<1>7. IsMessage(m) /\ Unsigned(m) /\ m = Message(m.blocks, m.stop, m.tokens) /\ m.stop # NoString
  <2>1. IsMessage(m) /\ Unsigned(m)
    BY <1>3, UpstreamTidy
  <2> QED BY <2>1, MessageTyped DEF NoString
<1>8. PICK pos : /\ Spaced(whole, Bare(m, p), pos)
                 /\ \A k \in 0..(Len(whole) - 1) : pos[k] < Len(Bare(m, p))
  BY <1>5, <1>6, <1>7, StreamSpaced
<1>9. Begins(events, m, p, whole, pos, n)
  BY <1>2, <1>3, <1>6, <1>8 DEF Begins
<1>10. pos[n] = Len(Bare(m, p)) /\ ReadAll(events) = m
  BY <1>9, WholeStops
<1>11. n = Len(whole)
  <2>1. Len(whole) \in Nat
    BY <1>3
  <2>2. n \notin 0..(Len(whole) - 1)
    <3> SUFFICES ASSUME n \in 0..(Len(whole) - 1) PROVE FALSE
      OBVIOUS
    <3>1. pos[n] < Len(Bare(m, p)) /\ Len(Bare(m, p)) \in Nat
      BY <1>6, <1>7, <1>8, BareIs
    <3> QED BY <1>10, <3>1
  <2> QED BY <2>1, <2>2
<1>12. events = whole
  BY <1>2, <1>3, <1>11, Beginnings
<1>13. sseToMessage(whole) = m /\ Heard(whole) = m
  BY <1>3, <1>5, <1>6, RoundTrip
<1> QED BY <1>12, <1>13

\* The stream that is written for an answer recorded as one body.
LEMMA RewrittenHeard ==
    ASSUME NEW m, TidyMessage(m)
    PROVE  Says(Heard(writeMessageSSE(messageFromJSON(m), Default16))) = Says(m)
<1> DEFINE k == Kept(m)
           u == Said(k)
           events == writeMessageSSE(messageFromJSON(m), Default16)
<1>1. IsMessage(m)
  BY DEF TidyMessage
<1>2. TidyMessage(k) /\ Says(k) = Says(m)
  BY KeptTidy
<1>3. Says(u) = Says(k) /\ IsMessage(u) /\ Unsigned(u)
  BY <1>2, SaidSays
<1>4. events \in Seq(Events) /\ events = Stream(u, Default16)
  BY <1>1, RewrittenTyped
<1>5. IsPace(Default16)
  BY DEF IsPace, Default16
<1> HIDE DEF u
<1> HIDE DEF events
<1>6. PICK pos : Spaced(events, Bare(u, Default16), pos)
  BY <1>3, <1>4, <1>5, StreamSpaced
<1>7. Heard(events) = u
  BY <1>3, <1>4, <1>5, <1>6, StreamHeard
<1> QED BY <1>2, <1>3, <1>7 DEF events

LEMMA AdaptsIs == StreamInv => AdaptsBothWays
<1> SUFFICES ASSUME StreamInv, stage = "played", Whole, Legible
             PROVE  Says(IF asked = "stream" THEN Heard(sent) ELSE got) = Says(origin)
  BY DEF AdaptsBothWays
<1>1. OnRecord(entry, origin)
  BY DEF StreamInv, EntrySound
<1>2. entry.form # "error"
  BY DEF Whole
<1>3. \/ asked = "body" /\ got = ReplayedBody(entry)
      \/ asked = "stream" /\ sent = ReplayedStream(entry)
  BY <1>2 DEF StreamInv, PlaySound, Legible
<1>4. CASE entry.form = "json"
  <2>1. entry.body = origin /\ origin \in Messages
    BY <1>1, <1>4, RecordsIs DEF Legible
  <2>2. TidyMessage(origin)
    BY <2>1, StreamAssumption, UpstreamSays
  <2>3. ReplayedBody(entry) = origin
    BY <1>4, <2>1 DEF ReplayedBody
  <2>4. ReplayedStream(entry) = writeMessageSSE(messageFromJSON(origin), Default16)
    BY <1>4, <2>1 DEF ReplayedStream, Default16
  <2>5. Says(Heard(ReplayedStream(entry))) = Says(origin)
    BY <2>2, <2>4, RewrittenHeard
  <2> QED BY <1>3, <2>3, <2>5
<1>5. CASE entry.form = "sse"
  <2> DEFINE events == entry.events
  <2>1. Recording(events, origin) /\ Has(events, "message_stop")
    BY <1>1, <1>5, RecordsIs DEF Whole
  <2>2. FromUpstream(origin)
    BY <2>1, RecordingTyped
  <2>3. TidyMessage(origin) /\ origin # Refusal
    BY <2>2, UpstreamSays
  <2>4. sseToMessage(events) = origin /\ Heard(events) = origin
    BY <2>1, WholeRecording
  <2>5. ReplayedBody(entry) = writeMessageJSON(origin)
    BY <1>5, <2>3, <2>4 DEF ReplayedBody
  <2>6. ReplayedStream(entry) = events
    BY <1>5 DEF ReplayedStream
  <2>7. Says(writeMessageJSON(origin)) = Says(origin)
    BY <2>3, BodySays
  <2> HIDE DEF events
  <2> QED BY <1>3, <2>4, <2>5, <2>6, <2>7
<1>6. entry.form = "json" \/ entry.form = "sse"
  BY DEF Whole
<1> QED BY <1>4, <1>5, <1>6

-----------------------------------------------------------------------------
(* Theorems. *)

LEMMA SimulatorInit == Init => SimInv
<1> SUFFICES ASSUME Init PROVE SimInv
  OBVIOUS
<1>1. /\ editor = [e \in Editors |-> NoEdit] /\ call = [c \in Calls |-> NoCall]
      /\ editor \in [Editors -> Edits] /\ call \in [Calls -> Requests]
      /\ \A e \in Editors : editor[e].pc = "idle"
      /\ \A c \in Calls : call[c].pc = "idle"
  BY NoEditTyped, NoCallTyped DEF Init
<1>2. FilesTyped
  <2>1. scenario \in ScenarioFiles
    BY Bounds DEF Init, ScenarioFiles
  <2>2. /\ <<>> \in Seq([seq : 0..MaxChanges, main : BOOLEAN]) /\ Len(<<>>) = 0
    OBVIOUS
  <2>3. cassette \in CassetteFiles /\ Len(cassette.entries) <= cassette.change
    BY <2>2, Bounds DEF Init, CassetteFiles
  <2> QED BY <1>1, <2>1, <2>3 DEF Init, FilesTyped
<1>3. CallsTyped
  <2>1. counters \in [1..MaxSessions -> [main : Nat, side : Nat]] /\ DOMAIN served = 1..MaxSessions
    BY DEF Init
  <2>2. now \in 0..MaxTime /\ created \in 0..MaxSessions /\ session \in 0..created /\ cache = {}
    BY Bounds DEF Init
  <2> QED BY <1>1, <2>1, <2>2 DEF Init, CallsTyped, InHand
<1>4. FileSound
  BY <1>1 DEF Init, FileSound
<1>5. SeqSound
  BY <1>1 DEF Init, SeqSound, SeqExact
<1>6. CacheSound
  BY <1>1 DEF Init, CacheSound, ReplayCurrent
<1>7. AnswersCounted
  BY DEF Init, AnswersCounted
<1> QED BY <1>2, <1>3, <1>4, <1>5, <1>6, <1>7 DEF SimInv

\* The inductive invariant: types, what a request has in hand, and one conjunct for each of
\* the scenario file, the cassette, its cache and the sessions.
THEOREM SimulatorInvariant == Spec => []SimInv
<1>1. SimInv /\ [Next]_vars => SimInv'
  BY FilesNext, CallsNext, FileNext, SeqNext, CacheNext, AnswersNext DEF SimInv
<1> QED BY <1>1, SimulatorInit, PTL DEF Spec

\* A PUT that meets no other, and does not fail, leaves a whole document (putScenario,
\* testbench_api.go; WriteScenarioFile, store_testbench.go).
THEOREM ScenariosWhole == Spec => []ScenarioIntact
<1>1. SimInv => ScenarioIntact
  BY DEF SimInv, FileSound, ScenarioIntact, Writers
<1> QED BY <1>1, SimulatorInvariant, PTL

\* Recordings that overlap are numbered in the order of the file (AppendCassetteEntry,
\* store_testbench.go).
THEOREM EntriesNumbered == Spec => []SeqExact
<1>1. SimInv => SeqExact
  BY DEF SimInv, SeqSound
<1> QED BY <1>1, SimulatorInvariant, PTL

\* A cached cassette hides no change of the file that shows in its date (loadCassette,
\* sim.go).
THEOREM ReplaysCurrent == Spec => []ReplayCurrent
<1>1. SimInv => ReplayCurrent
  BY DEF SimInv, CacheSound
<1> QED BY <1>1, SimulatorInvariant, PTL

\* Whatever comes between, the k-th main-lane request of a session is answered with the k-th
\* step of the document as it is written, each step as often as it repeats, or with the
\* k-th recorded entry, and after the last with what is due then (stepForIndex, serveScenario,
\* serveReplay in sim.go and cassette.go).
THEOREM ScriptsFollowed == Spec => []ScriptFollowed
<1>1. SimInv => ScriptFollowed
  BY AnswersDue DEF SimInv
<1> QED BY <1>1, SimulatorInvariant, PTL

\* Types, of the files and of what requests hold.
THEOREM TypeCorrect == Spec => []SimTypeOK
<1>1. SimInv => SimTypeOK
  <2> SUFFICES ASSUME SimInv PROVE SimTypeOK
    OBVIOUS
  <2>1. Cardinality(cache) <= 1
    <3>1. CASE cache = {}
      BY <3>1, FS_EmptySet
    <3>2. ASSUME NEW cas \in cache PROVE Cardinality(cache) <= 1
      <4>1. cache = {cas}
        BY <3>2 DEF SimInv, CallsTyped
      <4>2. Cardinality({cas}) = 1
        BY FS_Singleton
      <4> QED BY <4>1, <4>2
    <3> QED BY <3>1, <3>2
  <2>2. session <= created /\ created <= MaxSessions
    BY DEF SimInv, CallsTyped
  <2> QED BY <2>1, <2>2 DEF SimInv, FilesTyped, CallsTyped, InHand, SimTypeOK, Documents
<1> QED BY <1>1, SimulatorInvariant, PTL

\* All of it holds in the testbench, whose other half, MessageStream, leaves the
\* simulator's state alone.
THEOREM TestbenchKeeps ==
    TestbenchSpec =>
        [](SimTypeOK /\ ScenarioIntact /\ SeqExact /\ ReplayCurrent /\ ScriptFollowed)
<1>1. TestbenchInit => Init
  BY DEF TestbenchInit
<1>2. [TestbenchNext]_<<vars, streamVars>> => [Next]_vars
  BY DEF TestbenchNext
<1>3. TestbenchSpec => Spec
  BY <1>1, <1>2, PTL DEF TestbenchSpec, Spec
<1> QED
  BY <1>3, TypeCorrect, ScenariosWhole, EntriesNumbered, ReplaysCurrent, ScriptsFollowed, PTL

LEMMA ExchangeOf == TestbenchInit => StreamInv
<1> QED BY StreamInitSound DEF TestbenchInit

\* The inductive invariant of an exchange: what is on its way is a stream of the upstream's or
\* of the simulator's, what went through of it a beginning, and the entry a record of exactly
\* that (recordEntry and finish, cassette.go).
THEOREM ExchangeInvariant == TestbenchSpec => []StreamInv
<1>1. [TestbenchNext]_<<vars, streamVars>> => [StreamNext]_streamVars
  BY DEF TestbenchNext
<1>2. StreamInv /\ [TestbenchNext]_<<vars, streamVars>> => StreamInv'
  BY <1>1, StreamKeeps
<1> QED BY <1>2, ExchangeOf, PTL DEF TestbenchSpec

\* Types, of the sessions' half and of the exchange.
THEOREM TestbenchTypes == TestbenchSpec => []TestbenchTypeOK
<1>1. StreamInv /\ SimTypeOK => TestbenchTypeOK
  BY TypesOfStream DEF TestbenchTypeOK
<1> QED BY <1>1, ExchangeInvariant, TestbenchKeeps, PTL

\* Wherever a stream broke off, or the client went, what is recorded as the message is a
\* beginning of the upstream's: no block, text or input that it did not begin with
\* (sseToMessage in sim_sse.go, finish in cassette.go).
THEOREM NothingIsInvented == TestbenchSpec => []NothingMadeUp
<1>1. StreamInv => NothingMadeUp
  BY NothingIsMadeUp
<1> QED BY <1>1, ExchangeInvariant, PTL

\* "Stream shape adapts both ways" (README), of answers without a content coding: whichever
\* form the exchange was recorded in and whichever a client of the playback asks for, it is
\* told what the upstream said, in chunks of any size and with any pings between them
\* (serveReplay at cassette.go:308, chunkRunes, writeMessageSSE and sseToMessage in
\* sim_sse.go).  Of an answer in a coding it is untrue (proxy.go:13, cassette.go:57).
THEOREM ShapesAdapt == TestbenchSpec => []AdaptsBothWays
<1>1. StreamInv => AdaptsBothWays
  BY AdaptsIs
<1> QED BY <1>1, ExchangeInvariant, PTL

=============================================================================

-------------------------- MODULE SpikeFileProofs --------------------------
(***************************************************************************)
(* Proofs about module SpikeFile, for every size of the two tables and     *)
(* every number of opens: what can still be reached is alive, and stderr   *)
(* stays.                                                                  *)
(***************************************************************************)
EXTENDS SpikeFile, FiniteSetTheorems, TLAPS

\* The descriptors of a slot, the references to it that exist, and whether
\* somebody can reach it, as functions of the tables.
FdsOf(fds, f) == {i \in Fds : fds[i] = f}
Counted(h, fds, f) == (IF f \in h THEN 1 ELSE 0) + Cardinality(FdsOf(fds, f))
Reached(h, fds, f) == f \in h \/ \E i \in Fds : fds[i] = f

\* The tables.  Every open takes at most one descriptor of the host.
TablesOK ==
  /\ files \in [Files -> [kfd : Int, refcnt : Nat]]
  /\ spike_fds \in [Fds -> Files \cup {NULL}]
  /\ held \in SUBSET Files
  /\ inited \in BOOLEAN
  /\ opens \in 0..MaxOpens
  /\ hostOpen \in SUBSET (0..(opens + 2))

\* Before spike_file_init the tables are as the loader left them.
Untouched ==
  ~inited => /\ held = {} /\ hostOpen = {0, 1, 2}
             /\ \A f \in Files : files[f].refcnt = 0
             /\ \A i \in Fds : spike_fds[i] = NULL

\* Two references more are counted than exist, those of the slot itself: no
\* decref meets the count 2 that frees a slot.
Balance ==
  \A f \in Files : \/ files[f].refcnt = 0 /\ ~Reached(held, spike_fds, f)
                   \/ files[f].refcnt >= Counted(held, spike_fds, f) + 2

\* The host's descriptors of the files that can be reached.
Alive ==
  /\ \A f \in Files :
       Reached(held, spike_fds, f) => files[f].kfd \in hostOpen \cap Fds
  /\ \A f, g \in Files :
       /\ f # g
       /\ Reached(held, spike_fds, f) /\ Reached(held, spike_fds, g)
       => files[f].kfd # files[g].kfd

\* Every open descriptor of the host is stored in a slot in use.
Covered ==
  inited => \A h \in hostOpen :
              \E f \in Files : files[f].refcnt > 0 /\ files[f].kfd = h

\* The slot of stderr, which no caller holds.
Stderr ==
  inited => /\ files[2].kfd = 2 /\ files[2].refcnt > 0
            /\ 2 \in hostOpen /\ 2 \notin held

FInv ==
  TablesOK /\ Untouched /\ Balance /\ Alive /\ Covered /\ Stderr

---------------------------------------------------------------------------
(* Lemmas about the operators of the model.                                *)

\* A set of numbers that is not empty has a least member.
LEMMA LeastProperty ==
  ASSUME NEW S \in SUBSET Nat, S # {}
  PROVE  Least(S) \in S /\ \A y \in S : Least(S) <= y
<1> DEFINE Below == {ss \in Nat \X Nat : ss[1] < ss[2]}
<1>1. IsWellFoundedOn(Below, Nat)
  BY NatLessThanWellFounded, Zenon DEF OpToRel
<1>2. \A x, y \in Nat : y < x => <<y, x>> \in Below
  OBVIOUS
<1> HIDE DEF Below
<1>3. PICK x \in S : \A y \in S : ~(<<y, x>> \in Below)
  BY <1>1, WFMin
<1>4. \A y \in S : x <= y
  <2> TAKE y \in S
  <2>1. x \in Nat /\ y \in Nat
    OBVIOUS
  <2>2. ~(<<y, x>> \in Below)
    BY <1>3
  <2>3. ~(y < x)
    BY <2>1, <2>2, <1>2
  <2> QED BY <2>1, <2>3
<1> QED BY <1>4 DEF Least

\* The descriptors of a slot can be counted.
LEMMA FdsCounted ==
  ASSUME NEW fds, NEW f
  PROVE  /\ IsFiniteSet(FdsOf(fds, f)) /\ Cardinality(FdsOf(fds, f)) \in Nat
         /\ Cardinality(FdsOf(fds, f)) = 0 <=> ~ \E i \in Fds : fds[i] = f
<1>1. IsFiniteSet(Fds)
  BY FS_Interval, SpikeFileAssumption DEF Fds
<1>2. FdsOf(fds, f) \in SUBSET Fds
  BY DEF FdsOf
<1>3. IsFiniteSet(FdsOf(fds, f)) /\ Cardinality(FdsOf(fds, f)) \in Nat
  BY <1>1, <1>2, FS_Subset, FS_CardinalityType
<1>4. Cardinality(FdsOf(fds, f)) = 0 <=> FdsOf(fds, f) = {}
  BY <1>3, FS_EmptySet
<1>5. FdsOf(fds, f) = {} <=> ~ \E i \in Fds : fds[i] = f
  BY DEF FdsOf
<1> QED BY <1>3, <1>4, <1>5

\* One more descriptor, and one less.
LEMMA FdsSet ==
  ASSUME NEW fds \in [Fds -> Files \cup {NULL}], NEW i \in Fds, NEW f, fds[i] # f,
         NEW new \in [Fds -> Files \cup {NULL}], new[i] = f,
         \A j \in Fds \ {i} : new[j] = fds[j]
  PROVE  /\ Cardinality(FdsOf(new, f)) = Cardinality(FdsOf(fds, f)) + 1
         /\ \A g : g # f /\ g # fds[i] => FdsOf(new, g) = FdsOf(fds, g)
<1>1. FdsOf(new, f) = FdsOf(fds, f) \cup {i} /\ i \notin FdsOf(fds, f)
  BY DEF FdsOf
<1>2. Cardinality(FdsOf(new, f)) = Cardinality(FdsOf(fds, f)) + 1
  BY <1>1, FdsCounted, FS_AddElement
<1>3. \A g : g # f /\ g # fds[i] => FdsOf(new, g) = FdsOf(fds, g)
  BY DEF FdsOf
<1> QED BY <1>2, <1>3

LEMMA FdsCleared ==
  ASSUME NEW fds \in [Fds -> Files \cup {NULL}], NEW i \in Fds, NEW f, fds[i] = f,
         NEW none, none # f,
         NEW new \in [Fds -> Files \cup {NULL}], new[i] = none,
         \A j \in Fds \ {i} : new[j] = fds[j]
  PROVE  /\ Cardinality(FdsOf(new, f)) = Cardinality(FdsOf(fds, f)) - 1
         /\ \A g : g # f /\ g # none => FdsOf(new, g) = FdsOf(fds, g)
<1>1. FdsOf(new, f) = FdsOf(fds, f) \ {i} /\ i \in FdsOf(fds, f)
  BY DEF FdsOf
<1>2. Cardinality(FdsOf(new, f)) = Cardinality(FdsOf(fds, f)) - 1
  BY <1>1, FdsCounted, FS_RemoveElement
<1>3. \A g : g # f /\ g # none => FdsOf(new, g) = FdsOf(fds, g)
  BY DEF FdsOf
<1> QED BY <1>2, <1>3

\* The references are a number, and none exists to what cannot be reached.
LEMMA CountedType ==
  ASSUME NEW h, NEW fds, NEW f
  PROVE  /\ Counted(h, fds, f) \in Nat
         /\ Counted(h, fds, f) = 0 <=> ~Reached(h, fds, f)
<1>1. Cardinality(FdsOf(fds, f)) \in Nat
  BY FdsCounted
<1>2. Cardinality(FdsOf(fds, f)) = 0 <=> ~ \E i \in Fds : fds[i] = f
  BY FdsCounted
<1> QED BY <1>1, <1>2 DEF Counted, Reached

\* The host's next descriptor lies inside the table: all those below it are
\* open, and each is stored in a slot of its own, none of them the free one.
LEMMA NextHostFd ==
  ASSUME FInv, inited, opens < MaxOpens, NEW f \in Free(files)
  PROVE  LET kfd == Least(HostFds \ hostOpen)
         IN kfd \in Fds /\ kfd \notin hostOpen /\ kfd \in 0..(opens + 3)
<1> DEFINE S == HostFds \ hostOpen
           kfd == Least(S)
           slot == [h \in 0..(kfd - 1) |->
                      CHOOSE g \in Files : files[g].refcnt > 0 /\ files[g].kfd = h]
<1> USE SpikeFileAssumption
<1>1. opens + 3 \in S /\ S \in SUBSET Nat
  BY DEF HostFds, FInv, TablesOK
<1>2. kfd \in S /\ (\A y \in S : kfd <= y)
  BY <1>1, LeastProperty
<1> HIDE DEF kfd
<1>3. kfd \in Nat /\ kfd <= opens + 3 /\ kfd \notin hostOpen
  BY <1>1, <1>2
<1>4. \A h \in 0..(kfd - 1) : h \in hostOpen
  BY <1>2, <1>3 DEF HostFds, FInv, TablesOK
<1>5. \A h \in 0..(kfd - 1) :
        slot[h] \in Files /\ files[slot[h]].refcnt > 0 /\ files[slot[h]].kfd = h
  BY <1>4 DEF FInv, Covered
<1>6. \A h \in 0..(kfd - 1) : slot[h] \in Files \ {f}
  BY <1>5 DEF Free
<1>7. slot \in Injection(0..(kfd - 1), Files \ {f})
  <2>1. slot \in [0..(kfd - 1) -> Files \ {f}]
    BY <1>6
  <2>2. \A a, b \in 0..(kfd - 1) : slot[a] = slot[b] => a = b
    BY <1>5
  <2> HIDE DEF slot
  <2> QED BY <2>1, <2>2 DEF Injection, IsInjective
<1>8. IsFiniteSet(Files) /\ Cardinality(Files) = MAX_FILES
  BY FS_Interval DEF Files
<1>9. IsFiniteSet(Files \ {f}) /\ Cardinality(Files \ {f}) = MAX_FILES - 1
  BY <1>8, FS_RemoveElement DEF Free
<1>10. Cardinality(0..(kfd - 1)) = kfd
  BY <1>3, FS_Interval
<1>11. kfd <= MAX_FILES - 1
  <2> HIDE DEF slot
  <2> QED BY <1>7, <1>9, <1>10, FS_Injection
<1> QED BY <1>3, <1>11 DEF Fds, FInv, TablesOK, kfd

---------------------------------------------------------------------------
(* The invariant, action by action.                                        *)

\* The tables hold nothing.
LEMMA InitInv == Init => FInv
<1> SUFFICES ASSUME Init PROVE FInv
  OBVIOUS
<1> USE SpikeFileAssumption
<1>1. \A f \in Files : ~Reached(held, spike_fds, f)
  BY DEF Init, Reached, Files, NULL
<1>2. TablesOK
  <2>1. {0, 1, 2} \in SUBSET (0..(opens + 2)) /\ opens \in 0..MaxOpens
    BY DEF Init
  <2>2. [kfd |-> -1, refcnt |-> 0] \in [kfd : Int, refcnt : Nat]
    OBVIOUS
  <2>3. files \in [Files -> [kfd : Int, refcnt : Nat]]
    BY <2>2 DEF Init
  <2> QED BY <2>1, <2>3 DEF Init, TablesOK
<1>3. Untouched /\ Covered /\ Stderr
  BY DEF Init, Untouched, Covered, Stderr
<1>4. Balance /\ Alive
  BY <1>1 DEF Init, Balance, Alive
<1> QED BY <1>2, <1>3, <1>4 DEF FInv

\* spike_file_init: four references for each standard stream, one exists.
LEMMA Init3Step == FInv /\ Init3 => FInv'
<1> SUFFICES ASSUME FInv, Init3 PROVE FInv'
  OBVIOUS
<1> USE SpikeFileAssumption
<1>1. /\ inited' = TRUE /\ ~inited /\ held' = {} /\ opens' = opens
      /\ hostOpen' = {0, 1, 2}
  BY DEF Init3, FInv, Untouched
<1>2. /\ \A f \in Files : f < 3 => files'[f] = [kfd |-> f, refcnt |-> 4]
      /\ \A f \in Files : ~(f < 3) => files'[f] = files[f]
      /\ \A i \in Fds : spike_fds'[i] = IF i < 3 THEN i ELSE NULL
  BY DEF Init3, FInv, Untouched, INIT_FILE_REF
<1>3. /\ {0, 1, 2} \subseteq Files /\ {0, 1, 2} \subseteq Fds
      /\ Files \subseteq Fds /\ NULL \notin Files /\ Files \subseteq Nat
      /\ \A f \in Files : f < 3 <=> f \in {0, 1, 2}
  BY DEF Files, Fds, NULL
<1>4. /\ \A f \in {0, 1, 2} : files'[f].kfd = f /\ files'[f].refcnt = 4
      /\ \A f \in Files \ {0, 1, 2} : files'[f] = files[f]
      /\ \A f \in Files \ {0, 1, 2} : files'[f].refcnt = 0
  <2>1. \A f \in {0, 1, 2} : f \in Files /\ f < 3
    BY <1>3
  <2>2. \A f \in {0, 1, 2} : files'[f] = [kfd |-> f, refcnt |-> 4]
    BY <1>2, <2>1
  <2>3. \A f \in {0, 1, 2} : files'[f].kfd = f /\ files'[f].refcnt = 4
    BY <2>2
  <2>4. \A f \in Files \ {0, 1, 2} : files'[f] = files[f] /\ files[f].refcnt = 0
    BY <1>1, <1>2, <1>3 DEF FInv, Untouched
  <2> QED BY <2>3, <2>4
<1>5. TablesOK'
  <2>1. files' \in [Files -> [kfd : Int, refcnt : Nat]]
    <3>1. \A f \in Files : files'[f] \in [kfd : Int, refcnt : Nat]
      <4> SUFFICES ASSUME NEW f \in Files
                   PROVE  files'[f] \in [kfd : Int, refcnt : Nat]
        OBVIOUS
      <4>1. CASE f < 3
        <5>1. files'[f] = [kfd |-> f, refcnt |-> 4] /\ f \in Int
          BY <1>2, <1>3, <4>1
        <5> QED BY <5>1
      <4>2. CASE ~(f < 3)
        BY <1>2, <4>2 DEF FInv, TablesOK
      <4> QED BY <4>1, <4>2
    <3> QED BY <3>1 DEF Init3
  <2>2. spike_fds' \in [Fds -> Files \cup {NULL}]
    BY <1>2, <1>3 DEF Init3, FInv, TablesOK, Fds
  <2>3. {0, 1, 2} \in SUBSET (0..(opens + 2))
    BY DEF FInv, TablesOK
  <2> QED BY <1>1, <2>1, <2>2, <2>3 DEF FInv, TablesOK
<1>6. \A f \in Files : Reached(held', spike_fds', f) <=> f \in {0, 1, 2}
  BY <1>1, <1>2, <1>3 DEF Reached
<1>7. \A f \in {0, 1, 2} : Counted(held', spike_fds', f) = 1
  <2> SUFFICES ASSUME NEW f \in {0, 1, 2}
               PROVE  Counted(held', spike_fds', f) = 1
    OBVIOUS
  <2>1. FdsOf(spike_fds', f) = {f}
    BY <1>2, <1>3 DEF FdsOf, Fds, NULL
  <2>2. Cardinality(FdsOf(spike_fds', f)) = 1
    BY <2>1, FS_Singleton
  <2> QED BY <1>1, <2>2 DEF Counted
<1>8. Balance'
  BY <1>4, <1>6, <1>7 DEF Balance
<1>9. Alive'
  BY <1>1, <1>3, <1>6, <1>4 DEF Alive
<1>10. Covered' /\ Stderr' /\ Untouched'
  <2>1. \A h \in {0, 1, 2} : h \in Files /\ files'[h].refcnt > 0 /\ files'[h].kfd = h
    BY <1>3, <1>4
  <2> QED BY <1>1, <2>1 DEF Covered, Stderr, Untouched
<1> QED BY <1>5, <1>8, <1>9, <1>10 DEF FInv

\* spike_file_openat: the free slot gets the host's next descriptor, or keeps
\* the two references of the failed attempt.
LEMMA OpenatStep == FInv /\ Openat => FInv'
<1> SUFFICES ASSUME FInv, Openat PROVE FInv'
  OBVIOUS
<1> USE SpikeFileAssumption
<1>1. /\ inited /\ inited' = inited /\ opens < MaxOpens /\ opens' = opens + 1
      /\ spike_fds' = spike_fds
  BY DEF Openat
<1>2. CASE Free(files) = {}
  <2>1. UNCHANGED <<files, hostOpen, held>>
    BY <1>2 DEF Openat
  <2> QED
    BY <1>1, <2>1
    DEF FInv, TablesOK, Untouched, Balance, Alive, Covered, Stderr
<1>3. CASE Free(files) # {}
  <2>1. PICK f \in Free(files) : f = Least(Free(files))
    BY <1>3, LeastProperty DEF Free, Files
  <2>2. /\ f \in Files /\ files[f].refcnt = 0
        /\ ~Reached(held, spike_fds, f)
        /\ f # 2
    <3>1. f \in Files /\ files[f].refcnt = 0
      BY <2>1 DEF Free
    <3>2. ~Reached(held, spike_fds, f)
      BY <3>1, CountedType DEF FInv, Balance
    <3> QED BY <1>1, <3>1, <3>2 DEF FInv, Stderr
  <2>3. Counted(held, spike_fds, f) = 0 /\ f \notin held
    BY <2>2, CountedType DEF Reached
  <2>4. ASSUME NEW kfd, kfd = Least(HostFds \ hostOpen),
               files' = Take(files, f, kfd), hostOpen' = hostOpen \cup {kfd},
               held' = held \cup {f}
        PROVE  FInv'
    <3>1. kfd \in Fds /\ kfd \notin hostOpen /\ kfd \in 0..(opens + 3) /\ kfd \in Int
      BY <1>1, <2>4, NextHostFd
    <3>2. files' = [files EXCEPT ![f] = [kfd |-> kfd, refcnt |-> 3]]
      BY <2>4 DEF Take, INIT_FILE_REF
    <3>3. files'[f].kfd = kfd /\ files'[f].refcnt = 3
          /\ \A g \in Files : g # f => files'[g] = files[g]
      BY <2>2, <3>2 DEF FInv, TablesOK
    <3>4. TablesOK'
      <4>1. files' \in [Files -> [kfd : Int, refcnt : Nat]]
        BY <2>2, <3>1, <3>2 DEF FInv, TablesOK
      <4>2. hostOpen' \in SUBSET (0..(opens' + 2)) /\ opens' \in 0..MaxOpens
        <5>1. opens \in Nat /\ hostOpen \in SUBSET (0..(opens + 2))
          BY DEF FInv, TablesOK
        <5>2. \A h \in hostOpen' : h \in 0..(opens + 3)
          BY <2>4, <3>1, <5>1
        <5>3. opens' + 2 = opens + 3 /\ opens' \in 0..MaxOpens
          BY <1>1, <5>1
        <5> QED BY <5>2, <5>3
      <4> QED BY <1>1, <2>2, <2>4, <4>1, <4>2 DEF FInv, TablesOK
    <3>5. /\ Counted(held', spike_fds', f) = 1
          /\ \A g : g # f =>
               /\ Counted(held', spike_fds', g) = Counted(held, spike_fds, g)
               /\ Reached(held', spike_fds', g) <=> Reached(held, spike_fds, g)
      BY <1>1, <2>3, <2>4, FdsCounted DEF Counted, Reached
    <3>6. Balance'
      BY <2>2, <3>3, <3>5 DEF FInv, Balance
    <3>7. Alive'
      <4>1. \A g \in Files \ {f} : Reached(held', spike_fds', g) =>
              files'[g].kfd = files[g].kfd /\ files[g].kfd \in hostOpen \cap Fds
        BY <3>3, <3>5 DEF FInv, Alive
      <4>2. \A g \in Files \ {f} : Reached(held', spike_fds', g) =>
              files'[g].kfd # files'[f].kfd
        BY <4>1, <3>1, <3>3
      <4>3. \A g, k \in Files \ {f} :
              g # k /\ Reached(held', spike_fds', g) /\ Reached(held', spike_fds', k)
              => files'[g].kfd # files'[k].kfd
        BY <4>1, <3>5 DEF FInv, Alive
      <4>4. \A g \in Files : Reached(held', spike_fds', g)
                            => files'[g].kfd \in hostOpen' \cap Fds
        BY <2>4, <3>1, <3>3, <4>1
      <4>5. \A g, k \in Files :
              g # k /\ Reached(held', spike_fds', g) /\ Reached(held', spike_fds', k)
              => files'[g].kfd # files'[k].kfd
        BY <4>2, <4>3
      <4> QED BY <4>4, <4>5 DEF Alive
    <3>8. Covered' /\ Stderr' /\ Untouched'
      <4>1. \A h \in hostOpen : \E g \in Files :
              files'[g].refcnt > 0 /\ files'[g].kfd = h
        <5> SUFFICES ASSUME NEW h \in hostOpen
                     PROVE  \E g \in Files : files'[g].refcnt > 0 /\ files'[g].kfd = h
          OBVIOUS
        <5>1. PICK g \in Files : files[g].refcnt > 0 /\ files[g].kfd = h
          BY <1>1 DEF FInv, Covered
        <5> QED BY <2>2, <3>3, <5>1
      <4>2. Covered'
        <5>1. files'[f].refcnt > 0 /\ files'[f].kfd = kfd
          BY <3>3
        <5> QED BY <2>2, <2>4, <4>1, <5>1 DEF Covered
      <4>3. 2 \in Files
        BY DEF Files
      <4> QED BY <1>1, <2>2, <2>4, <3>3, <4>2, <4>3 DEF FInv, Stderr, Untouched
    <3> QED BY <3>4, <3>6, <3>7, <3>8 DEF FInv
  <2>5. CASE /\ files' = Dropped(Take(files, f, files[f].kfd), f)
             /\ hostOpen' = hostOpen \ Closed(Take(files, f, files[f].kfd), f)
             /\ UNCHANGED held
    <3>1. /\ Take(files, f, files[f].kfd)[f] = [kfd |-> files[f].kfd, refcnt |-> 3]
          /\ Take(files, f, files[f].kfd) \in [Files -> [kfd : Int, refcnt : Nat]]
      BY <2>2 DEF Take, INIT_FILE_REF, FInv, TablesOK
    <3>2. hostOpen' = hostOpen
      BY <2>5, <3>1 DEF Closed
    <3>3. files' = [Take(files, f, files[f].kfd) EXCEPT ![f].refcnt = 2]
      BY <2>5, <3>1 DEF Dropped
    <3>4. files'[f].kfd = files[f].kfd /\ files'[f].refcnt = 2
          /\ \A g \in Files : g # f => files'[g] = files[g]
      BY <2>2, <3>1, <3>3 DEF Take, FInv, TablesOK
    <3>5. files' \in [Files -> [kfd : Int, refcnt : Nat]]
      BY <2>2, <3>1, <3>3
    <3>6. TablesOK'
      <4>1. hostOpen' \in SUBSET (0..(opens' + 2)) /\ opens' \in 0..MaxOpens
        BY <1>1, <3>2 DEF FInv, TablesOK
      <4> QED BY <1>1, <2>5, <3>5, <4>1 DEF FInv, TablesOK
    <3>7. Balance'
      BY <1>1, <2>2, <2>3, <2>5, <3>4 DEF FInv, Balance
    <3>8. Alive'
      BY <1>1, <2>2, <2>5, <3>2, <3>4 DEF FInv, Alive
    <3>9. Covered' /\ Stderr' /\ Untouched'
      BY <1>1, <2>2, <2>5, <3>2, <3>4 DEF FInv, Covered, Stderr, Untouched, Files
    <3> QED BY <3>6, <3>7, <3>8, <3>9 DEF FInv
  <2> QED BY <1>3, <2>1, <2>4, <2>5 DEF Openat
<1> QED BY <1>2, <1>3

\* spike_file_dup: a reference for the new descriptor.
LEMMA DupStep == ASSUME FInv, NEW f \in Files, Dup(f) PROVE FInv'
<1> USE SpikeFileAssumption
<1> DEFINE S == {i \in Fds : spike_fds[i] = NULL}
<1>1. /\ f \in held /\ S # {} /\ UNCHANGED <<hostOpen, inited, opens, held>>
      /\ spike_fds' = [spike_fds EXCEPT ![Least(S)] = f]
      /\ files' = [files EXCEPT ![f].refcnt = @ + 1]
  BY DEF Dup
<1>2. PICK i \in S : i = Least(S)
  BY <1>1, LeastProperty DEF Fds
<1>3. i \in Fds /\ spike_fds[i] = NULL /\ NULL \notin Files
      /\ spike_fds' = [spike_fds EXCEPT ![i] = f]
  BY <1>1, <1>2 DEF Files, NULL
<1>4. inited
  BY <1>1 DEF FInv, Untouched
<1>5. /\ files'[f].kfd = files[f].kfd /\ files'[f].refcnt = files[f].refcnt + 1
      /\ \A g \in Files : g # f => files'[g] = files[g]
      /\ files' \in [Files -> [kfd : Int, refcnt : Nat]]
  BY <1>1 DEF FInv, TablesOK
<1>6. TablesOK'
  BY <1>1, <1>3, <1>5 DEF FInv, TablesOK
<1>7. /\ Cardinality(FdsOf(spike_fds', f)) = Cardinality(FdsOf(spike_fds, f)) + 1
      /\ \A g : g # f /\ g # NULL => FdsOf(spike_fds', g) = FdsOf(spike_fds, g)
  <2>1. /\ i \in Fds
        /\ spike_fds \in [Fds -> Files \cup {NULL}] /\ spike_fds[i] # f
        /\ spike_fds' \in [Fds -> Files \cup {NULL}] /\ spike_fds'[i] = f
        /\ \A j \in Fds \ {i} : spike_fds'[j] = spike_fds[j]
    BY <1>3 DEF FInv, TablesOK
  <2>2. /\ Cardinality(FdsOf(spike_fds', f)) = Cardinality(FdsOf(spike_fds, f)) + 1
        /\ \A g : g # f /\ g # spike_fds[i]
                  => FdsOf(spike_fds', g) = FdsOf(spike_fds, g)
    <3> HIDE DEF S
    <3> QED BY <2>1, FdsSet
  <2> QED BY <1>3, <2>2
<1>8. /\ Counted(held', spike_fds', f) = Counted(held, spike_fds, f) + 1
      /\ \A g \in Files :
           g # f => Counted(held', spike_fds', g) = Counted(held, spike_fds, g)
  <2>1. Cardinality(FdsOf(spike_fds, f)) \in Nat
    BY FdsCounted
  <2>2. \A g \in Files :
          g # f => Counted(held', spike_fds', g) = Counted(held, spike_fds, g)
    BY <1>1, <1>3, <1>7 DEF Counted
  <2> QED BY <1>1, <1>7, <2>1, <2>2 DEF Counted
<1>9. \A g \in Files :
        Reached(held', spike_fds', g) <=> Reached(held, spike_fds, g)
  BY <1>1, <1>3 DEF Reached, FInv, TablesOK
<1>10. Reached(held, spike_fds, f) /\ files[f].refcnt \in Nat
       /\ Counted(held, spike_fds, f) \in Nat
  BY <1>1, CountedType DEF Reached, FInv, TablesOK
<1>11. Balance'
  BY <1>5, <1>8, <1>9, <1>10 DEF FInv, Balance
<1>12. Alive'
  <2>1. \A g \in Files : files'[g].kfd = files[g].kfd
    BY <1>5
  <2> QED BY <1>1, <1>9, <2>1 DEF FInv, Alive
<1>13. Covered' /\ Stderr' /\ Untouched'
  <2>1. \A g \in Files : files'[g].kfd = files[g].kfd
                         /\ (files[g].refcnt > 0 => files'[g].refcnt > 0)
    BY <1>5, <1>10
  <2>2. 2 \in Files
    BY DEF Files
  <2> QED BY <1>1, <1>4, <2>1, <2>2 DEF FInv, Covered, Stderr, Untouched
<1> QED BY <1>6, <1>11, <1>12, <1>13 DEF FInv

\* A decref of a slot with more than two references closes nothing.
LEMMA DroppedMany ==
  ASSUME NEW fs \in [Files -> [kfd : Int, refcnt : Nat]], NEW f \in Files,
         fs[f].refcnt > 2
  PROVE  /\ Closed(fs, f) = {}
         /\ Dropped(fs, f) \in [Files -> [kfd : Int, refcnt : Nat]]
         /\ Dropped(fs, f)[f].refcnt = fs[f].refcnt - 1
         /\ Dropped(fs, f)[f].kfd = fs[f].kfd
         /\ \A g \in Files : g # f => Dropped(fs, f)[g] = fs[g]
<1>1. Dropped(fs, f) = [fs EXCEPT ![f].refcnt = fs[f].refcnt - 1]
  <2>1. fs[f].refcnt # 2
    OBVIOUS
  <2> QED BY <2>1 DEF Dropped
<1>2. fs[f].refcnt - 1 \in Nat
  OBVIOUS
<1> QED BY <1>1, <1>2 DEF Closed

\* spike_file_close: as many references go as the call gives up, and the host's
\* descriptor stays open.
LEMMA CloseStep == ASSUME FInv, NEW f \in Files, Close(f) PROVE FInv'
<1> USE SpikeFileAssumption
<1> DEFINE kfd == files[f].kfd
           one == Dropped(files, f)
           mine == kfd \in Fds /\ spike_fds[kfd] = f
<1>1. f \in held /\ held' = held \ {f} /\ UNCHANGED <<inited, opens>>
  BY DEF Close
<1>2. inited /\ f # 2 /\ f # NULL /\ 2 \in Files
  BY <1>1 DEF FInv, Untouched, Stderr, Files, NULL
<1>3. /\ Reached(held, spike_fds, f) /\ Cardinality(FdsOf(spike_fds, f)) \in Nat
      /\ files[f].refcnt >= Cardinality(FdsOf(spike_fds, f)) + 3
      /\ files[f].refcnt \in Nat
  <2>1. Reached(held, spike_fds, f) /\ Cardinality(FdsOf(spike_fds, f)) \in Nat
    BY <1>1, FdsCounted DEF Reached
  <2> QED BY <1>1, <2>1 DEF FInv, Balance, Counted, TablesOK
<1>4. /\ Closed(files, f) = {} /\ one \in [Files -> [kfd : Int, refcnt : Nat]]
      /\ one[f].refcnt = files[f].refcnt - 1 /\ one[f].kfd = files[f].kfd
      /\ \A g \in Files : g # f => one[g] = files[g]
  BY <1>3, DroppedMany DEF FInv, TablesOK
<1> HIDE DEF one
<1>5. /\ hostOpen' = hostOpen
      /\ spike_fds' \in [Fds -> Files \cup {NULL}]
      /\ files' \in [Files -> [kfd : Int, refcnt : Nat]]
      /\ files'[f].kfd = files[f].kfd
      /\ files'[f].refcnt >= Cardinality(FdsOf(spike_fds', f)) + 2
      /\ Cardinality(FdsOf(spike_fds', f)) \in Nat
      /\ \A g \in Files : g # f => /\ files'[g] = files[g]
                                   /\ FdsOf(spike_fds', g) = FdsOf(spike_fds, g)
  <2>1. CASE mine
    <3>1. /\ spike_fds' = [spike_fds EXCEPT ![kfd] = NULL]
          /\ files' = Dropped(one, f)
          /\ hostOpen' = hostOpen \ (Closed(files, f) \cup Closed(one, f))
      BY <2>1 DEF Close, one
    <3>2. /\ Cardinality(FdsOf(spike_fds', f)) = Cardinality(FdsOf(spike_fds, f)) - 1
          /\ \A g : g # f /\ g # NULL => FdsOf(spike_fds', g) = FdsOf(spike_fds, g)
      <4>1. /\ spike_fds \in [Fds -> Files \cup {NULL}]
            /\ spike_fds' \in [Fds -> Files \cup {NULL}] /\ spike_fds'[kfd] = NULL
            /\ \A j \in Fds \ {kfd} : spike_fds'[j] = spike_fds[j]
        BY <2>1, <3>1 DEF FInv, TablesOK
      <4> HIDE DEF kfd
      <4> QED BY <1>2, <2>1, <4>1, FdsCleared
    <3>3. Cardinality(FdsOf(spike_fds', f)) \in Nat
      BY FdsCounted
    <3>4. one[f].refcnt > 2
      BY <1>3, <1>4, <3>2, <3>3
    <3>5. /\ Closed(one, f) = {} /\ files' \in [Files -> [kfd : Int, refcnt : Nat]]
          /\ files'[f].refcnt = one[f].refcnt - 1 /\ files'[f].kfd = one[f].kfd
          /\ \A g \in Files : g # f => files'[g] = one[g]
      BY <1>4, <3>1, <3>4, DroppedMany
    <3>6. NULL \notin Files /\ spike_fds' \in [Fds -> Files \cup {NULL}]
      BY <2>1, <3>1 DEF FInv, TablesOK, Files, NULL
    <3>7. files'[f].refcnt >= Cardinality(FdsOf(spike_fds', f)) + 2
      BY <1>3, <1>4, <3>2, <3>3, <3>5
    <3>8. \A g \in Files : g # f => /\ files'[g] = files[g]
                                   /\ FdsOf(spike_fds', g) = FdsOf(spike_fds, g)
      BY <1>4, <3>2, <3>5, <3>6
    <3> QED BY <1>4, <3>1, <3>3, <3>5, <3>6, <3>7, <3>8
  <2>2. CASE ~mine
    <3>1. UNCHANGED spike_fds /\ files' = one /\ hostOpen' = hostOpen \ Closed(files, f)
      BY <2>2 DEF Close, one
    <3> QED BY <1>3, <1>4, <3>1 DEF FInv, TablesOK
  <2> QED BY <2>1, <2>2
<1>6. TablesOK'
  BY <1>1, <1>5 DEF FInv, TablesOK
<1>7. \A g \in Files : g # f =>
        /\ Counted(held', spike_fds', g) = Counted(held, spike_fds, g)
        /\ Reached(held', spike_fds', g) <=> Reached(held, spike_fds, g)
  BY <1>1, <1>5, CountedType DEF Counted
<1>8. Balance'
  <2>1. files'[f].refcnt >= Counted(held', spike_fds', f) + 2
    BY <1>1, <1>5 DEF Counted
  <2> QED BY <1>5, <1>7, <2>1 DEF FInv, Balance
<1>9. Alive'
  BY <1>3, <1>5, <1>7 DEF FInv, Alive
<1>10. Covered' /\ Stderr' /\ Untouched'
  <2>1. \A g \in Files : files'[g].kfd = files[g].kfd
                         /\ (files[g].refcnt > 0 => files'[g].refcnt > 0)
    BY <1>5
  <2> QED BY <1>1, <1>2, <1>5, <2>1 DEF FInv, Covered, Stderr, Untouched
<1> QED BY <1>6, <1>8, <1>9, <1>10 DEF FInv

---------------------------------------------------------------------------
(* The theorems.                                                           *)

\* The counts of the tables are balanced in every reachable state.
THEOREM FilesInvariant == Spec => []FInv
<1>1. FInv /\ [Next]_vars => FInv'
  <2> SUFFICES ASSUME FInv, [Next]_vars PROVE FInv'
    OBVIOUS
  <2>1. CASE Init3
    BY <2>1, Init3Step
  <2>2. CASE Openat
    BY <2>2, OpenatStep
  <2>3. ASSUME NEW f \in Files, Dup(f) \/ Close(f) PROVE FInv'
    BY <2>3, DupStep, CloseStep
  <2>4. CASE UNCHANGED vars
    BY <2>4
    DEF vars, FInv, TablesOK, Untouched, Balance, Alive, Covered, Stderr
  <2> QED BY <2>1, <2>2, <2>3, <2>4 DEF Next
<1> QED BY <1>1, InitInv, PTL DEF Spec

\* For every size of the tables and every number of opens: a file that a caller
\* or a descriptor can reach is allocated, open on the host under a number of
\* its own that spike_file_close may index spike_fds with, and no reference
\* count passes zero.
THEOREM FilesReachable == Spec => []ReachableAlive
<1>1. FInv => ReachableAlive
  <2> SUFFICES ASSUME FInv PROVE ReachableAlive
    OBVIOUS
  <2> DEFINE reach == held \cup {f \in Files : \E i \in Fds : spike_fds[i] = f}
  <2>1. \A f \in reach : f \in Files /\ Reached(held, spike_fds, f)
    BY DEF Reached, FInv, TablesOK
  <2>2. \A f \in Files : files[f].refcnt \in Nat
    BY DEF FInv, TablesOK
  <2>3. \A f : Refs(f) = Counted(held, spike_fds, f)
    BY DEF Refs, Counted, FdsOf
  <2>4. \A f \in reach : files[f].refcnt > Refs(f)
    BY <2>1, <2>2, <2>3, CountedType DEF FInv, Balance
  <2>5. \A f \in reach : files[f].kfd \in hostOpen /\ files[f].kfd \in Fds
    BY <2>1 DEF FInv, Alive
  <2>6. \A f, g \in reach : f # g => files[f].kfd # files[g].kfd
    BY <2>1 DEF FInv, Alive
  <2>7. \A f \in Files : files[f].refcnt >= 0
    BY <2>2
  <2> HIDE DEF reach
  <2> QED BY <2>4, <2>5, <2>6, <2>7 DEF ReachableAlive, reach
<1> QED BY <1>1, FilesInvariant, PTL

\* However many files are opened, duplicated and closed, the slot behind
\* sprint's stderr stays the host's descriptor 2, open and in use.
THEOREM FilesStderr == Spec => []StderrStays
<1>1. FInv => StderrStays
  BY DEF FInv, Stderr, StderrStays
<1> QED BY <1>1, FilesInvariant, PTL

=============================================================================

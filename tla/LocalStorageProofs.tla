------------------------- MODULE LocalStorageProofs -------------------------
(***************************************************************************)
(* StorageInv is inductive for any number of concurrent calls and keys and *)
(* any content size, under kills, power loss and failing removals. The     *)
(* core is the synced size of every inode a directory entry may name.      *)
(*                                                                         *)
(* Keys of any length are judged right: validateStorageKey accepts exactly *)
(* those that lead below the root, and resolve joins them to such a path.  *)
(***************************************************************************)
EXTENDS MCLocalStorage, SequenceTheorems, WellFoundedInduction, TLAPS

\* Initially no name stands for anything.
LEMMA StorageInit == Init => StorageInv
  BY StorageAssumption
  DEF Init, StorageInv, TypeOK, NoTornObject, WholeReads, TemporariesAreOwned,
      Calls, Active, Holding, Ended

\* A Put keeps its inode to itself until it is whole and synced.
LEMMA PutStep ==
    ASSUME StorageInv, NEW p \in Puts,
           \/ StartPut(p) \/ Create(p) \/ CreateFails(p) \/ Copy(p) \/ Sync(p)
           \/ Close(p) \/ Rename(p) \/ Fail(p) \/ Abort(p)
    PROVE  StorageInv'
  <1> USE StorageAssumption
  <1> USE DEF StorageInv, TypeOK, NoTornObject, WholeReads, TemporariesAreOwned,
              Calls, Active, Holding, Ended, Goto, fileVars, readVars
  <1>1. CASE StartPut(p)
    BY <1>1 DEF StartPut
  <1>2. CASE Create(p)
    BY <1>2 DEF Create
  <1>3. CASE CreateFails(p)
    BY <1>3 DEF CreateFails
  <1>4. CASE Copy(p)
    BY <1>4 DEF Copy
  <1>5. CASE Sync(p)
    BY <1>5 DEF Sync
  <1>6. CASE Close(p)
    BY <1>6 DEF Close
  <1>7. CASE Rename(p)
    BY <1>7 DEF Rename, Enter
  <1>8. CASE Fail(p)
    BY <1>8 DEF Fail
  <1>9. CASE Abort(p)
    BY <1>9 DEF Abort
  <1> QED
    BY <1>1, <1>2, <1>3, <1>4, <1>5, <1>6, <1>7, <1>8, <1>9

\* A reader takes up a complete inode, and no step makes one smaller.
LEMMA ReaderStep ==
    ASSUME StorageInv, NEW g \in Gets,
           (\E k \in Keys : Open(g, k)) \/ Read(g) \/ ReadFails(g)
    PROVE  StorageInv'
  <1> USE StorageAssumption
  <1> USE DEF StorageInv, TypeOK, NoTornObject, WholeReads, TemporariesAreOwned,
              Calls, Active, Holding, Ended, Goto, fileVars, readVars
  <1>1. ASSUME NEW k \in Keys, Open(g, k)
        PROVE  StorageInv'
    BY <1>1 DEF Open
  <1>2. CASE Read(g)
    BY <1>2 DEF Read
  <1>3. CASE ReadFails(g)
    BY <1>3 DEF ReadFails
  <1> QED
    BY <1>1, <1>2, <1>3

\* Removing a name, or writing one back, only forgets inodes.
LEMMA EntryStep ==
    ASSUME StorageInv, NEW k \in Keys,
           (\E d \in Deletes : Delete(d, k)) \/ WriteBack(k)
    PROVE  StorageInv'
  <1> USE StorageAssumption
  <1> USE DEF StorageInv, TypeOK, NoTornObject, WholeReads, TemporariesAreOwned,
              Calls, Active, Holding, Ended, Goto, fileVars, readVars
  <1>1. ASSUME NEW d \in Deletes, Delete(d, k)
        PROVE  StorageInv'
    BY <1>1 DEF Delete, Enter
  <1>2. CASE WriteBack(k)
    BY <1>2 DEF WriteBack
  <1> QED
    BY <1>1, <1>2

\* A killed call leaves the file system as it is.
LEMMA KillStep ==
    ASSUME StorageInv, NEW c \in Calls, Kill(c)
    PROVE  StorageInv'
  BY StorageAssumption
  DEF Kill, StorageInv, TypeOK, NoTornObject, WholeReads, TemporariesAreOwned,
      Calls, Active, Holding, Ended, Goto, fileVars, readVars

\* After a power loss every name stands for an inode that was synced whole.
LEMMA PowerLossStep ==
    ASSUME StorageInv, PowerLoss
    PROVE  StorageInv'
  <1> USE StorageAssumption
  <1>1. PICK o \in [Keys -> Puts \union {None}] :
            objects' = o /\ \A k \in Keys : o[k] \in persisted[k]
    BY DEF PowerLoss
  <1>2. /\ written' \in [Puts -> 0 .. Size] /\ synced' = written'
        /\ \A p \in Puts : synced[p] <= written'[p] /\ written'[p] <= written[p]
    BY DEF PowerLoss
  <1>3. /\ pc' = [c \in Calls |-> IF pc[c] = "idle" THEN "idle" ELSE "dead"]
        /\ persisted' = [k \in Keys |-> {objects'[k]}]
        /\ UNCHANGED <<key, handle, got>>
    BY DEF PowerLoss
  <1>4. temps' \in SUBSET Puts
    BY DEF PowerLoss
  <1>5. TypeOK'
    BY <1>1, <1>2, <1>3, <1>4 DEF StorageInv, TypeOK, Ended
  <1>6. \A k \in Keys : objects'[k] # None => written'[objects'[k]] = Size
    BY <1>1, <1>2 DEF StorageInv, TypeOK
  <1>7. TemporariesAreOwned'
    <2>1. ASSUME NEW p \in temps'
          PROVE  pc[p] # "idle"
      <3>1. p \in temps \/ \E k \in Keys : p \in persisted[k]
        BY <2>1 DEF PowerLoss
      <3>2. CASE p \in temps
        BY <3>2 DEF StorageInv, TemporariesAreOwned, Holding
      <3>3. ASSUME NEW k \in Keys, p \in persisted[k]
            PROVE  pc[p] # "idle"
        <4>1. p \in Puts /\ synced[p] = Size /\ synced[p] <= written[p]
          BY <1>4, <2>1, <3>3 DEF StorageInv
        <4> QED
          BY <4>1 DEF StorageInv, TypeOK
      <3> QED
        BY <3>1, <3>2, <3>3
    <2> QED
      BY <1>3, <1>4, <2>1 DEF TemporariesAreOwned, Calls
  <1> QED
    BY <1>1, <1>2, <1>3, <1>5, <1>6, <1>7
    DEF StorageInv, NoTornObject, WholeReads, Calls

\* The invariant holds in every reachable state.
THEOREM StorageInductive == Spec => []StorageInv
  <1>1. StorageInv /\ [Next]_vars => StorageInv'
    <2> SUFFICES ASSUME StorageInv, [Next]_vars
                 PROVE  StorageInv'
      OBVIOUS
    <2>1. CASE UNCHANGED vars
      BY <2>1 DEF vars, StorageInv, TypeOK, NoTornObject, WholeReads, TemporariesAreOwned
    <2> QED
      BY <2>1, PutStep, ReaderStep, EntryStep, KillStep, PowerLossStep DEF Next
  <1> QED
    BY <1>1, StorageInit, PTL DEF Spec

\* A name stands for a complete content or for nothing.
THEOREM ObjectsAreWhole == Spec => []NoTornObject
  <1>1. StorageInv => NoTornObject
    BY DEF StorageInv
  <1> QED
    BY <1>1, StorageInductive, PTL

\* What a reader has read when it comes to the end is one Put's whole content.
THEOREM ReadsAreWhole == Spec => []WholeReads
  <1>1. StorageInv => WholeReads
    BY DEF StorageInv
  <1> QED
    BY <1>1, StorageInductive, PTL

\* A temporary file belongs to a call that will rename or remove it, or was left
\* by a removal that failed or by the death of its process.
THEOREM NoTemporaryIsForgotten == Spec => []TemporariesAreOwned
  <1>1. StorageInv => TemporariesAreOwned
    BY DEF StorageInv
  <1> QED
    BY <1>1, StorageInductive, PTL

-----------------------------------------------------------------------------
(* Induction. What the keys are about is recursive in their length, and    *)
(* the prefixes of which something holds are a set.                        *)

\* Every set of natural numbers that is not empty has a least one.
LEMMA Least ==
    ASSUME NEW S, S \subseteq Nat, S # {}
    PROVE  \E x \in S : \A y \in S : x <= y
  <1> DEFINE R == OpToRel(<, Nat)
  <1>1. IsWellFoundedOn(R, Nat)
    BY NatLessThanWellFounded
  <1>2. \A i, j \in Nat : <<i, j>> \in R <=> i < j
    BY DEF OpToRel
  <1> HIDE DEF R
  <1>3. PICK x \in S : \A y \in S : <<y, x>> \notin R
    BY <1>1, WFMin
  <1>4. ASSUME NEW y \in S
        PROVE  x <= y
    <2>1. x \in Nat /\ y \in Nat /\ ~(y < x)
      BY <1>2, <1>3
    <2> QED
      BY <2>1
  <1> QED
    BY <1>4

\* Induction up to n, for a set in the place of a predicate.
LEMMA InductionTo ==
    ASSUME NEW n \in Nat, NEW S, 0 \in S, \A i \in 1 .. n : i - 1 \in S => i \in S
    PROVE  \A i \in 0 .. n : i \in S
  <1> SUFFICES ASSUME NEW m \in 0 .. n, m \notin S
               PROVE  FALSE
    OBVIOUS
  <1> DEFINE T == {i \in 0 .. n : i \notin S}
  <1>1. T \subseteq Nat /\ T # {}
    OBVIOUS
  <1>2. PICK x \in T : \A y \in T : x <= y
    <2> HIDE DEF T
    <2> QED
      BY <1>1, Least
  <1>3. x \in 1 .. n /\ x - 1 \in 0 .. n
    OBVIOUS
  <1>4. x - 1 \notin T
    BY <1>2, <1>3
  <1> QED
    BY <1>3, <1>4

\* f is what the recursion over 0 .. n makes of start.
Recursion(n, V) == [1 .. n -> [V -> V]]
Solution(f, n, start, next) ==
    f[0] = start /\ \A i \in 1 .. n : f[i] = next[i][f[i - 1]]

\* A recursion over 0 .. n has a solution.
LEMMA RecursionTo ==
    ASSUME NEW n \in Nat, NEW V, NEW start \in V, NEW next \in Recursion(n, V)
    PROVE  \E f \in [0 .. n -> V] : Solution(f, n, start, next)
  <1> DEFINE Solves(f, m) == \A i \in 0 .. m : f[i] = IF i = 0 THEN start ELSE next[i][f[i - 1]]
             Solvable(m) == \E f \in [0 .. n -> V] : Solves(f, m)
             S == {m \in 0 .. n : Solvable(m)}
  <1>1. Solvable(0)
    <2> DEFINE f == [i \in 0 .. n |-> start]
    <2>1. f \in [0 .. n -> V] /\ Solves(f, 0)
      OBVIOUS
    <2> QED
      BY <2>1
  <1>2. ASSUME NEW m \in 1 .. n, Solvable(m - 1)
        PROVE  Solvable(m)
    <2>1. PICK f \in [0 .. n -> V] : Solves(f, m - 1)
      BY <1>2
    <2> DEFINE g == [f EXCEPT ![m] = next[m][f[m - 1]]]
    <2>2. g \in [0 .. n -> V]
      BY DEF Recursion
    <2>3. Solves(g, m)
      BY <2>1
    <2> HIDE DEF g, Solves
    <2> QED
      BY <2>2, <2>3
  <1> HIDE DEF Solvable
  <1>3. Solvable(n)
    <2>1. 0 \in S /\ \A m \in 1 .. n : m - 1 \in S => m \in S
      BY <1>1, <1>2
    <2> HIDE DEF S
    <2>2. \A i \in 0 .. n : i \in S
      BY <2>1, InductionTo
    <2>3. n \in S
      BY <2>2
    <2> QED
      BY <2>3 DEF S
  <1>4. PICK f \in [0 .. n -> V] : Solves(f, n)
    BY <1>3 DEF Solvable
  <1>5. Solution(f, n, start, next)
    BY <1>4 DEF Solution
  <1> QED
    BY <1>5

-----------------------------------------------------------------------------
(* Keys.                                                                   *)

Paths == Seq(Segments)

\* One segment takes a path to a path.
LEMMA StepType ==
    ASSUME NEW path \in Paths, NEW s \in Segments
    PROVE  Step(path, s) \in Paths /\ RootedStep(path, s) \in Paths
  <1>1. path # <<>> => Front(path) \in Paths
    BY DEF Front, Paths
  <1>2. Append(path, s) \in Paths
    BY DEF Paths
  <1> QED
    BY <1>1, <1>2 DEF Step, RootedStep, Paths

\* The three recursions are what they say.
LEMMA CleaningIs ==
    ASSUME NEW k \in Paths
    PROVE  /\ Cleaning(k) \in [0 .. Len(k) -> Paths]
           /\ Cleaning(k)[0] = <<>>
           /\ \A i \in 1 .. Len(k) : Cleaning(k)[i] = Step(Cleaning(k)[i - 1], k[i])
  <1> DEFINE n == Len(k)
             next == [i \in 1 .. n |-> [path \in Paths |-> Step(path, k[i])]]
  <1>1. n \in Nat /\ <<>> \in Paths /\ \A i \in 1 .. n : k[i] \in Segments
    BY DEF Paths
  <1>2. next \in [1 .. n -> [Paths -> Paths]]
    BY <1>1, StepType
  <1>3. PICK f \in [0 .. n -> Paths] :
            f[0] = <<>> /\ \A i \in 1 .. n : f[i] = next[i][f[i - 1]]
    <2> DEFINE start == <<>>
    <2>1. start \in Paths /\ next \in Recursion(n, Paths) /\ n \in Nat
      BY <1>1, <1>2 DEF Recursion
    <2> HIDE DEF next, n, start
    <2>2. \E f \in [0 .. n -> Paths] : Solution(f, n, start, next)
      BY <2>1, RecursionTo
    <2> QED
      BY <2>2 DEF start, Solution
  <1>4. f = [i \in 0 .. n |-> IF i = 0 THEN <<>> ELSE Step(f[i - 1], k[i])]
    <2>1. \A i \in 1 .. n : f[i] = Step(f[i - 1], k[i])
      <3> SUFFICES ASSUME NEW i \in 1 .. n
                   PROVE  f[i] = Step(f[i - 1], k[i])
        OBVIOUS
      <3>1. i - 1 \in 0 .. n
        BY <1>1
      <3>2. f[i - 1] \in Paths
        BY <1>3, <3>1
      <3>3. next[i] = [path \in Paths |-> Step(path, k[i])]
        OBVIOUS
      <3> HIDE DEF next, n
      <3> QED
        BY <1>3, <3>2, <3>3
    <2> HIDE DEF next, n
    <2> QED
      BY <1>1, <1>3, <2>1
  <1>5. Cleaning(k) = [i \in 0 .. n |-> IF i = 0 THEN <<>> ELSE Step(Cleaning(k)[i - 1], k[i])]
    BY <1>4 DEF Cleaning
  <1> DEFINE c == Cleaning(k)
  <1>6. c[0] = <<>> /\ \A i \in 1 .. n : c[i] = Step(c[i - 1], k[i])
    BY <1>1, <1>5
  <1>7. \A i \in 0 .. n : c[i] \in Paths
    <2> DEFINE S == {i \in 0 .. n : c[i] \in Paths}
    <2>1. 0 \in S
      BY <1>1, <1>6
    <2>2. ASSUME NEW i \in 1 .. n, i - 1 \in S
          PROVE  i \in S
      BY <1>1, <1>6, <2>2, StepType
    <2> HIDE DEF S, n
    <2>3. \A i \in 0 .. n : i \in S
      BY <1>1, <2>1, <2>2, InductionTo
    <2> QED
      BY <2>3 DEF S
  <1> QED
    BY <1>5, <1>6, <1>7

LEMMA RootedCleaningIs ==
    ASSUME NEW k \in Paths
    PROVE  /\ RootedCleaning(k) \in [0 .. Len(k) -> Paths]
           /\ RootedCleaning(k)[0] = <<>>
           /\ \A i \in 1 .. Len(k) :
                RootedCleaning(k)[i] = RootedStep(RootedCleaning(k)[i - 1], k[i])
  <1> DEFINE n == Len(k)
             next == [i \in 1 .. n |-> [path \in Paths |-> RootedStep(path, k[i])]]
  <1>1. n \in Nat /\ <<>> \in Paths /\ \A i \in 1 .. n : k[i] \in Segments
    BY DEF Paths
  <1>2. next \in [1 .. n -> [Paths -> Paths]]
    BY <1>1, StepType
  <1>3. PICK f \in [0 .. n -> Paths] :
            f[0] = <<>> /\ \A i \in 1 .. n : f[i] = next[i][f[i - 1]]
    <2> DEFINE start == <<>>
    <2>1. start \in Paths /\ next \in Recursion(n, Paths) /\ n \in Nat
      BY <1>1, <1>2 DEF Recursion
    <2> HIDE DEF next, n, start
    <2>2. \E f \in [0 .. n -> Paths] : Solution(f, n, start, next)
      BY <2>1, RecursionTo
    <2> QED
      BY <2>2 DEF start, Solution
  <1>4. f = [i \in 0 .. n |-> IF i = 0 THEN <<>> ELSE RootedStep(f[i - 1], k[i])]
    <2>1. \A i \in 1 .. n : f[i] = RootedStep(f[i - 1], k[i])
      <3> SUFFICES ASSUME NEW i \in 1 .. n
                   PROVE  f[i] = RootedStep(f[i - 1], k[i])
        OBVIOUS
      <3>1. i - 1 \in 0 .. n
        BY <1>1
      <3>2. f[i - 1] \in Paths
        BY <1>3, <3>1
      <3>3. next[i] = [path \in Paths |-> RootedStep(path, k[i])]
        OBVIOUS
      <3> HIDE DEF next, n
      <3> QED
        BY <1>3, <3>2, <3>3
    <2> HIDE DEF next, n
    <2> QED
      BY <1>1, <1>3, <2>1
  <1>5. RootedCleaning(k) = [i \in 0 .. n |-> IF i = 0 THEN <<>> ELSE RootedStep(RootedCleaning(k)[i - 1], k[i])]
    BY <1>4 DEF RootedCleaning
  <1> DEFINE c == RootedCleaning(k)
  <1>6. c[0] = <<>> /\ \A i \in 1 .. n : c[i] = RootedStep(c[i - 1], k[i])
    BY <1>1, <1>5
  <1>7. \A i \in 0 .. n : c[i] \in Paths
    <2> DEFINE S == {i \in 0 .. n : c[i] \in Paths}
    <2>1. 0 \in S
      BY <1>1, <1>6
    <2>2. ASSUME NEW i \in 1 .. n, i - 1 \in S
          PROVE  i \in S
      BY <1>1, <1>6, <2>2, StepType
    <2> HIDE DEF S, n
    <2>3. \A i \in 0 .. n : i \in S
      BY <1>1, <2>1, <2>2, InductionTo
    <2> QED
      BY <2>3 DEF S
  <1> QED
    BY <1>5, <1>6, <1>7

LEMMA WayType == \A s : Way(s) \in Int
  BY DEF Way

LEMMA DepthsIs ==
    ASSUME NEW k \in Paths
    PROVE  /\ Depths(k) \in [0 .. Len(k) -> Int]
           /\ Depths(k)[0] = 0
           /\ \A i \in 1 .. Len(k) : Depths(k)[i] = Depths(k)[i - 1] + Way(k[i])
  <1> DEFINE n == Len(k)
             next == [i \in 1 .. n |-> [d \in Int |-> d + Way(k[i])]]
  <1>1. n \in Nat /\ \A i \in 1 .. n : k[i] \in Segments
    BY DEF Paths
  <1>2. next \in [1 .. n -> [Int -> Int]]
    BY <1>1, WayType
  <1>3. PICK f \in [0 .. n -> Int] :
            f[0] = 0 /\ \A i \in 1 .. n : f[i] = next[i][f[i - 1]]
    <2> DEFINE start == 0
    <2>1. start \in Int /\ next \in Recursion(n, Int) /\ n \in Nat
      BY <1>1, <1>2 DEF Recursion
    <2> HIDE DEF next, n, start
    <2>2. \E f \in [0 .. n -> Int] : Solution(f, n, start, next)
      BY <2>1, RecursionTo
    <2> QED
      BY <2>2 DEF start, Solution
  <1>4. f = [i \in 0 .. n |-> IF i = 0 THEN 0 ELSE f[i - 1] + Way(k[i])]
    <2>1. \A i \in 1 .. n : f[i] = f[i - 1] + Way(k[i])
      <3> SUFFICES ASSUME NEW i \in 1 .. n
                   PROVE  f[i] = f[i - 1] + Way(k[i])
        OBVIOUS
      <3>1. i - 1 \in 0 .. n
        BY <1>1
      <3>2. f[i - 1] \in Int
        BY <1>3, <3>1
      <3>3. next[i] = [d \in Int |-> d + Way(k[i])]
        OBVIOUS
      <3> HIDE DEF next, n
      <3> QED
        BY <1>3, <3>2, <3>3
    <2> HIDE DEF next, n
    <2> QED
      BY <1>1, <1>3, <2>1
  <1>5. Depths(k) = [i \in 0 .. n |-> IF i = 0 THEN 0 ELSE Depths(k)[i - 1] + Way(k[i])]
    BY <1>4 DEF Depths
  <1> DEFINE c == Depths(k)
  <1>6. c[0] = 0 /\ \A i \in 1 .. n : c[i] = c[i - 1] + Way(k[i])
    BY <1>1, <1>5
  <1>7. \A i \in 0 .. n : c[i] \in Int
    <2> DEFINE S == {i \in 0 .. n : c[i] \in Int}
    <2>1. 0 \in S
      BY <1>1, <1>6
    <2>2. ASSUME NEW i \in 1 .. n, i - 1 \in S
          PROVE  i \in S
      BY <1>1, <1>6, <2>2, WayType
    <2> HIDE DEF S, n
    <2>3. \A i \in 0 .. n : i \in S
      BY <1>1, <2>1, <2>2, InductionTo
    <2> QED
      BY <2>3 DEF S
  <1> QED
    BY <1>5, <1>6, <1>7

-----------------------------------------------------------------------------
(* What cleaning tells.                                                    *)

Special == {"", ".", ".."}

\* What a relative path has come to, d levels below where it began.
Inside(path, d) == Len(path) = d /\ \A m \in 1 .. Len(path) : path[m] \notin Special
Outside(path) == path # <<>> /\ path[1] = ".."

\* What the operators on paths return.
LEMMA PathFacts ==
    ASSUME NEW path \in Paths
    PROVE  /\ Len(path) \in Nat
           /\ path = <<>> <=> Len(path) = 0
           /\ path # <<>> =>
                /\ Len(path) >= 1
                /\ Last(path) = path[Len(path)]
                /\ Head(path) = path[1]
                /\ Front(path) \in Paths
                /\ Len(Front(path)) = Len(path) - 1
                /\ \A m \in 1 .. Len(path) - 1 : Front(path)[m] = path[m]
  <1>1. Len(path) \in Nat /\ (path = <<>> <=> Len(path) = 0)
    BY EmptySeq DEF Paths
  <1>2. ASSUME path # <<>>
        PROVE  /\ Front(path) \in Paths
               /\ Len(Front(path)) = Len(path) - 1
               /\ \A m \in 1 .. Len(path) - 1 : Front(path)[m] = path[m]
    <2> DEFINE n == Len(path) - 1
    <2>1. n \in Nat /\ 1 \in Int
      BY <1>1, <1>2
    <2>2. \A m \in 1 .. n : path[m] \in Segments
      BY <1>1 DEF Paths
    <2>3. Front(path) = SubSeq(path, 1, n)
      BY DEF Front
    <2> HIDE DEF n
    <2>4. /\ SubSeq(path, 1, n) \in Seq(Segments)
          /\ Len(SubSeq(path, 1, n)) = IF 1 <= n THEN n - 1 + 1 ELSE 0
          /\ \A m \in 1 .. n - 1 + 1 : SubSeq(path, 1, n)[m] = path[1 + m - 1]
      BY <2>1, <2>2, SubSeqProperties
    <2>5. Len(SubSeq(path, 1, n)) = n
      BY <2>1, <2>4
    <2>6. \A m \in 1 .. n : SubSeq(path, 1, n)[m] = path[m]
      <3> SUFFICES ASSUME NEW m \in 1 .. n
                   PROVE  SubSeq(path, 1, n)[m] = path[m]
        OBVIOUS
      <3>1. m \in 1 .. n - 1 + 1 /\ 1 + m - 1 = m
        BY <2>1
      <3> QED
        BY <2>4, <3>1
    <2> QED
      BY <2>3, <2>4, <2>5, <2>6 DEF n, Paths
  <1> QED
    BY <1>1, <1>2 DEF Last, Paths

\* In particular nothing leads up.
LEMMA InsideIs ==
    ASSUME NEW path, NEW d, Inside(path, d)
    PROVE  Len(path) = d /\ \A m \in 1 .. Len(path) : path[m] # ".."
  BY DEF Inside, Special

\* One more segment of a path that has stayed inside.
LEMMA InsideStep ==
    ASSUME NEW path \in Paths, NEW d \in Nat, Inside(path, d), NEW s \in Segments
    PROVE  /\ d + Way(s) >= 0 => Inside(Step(path, s), d + Way(s))
           /\ d + Way(s) < 0 => Outside(Step(path, s))
  <1>1. CASE s \in {"", "."}
    <2>1. Step(path, s) = path /\ Way(s) = 0
      BY <1>1 DEF Step, Way
    <2>2. d + 0 = d
      OBVIOUS
    <2> QED
      BY <2>1, <2>2
  <1>2. CASE s = ".." /\ path # <<>>
    <2>1. Len(path) \in Nat \ {0} /\ Last(path) # ".."
      <3>1. Len(path) \in Nat /\ Len(path) >= 1 /\ Last(path) = path[Len(path)]
        BY <1>2, PathFacts
      <3>2. Len(path) \in 1 .. Len(path)
        BY <3>1
      <3>3. path[Len(path)] # ".."
        BY <3>2, InsideIs
      <3> QED
        BY <3>1, <3>3
    <2>2. Step(path, s) = Front(path) /\ Way(s) = -1
      BY <1>2, <2>1 DEF Step, Way
    <2>3. Len(Front(path)) = Len(path) - 1 /\ \A m \in 1 .. Len(path) - 1 : Front(path)[m] = path[m]
      BY <1>2, PathFacts
    <2> QED
      BY <2>1, <2>2, <2>3 DEF Inside
  <1>3. CASE s = ".." /\ path = <<>>
    <2>1. Step(path, s) = Append(path, s) /\ Way(s) = -1
      BY <1>3 DEF Step, Way
    <2>2. d = 0 /\ Outside(<<"..">>) /\ Append(path, s) = <<"..">>
      BY <1>3 DEF Inside, Outside
    <2> QED
      BY <2>1, <2>2
  <1>4. CASE s \notin Special
    <2>1. Step(path, s) = Append(path, s) /\ Way(s) = 1
      BY <1>4 DEF Step, Way, Special
    <2>2. /\ Len(Append(path, s)) = Len(path) + 1
          /\ \A m \in 1 .. Len(path) : Append(path, s)[m] = path[m]
          /\ Append(path, s)[Len(path) + 1] = s
      BY AppendProperties DEF Paths
    <2> QED
      BY <1>4, <2>1, <2>2 DEF Inside, Paths
  <1> QED
    BY <1>1, <1>2, <1>3, <1>4 DEF Special

\* No segment leads back.
LEMMA OutsideStep ==
    ASSUME NEW path \in Paths, Outside(path), NEW s \in Segments
    PROVE  Outside(Step(path, s))
  <1>1. CASE s \in {"", "."}
    BY <1>1 DEF Step
  <1>2. CASE s = ".." /\ Last(path) # ".."
    <2>1. Step(path, s) = Front(path)
      BY <1>2 DEF Step, Outside
    <2>2. Len(path) \in Nat /\ Len(path) > 1
      BY <1>2, PathFacts DEF Outside
    <2>3. Front(path) # <<>> /\ Front(path)[1] = path[1]
      <3>1. /\ Front(path) \in Paths /\ Len(Front(path)) = Len(path) - 1
            /\ Front(path)[1] = path[1]
        BY <2>2, PathFacts
      <3> QED
        BY <2>2, <3>1, PathFacts
    <2> QED
      BY <2>1, <2>3 DEF Outside
  <1>3. CASE s \notin {"", "."} /\ ~(s = ".." /\ Last(path) # "..")
    <2>1. Step(path, s) = Append(path, s)
      BY <1>3 DEF Step
    <2>2. Len(path) >= 1
      BY DEF Outside, Paths
    <2> QED
      BY <2>1, <2>2 DEF Outside, Paths
  <1> QED
    BY <1>1, <1>2, <1>3

\* Cleaning a key tells whether a prefix of it has left the root.
LEMMA CleaningTells ==
    ASSUME NEW k \in Paths, NEW i \in 0 .. Len(k)
    PROVE  IF \E j \in 0 .. i : Depths(k)[j] < 0
           THEN Outside(Cleaning(k)[i])
           ELSE Inside(Cleaning(k)[i], Depths(k)[i])
  <1> DEFINE n == Len(k)
             c == Cleaning(k)
             d == Depths(k)
             Tells(m) == IF \E j \in 0 .. m : d[j] < 0 THEN Outside(c[m]) ELSE Inside(c[m], d[m])
             S == {m \in 0 .. n : Tells(m)}
  <1>1. n \in Nat /\ \A m \in 1 .. n : k[m] \in Segments
    BY DEF Paths
  <1>2. /\ \A m \in 0 .. n : c[m] \in Paths
        /\ c[0] = <<>>
        /\ \A m \in 1 .. n : c[m] = Step(c[m - 1], k[m])
    BY CleaningIs
  <1>3. /\ \A m \in 0 .. n : d[m] \in Int
        /\ d[0] = 0
        /\ \A m \in 1 .. n : d[m] = d[m - 1] + Way(k[m])
    BY DepthsIs
  <1> HIDE DEF n, c, d
  <1>4. 0 \in S
    BY <1>1, <1>2, <1>3 DEF Inside
  <1>5. ASSUME NEW m \in 1 .. n, m - 1 \in S
        PROVE  m \in S
    <2>1. /\ m \in 0 .. n /\ m - 1 \in 0 .. n /\ Tells(m - 1)
          /\ c[m - 1] \in Paths /\ d[m - 1] \in Int /\ k[m] \in Segments
          /\ c[m] = Step(c[m - 1], k[m]) /\ d[m] = d[m - 1] + Way(k[m])
      BY <1>1, <1>2, <1>3, <1>5
    <2>2. CASE \E j \in 0 .. m - 1 : d[j] < 0
      <3>1. Outside(c[m - 1]) /\ \E j \in 0 .. m : d[j] < 0
        BY <1>1, <2>1, <2>2
      <3> QED
        BY <2>1, <3>1, OutsideStep
    <2>3. CASE ~\E j \in 0 .. m - 1 : d[j] < 0
      <3>1. d[m - 1] \in Nat /\ Inside(c[m - 1], d[m - 1])
        BY <2>1, <2>3
      <3>2. (\E j \in 0 .. m : d[j] < 0) <=> d[m] < 0
        BY <1>1, <2>1, <2>3
      <3>3. d[m] \in Int
        BY <1>3, <2>1
      <3>4. /\ d[m] >= 0 => Inside(c[m], d[m])
            /\ d[m] < 0 => Outside(c[m])
        BY <2>1, <3>1, InsideStep
      <3> HIDE DEF Inside, Outside
      <3> QED
        BY <2>1, <3>2, <3>3, <3>4
    <2> QED
      BY <2>2, <2>3
  <1> HIDE DEF S
  <1>6. \A m \in 0 .. n : m \in S
    BY <1>1, <1>4, <1>5, InductionTo
  <1> QED
    BY <1>6 DEF S, n, c, d

\* What validateStorageKey tells to escape does not stay below the root.
LEMMA EscapesTells ==
    ASSUME NEW k \in Paths, k # <<>>
    PROVE  ~Escapes(k) <=> StaysBelowRoot(k)
  <1> DEFINE n == Len(k)
             d == Depths(k)
             left == \E j \in 0 .. n : d[j] < 0
  <1>1. n \in Nat /\ n >= 1 /\ n \in 0 .. n
    BY DEF Paths
  <1>2. d[0] = 0 /\ \A m \in 0 .. n : d[m] \in Int
    BY DepthsIs
  <1>3. Clean(k) \in Paths
    BY <1>1, CleaningIs DEF Clean
  <1>4. IF left THEN Outside(Clean(k)) ELSE Inside(Clean(k), d[n])
    BY <1>1, CleaningTells DEF Clean
  <1>5. StaysBelowRoot(k) <=> ~left /\ d[n] > 0
    <2> HIDE DEF d
    <2>1. left <=> \E j \in 1 .. n : d[j] < 0
      BY <1>1, <1>2
    <2> QED
      BY <1>1, <1>2, <2>1 DEF StaysBelowRoot, d
  <1>6. CASE left
    BY <1>4, <1>5, <1>6 DEF Outside, Escapes
  <1>7. CASE ~left
    <2>1. Inside(Clean(k), d[n])
      BY <1>4, <1>7
    <2>2. ASSUME d[n] > 0
          PROVE  Clean(k) # <<>> /\ Head(Clean(k)) # ".."
      <3>1. Clean(k) # <<>>
        BY <1>3, <2>1, <2>2, PathFacts DEF Inside
      <3>2. Len(Clean(k)) \in Nat /\ Len(Clean(k)) >= 1 /\ Head(Clean(k)) = Clean(k)[1]
        BY <1>3, <3>1, PathFacts
      <3>3. 1 \in 1 .. Len(Clean(k))
        BY <3>2
      <3>4. Clean(k)[1] # ".."
        BY <2>1, <3>3, InsideIs
      <3> QED
        BY <3>1, <3>2, <3>4
    <2>3. ~(d[n] > 0) => Clean(k) = <<>>
      BY <1>1, <1>2, <1>3, <1>7, <2>1, PathFacts DEF Inside
    <2> QED
      BY <1>5, <1>7, <2>2, <2>3 DEF Escapes
  <1> QED
    BY <1>6, <1>7

-----------------------------------------------------------------------------
(* Joined to the root.                                                     *)

LEMMA RootIsPath == Root \in Paths /\ Root \in Seq(Names)
  <1>1. Root \in Seq(Names) /\ Names \subseteq Segments
    BY KeysAssumption DEF Segments
  <1> QED
    BY <1>1, SeqMonotonic DEF Paths

\* A segment that stays below the root does to the joined path what it does to
\* the key.
LEMMA JoinedStep ==
    ASSUME NEW path \in Paths, NEW d \in Nat, Inside(path, d), NEW s \in Segments,
           d + Way(s) >= 0
    PROVE  RootedStep(Root \o path, s) = Root \o Step(path, s)
  <1>1. Root \in Paths
    BY RootIsPath
  <1>2. CASE s \in {"", "."}
    BY <1>2 DEF Step, RootedStep
  <1>3. CASE s = ".."
    <2>1. Way(s) = -1
      BY <1>3 DEF Way
    <2>2. Len(path) \in Nat /\ Len(path) >= 1 /\ path # <<>>
      <3>1. Len(path) \in Nat /\ Len(path) = d /\ (path = <<>> <=> Len(path) = 0)
        BY PathFacts DEF Inside
      <3> QED
        BY <2>1, <3>1
    <2>3. Last(path) # ".."
      <3>1. Last(path) = path[Len(path)]
        BY <2>2, PathFacts
      <3>2. Len(path) \in 1 .. Len(path)
        BY <2>2
      <3>3. path[Len(path)] # ".."
        BY <3>2, InsideIs
      <3> QED
        BY <3>1, <3>3
    <2>4. Step(path, s) = Front(path)
      BY <1>3, <2>2, <2>3 DEF Step
    <2>5. Root \o path \in Paths /\ Len(Root \o path) = Len(Root) + Len(path)
      BY <1>1 DEF Paths
    <2>6. RootedStep(Root \o path, s) = Front(Root \o path)
      <3>1. Root \o path # <<>>
        BY <1>1, <2>2, <2>5 DEF Paths
      <3> QED
        BY <1>3, <3>1 DEF RootedStep
    <2>7. Front(Root \o path) = Root \o Front(path)
      <3>0. /\ Len(Root) \in Nat /\ Root \o path # <<>>
            /\ Len(Front(path)) = Len(path) - 1
            /\ \A i \in 1 .. Len(path) - 1 : Front(path)[i] = path[i]
        BY <1>1, <2>2, <2>5, PathFacts
      <3>1. /\ Front(path) \in Paths /\ Front(Root \o path) \in Paths
            /\ \A i \in 1 .. Len(Root \o path) - 1 : Front(Root \o path)[i] = (Root \o path)[i]
        BY <2>2, <2>5, <3>0, PathFacts
      <3>2. Root \o Front(path) \in Paths
        BY <1>1, <3>1 DEF Paths
      <3>3. Len(Front(Root \o path)) = Len(Root) + Len(path) - 1
        <4>1. Len(Front(Root \o path)) = Len(Root \o path) - 1
          BY <2>5, <3>0, PathFacts
        <4> QED
          BY <2>5, <4>1
      <3>4. Len(Root \o Front(path)) = Len(Root) + Len(path) - 1
        <4>1. Len(Root \o Front(path)) = Len(Root) + Len(Front(path))
          BY <1>1, <3>1, ConcatProperties DEF Paths
        <4> QED
          BY <2>2, <3>0, <4>1
      <3>5. ASSUME NEW i \in 1 .. Len(Root) + Len(path) - 1
            PROVE  Front(Root \o path)[i] = (Root \o Front(path))[i]
        <4>1. Front(Root \o path)[i] = (Root \o path)[i]
          BY <2>2, <2>5, <3>0, <3>1, <3>5
        <4>2. (Root \o path)[i] = IF i <= Len(Root) THEN Root[i] ELSE path[i - Len(Root)]
          BY <1>1, <2>2, <3>0, <3>5, ConcatProperties DEF Paths
        <4>3. (Root \o Front(path))[i] =
                  IF i <= Len(Root) THEN Root[i] ELSE Front(path)[i - Len(Root)]
          BY <1>1, <2>2, <3>0, <3>1, <3>5, ConcatProperties DEF Paths
        <4>4. CASE i <= Len(Root)
          BY <4>1, <4>2, <4>3, <4>4
        <4>5. CASE ~(i <= Len(Root))
          <5>1. i - Len(Root) \in 1 .. Len(path) - 1
            BY <2>2, <3>0, <3>5, <4>5
          <5> QED
            BY <3>0, <4>1, <4>2, <4>3, <4>5, <5>1
        <4> QED
          BY <4>4, <4>5
      <3> QED
        BY <3>1, <3>2, <3>3, <3>4, <3>5, SeqEqual DEF Paths
    <2> QED
      BY <2>4, <2>6, <2>7
  <1>4. CASE s \notin Special
    <2>1. Step(path, s) = Append(path, s) /\ RootedStep(Root \o path, s) = Append(Root \o path, s)
      BY <1>4 DEF Step, RootedStep, Special
    <2>2. Append(Root \o path, s) = Root \o Append(path, s)
      BY <1>1 DEF Paths
    <2> QED
      BY <2>1, <2>2
  <1> QED
    BY <1>2, <1>3, <1>4 DEF Special

\* The root is clean: cleaning a path below it first rebuilds it.
LEMMA RootIsClean ==
    ASSUME NEW k \in Paths
    PROVE  \A i \in 0 .. Len(Root) : RootedCleaning(Root \o k)[i] = SubSeq(Root, 1, i)
  <1> DEFINE n == Len(Root)
             joined == Root \o k
             r == RootedCleaning(joined)
             S == {i \in 0 .. n : r[i] = SubSeq(Root, 1, i)}
  <1>1. n \in Nat /\ Root \in Seq(Names) /\ Root \in Paths
    BY RootIsPath DEF Paths
  <1>2. joined \in Paths /\ Len(joined) = n + Len(k) /\ \A i \in 1 .. n : joined[i] = Root[i]
    BY <1>1 DEF Paths
  <1>3. r[0] = <<>> /\ \A i \in 1 .. n + Len(k) : r[i] = RootedStep(r[i - 1], joined[i])
    <2> HIDE DEF joined
    <2> QED
      BY <1>2, RootedCleaningIs
  <1>4. Len(k) \in Nat
    BY DEF Paths
  <1> HIDE DEF r, joined
  <1>5. 0 \in S
    <2>1. SubSeq(Root, 1, 0) = <<>>
      BY SubSeqEmpty
    <2>2. r[0] = SubSeq(Root, 1, 0)
      BY <1>3, <2>1, Zenon
    <2> QED
      BY <1>1, <2>2
  <1>6. ASSUME NEW i \in 1 .. n, i - 1 \in S
        PROVE  i \in S
    <2>1. Root[i] \in Names /\ Root[i] \notin Special
      <3>1. Root[i] \in Names
        BY <1>1, ElementOfSeq
      <3> QED
        BY <3>1, KeysAssumption DEF Special
    <2>2. r[i] = RootedStep(SubSeq(Root, 1, i - 1), Root[i])
      <3>1. i \in 1 .. n + Len(k) /\ r[i - 1] = SubSeq(Root, 1, i - 1)
        BY <1>1, <1>4, <1>6
      <3> QED
        BY <1>2, <1>3, <1>6, <3>1
    <2>3. r[i] = Append(SubSeq(Root, 1, i - 1), Root[i])
      BY <2>1, <2>2 DEF RootedStep, Special
    <2>4. Append(SubSeq(Root, 1, i - 1), Root[i]) = SubSeq(Root, 1, i)
      BY <1>1
    <2> QED
      BY <2>3, <2>4
  <1> HIDE DEF S
  <1>7. \A i \in 0 .. n : i \in S
    BY <1>1, <1>5, <1>6, InductionTo
  <1> QED
    BY <1>7 DEF S, r, joined

\* A key none of whose prefixes leaves the root is joined as it is cleaned.
LEMMA JoinedIsClean ==
    ASSUME NEW k \in Paths, \A i \in 0 .. Len(k) : Depths(k)[i] >= 0
    PROVE  Resolved(k) = Root \o Clean(k)
  <1> DEFINE n == Len(k)
             joined == Root \o k
             r == RootedCleaning(joined)
             c == Cleaning(k)
             d == Depths(k)
             S == {i \in 0 .. n : r[Len(Root) + i] = Root \o c[i]}
  <1>1. n \in Nat /\ Len(Root) \in Nat /\ Root \in Paths
    BY RootIsPath DEF Paths
  <1>2. /\ joined \in Paths /\ Len(joined) = Len(Root) + n
        /\ \A i \in 1 .. n : joined[Len(Root) + i] = k[i] /\ k[i] \in Segments
    BY <1>1 DEF Paths
  <1>3. \A i \in 1 .. Len(Root) + n : r[i] = RootedStep(r[i - 1], joined[i])
    <2> HIDE DEF joined
    <2> QED
      BY <1>2, RootedCleaningIs
  <1>4. r[Len(Root)] = Root
    <2>1. r[Len(Root)] = SubSeq(Root, 1, Len(Root))
      BY <1>1, RootIsClean
    <2> QED
      BY <1>1, <2>1 DEF Paths
  <1>5. /\ c[0] = <<>> /\ \A i \in 0 .. n : c[i] \in Paths
        /\ \A i \in 1 .. n : c[i] = Step(c[i - 1], k[i])
    BY CleaningIs
  <1>6. /\ \A i \in 0 .. n : d[i] \in Nat /\ Inside(c[i], d[i])
        /\ \A i \in 1 .. n : d[i] = d[i - 1] + Way(k[i])
    <2>1. \A i \in 0 .. n : d[i] \in Nat
      BY DepthsIs
    <2>2. \A i \in 0 .. n : Inside(c[i], d[i])
      <3> SUFFICES ASSUME NEW i \in 0 .. n
                   PROVE  Inside(c[i], d[i])
        OBVIOUS
      <3>1. ~\E j \in 0 .. i : d[j] < 0
        <4> HIDE DEF d
        <4> QED
          BY <1>1, <2>1
      <3> QED
        BY <3>1, CleaningTells
    <2> QED
      BY <2>1, <2>2, DepthsIs
  <1> HIDE DEF r, joined, c, d, n
  <1>7. 0 \in S
    <2>1. Root \o c[0] = Root
      BY <1>1, <1>5 DEF Paths
    <2> QED
      BY <1>1, <1>4, <2>1
  <1>8. ASSUME NEW i \in 1 .. n, i - 1 \in S
        PROVE  i \in S
    <2>1. i - 1 \in 0 .. n /\ Len(Root) + i \in 1 .. Len(Root) + n
          /\ Len(Root) + i - 1 = Len(Root) + (i - 1)
      BY <1>1
    <2>2. r[Len(Root) + i] = RootedStep(Root \o c[i - 1], k[i])
      <3>1. r[Len(Root) + i] = RootedStep(r[Len(Root) + i - 1], joined[Len(Root) + i])
        BY <1>3, <2>1
      <3>2. r[Len(Root) + (i - 1)] = Root \o c[i - 1]
        BY <1>8
      <3> QED
        BY <1>2, <2>1, <3>1, <3>2
    <2>3. d[i] \in Nat /\ d[i - 1] \in Nat /\ d[i] = d[i - 1] + Way(k[i]) /\ k[i] \in Segments
      BY <1>1, <1>2, <1>6, <2>1
    <2>4. RootedStep(Root \o c[i - 1], k[i]) = Root \o Step(c[i - 1], k[i])
      <3>1. c[i - 1] \in Paths /\ Inside(c[i - 1], d[i - 1]) /\ d[i - 1] + Way(k[i]) >= 0
        BY <1>5, <1>6, <2>1, <2>3
      <3> QED
        BY <2>3, <3>1, JoinedStep
    <2>5. r[Len(Root) + i] = Root \o c[i]
      BY <1>5, <2>2, <2>4
    <2> QED
      BY <1>1, <2>5
  <1> HIDE DEF S
  <1>9. \A i \in 0 .. n : i \in S
    BY <1>1, <1>7, <1>8, InductionTo
  <1>10. r[Len(Root) + n] = Root \o c[n]
    BY <1>1, <1>9 DEF S
  <1> QED
    BY <1>2, <1>10 DEF Resolved, Clean, r, joined, c, n

\* A key that stays below the root is joined to a path below it.
LEMMA ResolvedIsBelow ==
    ASSUME NEW k \in Paths, k # <<>>, StaysBelowRoot(k)
    PROVE  IsStrictPrefix(Root, Resolved(k))
  <1> DEFINE path == Clean(k)
  <1>1. Len(k) \in Nat \ {0} /\ Len(k) \in 0 .. Len(k)
    BY PathFacts
  <1>2. Resolved(k) = Root \o path
    <2>1. Depths(k)[0] = 0
      BY DepthsIs
    <2>2. \A i \in 0 .. Len(k) : Depths(k)[i] >= 0
      BY <1>1, <2>1 DEF StaysBelowRoot
    <2> QED
      BY <2>2, JoinedIsClean
  <1>3. path \in Paths
    BY <1>1, CleaningIs DEF Clean
  <1>4. path # <<>>
    BY EscapesTells DEF Escapes
  <1> HIDE DEF path
  <1>5. Root \in Paths /\ Len(Root) \in Nat /\ Len(path) \in Nat /\ Len(path) >= 1
    BY <1>3, <1>4, RootIsPath, PathFacts
  <1>6. /\ Root \o path \in Paths /\ Len(Root \o path) = Len(Root) + Len(path)
        /\ \A i \in 1 .. Len(Root) : (Root \o path)[i] = Root[i]
    BY <1>3, <1>5, ConcatProperties DEF Paths
  <1>7. SubSeq(Root, 1, Len(Root)) = SubSeq(Root \o path, 1, Len(Root))
    BY <1>5, <1>6 DEF Paths
  <1>8. Len(Root) <= Len(Root \o path) /\ Root # Root \o path
    BY <1>5, <1>6
  <1> QED
    BY <1>2, <1>7, <1>8 DEF IsPrefix, IsStrictPrefix

\* Every key, of any length.
LEMMA EveryKeyLeadsBelow ==
    ASSUME NEW k \in Paths, k # <<>>
    PROVE  LeadsBelowRoot(k)
  <1>1. Head(k) # "" => k # <<"">>
    <2>1. Head(<<"">>) = ""
      OBVIOUS
    <2> QED
      BY <2>1, Zenon
  <1>2. ~Escapes(k) <=> StaysBelowRoot(k)
    BY EscapesTells
  <1>3. StaysBelowRoot(k) => IsStrictPrefix(Root, Resolved(k))
    BY ResolvedIsBelow
  <1> QED
    BY <1>1, <1>2, <1>3, ZenonT(30) DEF LeadsBelowRoot, Accepted

\* validateStorageKey and resolve agree on every relative, portable key of any
\* length: accepted are those of which no prefix leaves the root and the whole is
\* not the root, and each is joined to a path strictly below it.
THEOREM EveryKeyIsJudged == \A k \in Seq(Segments) \ {<<>>} : LeadsBelowRoot(k)
  BY EveryKeyLeadsBelow DEF Paths

\* So the storage never touches a file outside its root, whatever the root, the
\* names and the bound on the keys.
THEOREM KeysAreKeptBelow == Spec => []KeysLeadBelowRoot
  <1>1. ASSUME NEW k \in SomeKeys
        PROVE  LeadsBelowRoot(k)
    <2>1. PICK n \in 1 .. MaxSegments : k \in [1 .. n -> Segments]
      BY <1>1 DEF SomeKeys
    <2>2. n \in Nat /\ n # 0
      OBVIOUS
    <2>3. k \in Seq(Segments) /\ Len(k) = n
      BY <2>1, <2>2
    <2> QED
      BY <2>2, <2>3, EmptySeq, EveryKeyIsJudged
  <1>2. KeysLeadBelowRoot
    BY <1>1, Zenon DEF KeysLeadBelowRoot
  <1> QED
    BY <1>2, PTL
=============================================================================

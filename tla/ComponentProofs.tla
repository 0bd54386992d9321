---------------------------- MODULE ComponentProofs ----------------------------
(***************************************************************************)
(* The components that MCComponents checks side by side, each by itself:   *)
(* for every value of its constants, the invariant that holds its safety   *)
(* property up, the steps that keep it, and the theorem; then the types of *)
(* their variables, and that all of it holds of the composition.           *)
(***************************************************************************)
EXTENDS MCComponents, TimescaleStoreProofs, SequenceFacts, FiniteSetTheorems,
        WellFoundedInduction

--------------------------------------------------------------------------------
(* Facts of more than one component                                           *)

\* A set of natural numbers has a least one.
LEMMA LeastNatural ==
  ASSUME NEW S \in SUBSET Nat, S # {}
  PROVE  \E m \in S : \A k \in S : m <= k
<1> DEFINE Below(n) == 0..(n - 1)
           T == {Below(n) : n \in S}
<1>1. T \subseteq FiniteSubsetsOf(Nat) /\ T # {}
  <2>1. ASSUME NEW n \in S PROVE IsFiniteSet(Below(n)) /\ Below(n) \subseteq Nat
    BY FS_Interval
  <2> QED BY <2>1 DEF FiniteSubsetsOf
<1>2. PICK x \in T : \A y \in T : ~ (<<y, x>> \in StrictSubsetOrdering(Nat))
  BY <1>1, FS_StrictSubsetOrderingWellFounded, WFMin
<1>3. PICK m \in S : x = Below(m) OBVIOUS
<1>4. ASSUME NEW k \in S, k < m PROVE FALSE
  <2>1. Below(k) \subseteq Below(m) BY <1>4
  <2>2. k \in Below(m) /\ k \notin Below(k) BY <1>4
  <2>3. Below(k) \in SUBSET Nat /\ Below(m) \in SUBSET Nat /\ Below(k) \in T
    OBVIOUS
  <2>4. ~ (<<Below(k), Below(m)>> \in StrictSubsetOrdering(Nat)) BY <1>2, <1>3, <2>3
  <2> HIDE DEF Below, T
  <2> QED BY <2>1, <2>2, <2>3, <2>4 DEF StrictSubsetOrdering
<1> QED BY <1>4

\* A finite set of places has one of the largest of their values, and the first of those.
LEMMA FirstOfLargest ==
  ASSUME NEW n \in Nat, NEW P \in SUBSET (1..n), P # {}, NEW size \in [P -> Nat]
  PROVE  LET largest == {i \in P : \A j \in P : size[j] <= size[i]}
         IN  \E i \in largest : \A j \in largest : i <= j
<1> DEFINE Above(i) == {j \in P : size[j] > size[i]}
           counts == {Cardinality(Above(i)) : i \in P}
           largest == {i \in P : \A j \in P : size[j] <= size[i]}
<1>1. IsFiniteSet(P)
  <2>1. IsFiniteSet(1..n) BY FS_Interval
  <2> QED BY <2>1, FS_Subset
<1>2. ASSUME NEW i \in P PROVE IsFiniteSet(Above(i)) /\ Cardinality(Above(i)) \in Nat
  <2>1. Above(i) \in SUBSET P OBVIOUS
  <2>2. IsFiniteSet(Above(i)) BY <1>1, <2>1, FS_Subset
  <2> QED BY <2>2, FS_CardinalityType
<1>3. PICK m \in counts : \A k \in counts : m <= k
  <2>1. counts \in SUBSET Nat /\ counts # {} BY <1>2
  <2> QED BY <2>1, LeastNatural
<1>4. PICK i \in P : m = Cardinality(Above(i)) OBVIOUS
<1>5. ASSUME NEW j \in P, size[j] > size[i] PROVE FALSE
  <2>1. Above(j) \in SUBSET Above(i) /\ j \in Above(i) /\ j \notin Above(j)
    <3>1. \A k \in P : size[k] \in Nat OBVIOUS
    <3>2. \A k \in P : size[k] > size[j] => size[k] > size[i] BY <1>5, <3>1
    <3>3. ~(size[j] > size[j]) BY <3>1
    <3> QED BY <1>5, <3>2, <3>3
  <2>2. Cardinality(Above(j)) <= Cardinality(Above(i))
        /\ (Cardinality(Above(i)) = Cardinality(Above(j)) => Above(i) = Above(j))
    BY <1>2, <2>1, FS_Subset
  <2>3. Cardinality(Above(i)) <= Cardinality(Above(j)) BY <1>3, <1>4
  <2>4. Cardinality(Above(i)) \in Nat /\ Cardinality(Above(j)) \in Nat BY <1>2, <1>4
  <2> HIDE DEF Above
  <2>5. Cardinality(Above(i)) = Cardinality(Above(j)) BY <2>2, <2>3, <2>4
  <2> QED BY <2>1, <2>2, <2>5
<1>6. i \in largest
  <2>1. \A j \in P : size[j] \in Nat OBVIOUS
  <2>2. ASSUME NEW j \in P PROVE size[j] <= size[i] BY <1>5, <2>1
  <2>3. i \in P BY <1>4
  <2> QED BY <2>2, <2>3
<1>7. largest # {} /\ largest \in SUBSET Nat
  <2>1. P \in SUBSET Nat OBVIOUS
  <2>2. largest \in SUBSET P OBVIOUS
  <2>3. largest # {} BY <1>6
  <2> HIDE DEF largest
  <2> QED BY <2>1, <2>2, <2>3
<1>8. \E k \in largest : \A j \in largest : k <= j BY <1>7, LeastNatural
<1> QED BY <1>8

\* A function on 1..n is a sequence of length n.
LEMMA FunctionLen ==
  ASSUME NEW S, NEW n \in Nat, NEW f \in [1..n -> S]
  PROVE  Len(f) = n /\ f \in Seq(S)
<1>1. f \in Seq(S) /\ DOMAIN f = 1..n
  <2>1. [i \in 1..n |-> f[i]] \in Seq(S) OBVIOUS
  <2> QED BY <2>1
<1>2. DOMAIN f = 1..Len(f) /\ Len(f) \in Nat BY <1>1, LenProperties
<1>3. 1..n = 1..Len(f) BY <1>1, <1>2
<1>4. n = Len(f)
  <2>1. CASE n = 0
    <3>1. 1 \notin 1..Len(f) BY <1>3, <2>1
    <3> QED BY <1>2, <2>1, <3>1
  <2>2. CASE n # 0
    <3>1. n \in 1..Len(f) /\ n + 1 \notin 1..Len(f) BY <1>3, <2>2
    <3> QED BY <1>2, <3>1
  <2> QED BY <2>1, <2>2
<1> QED BY <1>1, <1>4

--------------------------------------------------------------------------------
(* The event bus                                                               *)

Awaits == {"idle", "start", "enqueue", "dequeue", "process", "ended"}
RunRecord == [kind : Kinds, sent : Int, done : Int, hand : Int, at : Awaits]

BusTypes ==
    /\ busMode \in Kinds /\ run \in [BootRun -> RunRecord]
    /\ taken \in [BootRun \cup {Shared} -> Int] /\ members \subseteq BootRun
    /\ position \in (BootRun \cup {Shared}) \X Int /\ processed \in Seq(BootRun \X Int)

\* A run has the bus of the mode or the in-memory one; the group has only runs that came to
\* it, and the partition is a member's.
Groups ==
    /\ \A r \in BootRun : /\ run[r].kind \in {busMode, "inmemory"}
                          /\ run[r].at = "start" => run[r].kind = "kafka"
    /\ \A r \in members : run[r].kind = "kafka" /\ run[r].at \notin {"idle", "start"}
    /\ position = Unassigned \/ position[1] \in members

\* Run r does not come to place n again: the queue is beyond it, or the consumer is, and a
\* run whose partition was taken away has left the group for good.
Behind(r, n) ==
    IF run[r].kind # "kafka" THEN n <= taken[QueueOf(r)]
    ELSE IF position[1] = r THEN n <= position[2]
    ELSE r \notin members /\ run[r].at = "ended"

\* No place is before a run that it has processed or has in hand, and it has in hand a later
\* one than it processed.
InOrderOfQueue ==
    /\ \A r \in BootRun : run[r].at = "process" => Behind(r, run[r].hand)
    /\ \A i \in DOMAIN processed : \A r \in BootRun : processed[i][1] = r =>
         /\ run[r].at # "idle" /\ Behind(r, processed[i][2])
         /\ run[r].at = "process" => processed[i][2] < run[r].hand
    /\ \A i, j \in DOMAIN processed :
         i < j /\ processed[i][1] = processed[j][1] => processed[i][2] < processed[j][2]

\* What a run has in hand nobody else has in hand or has processed.
OneTaker ==
    busMode # "kafka" =>
      /\ \A r, s \in BootRun :
           r # s /\ run[r].at = "process" /\ run[s].at = "process" /\ QueueOf(r) = QueueOf(s)
             => run[r].hand # run[s].hand
      /\ \A i \in DOMAIN processed : \A r, s \in BootRun :
           run[r].at = "process" /\ processed[i][1] = s /\ QueueOf(r) = QueueOf(s)
             => processed[i][2] # run[r].hand
      /\ \A i, j \in DOMAIN processed : \A r, s \in BootRun :
           i # j /\ processed[i][1] = r /\ processed[j][1] = s /\ QueueOf(r) = QueueOf(s)
             => processed[i][2] # processed[j][2]

BusInv == BusTypes /\ Groups /\ InOrderOfQueue /\ OneTaker

\* A step that hands out nothing and processes nothing.
LEMMA QuietStep ==
  ASSUME BusInv, BusTypes', Groups', busMode' = busMode, processed' = processed,
         \A r \in BootRun : /\ run[r].at # "idle" => /\ run'[r].kind = run[r].kind
                                                     /\ run'[r].at # "idle"
                            /\ run'[r].at = "process" => /\ run[r].at = "process"
                                                         /\ run'[r].hand = run[r].hand,
         \A r \in BootRun : \A n \in Int : run[r].at # "idle" /\ Behind(r, n) => Behind(r, n)'
  PROVE  BusInv'
<1>1. \A r \in BootRun : run[r].at # "idle" => QueueOf(r)' = QueueOf(r)
  BY DEF QueueOf
<1>2. \A r \in BootRun : run'[r].at = "process" => run[r].at # "idle" /\ run[r].hand \in Int
  BY DEF BusInv, BusTypes, RunRecord
<1>3. \A i \in DOMAIN processed : /\ processed[i] \in BootRun \X Int
                                  /\ processed[i][1] \in BootRun /\ processed[i][2] \in Int
  <2>1. processed \in Seq(BootRun \X Int) BY DEF BusInv, BusTypes
  <2> QED BY <2>1, ElementOfSeq, LenProperties
<1>4. \A i \in DOMAIN processed : run[processed[i][1]].at # "idle"
  BY <1>3 DEF BusInv, InOrderOfQueue
<1>5. InOrderOfQueue'
  <2>1. ASSUME NEW r \in BootRun, run'[r].at = "process" PROVE Behind(r, run[r].hand)'
    <3>1. run[r].at = "process" /\ Behind(r, run[r].hand) BY <2>1 DEF BusInv, InOrderOfQueue
    <3>2. PICK n \in Int : n = run[r].hand BY <1>2, <2>1
    <3>3. n = run'[r].hand BY <2>1, <3>2
    <3>4. Behind(r, n)' BY <1>2, <2>1, <3>1, <3>2
    <3> QED BY <3>3, <3>4 DEF Behind
  <2>2. ASSUME NEW i \in DOMAIN processed, NEW r \in BootRun, processed[i][1] = r
        PROVE  /\ run'[r].at # "idle" /\ Behind(r, processed[i][2])'
               /\ run'[r].at = "process" => processed[i][2] < run'[r].hand
    <3>1. /\ run[r].at # "idle" /\ Behind(r, processed[i][2])
          /\ run[r].at = "process" => processed[i][2] < run[r].hand
      BY <2>2 DEF BusInv, InOrderOfQueue
    <3>2. PICK n \in Int : n = processed[i][2] BY <1>3
    <3>3. n = processed'[i][2] BY <3>2
    <3>4. Behind(r, n)' BY <3>1, <3>2
    <3> QED BY <3>1, <3>3, <3>4 DEF Behind
  <2> QED BY <2>1, <2>2 DEF BusInv, InOrderOfQueue
<1>6. OneTaker' BY <1>1, <1>2, <1>3, <1>4 DEF BusInv, OneTaker
<1> QED BY <1>5, <1>6 DEF BusInv

\* What the steps below start from.
LEMMA BusNow ==
  ASSUME BusInv
  PROVE  /\ busMode \in Kinds /\ run \in [BootRun -> RunRecord]
         /\ taken \in [BootRun \cup {Shared} -> Int] /\ members \subseteq BootRun
         /\ position \in (BootRun \cup {Shared}) \X Int /\ processed \in Seq(BootRun \X Int)
         /\ Groups
  BY DEF BusInv, BusTypes

\* What is processed is a run of the process with its number of an event.
LEMMA ProcessedFacts ==
  ASSUME BusInv, NEW i \in DOMAIN processed
  PROVE  /\ processed[i][1] \in BootRun /\ processed[i][2] \in Int
         /\ run[processed[i][1]].at # "idle" /\ Behind(processed[i][1], processed[i][2])
<1>1. processed \in Seq(BootRun \X Int) BY DEF BusInv, BusTypes
<1>2. processed[i] \in BootRun \X Int BY <1>1, ElementOfSeq, LenProperties
<1> QED BY <1>2 DEF BusInv, InOrderOfQueue

\* What a run has taken is behind it, and stays so while its place in the queue does not change.
LEMMA OthersBehind ==
  ASSUME NEW r \in BootRun, NEW n \in Int, Behind(r, n), run'[r] = run[r],
         UNCHANGED <<taken, members, position>>
  PROVE  Behind(r, n)'
  BY DEF Behind, QueueOf

\* The steps of a run and of the broker, each of which keeps the invariant.
LEMMA BeginRunStep ==
  ASSUME BusInv, NEW r \in BootRun, BeginRun(r)
  PROVE  BusInv'
<1>1. /\ run[r].at = "idle"
      /\ UNCHANGED <<busMode, busLog, taken, members, position, processed, busFaults>>
  BY DEF BeginRun
<1>2. PICK kind \in {busMode, "inmemory"} :
        run' = [run EXCEPT ![r].kind = kind,
                           ![r].at = IF kind = "kafka" THEN "start" ELSE "enqueue"]
  BY DEF BeginRun, BuildEventBus
<1>3. kind \in Kinds BY <1>2, BusNow DEF Kinds
<1>4. /\ run' \in [BootRun -> RunRecord]
      /\ run'[r].kind = kind /\ run'[r].at = IF kind = "kafka" THEN "start" ELSE "enqueue"
      /\ \A s \in BootRun : s # r => run'[s] = run[s]
  BY <1>2, <1>3, BusNow, ZenonT(30) DEF RunRecord, Awaits
<1>5. BusTypes' BY <1>1, <1>4 DEF BusInv, BusTypes
<1>6. Groups'
  <2>1. r \notin members BY <1>1, BusNow DEF Groups
  <2> QED BY <1>1, <1>2, <1>4, <2>1, BusNow DEF Groups
<1>7. ASSUME NEW s \in BootRun, NEW n \in Int, run[s].at # "idle", Behind(s, n)
      PROVE  Behind(s, n)'
  BY <1>1, <1>4, <1>7, OthersBehind
<1>8. ASSUME NEW s \in BootRun
      PROVE  /\ run[s].at # "idle" => run'[s].kind = run[s].kind /\ run'[s].at # "idle"
             /\ run'[s].at = "process" => run[s].at = "process" /\ run'[s].hand = run[s].hand
  BY <1>1, <1>4
<1> QED BY <1>1, <1>5, <1>6, <1>7, <1>8, QuietStep

LEMMA EnsureKafkaStep ==
  ASSUME BusInv, NEW r \in BootRun, EnsureKafka(r)
  PROVE  BusInv'
<1>1. /\ run[r].at = "start" /\ run' = [run EXCEPT ![r].at = "enqueue"]
      /\ members' = members \cup {r}
      /\ UNCHANGED <<busMode, busLog, taken, position, processed, busFaults>>
  BY DEF EnsureKafka
<1>2. /\ run' \in [BootRun -> RunRecord] /\ run'[r].at = "enqueue"
      /\ run'[r].kind = run[r].kind /\ \A s \in BootRun : s # r => run'[s] = run[s]
  BY <1>1, BusNow DEF RunRecord, Awaits
<1>3. BusTypes' BY <1>1, <1>2 DEF BusInv, BusTypes
<1>4. run[r].kind = "kafka" /\ r \notin members /\ position[1] # r
  BY <1>1, BusNow, BusAssumption DEF Groups, Unassigned
<1>5. Groups' BY <1>1, <1>2, <1>4, BusNow DEF Groups
<1>6. ASSUME NEW s \in BootRun, NEW n \in Int, Behind(s, n)
      PROVE  Behind(s, n)'
  <2>1. s # r BY <1>1, <1>4, <1>6 DEF Behind
  <2> QED BY <1>1, <1>2, <1>6, <2>1 DEF Behind, QueueOf
<1>7. ASSUME NEW s \in BootRun
      PROVE  /\ run[s].at # "idle" => run'[s].kind = run[s].kind /\ run'[s].at # "idle"
             /\ run'[s].at = "process" => run[s].at = "process" /\ run'[s].hand = run[s].hand
  BY <1>2
<1> QED BY <1>1, <1>3, <1>5, <1>6, <1>7, QuietStep

LEMMA EnqueueStep ==
  ASSUME BusInv, NEW r \in BootRun, Enqueue(r)
  PROVE  BusInv'
<1>1. /\ run[r].at = "enqueue"
      /\ UNCHANGED <<busMode, taken, members, position, processed, busFaults>>
      /\ run' = [run EXCEPT ![r].sent = run[r].sent + 1,
                            ![r].at = IF run[r].sent + 1 = EventCount THEN "dequeue" ELSE "enqueue"]
  BY DEF Enqueue, Sent
<1>2. /\ run' \in [BootRun -> RunRecord] /\ run'[r].at \in {"dequeue", "enqueue"}
      /\ run'[r].kind = run[r].kind /\ \A s \in BootRun : s # r => run'[s] = run[s]
  <2>1. run[r] \in RunRecord BY BusNow
  <2>2. PICK rec \in RunRecord : rec = run[r] BY <2>1
  <2>3. PICK n \in Int : n = rec.sent + 1 BY DEF RunRecord
  <2>4. PICK a \in {"dequeue", "enqueue"} :
          a = IF rec.sent + 1 = EventCount THEN "dequeue" ELSE "enqueue"
    OBVIOUS
  <2> DEFINE new == [rec EXCEPT !.sent = n, !.at = a]
  <2>5. new \in RunRecord /\ new.at = a /\ new.kind = rec.kind BY DEF RunRecord, Awaits
  <2>6. run' = [run EXCEPT ![r] = new] BY <1>1, <2>2, <2>3, <2>4, BusNow
  <2> HIDE DEF new
  <2> QED BY <2>2, <2>4, <2>5, <2>6, BusNow
<1>3. BusTypes' BY <1>1, <1>2 DEF BusInv, BusTypes
<1>4. Groups' BY <1>1, <1>2, BusNow DEF Groups
<1>5. ASSUME NEW s \in BootRun, NEW n \in Int, Behind(s, n)
      PROVE  Behind(s, n)'
  BY <1>1, <1>2, <1>5 DEF Behind, QueueOf
<1>6. ASSUME NEW s \in BootRun
      PROVE  /\ run[s].at # "idle" => run'[s].kind = run[s].kind /\ run'[s].at # "idle"
             /\ run'[s].at = "process" => run[s].at = "process" /\ run'[s].hand = run[s].hand
  BY <1>1, <1>2
<1> QED BY <1>1, <1>3, <1>4, <1>5, <1>6, QuietStep

LEMMA FaultStep ==
  ASSUME BusInv, NEW r \in BootRun, run[r].at # "idle", Fault(r)
  PROVE  BusInv'
<1>1. /\ run' = [run EXCEPT ![r].at = "ended", ![r].hand = 0]
      /\ UNCHANGED <<busMode, taken, members, position, processed>>
  BY DEF Fault
<1>2. /\ run' \in [BootRun -> RunRecord] /\ run'[r].at = "ended"
      /\ run'[r].kind = run[r].kind /\ \A s \in BootRun : s # r => run'[s] = run[s]
  <2>1. run[r] \in RunRecord BY BusNow
  <2>2. PICK rec \in RunRecord : rec = run[r] BY <2>1
  <2>3. PICK h \in Int : h = 0 OBVIOUS
  <2> DEFINE new == [rec EXCEPT !.at = "ended", !.hand = h]
  <2>4. new \in RunRecord /\ new.at = "ended" /\ new.kind = rec.kind BY DEF RunRecord, Awaits
  <2>5. run' = [run EXCEPT ![r] = new] BY <1>1, <2>2, <2>3, BusNow
  <2> HIDE DEF new
  <2> QED BY <2>2, <2>4, <2>5, BusNow
<1>3. BusTypes' BY <1>1, <1>2 DEF BusInv, BusTypes
<1>4. Groups' BY <1>1, <1>2, BusNow DEF Groups
<1>5. ASSUME NEW s \in BootRun, NEW n \in Int, Behind(s, n)
      PROVE  Behind(s, n)'
  BY <1>1, <1>2, <1>5 DEF Behind, QueueOf
<1>6. ASSUME NEW s \in BootRun
      PROVE  /\ run[s].at # "idle" => run'[s].kind = run[s].kind /\ run'[s].at # "idle"
             /\ run'[s].at = "process" => run[s].at = "process" /\ run'[s].hand = run[s].hand
  BY <1>2
<1> QED BY <1>1, <1>3, <1>4, <1>5, <1>6, QuietStep

LEMMA AssignStep ==
  ASSUME BusInv, NEW r \in BootRun, Assign(r)
  PROVE  BusInv'
<1>1. /\ position = Unassigned /\ r \in members /\ position' = <<r, taken[Shared]>>
      /\ UNCHANGED <<busMode, run, busLog, taken, members, processed, busFaults>>
  BY DEF Assign
<1>2. position' \in (BootRun \cup {Shared}) \X Int /\ position'[1] = r
  <2>1. taken[Shared] \in Int BY BusNow
  <2> QED BY <1>1, <2>1
<1>3. BusTypes' BY <1>1, <1>2 DEF BusInv, BusTypes
<1>4. Groups' BY <1>1, <1>2, BusNow DEF Groups
<1>5. ASSUME NEW s \in BootRun, NEW n \in Int, Behind(s, n)
      PROVE  Behind(s, n)'
  <2>1. position[1] = Shared BY <1>1 DEF Unassigned
  <2> QED BY <1>1, <1>2, <1>5, <2>1, BusAssumption DEF Behind, QueueOf
<1> QED BY <1>1, <1>3, <1>4, <1>5, QuietStep

LEMMA AutoCommitStep ==
  ASSUME BusInv, AutoCommit
  PROVE  BusInv'
<1>1. /\ position # Unassigned /\ taken' = [taken EXCEPT ![Shared] = position[2]]
      /\ UNCHANGED <<busMode, run, busLog, members, position, processed, busFaults>>
  BY DEF AutoCommit
<1>2. /\ taken' \in [BootRun \cup {Shared} -> Int]
      /\ \A q \in BootRun : q # Shared => taken'[q] = taken[q]
  BY <1>1, BusNow
<1>3. BusTypes' BY <1>1, <1>2 DEF BusInv, BusTypes
<1>4. Groups' BY <1>1, BusNow DEF Groups
<1>5. busMode = "kafka" BY <1>1, BusNow DEF Groups
<1>6. ASSUME NEW s \in BootRun, NEW n \in Int, Behind(s, n)
      PROVE  Behind(s, n)'
  <2>1. CASE run[s].kind = "kafka" BY <1>1, <1>6, <2>1 DEF Behind
  <2>2. CASE run[s].kind # "kafka"
    <3>1. run[s].kind = "inmemory" BY <1>5, <2>2, BusNow DEF Groups
    <3>2. QueueOf(s) = s /\ s # Shared BY <3>1, BusAssumption DEF QueueOf
    <3>3. QueueOf(s)' = s BY <1>1, <3>1 DEF QueueOf
    <3> QED BY <1>1, <1>2, <1>6, <2>2, <3>2, <3>3 DEF Behind
  <2> QED BY <2>1, <2>2
<1> QED BY <1>1, <1>3, <1>4, <1>6, QuietStep

LEMMA LeaveGroupStep ==
  ASSUME BusInv, NEW r \in BootRun, LeaveGroup(r)
  PROVE  BusInv'
<1>1. /\ r \in members /\ run[r].at = "ended" /\ members' = members \ {r}
      /\ position' = IF position[1] = r THEN Unassigned ELSE position
      /\ UNCHANGED <<busMode, run, busLog, taken, processed, busFaults>>
  BY DEF LeaveGroup
<1>2. Unassigned \in (BootRun \cup {Shared}) \X Int /\ Unassigned[1] = Shared BY DEF Unassigned
<1>3. BusTypes' BY <1>1, <1>2 DEF BusInv, BusTypes
<1>4. Groups' BY <1>1, BusNow DEF Groups
<1>5. ASSUME NEW s \in BootRun, NEW n \in Int, Behind(s, n)
      PROVE  Behind(s, n)'
  <2>1. position'[1] = s => position[1] = s /\ position' = position
    BY <1>1, <1>2, BusAssumption
  <2>2. position[1] = s /\ position'[1] # s => s = r BY <1>1
  <2> QED BY <1>1, <1>5, <2>1, <2>2 DEF Behind, QueueOf
<1> QED BY <1>1, <1>3, <1>4, <1>5, QuietStep

LEMMA DequeueStep ==
  ASSUME BusInv, NEW r \in BootRun, Dequeue(r)
  PROVE  BusInv'
<1>1. run[r].at = "dequeue" /\ UNCHANGED <<busMode, busLog, members, processed, busFaults>>
  BY DEF Dequeue
<1>2. /\ run[r] \in RunRecord /\ QueueOf(r) \in BootRun \cup {Shared}
      /\ taken[QueueOf(r)] \in Int /\ position[2] \in Int
      /\ position \in (BootRun \cup {Shared}) \X Int
  BY BusNow DEF QueueOf
<1>3. PICK h \in Int : h = NextPlace(r)
  BY <1>2 DEF NextPlace
<1>4. /\ run' \in [BootRun -> RunRecord]
      /\ run'[r].at = "process" /\ run'[r].hand = h /\ run'[r].kind = run[r].kind
      /\ \A s \in BootRun : s # r => run'[s] = run[s]
  <2>1. PICK rec \in RunRecord : rec = run[r] BY <1>2
  <2> DEFINE new == [rec EXCEPT !.at = "process", !.hand = h]
  <2>2. /\ new \in RunRecord /\ new.at = "process" /\ new.hand = h /\ new.kind = rec.kind
    BY DEF RunRecord, Awaits
  <2>3. run' = [run EXCEPT ![r] = new] BY <1>3, <2>1, BusNow DEF Dequeue
  <2> HIDE DEF new
  <2> QED BY <2>1, <2>2, <2>3, BusNow
<1>5. \A s \in BootRun : QueueOf(s)' = QueueOf(s) BY <1>4 DEF QueueOf
<1>6. /\ BusTypes' /\ Groups' /\ Behind(r, h)'
      /\ \A s \in BootRun : \A n \in Int : Behind(s, n) => Behind(s, n)'
      /\ \A n \in Int : Behind(r, n) => n < h
      /\ busMode # "kafka" =>
           \A s \in BootRun : \A n \in Int : QueueOf(s) = QueueOf(r) /\ Behind(s, n) => n < h
  <2>1. CASE run[r].kind = "kafka"
    <3>1. position[1] = r /\ position' = <<r, h>> /\ taken' = taken /\ h = position[2] + 1
      BY <1>3, <2>1 DEF Dequeue, NextPlace
    <3>2. position' \in (BootRun \cup {Shared}) \X Int BY <3>1
    <3>3. BusTypes' BY <1>1, <1>4, <3>1, <3>2 DEF BusInv, BusTypes
    <3>4. r \in members BY <3>1, BusNow, BusAssumption DEF Groups, Unassigned
    <3>5. Groups' BY <1>1, <1>4, <3>1, <3>4, BusNow, ZenonT(30) DEF Groups
    <3>6. position'[1] = r /\ position'[2] = h BY <3>1
    <3>7. Behind(r, h)' BY <1>4, <2>1, <3>6 DEF Behind
    <3>8. ASSUME NEW s \in BootRun, NEW n \in Int, Behind(s, n) PROVE Behind(s, n)'
      <4>1. CASE s = r BY <1>2, <1>4, <2>1, <3>1, <3>6, <3>8, <4>1 DEF Behind
      <4>2. CASE s # r BY <1>1, <1>4, <1>5, <3>1, <3>6, <3>8, <4>2 DEF Behind
      <4> QED BY <4>1, <4>2
    <3>9. \A n \in Int : Behind(r, n) => n < h BY <1>2, <2>1, <3>1 DEF Behind
    <3>10. busMode = "kafka" BY <2>1, BusNow DEF Groups
    <3> QED BY <3>3, <3>5, <3>7, <3>8, <3>9, <3>10
  <2>2. CASE run[r].kind # "kafka"
    <3>1. /\ position' = position /\ h = taken[QueueOf(r)] + 1
          /\ taken' = [taken EXCEPT ![QueueOf(r)] = taken[QueueOf(r)] + 1]
      BY <1>3, <2>2 DEF Dequeue, NextPlace
    <3>2. /\ taken' \in [BootRun \cup {Shared} -> Int] /\ taken'[QueueOf(r)] = h
          /\ \A q \in BootRun \cup {Shared} : q # QueueOf(r) => taken'[q] = taken[q]
      BY <1>2, <3>1, BusNow
    <3>3. BusTypes' BY <1>1, <1>4, <3>1, <3>2 DEF BusInv, BusTypes
    <3>4. Groups' BY <1>1, <1>4, <3>1, BusNow, SMTT(30) DEF Groups
    <3>5. Behind(r, h)' BY <1>4, <1>5, <2>2, <3>2 DEF Behind
    <3>6. ASSUME NEW s \in BootRun, NEW n \in Int, Behind(s, n) PROVE Behind(s, n)'
      <4>1. CASE run[s].kind = "kafka"
        <5>1. s # r BY <2>2, <4>1
        <5> QED BY <1>1, <1>4, <3>1, <3>6, <4>1, <5>1 DEF Behind
      <4>2. CASE run[s].kind # "kafka"
        <5>1. n <= taken[QueueOf(s)] BY <3>6, <4>2 DEF Behind
        <5>2. QueueOf(s) \in BootRun \cup {Shared} /\ taken[QueueOf(s)] \in Int
          BY BusNow DEF QueueOf
        <5>3. n <= taken'[QueueOf(s)]
          <6>1. CASE QueueOf(s) = QueueOf(r) BY <1>2, <3>1, <3>2, <5>1, <5>2, <6>1
          <6>2. CASE QueueOf(s) # QueueOf(r) BY <3>2, <5>1, <5>2, <6>2
          <6> QED BY <6>1, <6>2
        <5>4. run'[s].kind # "kafka" BY <1>4, <2>2, <4>2
        <5> QED BY <1>5, <5>3, <5>4 DEF Behind
      <4> QED BY <4>1, <4>2
    <3>7. \A n \in Int : Behind(r, n) => n < h BY <1>2, <2>2, <3>1 DEF Behind
    <3>8. ASSUME busMode # "kafka", NEW s \in BootRun, NEW n \in Int,
                 QueueOf(s) = QueueOf(r), Behind(s, n)
          PROVE  n < h
      <4>1. run[s].kind # "kafka" BY <3>8, BusNow DEF Groups
      <4> QED BY <1>2, <3>1, <3>8, <4>1 DEF Behind
    <3> QED BY <3>3, <3>4, <3>5, <3>6, <3>7, <3>8
  <2> QED BY <2>1, <2>2
<1>7. InOrderOfQueue'
  <2>1. ASSUME NEW s \in BootRun, run'[s].at = "process" PROVE Behind(s, run[s].hand)'
    <3>1. CASE s = r
      <4>1. run'[s].hand = h /\ Behind(s, h)' BY <1>4, <1>6, <3>1
      <4> QED BY <4>1 DEF Behind
    <3>2. CASE s # r
      <4>1. run[s].at = "process" /\ Behind(s, run[s].hand)
        BY <1>4, <2>1, <3>2 DEF BusInv, InOrderOfQueue
      <4>2. PICK n \in Int : n = run[s].hand BY BusNow DEF RunRecord
      <4>3. n = run'[s].hand /\ Behind(s, n)' BY <1>4, <1>6, <3>2, <4>1, <4>2
      <4> QED BY <4>3 DEF Behind
    <3> QED BY <3>1, <3>2
  <2>2. ASSUME NEW i \in DOMAIN processed, NEW s \in BootRun, processed[i][1] = s
        PROVE  /\ run'[s].at # "idle" /\ Behind(s, processed[i][2])'
               /\ run'[s].at = "process" => processed[i][2] < run'[s].hand
    <3>1. PICK n \in Int : n = processed[i][2] BY ProcessedFacts
    <3>2. run[s].at # "idle" /\ Behind(s, n) BY <2>2, <3>1, ProcessedFacts
    <3>3. n = processed'[i][2] /\ Behind(s, n)' BY <1>1, <1>6, <3>1, <3>2
    <3>4. run'[s].at # "idle" BY <1>4, <3>2
    <3>5. run'[s].at = "process" => n < run'[s].hand
      <4>1. CASE s = r BY <1>4, <1>6, <3>2, <4>1
      <4>2. CASE s # r BY <1>4, <2>2, <3>1, <4>2 DEF BusInv, InOrderOfQueue
      <4> QED BY <4>1, <4>2
    <3> QED BY <3>1, <3>3, <3>4, <3>5 DEF Behind
  <2> QED BY <1>1, <2>1, <2>2 DEF BusInv, InOrderOfQueue
<1>8. OneTaker'
  <2> SUFFICES ASSUME busMode # "kafka" PROVE OneTaker'
    BY <1>1 DEF OneTaker
  <2>1. ASSUME NEW s \in BootRun, s # r, run[s].at = "process", QueueOf(s) = QueueOf(r)
        PROVE  run[s].hand < h
    <3>1. Behind(s, run[s].hand) BY <2>1 DEF BusInv, InOrderOfQueue
    <3>2. run[s].hand \in Int BY BusNow DEF RunRecord
    <3> QED BY <1>6, <2>1, <3>1, <3>2
  <2>2. ASSUME NEW i \in DOMAIN processed, QueueOf(processed[i][1]) = QueueOf(r)
        PROVE  processed[i][2] < h
    BY <1>6, <2>2, ProcessedFacts
  <2>3. \A s \in BootRun : run[s].hand \in Int BY BusNow DEF RunRecord
  <2>4. ASSUME NEW s \in BootRun, NEW u \in BootRun, s # u,
               run'[s].at = "process", run'[u].at = "process", QueueOf(s) = QueueOf(u)
        PROVE  run'[s].hand # run'[u].hand
    <3>1. CASE s = r BY <1>4, <2>1, <2>3, <2>4, <3>1
    <3>2. CASE u = r BY <1>4, <2>1, <2>3, <2>4, <3>2
    <3>3. CASE s # r /\ u # r BY <1>4, <2>4, <3>3 DEF BusInv, OneTaker
    <3> QED BY <3>1, <3>2, <3>3
  <2>5. ASSUME NEW i \in DOMAIN processed, NEW s \in BootRun, NEW u \in BootRun,
               run'[s].at = "process", processed[i][1] = u, QueueOf(s) = QueueOf(u)
        PROVE  processed[i][2] # run'[s].hand
    <3>1. CASE s = r BY <1>4, <2>2, <2>5, <3>1, ProcessedFacts
    <3>2. CASE s # r BY <1>4, <2>5, <3>2 DEF BusInv, OneTaker
    <3> QED BY <3>1, <3>2
  <2>6. ASSUME NEW i \in DOMAIN processed, NEW j \in DOMAIN processed,
               NEW s \in BootRun, NEW u \in BootRun,
               i # j, processed[i][1] = s, processed[j][1] = u, QueueOf(s) = QueueOf(u)
        PROVE  processed[i][2] # processed[j][2]
    BY <2>6 DEF BusInv, OneTaker
  <2> QED BY <1>1, <1>5, <2>4, <2>5, <2>6 DEF OneTaker
<1> QED BY <1>6, <1>7, <1>8 DEF BusInv

LEMMA ProcessStep ==
  ASSUME BusInv, NEW r \in BootRun, Process(r)
  PROVE  BusInv'
<1>1. run[r].at = "process" /\ UNCHANGED <<busMode, busLog, taken, members, position, busFaults>>
  BY DEF Process
<1>2. PICK h \in Int : h = run[r].hand BY BusNow DEF RunRecord
<1>3. /\ run' \in [BootRun -> RunRecord]
      /\ run'[r].at \in {"ended", "dequeue"} /\ run'[r].kind = run[r].kind
      /\ \A s \in BootRun : s # r => run'[s] = run[s]
  <2>1. PICK rec \in RunRecord : rec = run[r] BY BusNow
  <2>2. PICK n \in Int : n = rec.done + 1 BY DEF RunRecord
  <2>3. PICK a \in {"ended", "dequeue"} :
          a = IF rec.done + 1 = EventCount THEN "ended" ELSE "dequeue"
    OBVIOUS
  <2>4. PICK z \in Int : z = 0 OBVIOUS
  <2> DEFINE new == [rec EXCEPT !.done = n, !.hand = z, !.at = a]
  <2>5. new \in RunRecord /\ new.at = a /\ new.kind = rec.kind BY DEF RunRecord, Awaits
  <2>6. run' = [run EXCEPT ![r] = new] BY <2>1, <2>2, <2>3, <2>4, BusNow DEF Process
  <2> HIDE DEF new
  <2> QED BY <2>1, <2>3, <2>5, <2>6, BusNow
<1>4. \A s \in BootRun : QueueOf(s)' = QueueOf(s) BY <1>3 DEF QueueOf
<1> DEFINE last == Len(processed) + 1
<1>5. /\ processed' \in Seq(BootRun \X Int) /\ last \in Nat
      /\ DOMAIN processed = 1..(last - 1) /\ DOMAIN processed' = 1..last
      /\ processed'[last] = <<r, h>>
      /\ \A i \in DOMAIN processed : processed'[i] = processed[i]
  <2>1. processed' = Append(processed, <<r, h>>) BY <1>2 DEF Process
  <2>2. processed \in Seq(BootRun \X Int) /\ <<r, h>> \in BootRun \X Int BY BusNow
  <2>3. /\ processed' \in Seq(BootRun \X Int) /\ Len(processed') = Len(processed) + 1
        /\ \A i \in 1..Len(processed) : processed'[i] = processed[i]
        /\ processed'[Len(processed) + 1] = <<r, h>>
    BY <2>1, <2>2, AppendProperties
  <2>4. /\ DOMAIN processed = 1..Len(processed) /\ Len(processed) \in Nat
        /\ DOMAIN processed' = 1..Len(processed')
    BY <2>2, <2>3, LenProperties
  <2> QED BY <2>3, <2>4
<1> HIDE DEF last
<1>6. \A i \in DOMAIN processed' : i # last => i \in DOMAIN processed
  BY <1>5
<1>7. \A s \in BootRun : \A n \in Int : Behind(s, n) => Behind(s, n)'
  <2>1. \A n \in Int : Behind(r, n) => Behind(r, n)' BY <1>1, <1>3, <1>4 DEF Behind
  <2>2. \A s \in BootRun : s # r => (\A n \in Int : Behind(s, n) => Behind(s, n)')
    BY <1>1, <1>3, <1>4 DEF Behind
  <2> QED BY <2>1, <2>2
<1>8. BusTypes' BY <1>1, <1>3, <1>5 DEF BusInv, BusTypes
<1>9. Groups' BY <1>1, <1>3, BusNow, ZenonT(30) DEF Groups
<1>10. Behind(r, h)' BY <1>1, <1>2, <1>7 DEF BusInv, InOrderOfQueue
<1>11. \A i \in DOMAIN processed : processed[i][1] = r => processed[i][2] < h
  BY <1>1, <1>2 DEF BusInv, InOrderOfQueue
<1>12. InOrderOfQueue'
  <2>1. ASSUME NEW s \in BootRun, run'[s].at = "process" PROVE Behind(s, run[s].hand)'
    <3>1. s # r /\ run'[s] = run[s] BY <1>3, <2>1
    <3>2. Behind(s, run[s].hand) BY <2>1, <3>1 DEF BusInv, InOrderOfQueue
    <3>3. PICK n \in Int : n = run[s].hand BY BusNow DEF RunRecord
    <3>4. n = run'[s].hand /\ Behind(s, n)' BY <1>7, <3>1, <3>2, <3>3
    <3> QED BY <3>4 DEF Behind
  <2>2. ASSUME NEW i \in DOMAIN processed', NEW s \in BootRun, processed'[i][1] = s
        PROVE  /\ run'[s].at # "idle" /\ Behind(s, processed[i][2])'
               /\ run'[s].at = "process" => processed'[i][2] < run'[s].hand
    <3>1. CASE i = last
      <4>1. s = r /\ processed'[i][2] = h BY <1>5, <2>2, <3>1
      <4>2. Behind(s, processed[i][2])' BY <1>10, <4>1 DEF Behind
      <4> QED BY <1>3, <4>1, <4>2
    <3>2. CASE i # last
      <4>1. i \in DOMAIN processed /\ processed'[i] = processed[i] BY <1>5, <1>6, <3>2
      <4>2. PICK n \in Int : n = processed[i][2] BY <4>1, ProcessedFacts
      <4>3. run[s].at # "idle" /\ Behind(s, n) BY <2>2, <4>1, <4>2, ProcessedFacts
      <4>4. n = processed'[i][2] /\ Behind(s, n)' BY <1>7, <4>1, <4>2, <4>3
      <4>5. run'[s].at # "idle" BY <1>3, <4>3
      <4>6. run'[s].at = "process" => n < run'[s].hand
        BY <1>3, <2>2, <4>1, <4>2 DEF BusInv, InOrderOfQueue
      <4> QED BY <4>4, <4>5, <4>6 DEF Behind
    <3> QED BY <3>1, <3>2
  <2>3. ASSUME NEW i \in DOMAIN processed', NEW j \in DOMAIN processed', i < j,
               processed'[i][1] = processed'[j][1]
        PROVE  processed'[i][2] < processed'[j][2]
    <3>1. i # last /\ i \in DOMAIN processed /\ processed'[i] = processed[i] BY <1>5, <1>6, <2>3
    <3>2. CASE j = last BY <1>5, <1>11, <2>3, <3>1, <3>2
    <3>3. CASE j # last
      <4>1. j \in DOMAIN processed /\ processed'[j] = processed[j] BY <1>5, <1>6, <3>3
      <4> QED BY <2>3, <3>1, <4>1 DEF BusInv, InOrderOfQueue
    <3> QED BY <3>2, <3>3
  <2> QED BY <2>1, <2>2, <2>3 DEF InOrderOfQueue
<1>13. OneTaker'
  <2> SUFFICES ASSUME busMode # "kafka" PROVE OneTaker'
    BY <1>1 DEF OneTaker
  <2>1. ASSUME NEW s \in BootRun, NEW u \in BootRun, s # u,
               run'[s].at = "process", run'[u].at = "process", QueueOf(s) = QueueOf(u)
        PROVE  run'[s].hand # run'[u].hand
    <3>1. s # r /\ u # r BY <1>3, <2>1
    <3> QED BY <1>3, <2>1, <3>1 DEF BusInv, OneTaker
  <2>2. ASSUME NEW i \in DOMAIN processed', NEW s \in BootRun, NEW u \in BootRun,
               run'[s].at = "process", processed'[i][1] = u, QueueOf(s) = QueueOf(u)
        PROVE  processed'[i][2] # run'[s].hand
    <3>1. s # r /\ run'[s] = run[s] BY <1>3, <2>2
    <3>2. CASE i = last
      <4>1. u = r /\ processed'[i][2] = run[r].hand BY <1>2, <1>5, <2>2, <3>2
      <4> QED BY <1>1, <2>2, <3>1, <4>1 DEF BusInv, OneTaker
    <3>3. CASE i # last
      <4>1. i \in DOMAIN processed /\ processed'[i] = processed[i] BY <1>5, <1>6, <3>3
      <4> QED BY <2>2, <3>1, <4>1 DEF BusInv, OneTaker
    <3> QED BY <3>2, <3>3
  <2>3. ASSUME NEW i \in DOMAIN processed, NEW u \in BootRun, processed[i][1] = u,
               QueueOf(r) = QueueOf(u)
        PROVE  processed[i][2] # h
    BY <1>1, <1>2, <2>3 DEF BusInv, OneTaker
  <2>4. ASSUME NEW i \in DOMAIN processed', NEW j \in DOMAIN processed',
               NEW s \in BootRun, NEW u \in BootRun,
               i # j, processed'[i][1] = s, processed'[j][1] = u, QueueOf(s) = QueueOf(u)
        PROVE  processed'[i][2] # processed'[j][2]
    <3>1. CASE i = last
      <4>1. j \in DOMAIN processed /\ processed'[j] = processed[j] BY <1>5, <1>6, <2>4, <3>1
      <4>2. s = r /\ processed'[i][2] = h BY <1>5, <2>4, <3>1
      <4> QED BY <2>3, <2>4, <4>1, <4>2
    <3>2. CASE j = last
      <4>1. i \in DOMAIN processed /\ processed'[i] = processed[i] BY <1>5, <1>6, <2>4, <3>2
      <4>2. u = r /\ processed'[j][2] = h BY <1>5, <2>4, <3>2
      <4> QED BY <2>3, <2>4, <4>1, <4>2
    <3>3. CASE i # last /\ j # last
      <4>1. /\ i \in DOMAIN processed /\ processed'[i] = processed[i]
            /\ j \in DOMAIN processed /\ processed'[j] = processed[j]
        BY <1>5, <1>6, <3>3
      <4> QED BY <2>4, <4>1 DEF BusInv, OneTaker
    <3> QED BY <3>1, <3>2, <3>3
  <2> QED BY <1>4, <2>1, <2>2, <2>4 DEF OneTaker
<1> QED BY <1>8, <1>9, <1>12, <1>13 DEF BusInv

\* The invariant of the bus holds when the process starts, and every step keeps it.
LEMMA BusInitInv ==
  ASSUME BusInit
  PROVE  BusInv
<1>1. /\ run = [r \in BootRun |-> NoRun] /\ processed = <<>> /\ members = {}
      /\ position = Unassigned /\ busMode \in Kinds
      /\ taken = [q \in BootRun \cup {Shared} |-> 0]
  BY DEF BusInit
<1>2. NoRun \in RunRecord /\ NoRun.at = "idle" /\ NoRun.kind = "inmemory"
  BY DEF NoRun, RunRecord, Awaits, Kinds
<1>3. \A r \in BootRun : run[r] = NoRun BY <1>1
<1>4. BusTypes
  <2>1. position \in (BootRun \cup {Shared}) \X Int BY <1>1 DEF Unassigned
  <2>2. processed \in Seq(BootRun \X Int) BY <1>1
  <2>3. taken \in [BootRun \cup {Shared} -> Int] BY <1>1
  <2> QED BY <1>1, <1>2, <2>1, <2>2, <2>3 DEF BusTypes
<1>5. Groups BY <1>1, <1>2, <1>3 DEF Groups
<1>6. DOMAIN processed = {} BY <1>1
<1>7. InOrderOfQueue /\ OneTaker BY <1>2, <1>3, <1>6 DEF InOrderOfQueue, OneTaker
<1> QED BY <1>4, <1>5, <1>7 DEF BusInv

LEMMA BusNextInv ==
  ASSUME BusInv, [BusNext]_busVars
  PROVE  BusInv'
<1>1. CASE AutoCommit BY <1>1, AutoCommitStep
<1>2. ASSUME NEW r \in BootRun,
             \/ BeginRun(r) \/ EnsureKafka(r) \/ Enqueue(r) \/ EnqueueRaises(r)
             \/ Dequeue(r) \/ Process(r) \/ RunDies(r) \/ Assign(r) \/ LeaveGroup(r)
      PROVE  BusInv'
  <2>1. CASE EnqueueRaises(r) BY <2>1, FaultStep DEF EnqueueRaises
  <2>2. CASE RunDies(r) BY <2>2, FaultStep DEF RunDies
  <2> QED
    BY <1>2, <2>1, <2>2, BeginRunStep, EnsureKafkaStep, EnqueueStep, DequeueStep, ProcessStep,
       AssignStep, LeaveGroupStep
<1>3. CASE UNCHANGED busVars
  <2>1. UNCHANGED <<busMode, run, taken, members, position, processed>> BY <1>3 DEF busVars
  <2>2. BusTypes' BY <2>1 DEF BusInv, BusTypes
  <2>3. Groups' BY <2>1 DEF BusInv, Groups
  <2>4. \A r \in BootRun : \A n \in Int : Behind(r, n) => Behind(r, n)'
    BY <2>1 DEF Behind, QueueOf
  <2> QED BY <2>1, <2>2, <2>3, <2>4, QuietStep
<1> QED BY <1>1, <1>2, <1>3 DEF BusNext

LEMMA BusInvHolds == BusSpec => []BusInv
  BY BusInitInv, BusNextInv, PTL DEF BusSpec

\* A run processes its events in the order of the queue, and two runs at one broker that removes
\* what it hands out never process the same event: for any number of runs and of events,
\* whichever of them fall back to the queue in memory.
THEOREM BusOnceAndInOrder == BusSpec => []OnceAndInOrder
<1>1. BusInv => OnceAndInOrder
  <2> SUFFICES ASSUME BusInv, NEW i \in DOMAIN processed, NEW j \in DOMAIN processed
               PROVE  /\ i < j /\ processed[i][1] = processed[j][1]
                           => processed[i][2] < processed[j][2]
                      /\ i # j /\ QueueOf(processed[i][1]) = QueueOf(processed[j][1])
                            /\ busMode # "kafka" => processed[i][2] # processed[j][2]
    BY DEF OnceAndInOrder
  <2>1. processed[i][1] \in BootRun /\ processed[j][1] \in BootRun BY ProcessedFacts
  <2>2. i < j /\ processed[i][1] = processed[j][1] => processed[i][2] < processed[j][2]
    BY DEF BusInv, InOrderOfQueue
  <2> QED BY <2>1, <2>2 DEF BusInv, OneTaker
<1> QED BY <1>1, BusInvHolds, PTL

--------------------------------------------------------------------------------
(* The events that are left on the queues                                      *)

Queues == BootRun \cup {Shared}
Places == BootRun \X (1..EventCount)

\* Run r is still to take a k-th event, or has put it there.
Open(r, k) ==
    \/ /\ run[r].at \in {"dequeue", "process"}
       /\ k > run[r].done + (IF run[r].hand = 0 THEN 0 ELSE 1)
    \/ run[r].at = "enqueue" /\ k <= run[r].sent

Slots(q) == {w \in Places : QueueOf(w[1]) = q /\ Open(w[1], w[2])}
Gone(q) == IF q = Shared /\ position # Unassigned THEN position[2] ELSE taken[q]

Counts ==
    \A r \in BootRun :
      /\ run[r].at \in {"idle", "start", "enqueue"} => run[r].done = 0 /\ run[r].hand = 0
      /\ run[r].at \in {"idle", "start"} => run[r].sent = 0
      /\ run[r].at = "enqueue" => run[r].sent \in 0..(EventCount - 1)
      /\ run[r].at \in {"dequeue", "process"} => run[r].done \in 0..(EventCount - 1)
      /\ run[r].at = "dequeue" => run[r].hand = 0
      /\ run[r].at = "process" => run[r].hand > 0

\* The runs that only enqueue so far count with what they have put on the queue; the
\* partition is never behind the offset that was committed.
Spare ==
    /\ \A q \in Queues : taken[q] >= 0 /\ Cardinality(Slots(q)) <= Len(busLog[q]) - Gone(q)
    /\ position # Unassigned => taken[Shared] <= position[2]

Logs == busLog \in [Queues -> Seq(BootRun \X Int)]

StarveInv == BusInv /\ Logs /\ Counts /\ Spare

\* The sets of places are finite, and counted by what they gain and lose.
LEMMA PlacesCount ==
  ASSUME NEW S \in SUBSET Places
  PROVE  /\ IsFiniteSet(S) /\ Cardinality(S) \in Nat
         /\ \A T \in SUBSET S : Cardinality(T) \in Nat /\ Cardinality(T) <= Cardinality(S)
         /\ \A x : \A T \in SUBSET (S \cup {x}) : Cardinality(T) <= Cardinality(S) + 1
         /\ \A x \in S : \A T \in SUBSET (S \ {x}) : Cardinality(T) <= Cardinality(S) - 1
<1>1. IsFiniteSet(Places)
  <2>1. IsFiniteSet(1..EventCount) BY FS_Interval, BusAssumption
  <2> QED BY <2>1, FS_Product, BusAssumption DEF Places
<1>2. IsFiniteSet(S) BY <1>1, FS_Subset
<1>3. Cardinality(S) \in Nat BY <1>2, FS_CardinalityType
<1>4. ASSUME NEW T \in SUBSET S PROVE Cardinality(T) \in Nat /\ Cardinality(T) <= Cardinality(S)
  <2>1. IsFiniteSet(T) /\ Cardinality(T) <= Cardinality(S) BY <1>2, FS_Subset
  <2> QED BY <2>1, FS_CardinalityType
<1>5. ASSUME NEW x, NEW T \in SUBSET (S \cup {x}) PROVE Cardinality(T) <= Cardinality(S) + 1
  <2>1. /\ IsFiniteSet(S \cup {x})
        /\ Cardinality(S \cup {x}) = IF x \in S THEN Cardinality(S) ELSE Cardinality(S) + 1
    BY <1>2, FS_AddElement
  <2>2. IsFiniteSet(T) /\ Cardinality(T) <= Cardinality(S \cup {x}) BY <2>1, FS_Subset
  <2>3. Cardinality(T) \in Nat BY <2>2, FS_CardinalityType
  <2> QED BY <1>3, <2>1, <2>2, <2>3
<1>6. ASSUME NEW x \in S, NEW T \in SUBSET (S \ {x}) PROVE Cardinality(T) <= Cardinality(S) - 1
  <2>1. IsFiniteSet(S \ {x}) /\ Cardinality(S \ {x}) = Cardinality(S) - 1
    BY <1>2, FS_RemoveElement
  <2>2. Cardinality(T) <= Cardinality(S \ {x}) BY <2>1, FS_Subset
  <2> QED BY <2>1, <2>2
<1> QED BY <1>2, <1>3, <1>4, <1>5, <1>6

\* What is left to a queue is among the places of its runs.
LEMMA SlotsArePlaces ==
  ASSUME NEW q
  PROVE  Slots(q) \in SUBSET Places
  BY DEF Slots

\* What the invariant says of the state it holds in.
LEMMA StarveNow ==
  ASSUME StarveInv
  PROVE  /\ BusInv /\ Counts /\ run \in [BootRun -> RunRecord] /\ EventCount \in Nat \ {0}
         /\ \A q \in Queues : /\ taken[q] \in Nat /\ Len(busLog[q]) \in Nat /\ Gone(q) \in Int
                              /\ Cardinality(Slots(q)) \in Nat
                              /\ Cardinality(Slots(q)) <= Len(busLog[q]) - Gone(q)
         /\ \A r \in BootRun : QueueOf(r) \in Queues
         /\ position \in Queues \X Int /\ position[2] \in Int
         /\ position # Unassigned => taken[Shared] <= position[2] /\ position[2] \in Nat
<1>1. /\ taken \in [Queues -> Int] /\ position \in Queues \X Int
      /\ run \in [BootRun -> RunRecord]
  BY BusNow DEF StarveInv, Queues
<1>2. \A q \in Queues : busLog[q] \in Seq(BootRun \X Int) BY DEF StarveInv, Logs
<1>3. \A q \in Queues : Len(busLog[q]) \in Nat BY <1>2, LenProperties
<1>4. \A q \in Queues : Cardinality(Slots(q)) \in Nat
  <2> SUFFICES ASSUME NEW q \in Queues PROVE Cardinality(Slots(q)) \in Nat OBVIOUS
  <2>1. PICK S \in SUBSET Places : S = Slots(q) BY SlotsArePlaces
  <2> QED BY <2>1, PlacesCount
<1>5. \A q \in Queues : taken[q] \in Nat /\ Gone(q) \in Int
  <2>1. \A q \in Queues : taken[q] >= 0 BY DEF StarveInv, Spare
  <2> QED BY <1>1, <2>1 DEF Gone
<1>6. \A r \in BootRun : QueueOf(r) \in Queues BY DEF QueueOf, Queues
<1>7. Shared \in Queues BY DEF Queues
<1>8. position # Unassigned => taken[Shared] <= position[2] /\ position[2] \in Nat
  BY <1>1, <1>5, <1>7 DEF StarveInv, Spare
<1> QED BY <1>1, <1>3, <1>4, <1>5, <1>6, <1>8, BusAssumption DEF StarveInv, Spare

\* A step that opens no place, and takes nothing from a queue that it puts nothing on.
LEMMA SlotsFewer ==
  ASSUME StarveInv, Logs', taken' \in [Queues -> Nat],
         position' # Unassigned => taken'[Shared] <= position'[2],
         \A q \in Queues : /\ Gone(q)' \in Int /\ Gone(q)' <= Gone(q)
                           /\ Len(busLog'[q]) >= Len(busLog[q])
                           /\ Slots(q)' \subseteq Slots(q)
  PROVE  Spare'
<1>1. ASSUME NEW q \in Queues
      PROVE  Cardinality(Slots(q))' <= Len(busLog'[q]) - Gone(q)'
  <2>1. PICK S \in SUBSET Places : S = Slots(q) BY SlotsArePlaces
  <2>2. PICK T \in SUBSET S : T = Slots(q)' BY <2>1
  <2>3. Cardinality(T) \in Nat /\ Cardinality(T) <= Cardinality(S) BY <2>1, <2>2, PlacesCount
  <2>4. /\ Cardinality(S) \in Nat /\ Len(busLog[q]) \in Nat /\ Gone(q) \in Int
        /\ Cardinality(S) <= Len(busLog[q]) - Gone(q)
    BY <2>1, StarveNow
  <2>5. Len(busLog'[q]) \in Nat
    <3>1. busLog'[q] \in Seq(BootRun \X Int) BY DEF Logs
    <3> QED BY <3>1, LenProperties
  <2>6. PICK g \in Int : g = Gone(q)' OBVIOUS
  <2>7. g <= Gone(q) /\ Len(busLog'[q]) >= Len(busLog[q]) BY <2>6
  <2>8. Cardinality(T) <= Len(busLog'[q]) - g BY <2>3, <2>4, <2>5, <2>6, <2>7
  <2> QED BY <2>2, <2>6, <2>8
<1>2. \A q \in Queues : taken'[q] >= 0 OBVIOUS
<1> QED BY <1>1, <1>2 DEF Spare

\* A step of run r alone, in which it opens no place, and which touches no queue.
LEMMA RunOnly ==
  ASSUME StarveInv, NEW r \in BootRun, Counts',
         \A s \in BootRun : s # r => run'[s] = run[s],
         \A k \in 1..EventCount : Open(r, k)' => Open(r, k) /\ run'[r].kind = run[r].kind,
         UNCHANGED <<busLog, taken, position>>
  PROVE  Logs' /\ Counts' /\ Spare'
<1>1. Logs' BY DEF StarveInv, Logs
<1>2. ASSUME NEW q \in Queues PROVE Slots(q)' \subseteq Slots(q)
  <2> SUFFICES ASSUME NEW w \in Places, QueueOf(w[1])' = q, Open(w[1], w[2])'
               PROVE  QueueOf(w[1]) = q /\ Open(w[1], w[2])
    BY DEF Slots
  <2>1. PICK s \in BootRun, k \in 1..EventCount : w = <<s, k>> BY DEF Places
  <2>2. w[1] = s /\ w[2] = k BY <2>1
  <2>3. QueueOf(s)' = q /\ Open(s, k)' BY <2>2 DEF QueueOf, Open
  <2>4. QueueOf(s) = q /\ Open(s, k)
    <3>1. CASE s = r BY <2>3, <3>1 DEF QueueOf
    <3>2. CASE s # r BY <2>3, <3>2 DEF QueueOf, Open
    <3> QED BY <3>1, <3>2
  <2> QED BY <2>2, <2>4
<1>3. taken' \in [Queues -> Nat]
  <2>1. taken \in [Queues -> Int] BY BusNow DEF StarveInv, Queues
  <2> QED BY <2>1, StarveNow
<1>4. \A q \in Queues : Gone(q)' = Gone(q) BY DEF Gone
<1>5. Spare' BY <1>1, <1>2, <1>3, <1>4, SlotsFewer, StarveNow
<1> QED BY <1>1, <1>5

\* The steps again, for the events that are left.
LEMMA BeginRunSpare ==
  ASSUME StarveInv, NEW r \in BootRun, BeginRun(r)
  PROVE  Logs' /\ Counts' /\ Spare'
<1>1. /\ run[r].at = "idle"
      /\ UNCHANGED <<busMode, busLog, taken, members, position, processed, busFaults>>
  BY DEF BeginRun
<1>2. PICK kind \in {busMode, "inmemory"} :
        run' = [run EXCEPT ![r].kind = kind,
                           ![r].at = IF kind = "kafka" THEN "start" ELSE "enqueue"]
  BY DEF BeginRun, BuildEventBus
<1>3. /\ run'[r].at \in {"start", "enqueue"} /\ run'[r].sent = run[r].sent
      /\ run'[r].done = run[r].done /\ run'[r].hand = run[r].hand
      /\ \A s \in BootRun : s # r => run'[s] = run[s]
  BY <1>2, StarveNow DEF RunRecord
<1>4. run[r].sent = 0 /\ run[r].done = 0 /\ run[r].hand = 0
  BY <1>1, StarveNow DEF Counts
<1>5. Counts'
  <2>1. 0 \in 0..(EventCount - 1) BY BusAssumption
  <2> QED BY <1>3, <1>4, <2>1, StarveNow DEF Counts
<1>6. ASSUME NEW k \in 1..EventCount PROVE ~ Open(r, k)'
  BY <1>3, <1>4 DEF Open
<1> QED BY <1>1, <1>3, <1>5, <1>6, RunOnly

LEMMA EnsureKafkaSpare ==
  ASSUME StarveInv, NEW r \in BootRun, EnsureKafka(r)
  PROVE  Logs' /\ Counts' /\ Spare'
<1>1. /\ run[r].at = "start" /\ run' = [run EXCEPT ![r].at = "enqueue"]
      /\ UNCHANGED <<busMode, busLog, taken, position, processed, busFaults>>
  BY DEF EnsureKafka
<1>2. /\ run'[r].at = "enqueue" /\ run'[r].sent = run[r].sent
      /\ run'[r].done = run[r].done /\ run'[r].hand = run[r].hand
      /\ \A s \in BootRun : s # r => run'[s] = run[s]
  BY <1>1, StarveNow DEF RunRecord
<1>3. run[r].sent = 0 /\ run[r].done = 0 /\ run[r].hand = 0
  BY <1>1, StarveNow DEF Counts
<1>4. Counts'
  <2>1. 0 \in 0..EventCount - 1
    BY BusAssumption
  <2> QED BY <1>2, <1>3, <2>1, StarveNow DEF Counts
<1>5. ASSUME NEW k \in 1..EventCount PROVE ~ Open(r, k)'
  BY <1>2, <1>3 DEF Open
<1> QED BY <1>1, <1>2, <1>4, <1>5, RunOnly

\* What is put on a queue is one event, after those that were there.
LEMMA PutOnQueue ==
  ASSUME StarveInv, NEW r \in BootRun,
         busLog' = [busLog EXCEPT ![QueueOf(r)] = Append(@, <<r, run[r].sent + 1>>)]
  PROVE  /\ Logs' /\ Len(busLog'[QueueOf(r)]) = Len(busLog[QueueOf(r)]) + 1
         /\ \A q \in Queues : q # QueueOf(r) => busLog'[q] = busLog[q]
<1>1. PICK q \in Queues : q = QueueOf(r) BY StarveNow
<1>2. PICK e \in BootRun \X Int : e = <<r, run[r].sent + 1>>
  <2>1. run[r].sent + 1 \in Int BY StarveNow DEF RunRecord
  <2> QED BY <2>1
<1>3. busLog[q] \in Seq(BootRun \X Int) BY DEF StarveInv, Logs
<1>4. PICK l \in Seq(BootRun \X Int) : l = Append(busLog[q], e) /\ Len(l) = Len(busLog[q]) + 1
  <2>1. PICK old \in Seq(BootRun \X Int) : old = busLog[q] BY <1>3
  <2>2. Append(old, e) \in Seq(BootRun \X Int) /\ Len(Append(old, e)) = Len(old) + 1
    BY AppendProperties
  <2> QED BY <2>1, <2>2
<1>5. busLog' = [busLog EXCEPT ![q] = l] BY <1>1, <1>2, <1>4
<1> QED BY <1>1, <1>4, <1>5 DEF StarveInv, Logs

LEMMA FaultSpare ==
  ASSUME StarveInv, NEW r \in BootRun, run[r].at # "idle", Fault(r),
         \/ UNCHANGED busLog
         \/ busLog' = [busLog EXCEPT ![QueueOf(r)] = Append(@, <<r, run[r].sent + 1>>)]
  PROVE  Logs' /\ Counts' /\ Spare'
<1>1. /\ run' = [run EXCEPT ![r].at = "ended", ![r].hand = 0]
      /\ UNCHANGED <<busMode, taken, members, position, processed>>
  BY DEF Fault
<1>2. run'[r].at = "ended" /\ \A s \in BootRun : s # r => run'[s] = run[s]
  BY <1>1, StarveNow DEF RunRecord
<1>3. Counts' BY <1>2, StarveNow DEF Counts
<1>4. Logs' /\ \A q \in Queues : Len(busLog'[q]) >= Len(busLog[q])
  <2>1. CASE UNCHANGED busLog BY <2>1, StarveNow DEF StarveInv, Logs
  <2>2. CASE busLog' = [busLog EXCEPT ![QueueOf(r)] = Append(@, <<r, run[r].sent + 1>>)]
    <3>1. /\ Logs' /\ Len(busLog'[QueueOf(r)]) = Len(busLog[QueueOf(r)]) + 1
          /\ \A q \in Queues : q # QueueOf(r) => busLog'[q] = busLog[q]
      BY <2>2, PutOnQueue
    <3>2. \A q \in Queues : Len(busLog[q]) \in Nat BY StarveNow
    <3>3. \A q \in Queues : Len(busLog'[q]) >= Len(busLog[q])
      <4> SUFFICES ASSUME NEW q \in Queues PROVE Len(busLog'[q]) >= Len(busLog[q]) OBVIOUS
      <4>1. CASE q = QueueOf(r) BY <3>1, <3>2, <4>1
      <4>2. CASE q # QueueOf(r) BY <3>1, <3>2, <4>2
      <4> QED BY <4>1, <4>2
    <3> QED BY <3>1, <3>3
  <2> QED BY <2>1, <2>2
<1>5. ASSUME NEW q \in Queues PROVE Slots(q)' \subseteq Slots(q)
  <2> SUFFICES ASSUME NEW w \in Places, QueueOf(w[1])' = q, Open(w[1], w[2])'
               PROVE  QueueOf(w[1]) = q /\ Open(w[1], w[2])
    BY DEF Slots
  <2>1. PICK s \in BootRun, k \in 1..EventCount : w = <<s, k>> BY DEF Places
  <2>2. w[1] = s /\ w[2] = k BY <2>1
  <2>3. QueueOf(s)' = q /\ Open(s, k)' BY <2>2 DEF QueueOf, Open
  <2>4. s # r BY <1>2, <2>3 DEF Open
  <2>5. QueueOf(s) = q /\ Open(s, k) BY <1>2, <2>3, <2>4 DEF QueueOf, Open
  <2> QED BY <2>2, <2>5
<1>6. taken' \in [Queues -> Nat]
  <2>1. taken \in [Queues -> Int] BY BusNow DEF StarveInv, Queues
  <2> QED BY <1>1, <2>1, StarveNow
<1>7. \A q \in Queues : Gone(q)' = Gone(q) BY <1>1 DEF Gone
<1>8. Spare' BY <1>1, <1>4, <1>5, <1>6, <1>7, SlotsFewer, StarveNow
<1> QED BY <1>3, <1>4, <1>8

\* An event that is put on a queue opens the place of its number, and no other.
LEMMA EnqueueSpare ==
  ASSUME StarveInv, NEW r \in BootRun, Enqueue(r)
  PROVE  Logs' /\ Counts' /\ Spare'
<1>1. /\ run[r].at = "enqueue" /\ UNCHANGED <<busMode, taken, members, position, processed>>
      /\ busLog' = [busLog EXCEPT ![QueueOf(r)] = Append(@, <<r, run[r].sent + 1>>)]
      /\ run' = [run EXCEPT ![r].sent = run[r].sent + 1,
                            ![r].at = IF run[r].sent + 1 = EventCount THEN "dequeue" ELSE "enqueue"]
  BY DEF Enqueue, Sent
<1>2. /\ run[r].sent \in 0..(EventCount - 1) /\ run[r].done = 0 /\ run[r].hand = 0
  BY <1>1, StarveNow DEF Counts
<1>3. PICK n \in 1..EventCount : n = run[r].sent + 1 BY <1>2, StarveNow
<1>4. /\ run'[r].at = IF n = EventCount THEN "dequeue" ELSE "enqueue"
      /\ run'[r].sent = n /\ run'[r].done = 0 /\ run'[r].hand = 0 /\ run'[r].kind = run[r].kind
      /\ \A s \in BootRun : s # r => run'[s] = run[s]
  BY <1>1, <1>2, <1>3, StarveNow DEF RunRecord
<1>5. Counts'
  <2>1. n # EventCount => n \in 0..(EventCount - 1) BY BusAssumption
  <2>2. 0 \in 0..(EventCount - 1) BY BusAssumption
  <2> QED BY <1>4, <2>1, <2>2, StarveNow DEF Counts
<1>6. /\ Logs' /\ Len(busLog'[QueueOf(r)]) = Len(busLog[QueueOf(r)]) + 1
      /\ \A q \in Queues : q # QueueOf(r) => busLog'[q] = busLog[q]
  BY <1>1, PutOnQueue
<1>7. ASSUME NEW k \in 1..EventCount, Open(r, k)' PROVE k = n \/ Open(r, k)
  <2>1. EventCount \in Nat /\ run[r].sent = n - 1 BY <1>2, <1>3, BusAssumption
  <2>2. k <= n
    <3>1. CASE n = EventCount BY <2>1, <3>1
    <3>2. CASE n # EventCount BY <1>4, <1>7, <3>2 DEF Open
    <3> QED BY <3>1, <3>2
  <2>3. k = n \/ k <= run[r].sent BY <2>1, <2>2
  <2> QED BY <1>1, <2>3 DEF Open
<1>8. \A s \in BootRun : QueueOf(s)' = QueueOf(s) BY <1>4 DEF QueueOf
<1>9. \A s \in BootRun : s # r => \A k \in 1..EventCount : Open(s, k)' => Open(s, k)
  BY <1>4 DEF Open
<1>10. ASSUME NEW q \in Queues
       PROVE  Slots(q)' \subseteq Slots(q) \cup (IF q = QueueOf(r) THEN {<<r, n>>} ELSE {})
  <2> SUFFICES ASSUME NEW w \in Places, QueueOf(w[1])' = q, Open(w[1], w[2])'
               PROVE  /\ QueueOf(w[1]) = q
                      /\ Open(w[1], w[2]) \/ (q = QueueOf(r) /\ w = <<r, n>>)
    BY DEF Slots
  <2>1. PICK s \in BootRun, k \in 1..EventCount : w = <<s, k>> BY DEF Places
  <2>2. w[1] = s /\ w[2] = k BY <2>1
  <2>3. QueueOf(s)' = q /\ Open(s, k)' BY <2>2 DEF QueueOf, Open
  <2>4. QueueOf(s) = q /\ (Open(s, k) \/ (s = r /\ k = n))
    BY <1>7, <1>8, <1>9, <2>3
  <2> QED BY <2>1, <2>2, <2>4
<1>11. ASSUME NEW q \in Queues
       PROVE  Cardinality(Slots(q))' <= Len(busLog'[q]) - Gone(q)'
  <2>1. PICK S \in SUBSET Places : S = Slots(q) BY SlotsArePlaces
  <2>2. PICK T : T = Slots(q)' OBVIOUS
  <2>3. PICK g \in Int : g = Gone(q) /\ g = Gone(q)' BY <1>1, StarveNow DEF Gone
  <2>4. /\ Cardinality(S) \in Nat /\ Len(busLog[q]) \in Nat
        /\ Cardinality(S) <= Len(busLog[q]) - g
    BY <2>1, <2>3, StarveNow
  <2>5. CASE q = QueueOf(r)
    <3>1. T \in SUBSET (S \cup {<<r, n>>}) BY <1>10, <2>1, <2>2, <2>5
    <3>2. T \in SUBSET Places BY <3>1, <2>1 DEF Places
    <3>3. Cardinality(T) <= Cardinality(S) + 1 /\ Cardinality(T) \in Nat
      BY <3>1, <3>2, PlacesCount
    <3>4. Len(busLog'[q]) = Len(busLog[q]) + 1 BY <1>6, <2>5
    <3>5. Cardinality(T) <= Len(busLog'[q]) - g BY <2>3, <2>4, <3>3, <3>4
    <3> QED BY <2>2, <2>3, <3>5
  <2>6. CASE q # QueueOf(r)
    <3>1. T \in SUBSET S BY <1>10, <2>1, <2>2, <2>6
    <3>2. Cardinality(T) <= Cardinality(S) /\ Cardinality(T) \in Nat BY <3>1, PlacesCount
    <3>3. Len(busLog'[q]) = Len(busLog[q]) BY <1>6, <2>6
    <3>4. Cardinality(T) <= Len(busLog'[q]) - g BY <2>3, <2>4, <3>2, <3>3
    <3> QED BY <2>2, <2>3, <3>4
  <2> QED BY <2>5, <2>6
<1>12. Spare' BY <1>1, <1>11, StarveNow DEF StarveInv, Spare
<1> QED BY <1>5, <1>6, <1>12

\* What is taken from a queue closes a place of the run that takes it.
LEMMA DequeueSpare ==
  ASSUME StarveInv, NEW r \in BootRun, Dequeue(r)
  PROVE  Logs' /\ Counts' /\ Spare'
<1>1. run[r].at = "dequeue" /\ UNCHANGED <<busMode, busLog, members, processed, busFaults>>
  BY DEF Dequeue
<1>2. PICK Q \in Queues : Q = QueueOf(r) BY StarveNow
<1>3. run[r].done \in 0..(EventCount - 1) /\ run[r].hand = 0
  BY <1>1, StarveNow DEF Counts
<1>4. PICK n \in 1..EventCount : n = run[r].done + 1 BY <1>3, StarveNow
<1>5. run[r].kind = "kafka" => position[1] = r /\ position # Unassigned /\ Q = Shared
  BY <1>2, BusAssumption DEF Dequeue, Unassigned, QueueOf
<1>6. run[r].kind # "kafka" => Q # Shared \/ position = Unassigned
  <2>1. ASSUME run[r].kind # "kafka", Q = Shared, position # Unassigned PROVE FALSE
    <3>1. run[r].kind = "redis" BY <1>2, <2>1, BusAssumption DEF QueueOf
    <3>2. busMode = "redis" BY <3>1, BusNow DEF StarveInv, Groups
    <3>3. position[1] \in members /\ members \subseteq BootRun
      BY <2>1, BusNow DEF StarveInv, Groups
    <3>4. run[position[1]].kind = "kafka" BY <3>3, BusNow DEF StarveInv, Groups
    <3> QED BY <3>2, <3>3, <3>4, BusNow DEF StarveInv, Groups
  <2> QED BY <2>1
<1>7. NextPlace(r) = Gone(Q) + 1 BY <1>2, <1>5, <1>6 DEF NextPlace, Gone
<1>8. PICK h \in Nat \ {0} : h = NextPlace(r)
  <2>1. Gone(Q) \in Nat BY StarveNow DEF Gone
  <2> QED BY <1>7, <2>1
<1>9. /\ run'[r].at = "process" /\ run'[r].hand = h /\ run'[r].done = run[r].done
      /\ run'[r].kind = run[r].kind /\ \A s \in BootRun : s # r => run'[s] = run[s]
  <2>1. run' = [run EXCEPT ![r].at = "process", ![r].hand = h] BY <1>8 DEF Dequeue
  <2>2. PICK rec \in RunRecord : rec = run[r] BY StarveNow
  <2> DEFINE new == [rec EXCEPT !.at = "process", !.hand = h]
  <2>3. new.at = "process" /\ new.hand = h /\ new.done = rec.done /\ new.kind = rec.kind
    BY DEF RunRecord
  <2>4. run' = [run EXCEPT ![r] = new] BY <2>1, <2>2, StarveNow
  <2>5. DOMAIN run = BootRun BY StarveNow
  <2> HIDE DEF new
  <2> QED BY <2>2, <2>3, <2>4, <2>5
<1>10. Counts'
  <2>1. h > 0 OBVIOUS
  <2> QED BY <1>3, <1>9, <2>1, StarveNow, ZenonT(30) DEF Counts
<1>11. Logs' BY <1>1 DEF StarveInv, Logs
<1>12. /\ taken' \in [Queues -> Nat] /\ Gone(Q)' = h
       /\ \A q \in Queues : q # Q => Gone(q)' = Gone(q)
       /\ position' # Unassigned => taken'[Shared] <= position'[2]
  <2>0. taken \in [Queues -> Nat] /\ Shared \in Queues
    BY BusNow, StarveNow DEF StarveInv, Queues
  <2>1. CASE run[r].kind = "kafka"
    <3>1. position' = <<r, h>> /\ taken' = taken BY <1>8, <2>1 DEF Dequeue
    <3>2. position' # Unassigned BY <3>1, BusAssumption DEF Unassigned
    <3>3. h = position[2] + 1 /\ taken[Shared] <= position[2] /\ position[2] \in Nat
      BY <1>5, <1>8, <2>1, StarveNow DEF NextPlace
    <3>4. taken[Shared] \in Nat BY <2>0
    <3>5. taken[Shared] <= h BY <3>3, <3>4
    <3> QED BY <1>5, <2>0, <2>1, <3>1, <3>2, <3>5 DEF Gone
  <2>2. CASE run[r].kind # "kafka"
    <3>1. position' = position /\ taken' = [taken EXCEPT ![Q] = taken[Q] + 1]
      BY <1>2, <2>2 DEF Dequeue
    <3>2. h = taken[Q] + 1 BY <1>2, <1>8, <2>2 DEF NextPlace
    <3>3. taken' = [taken EXCEPT ![Q] = h] BY <3>1, <3>2
    <3>4. /\ taken' \in [Queues -> Nat] /\ taken'[Q] = h
          /\ \A q \in Queues : q # Q => taken'[q] = taken[q]
      BY <2>0, <3>3
    <3>5. position # Unassigned => Q # Shared BY <1>6, <2>2
    <3>6. position # Unassigned => taken'[Shared] <= position[2]
      BY <2>0, <3>4, <3>5, StarveNow
    <3> QED BY <3>1, <3>4, <3>5, <3>6 DEF Gone
  <2> QED BY <2>1, <2>2
<1>13. \A s \in BootRun : QueueOf(s)' = QueueOf(s) BY <1>9 DEF QueueOf
<1>14. \A k \in 1..EventCount : Open(r, k)' => Open(r, k) /\ k # n
  BY <1>1, <1>3, <1>4, <1>8, <1>9 DEF Open
<1>15. \A s \in BootRun : s # r => \A k \in 1..EventCount : Open(s, k)' => Open(s, k)
  BY <1>9 DEF Open
<1>16. ASSUME NEW q \in Queues
       PROVE  Slots(q)' \subseteq Slots(q) \ (IF q = Q THEN {<<r, n>>} ELSE {})
  <2> SUFFICES ASSUME NEW w \in Places, QueueOf(w[1])' = q, Open(w[1], w[2])'
               PROVE  QueueOf(w[1]) = q /\ Open(w[1], w[2]) /\ w # <<r, n>>
    BY DEF Slots
  <2>1. PICK s \in BootRun, k \in 1..EventCount : w = <<s, k>> BY DEF Places
  <2>2. w[1] = s /\ w[2] = k BY <2>1
  <2>3. QueueOf(s)' = q /\ Open(s, k)' BY <2>2 DEF QueueOf, Open
  <2>4. QueueOf(s) = q /\ Open(s, k) /\ ~(s = r /\ k = n)
    BY <1>13, <1>14, <1>15, <2>3
  <2> QED BY <2>1, <2>2, <2>4
<1>17. <<r, n>> \in Slots(Q)
  <2>1. Open(r, n) BY <1>1, <1>3, <1>4 DEF Open
  <2> QED BY <1>2, <2>1 DEF Slots, Places
<1>18. ASSUME NEW q \in Queues
       PROVE  Cardinality(Slots(q))' <= Len(busLog'[q]) - Gone(q)'
  <2>1. PICK S \in SUBSET Places : S = Slots(q) BY SlotsArePlaces
  <2>2. PICK T \in SUBSET S : T = Slots(q)' BY <1>16, <2>1
  <2>3. PICK g \in Int : g = Gone(q) BY StarveNow
  <2>4. /\ Cardinality(S) \in Nat /\ Len(busLog[q]) \in Nat
        /\ Cardinality(S) <= Len(busLog[q]) - g
    BY <2>1, <2>3, StarveNow
  <2>5. Cardinality(T) \in Nat /\ Cardinality(T) <= Cardinality(S) BY <2>1, PlacesCount
  <2>6. CASE q = Q
    <3>1. <<r, n>> \in S /\ T \in SUBSET (S \ {<<r, n>>}) BY <1>16, <1>17, <2>1, <2>2, <2>6
    <3>2. Cardinality(T) <= Cardinality(S) - 1 BY <3>1, PlacesCount
    <3>3. Gone(q)' = g + 1 BY <1>7, <1>8, <1>12, <2>3, <2>6
    <3>4. Cardinality(T) <= Len(busLog[q]) - (g + 1) BY <2>3, <2>4, <2>5, <3>2
    <3> QED BY <1>1, <2>2, <3>3, <3>4
  <2>7. CASE q # Q
    <3>1. Gone(q)' = g BY <1>12, <2>3, <2>7
    <3>2. Cardinality(T) <= Len(busLog[q]) - g BY <2>3, <2>4, <2>5
    <3> QED BY <1>1, <2>2, <3>1, <3>2
  <2> QED BY <2>6, <2>7
<1>19. \A q \in Queues : taken'[q] >= 0 BY <1>12
<1>20. Spare' BY <1>12, <1>18, <1>19 DEF Spare
<1> QED BY <1>10, <1>11, <1>20

LEMMA ProcessSpare ==
  ASSUME StarveInv, NEW r \in BootRun, Process(r)
  PROVE  Logs' /\ Counts' /\ Spare'
<1>1. run[r].at = "process" /\ UNCHANGED <<busMode, busLog, taken, members, position, busFaults>>
  BY DEF Process
<1>2. run[r].done \in 0..(EventCount - 1) /\ run[r].hand > 0 /\ run[r].hand \in Int
  BY <1>1, StarveNow DEF Counts, RunRecord
<1>3. PICK n \in 1..EventCount : n = run[r].done + 1 BY <1>2, StarveNow
<1>4. /\ run'[r].at = IF n = EventCount THEN "ended" ELSE "dequeue"
      /\ run'[r].done = n /\ run'[r].hand = 0 /\ run'[r].kind = run[r].kind
      /\ \A s \in BootRun : s # r => run'[s] = run[s]
  <2>1. run' = [run EXCEPT ![r].done = n, ![r].hand = 0,
                           ![r].at = IF n = EventCount THEN "ended" ELSE "dequeue"]
    BY <1>3 DEF Process
  <2>2. PICK rec \in RunRecord : rec = run[r] BY StarveNow
  <2>3. PICK a : a = IF n = EventCount THEN "ended" ELSE "dequeue" OBVIOUS
  <2> DEFINE new == [rec EXCEPT !.done = n, !.hand = 0, !.at = a]
  <2>4. new.done = n /\ new.hand = 0 /\ new.at = a /\ new.kind = rec.kind BY DEF RunRecord
  <2>5. run' = [run EXCEPT ![r] = new] BY <2>1, <2>2, <2>3, StarveNow
  <2> HIDE DEF new
  <2> QED BY <2>2, <2>3, <2>4, <2>5, StarveNow
<1>5. Counts'
  <2>1. n # EventCount => n \in 0..(EventCount - 1) BY BusAssumption
  <2> QED BY <1>4, <2>1, StarveNow, ZenonT(30) DEF Counts
<1>6. \A k \in 1..EventCount : Open(r, k)' => Open(r, k)
  <2>1. run[r].hand # 0 BY <1>2
  <2>2. ASSUME NEW k \in 1..EventCount, Open(r, k)' PROVE k > n
    <3>1. run'[r].at = "dequeue" BY <1>4, <2>2 DEF Open
    <3>2. k > n + 0 BY <1>4, <2>2, <3>1 DEF Open
    <3> QED BY <3>2
  <2>3. ASSUME NEW k \in 1..EventCount, k > n PROVE Open(r, k)
    BY <1>1, <1>3, <2>1, <2>3 DEF Open
  <2> QED BY <2>2, <2>3
<1> QED BY <1>1, <1>4, <1>5, <1>6, RunOnly

LEMMA GroupSpare ==
  ASSUME StarveInv, UNCHANGED <<run, busLog>>, taken' \in [Queues -> Nat],
         position' # Unassigned => taken'[Shared] <= position'[2],
         \A q \in Queues : Gone(q)' \in Int /\ Gone(q)' <= Gone(q)
  PROVE  Logs' /\ Counts' /\ Spare'
<1>1. Logs' /\ Counts' BY DEF StarveInv, Logs, Counts
<1>2. \A q \in Queues : Slots(q)' \subseteq Slots(q) BY DEF Slots, QueueOf, Open
<1>3. \A q \in Queues : Len(busLog'[q]) >= Len(busLog[q]) BY StarveNow
<1> QED BY <1>1, <1>2, <1>3, SlotsFewer

\* Who is assigned the partition starts at the offset that was committed.
LEMMA AssignSpare ==
  ASSUME StarveInv, NEW r \in BootRun, Assign(r)
  PROVE  Logs' /\ Counts' /\ Spare'
<1>1. /\ position = Unassigned /\ position' = <<r, taken[Shared]>>
      /\ UNCHANGED <<run, busLog, taken>> /\ Shared \in Queues
  BY DEF Assign, Queues
<1>2. taken \in [Queues -> Nat]
  <2>1. taken \in [Queues -> Int] BY BusNow DEF StarveInv, Queues
  <2> QED BY <2>1, StarveNow
<1>3. \A q \in Queues : Gone(q)' = taken[q] /\ Gone(q) = taken[q] /\ taken[q] \in Nat
  BY <1>1, <1>2 DEF Gone
<1>4. taken'[Shared] <= position'[2] BY <1>1, <1>2
<1> QED BY <1>1, <1>2, <1>3, <1>4, GroupSpare

\* A commit moves the offset, and not the consumer.
LEMMA AutoCommitSpare ==
  ASSUME StarveInv, AutoCommit
  PROVE  Logs' /\ Counts' /\ Spare'
<1>1. /\ position # Unassigned /\ taken' = [taken EXCEPT ![Shared] = position[2]]
      /\ UNCHANGED <<run, busLog, position>> /\ Shared \in Queues
  BY DEF AutoCommit, Queues
<1>2. taken \in [Queues -> Nat] /\ position[2] \in Nat
  <2>1. taken \in [Queues -> Int] BY BusNow DEF StarveInv, Queues
  <2> QED BY <1>1, <2>1, StarveNow
<1>3. /\ taken' \in [Queues -> Nat] /\ taken'[Shared] = position[2]
      /\ \A q \in Queues : q # Shared => taken'[q] = taken[q]
  BY <1>1, <1>2
<1>4. \A q \in Queues : Gone(q)' = Gone(q) /\ Gone(q) \in Int
  BY <1>1, <1>2, <1>3 DEF Gone
<1> QED BY <1>1, <1>2, <1>3, <1>4, GroupSpare

\* Without a member the partition is back at the committed offset, which is not beyond what
\* the consumer has read.
LEMMA LeaveGroupSpare ==
  ASSUME StarveInv, NEW r \in BootRun, LeaveGroup(r)
  PROVE  Logs' /\ Counts' /\ Spare'
<1>1. /\ position' = IF position[1] = r THEN Unassigned ELSE position
      /\ UNCHANGED <<run, busLog, taken>> /\ Shared \in Queues
  BY DEF LeaveGroup, Queues
<1>2. taken \in [Queues -> Nat]
  <2>1. taken \in [Queues -> Int] BY BusNow DEF StarveInv, Queues
  <2> QED BY <2>1, StarveNow
<1>3. position' # Unassigned => position' = position BY <1>1
<1>4. ASSUME NEW q \in Queues PROVE Gone(q)' \in Int /\ Gone(q)' <= Gone(q)
  <2>1. taken[q] \in Nat /\ taken[Shared] \in Nat /\ position[2] \in Int BY <1>1, <1>2, StarveNow
  <2>2. position # Unassigned => taken[Shared] <= position[2] BY StarveNow
  <2> QED BY <1>1, <1>3, <2>1, <2>2 DEF Gone
<1>5. position' # Unassigned => taken'[Shared] <= position'[2] BY <1>1, <1>3, StarveNow
<1> QED BY <1>1, <1>2, <1>4, <1>5, GroupSpare

LEMMA StarveInitInv ==
  ASSUME BusInit
  PROVE  StarveInv
<1>1. /\ run = [r \in BootRun |-> NoRun] /\ position = Unassigned
      /\ busLog = [q \in Queues |-> <<>>] /\ taken = [q \in Queues |-> 0]
  BY DEF BusInit, Queues
<1>2. NoRun.at = "idle" /\ NoRun.sent = 0 /\ NoRun.done = 0 /\ NoRun.hand = 0
  BY DEF NoRun
<1>3. Counts BY <1>1, <1>2 DEF Counts
<1>4. Logs BY <1>1 DEF Logs
<1>5. ASSUME NEW q \in Queues
      PROVE  taken[q] >= 0 /\ Cardinality(Slots(q)) <= Len(busLog[q]) - Gone(q)
  <2>1. Slots(q) = {} BY <1>1, <1>2 DEF Slots, Open, Places
  <2>2. Cardinality({}) = 0 BY FS_EmptySet
  <2>3. Len(busLog[q]) = 0 /\ Gone(q) = 0 /\ taken[q] = 0 BY <1>1 DEF Gone
  <2> QED BY <2>1, <2>2, <2>3
<1>6. Spare BY <1>1, <1>5 DEF Spare
<1> QED BY <1>3, <1>4, <1>6, BusInitInv DEF StarveInv

LEMMA StarveNextInv ==
  ASSUME StarveInv, [BusNext]_busVars
  PROVE  StarveInv'
<1>1. BusInv' BY BusNextInv DEF StarveInv
<1>2. Logs' /\ Counts' /\ Spare'
  <2>1. CASE AutoCommit BY <2>1, AutoCommitSpare
  <2>2. ASSUME NEW r \in BootRun,
               \/ BeginRun(r) \/ EnsureKafka(r) \/ Enqueue(r) \/ EnqueueRaises(r)
               \/ Dequeue(r) \/ Process(r) \/ RunDies(r) \/ Assign(r) \/ LeaveGroup(r)
        PROVE  Logs' /\ Counts' /\ Spare'
    <3>1. CASE EnqueueRaises(r)
      <4>1. run[r].at # "idle" /\ Fault(r) BY <3>1 DEF EnqueueRaises
      <4>2. \/ UNCHANGED busLog
            \/ busLog' = [busLog EXCEPT ![QueueOf(r)] = Append(@, <<r, run[r].sent + 1>>)]
        BY <3>1 DEF EnqueueRaises
      <4> QED BY <4>1, <4>2, FaultSpare
    <3>2. CASE RunDies(r) BY <3>2, FaultSpare DEF RunDies
    <3> QED
      BY <2>2, <3>1, <3>2, BeginRunSpare, EnsureKafkaSpare, EnqueueSpare, DequeueSpare,
         ProcessSpare, AssignSpare, LeaveGroupSpare
  <2>3. CASE UNCHANGED busVars
    <3>1. UNCHANGED <<busMode, run, busLog, taken, members, position, processed>>
      BY <2>3 DEF busVars
    <3>2. \A q \in Queues : Gone(q)' = Gone(q) /\ Gone(q) \in Int BY <3>1, StarveNow DEF Gone
    <3>3. taken' \in [Queues -> Nat]
      <4>1. taken \in [Queues -> Int] BY BusNow DEF StarveInv, Queues
      <4> QED BY <3>1, <4>1, StarveNow
    <3> QED BY <3>1, <3>2, <3>3, GroupSpare, StarveNow
  <2> QED BY <2>1, <2>2, <2>3 DEF BusNext
<1> QED BY <1>1, <1>2 DEF StarveInv

\* The events that are left, in every state the bus reaches.
LEMMA StarveInvHolds == BusSpec => []StarveInv
  BY StarveInitInv, StarveNextInv, PTL DEF BusSpec

\* Whatever runs died or raised: on every queue there are at least as many events left as
\* the runs that wait at it are still going to take.
THEOREM BusNobodyStarves == BusSpec => []NobodyStarves
<1>1. StarveInv => NobodyStarves
  <2> SUFFICES ASSUME StarveInv, NEW q \in DOMAIN busLog
               PROVE  LET wanted == {w \in BootRun \X (1..EventCount) :
                                       /\ run[w[1]].at \in {"dequeue", "process"}
                                       /\ QueueOf(w[1]) = q
                                       /\ w[2] > run[w[1]].done
                                                 + (IF run[w[1]].hand = 0 THEN 0 ELSE 1)}
                          gone == IF q = Shared /\ position # Unassigned THEN position[2]
                                                                         ELSE taken[q]
                      IN  Cardinality(wanted) <= Len(busLog[q]) - gone
    BY DEF NobodyStarves
  <2> DEFINE wanted == {w \in BootRun \X (1..EventCount) :
                          /\ run[w[1]].at \in {"dequeue", "process"} /\ QueueOf(w[1]) = q
                          /\ w[2] > run[w[1]].done + (IF run[w[1]].hand = 0 THEN 0 ELSE 1)}
  <2>1. q \in Queues BY DEF StarveInv, Logs
  <2>2. PICK S \in SUBSET Places : S = Slots(q) BY SlotsArePlaces
  <2>3. wanted \in SUBSET S BY <2>2 DEF Slots, Open, Places
  <2> HIDE DEF wanted
  <2>4. Cardinality(wanted) \in Nat /\ Cardinality(wanted) <= Cardinality(S)
    BY <2>3, PlacesCount
  <2>5. /\ Cardinality(S) \in Nat /\ Len(busLog[q]) \in Nat /\ Gone(q) \in Int
        /\ Cardinality(S) <= Len(busLog[q]) - Gone(q)
    BY <2>1, <2>2, StarveNow
  <2>6. Cardinality(wanted) <= Len(busLog[q]) - Gone(q) BY <2>4, <2>5
  <2> QED BY <2>6 DEF wanted, Gone
<1> QED BY <1>1, StarveInvHolds, PTL

--------------------------------------------------------------------------------
(* The types of the bus: how much is sent, put on a queue and taken from it    *)

\* What a run has in hand is on its queue.
Holding(r) == run[r].hand # 0 => run[r].at # "idle" /\ run[r].hand \in 1..Len(busLog[QueueOf(r)])

Bounds ==
    /\ busFaults \in 0..MaxBusFaults
    /\ \A r \in BootRun : /\ run[r].sent \in 0..EventCount /\ run[r].done \in 0..EventCount
                          /\ Holding(r)

\* Every event is put on a queue once: by a run that has counted it as sent, or that the fault
\* has ended.
Posted ==
    \A q \in Queues :
      /\ busLog[q] \in Seq(Places) /\ IsInjective(busLog[q])
      /\ \A w \in ToSet(busLog[q]) : w[2] <= run[w[1]].sent \/ run[w[1]].at = "ended"

BusTypeInv == StarveInv /\ Bounds /\ Posted

\* A queue never holds more events than the runs have to send.
LEMMA PostedFit ==
  ASSUME Posted, NEW q \in Queues
  PROVE  Len(busLog[q]) \in 0..(EventCount * Cardinality(BootRun))
<1>1. busLog[q] \in Seq(Places) /\ IsInjective(busLog[q]) BY DEF Posted
<1>2. Cardinality(ToSet(busLog[q])) = Len(busLog[q]) /\ Len(busLog[q]) \in Nat
  BY <1>1, InjectiveCount, LenProperties
<1>3. ToSet(busLog[q]) \in SUBSET Places BY <1>1 DEF ToSet
<1>4. Cardinality(ToSet(busLog[q])) <= Cardinality(Places)
  <2>1. Places \in SUBSET Places OBVIOUS
  <2> QED BY <1>3, <2>1, PlacesCount
<1>5. Cardinality(Places) = Cardinality(BootRun) * EventCount
  <2>1. IsFiniteSet(1..EventCount) /\ Cardinality(1..EventCount) = EventCount
    BY FS_Interval, BusAssumption
  <2> QED BY <2>1, FS_Product, BusAssumption DEF Places
<1>6. Cardinality(BootRun) \in Nat BY BusAssumption, FS_CardinalityType
<1> QED BY <1>2, <1>4, <1>5, <1>6, BusAssumption

\* No more is sent or ended by a step that leaves the queues alone.
LEMMA QuietPost ==
  ASSUME Posted, UNCHANGED busLog,
         \A r \in BootRun : /\ run[r].sent \in Int /\ run'[r].sent \in Int
                            /\ run[r].sent <= run'[r].sent
                            /\ run[r].at = "ended" => run'[r].at = "ended"
  PROVE  Posted'
<1> SUFFICES ASSUME NEW q \in Queues, NEW w \in ToSet(busLog[q])
             PROVE  w[2] <= run'[w[1]].sent \/ run'[w[1]].at = "ended"
  BY DEF Posted
<1>1. w \in Places BY DEF Posted, ToSet
<1>2. w[1] \in BootRun /\ w[2] \in Int BY <1>1 DEF Places
<1>3. w[2] <= run[w[1]].sent \/ run[w[1]].at = "ended" BY DEF Posted
<1> QED BY <1>2, <1>3

\* The next event of run r is put on its queue.
LEMMA PostStep ==
  ASSUME StarveInv, Posted, NEW r \in BootRun, run[r].at = "enqueue",
         busLog' = [busLog EXCEPT ![QueueOf(r)] = Append(@, <<r, run[r].sent + 1>>)],
         \A s \in BootRun : s # r => run'[s] = run[s],
         \/ run'[r].sent = run[r].sent + 1
         \/ run'[r].at = "ended"
  PROVE  Posted'
<1>1. run[r].sent \in 0..(EventCount - 1) BY DEF StarveInv, Counts
<1>2. PICK e \in Places : e = <<r, run[r].sent + 1>>
  <2>1. run[r].sent + 1 \in 1..EventCount BY <1>1, BusAssumption
  <2> QED BY <2>1 DEF Places
<1>3. PICK q \in Queues : q = QueueOf(r) BY StarveNow
<1>4. busLog' = [busLog EXCEPT ![q] = Append(busLog[q], e)] BY <1>2, <1>3
<1>5. /\ busLog'[q] = Append(busLog[q], e)
      /\ \A p \in Queues : p # q => busLog'[p] = busLog[p]
  BY <1>4 DEF StarveInv, Logs
<1>6. busLog[q] \in Seq(Places) /\ IsInjective(busLog[q]) BY DEF Posted
<1>7. ASSUME NEW p \in Queues, NEW w \in ToSet(busLog[p])
      PROVE  w # e /\ (w[2] <= run'[w[1]].sent \/ run'[w[1]].at = "ended")
  <2>1. w \in Places BY DEF Posted, ToSet
  <2>2. w[1] \in BootRun /\ w[2] \in Int BY <2>1 DEF Places
  <2>3. w[2] <= run[w[1]].sent \/ run[w[1]].at = "ended" BY DEF Posted
  <2>4. w[1] = r => w[2] <= run[r].sent BY <2>3
  <2>5. e[1] = r /\ e[2] = run[r].sent + 1 BY <1>2
  <2>6. w # e BY <1>1, <2>2, <2>4, <2>5
  <2> QED BY <1>1, <2>2, <2>3, <2>4, <2>6
<1>8. /\ busLog'[q] \in Seq(Places) /\ IsInjective(busLog'[q])
      /\ ToSet(busLog'[q]) = ToSet(busLog[q]) \cup {e}
  <2>1. e \notin ToSet(busLog[q]) BY <1>7
  <2>2. PICK l \in Seq(Places) : l = busLog[q] BY <1>6
  <2>3. /\ Append(l, e) \in Seq(Places) /\ IsInjective(Append(l, e))
        /\ ToSet(Append(l, e)) = ToSet(l) \cup {e}
    BY <1>6, <2>1, <2>2, AppendFacts
  <2> QED BY <1>5, <2>2, <2>3
<1>9. e[2] <= run'[e[1]].sent \/ run'[e[1]].at = "ended" BY <1>1, <1>2
<1>10. ASSUME NEW p \in Queues, NEW w \in ToSet(busLog'[p])
       PROVE  w[2] <= run'[w[1]].sent \/ run'[w[1]].at = "ended"
  <2>1. CASE p = q BY <1>7, <1>8, <1>9, <2>1
  <2>2. CASE p # q
    <3>1. w \in ToSet(busLog[p]) BY <1>5, <2>2
    <3> QED BY <1>7, <3>1
  <2> QED BY <2>1, <2>2
<1>11. ASSUME NEW p \in Queues
       PROVE  busLog'[p] \in Seq(Places) /\ IsInjective(busLog'[p])
  <2>1. CASE p = q BY <1>8, <2>1
  <2>2. CASE p # q BY <1>5, <2>2 DEF Posted
  <2> QED BY <2>1, <2>2
<1> QED BY <1>10, <1>11 DEF Posted

\* What the bounds need of a step: one run changes its numbers, and the logs only grow.
LEMMA BoundsKept ==
  ASSUME StarveInv, Bounds, NEW r \in BootRun, busFaults' \in 0..MaxBusFaults,
         \A s \in BootRun : s # r => run'[s] = run[s],
         run'[r].sent \in 0..EventCount, run'[r].done \in 0..EventCount, Holding(r)',
         \A q \in Queues : Len(busLog'[q]) \in Nat /\ Len(busLog'[q]) >= Len(busLog[q])
  PROVE  Bounds'
<1>1. ASSUME NEW s \in BootRun, s # r PROVE Holding(s)'
  <2>1. run'[s] = run[s] /\ QueueOf(s)' = QueueOf(s) /\ QueueOf(s) \in Queues
    BY <1>1, StarveNow DEF QueueOf
  <2>2. Len(busLog[QueueOf(s)]) \in Nat BY <2>1, StarveNow
  <2>3. Holding(s) BY DEF Bounds
  <2> QED BY <2>1, <2>2, <2>3 DEF Holding
<1> QED BY <1>1 DEF Bounds

LEMMA BusTypeNext ==
  ASSUME BusTypeInv, [BusNext]_busVars
  PROVE  BusTypeInv'
<1>0. /\ StarveInv /\ StarveInv' /\ Bounds /\ Posted /\ Counts
      /\ run \in [BootRun -> RunRecord] /\ EventCount \in Nat \ {0} /\ MaxBusFaults \in Nat
  BY StarveNextInv, StarveNow, BusAssumption DEF BusTypeInv
<1>1. \A r \in BootRun : /\ run[r] \in RunRecord /\ run[r].sent \in 0..EventCount
                         /\ run[r].done \in 0..EventCount /\ Holding(r) /\ QueueOf(r) \in Queues
  BY <1>0, StarveNow DEF Bounds
<1>2. \A q \in Queues : Len(busLog[q]) \in Nat /\ Len(busLog'[q]) \in Nat
  <2>1. \A q \in Queues : Len(busLog[q]) \in Nat BY <1>0, StarveNow
  <2>2. \A q \in Queues : busLog'[q] \in Seq(BootRun \X Int) BY <1>0 DEF StarveInv, Logs
  <2> QED BY <2>1, <2>2, LenProperties
<1>3. CASE \/ AutoCommit \/ \E r \in BootRun : Assign(r) \/ LeaveGroup(r)
           \/ UNCHANGED busVars
  <2>1. UNCHANGED <<run, busLog, busFaults>>
    BY <1>3 DEF AutoCommit, Assign, LeaveGroup, busVars
  <2> QED BY <1>0, <2>1 DEF BusTypeInv, Bounds, Holding, Posted, QueueOf
<1>4. ASSUME NEW r \in BootRun, BeginRun(r) PROVE BusTypeInv'
  <2>1. UNCHANGED <<busLog, busFaults>> /\ run[r].at = "idle" BY <1>4 DEF BeginRun
  <2>2. /\ run'[r].sent = run[r].sent /\ run'[r].done = run[r].done /\ run'[r].hand = run[r].hand
        /\ run'[r].at # "idle" /\ \A s \in BootRun : s # r => run'[s] = run[s]
    BY <1>0, <1>4 DEF BeginRun, RunRecord
  <2>3. run'[r].hand = 0 BY <1>0, <2>1, <2>2 DEF Counts
  <2>4. Holding(r)' BY <2>3 DEF Holding
  <2>5. Bounds' BY <1>0, <1>1, <1>2, <2>1, <2>2, <2>4, BoundsKept DEF Bounds
  <2>6. Posted' BY <1>0, <1>1, <2>1, <2>2, QuietPost
  <2> QED BY <1>0, <2>5, <2>6 DEF BusTypeInv
<1>5. ASSUME NEW r \in BootRun, EnsureKafka(r) PROVE BusTypeInv'
  <2>1. UNCHANGED <<busLog, busFaults>> /\ run[r].at = "start" BY <1>5 DEF EnsureKafka
  <2>2. /\ run'[r].sent = run[r].sent /\ run'[r].done = run[r].done /\ run'[r].hand = run[r].hand
        /\ \A s \in BootRun : s # r => run'[s] = run[s]
    BY <1>0, <1>5 DEF EnsureKafka, RunRecord
  <2>3. run'[r].hand = 0 BY <1>0, <2>1, <2>2 DEF Counts
  <2>4. Holding(r)' BY <2>3 DEF Holding
  <2>5. Bounds' BY <1>0, <1>1, <1>2, <2>1, <2>2, <2>4, BoundsKept DEF Bounds
  <2>6. Posted' BY <1>0, <1>1, <2>1, <2>2, QuietPost
  <2> QED BY <1>0, <2>5, <2>6 DEF BusTypeInv
<1>6. ASSUME NEW r \in BootRun, Enqueue(r) PROVE BusTypeInv'
  <2>1. /\ run[r].at = "enqueue" /\ UNCHANGED busFaults
        /\ busLog' = [busLog EXCEPT ![QueueOf(r)] = Append(@, <<r, run[r].sent + 1>>)]
    BY <1>6 DEF Enqueue
  <2>2. /\ run'[r].sent = run[r].sent + 1 /\ run'[r].done = run[r].done
        /\ run'[r].hand = run[r].hand /\ \A s \in BootRun : s # r => run'[s] = run[s]
    BY <1>0, <1>6 DEF Enqueue, Sent, RunRecord
  <2>3. run[r].sent \in 0..(EventCount - 1) /\ run'[r].hand = 0
    BY <1>0, <2>1, <2>2 DEF Counts
  <2>4. Holding(r)' BY <2>3 DEF Holding
  <2>5. \A q \in Queues : Len(busLog'[q]) >= Len(busLog[q])
    BY <1>0, <1>1, <1>2, <2>1, PutOnQueue
  <2>6. run'[r].sent \in 0..EventCount BY <1>0, <2>2, <2>3
  <2>7. Bounds' BY <1>0, <1>1, <1>2, <2>1, <2>2, <2>4, <2>5, <2>6, BoundsKept DEF Bounds
  <2>8. Posted' BY <1>0, <2>1, <2>2, PostStep
  <2> QED BY <1>0, <2>7, <2>8 DEF BusTypeInv
<1>7. ASSUME NEW r \in BootRun, EnqueueRaises(r) \/ RunDies(r) PROVE BusTypeInv'
  <2>1. Fault(r) /\ \/ UNCHANGED busLog
                    \/ /\ run[r].at = "enqueue"
                       /\ busLog' = [busLog EXCEPT ![QueueOf(r)] = Append(@, <<r, run[r].sent + 1>>)]
    BY <1>7 DEF EnqueueRaises, RunDies
  <2>2. /\ run'[r].sent = run[r].sent /\ run'[r].done = run[r].done
        /\ run'[r].hand = 0 /\ run'[r].at = "ended" /\ \A s \in BootRun : s # r => run'[s] = run[s]
    BY <1>0, <2>1 DEF Fault, RunRecord
  <2>3. busFaults' \in 0..MaxBusFaults BY <1>0, <2>1 DEF Fault, Bounds
  <2>4. Holding(r)' BY <2>2 DEF Holding
  <2>5. \A q \in Queues : Len(busLog'[q]) >= Len(busLog[q])
    BY <1>0, <1>1, <1>2, <2>1, PutOnQueue
  <2>6. Bounds' BY <1>0, <1>1, <1>2, <2>2, <2>3, <2>4, <2>5, BoundsKept
  <2>7. Posted'
    <3>1. CASE UNCHANGED busLog BY <1>0, <1>1, <2>2, <3>1, QuietPost
    <3>2. CASE ~ UNCHANGED busLog BY <1>0, <2>1, <2>2, <3>2, PostStep
    <3> QED BY <3>1, <3>2
  <2> QED BY <1>0, <2>6, <2>7 DEF BusTypeInv
<1>8. ASSUME NEW r \in BootRun, Dequeue(r) PROVE BusTypeInv'
  <2>1. /\ run[r].at = "dequeue" /\ NextPlace(r) \in DOMAIN busLog[QueueOf(r)]
        /\ run' = [run EXCEPT ![r].at = "process", ![r].hand = NextPlace(r)]
        /\ UNCHANGED <<busLog, busFaults>>
    BY <1>8 DEF Dequeue
  <2>2. NextPlace(r) \in 1..Len(busLog[QueueOf(r)])
    <3>1. busLog[QueueOf(r)] \in Seq(Places) BY <1>0, <1>1 DEF Posted
    <3> QED BY <2>1, <3>1, LenProperties
  <2>3. /\ run'[r].sent = run[r].sent /\ run'[r].done = run[r].done /\ run'[r].kind = run[r].kind
        /\ run'[r].hand = NextPlace(r) /\ run'[r].at = "process"
        /\ \A s \in BootRun : s # r => run'[s] = run[s]
    BY <1>0, <2>1 DEF RunRecord
  <2>4. QueueOf(r)' = QueueOf(r) BY <2>3 DEF QueueOf
  <2>5. Holding(r)' BY <2>1, <2>2, <2>3, <2>4 DEF Holding
  <2>6. Bounds' BY <1>0, <1>1, <1>2, <2>1, <2>3, <2>5, BoundsKept DEF Bounds
  <2>7. Posted' BY <1>0, <1>1, <2>1, <2>3, QuietPost
  <2> QED BY <1>0, <2>6, <2>7 DEF BusTypeInv
<1>9. ASSUME NEW r \in BootRun, Process(r) PROVE BusTypeInv'
  <2>1. run[r].at = "process" /\ UNCHANGED <<busLog, busFaults>> BY <1>9 DEF Process
  <2>2. /\ run'[r].sent = run[r].sent /\ run'[r].done = run[r].done + 1
        /\ run'[r].hand = 0 /\ \A s \in BootRun : s # r => run'[s] = run[s]
    BY <1>0, <1>9 DEF Process, RunRecord
  <2>3. run[r].done \in 0..(EventCount - 1) BY <1>0, <2>1 DEF Counts
  <2>4. run'[r].done \in 0..EventCount BY <1>0, <2>2, <2>3
  <2>5. Holding(r)' BY <2>2 DEF Holding
  <2>6. Bounds' BY <1>0, <1>1, <1>2, <2>1, <2>2, <2>4, <2>5, BoundsKept DEF Bounds
  <2>7. Posted' BY <1>0, <1>1, <2>1, <2>2, QuietPost
  <2> QED BY <1>0, <2>6, <2>7 DEF BusTypeInv
<1> QED BY <1>3, <1>4, <1>5, <1>6, <1>7, <1>8, <1>9 DEF BusNext

LEMMA BusTypeInit == ASSUME BusInit PROVE BusTypeInv
<1>1. /\ run = [r \in BootRun |-> NoRun] /\ busLog = [q \in Queues |-> <<>>] /\ busFaults = 0
  BY DEF BusInit, Queues
<1>2. NoRun.sent = 0 /\ NoRun.done = 0 /\ NoRun.hand = 0 BY DEF NoRun
<1>3. Bounds BY <1>1, <1>2, BusAssumption DEF Bounds, Holding
<1>4. IsInjective(<<>>) /\ ToSet(<<>>) = {} BY DEF IsInjective, ToSet
<1>5. Posted BY <1>1, <1>4 DEF Posted
<1> QED BY <1>3, <1>5, StarveInitInv DEF BusTypeInv

\* Every variable of the bus has its type: a run sends and processes no more than its events, a
\* queue never holds more than all runs send, and nothing is taken that was not put there.
THEOREM BusTypesHold == BusSpec => []BusTypeOK
<1>1. BusTypeInv => BusTypeOK
  <2> SUFFICES ASSUME BusTypeInv PROVE BusTypeOK OBVIOUS
  <2>1. StarveInv /\ Bounds /\ Posted /\ BusInv /\ run \in [BootRun -> RunRecord]
    BY StarveNow DEF BusTypeInv
  <2>2. ASSUME NEW r \in BootRun
        PROVE  run[r] \in [kind : Kinds, sent : 0..EventCount, done : 0..EventCount,
                           at : {"idle", "start", "enqueue", "dequeue", "process", "ended"},
                           hand : 0..(EventCount * Cardinality(BootRun))]
    <3>1. run[r] \in RunRecord BY <2>1
    <3>2. run[r].hand \in 0..(EventCount * Cardinality(BootRun))
      <4>1. QueueOf(r) \in Queues BY <2>1, StarveNow
      <4>2. Len(busLog[QueueOf(r)]) \in 0..(EventCount * Cardinality(BootRun))
        BY <2>1, <4>1, PostedFit
      <4>3. EventCount * Cardinality(BootRun) \in Nat BY BusAssumption, FS_CardinalityType
      <4>4. run[r].hand = 0 \/ run[r].hand \in 1..Len(busLog[QueueOf(r)])
        BY <2>1 DEF Bounds, Holding
      <4> QED BY <4>2, <4>3, <4>4
    <3> QED BY <2>1, <3>1, <3>2 DEF Bounds, RunRecord, Awaits
  <2>3. ASSUME NEW q \in Queues PROVE taken[q] \in 0..Len(busLog[q])
    <3>1. /\ taken[q] \in Nat /\ Len(busLog[q]) \in Nat /\ Gone(q) \in Int
          /\ Gone(q) <= Len(busLog[q])
      BY <2>1, StarveNow
    <3>2. taken[q] <= Gone(q)
      BY <2>1, <3>1, StarveNow DEF Gone
    <3> QED BY <3>1, <3>2
  <2>4. position[2] \in 0..Len(busLog[Shared])
    <3>1. Shared \in Queues BY DEF Queues
    <3>2. CASE position = Unassigned
      <4>1. Len(busLog[Shared]) \in Nat BY <2>1, <3>1, StarveNow
      <4> QED BY <3>2, <4>1 DEF Unassigned
    <3>3. CASE position # Unassigned
      <4>1. Gone(Shared) = position[2] BY <3>3 DEF Gone
      <4>2. /\ position[2] \in Nat /\ Len(busLog[Shared]) \in Nat
            /\ Gone(Shared) <= Len(busLog[Shared])
        BY <2>1, <3>1, <3>3, StarveNow
      <4> QED BY <4>1, <4>2
    <3> QED BY <3>2, <3>3
  <2>5. DOMAIN busLog = Queues BY <2>1 DEF StarveInv, Logs
  <2>6. run \in [BootRun -> [kind : Kinds, sent : 0..EventCount, done : 0..EventCount,
                             at : {"idle", "start", "enqueue", "dequeue", "process", "ended"},
                             hand : 0..(EventCount * Cardinality(BootRun))]]
    BY <2>1, <2>2
  <2> QED BY <2>1, <2>3, <2>4, <2>5, <2>6, BusNow DEF BusTypeOK, Bounds
<1> QED BY <1>1, BusTypeInit, BusTypeNext, PTL DEF BusSpec

--------------------------------------------------------------------------------
(* The LLM client                                                              *)

\* The turns that raised before turn t.
RaisedBefore(t) ==
    CASE t = "primary" -> <<>>
      [] t = "fallback" -> <<"primary">>
      [] OTHER -> IF provider.fallback = NoProvider THEN <<"primary">>
                                                    ELSE <<"primary", "fallback">>

AllTurns == IF provider.fallback = NoProvider THEN <<"primary", "again">>
                                              ELSE <<"primary", "fallback", "again">>

\* A turn that runs has sent one request per attempt that failed, and came to its second
\* service only through an HTTP endpoint that was tried.
Underway ==
    turn # "done" =>
      /\ trace = NoTrace /\ raisedIn = RaisedBefore(turn) /\ ProviderOf(turn) # NoProvider
      /\ service \in DOMAIN Chain[ProviderOf(turn)]
      /\ Current = "http" => attempt <= MaxRetries
      /\ Current = "litellm" => attempt <= Models
      /\ service = 1 => posts[turn] = attempt - 1
      /\ service = 2 => posts[turn] \in attempt..(MaxRetries + attempt - 1)
      /\ \A t \in Turns : t # turn /\ t \notin ToSet(raisedIn) => posts[t] = 0

MockedRayServe == trace.by = "mock" /\ trace.score = 80

Ended ==
    turn = "done" =>
      \/ trace.at = "raised" /\ raisedIn = AllTurns
      \/ /\ trace.at \in Turns /\ ProviderOf(trace.at) # NoProvider
         /\ raisedIn = RaisedBefore(trace.at) /\ trace.warnings = Warnings(trace.at)
         /\ MockedRayServe <=> ProviderOf(trace.at) = "ray_serve_mock"

\* No turn sends more than its provider allows, and none that raised sent nothing.
Requests ==
    /\ \A t \in Turns : ProviderOf(t) # NoProvider => posts[t] <= PostBound(ProviderOf(t))
    /\ provider.fallback = NoProvider => posts["fallback"] = 0
    /\ \A t \in ToSet(raisedIn) : posts[t] > 0

LlmInv == LlmTypeOK /\ Underway /\ Ended /\ Requests

Service == {"mock", "http", "litellm"}
\* Two of one element each make a pair.
LEMMA AppendTwo == ASSUME NEW a, NEW b PROVE Append(<<a>>, b) = <<a, b>>
<1> DEFINE S == {a, b}
<1> DEFINE s == <<a>>
<1>1. s \in Seq(S) /\ b \in S /\ Len(s) = 1 OBVIOUS
<1>4. s[1] = a OBVIOUS
<1> HIDE DEF S, s
<1> DEFINE t == Append(s, b)
<1> DEFINE w == <<a, b>>
<1>2. /\ t \in Seq(S) /\ Len(t) = Len(s) + 1
      /\ \A i \in 1..Len(s) : t[i] = s[i]
      /\ t[Len(s) + 1] = b
  <2>1. s \in Seq(S) /\ b \in S BY <1>1
  <2> QED BY ONLY <2>1, AppendProperties
<1>6. Len(t) = 2 /\ t[1] = a /\ t[2] = b
  <2> HIDE DEF t
  <2> QED BY <1>1, <1>2, <1>4
<1>3. w \in Seq(S) /\ Len(w) = 2 /\ w[1] = a /\ w[2] = b BY DEF S
<1> HIDE DEF t, w
<1>5. t = w
  <2>1. \A i \in 1..Len(t) : t[i] = w[i] BY <1>6, <1>3
  <2> QED BY <1>2, <1>3, <1>6, <2>1, SeqEqual
<1> QED BY <1>5 DEF t, w, s

\* A chain of two services is the first followed by the second.
LEMMA ConcatTwo == ASSUME NEW a, NEW b PROVE <<a>> \o <<b>> = <<a, b>>
<1>1. <<a>> \in Seq({a, b}) /\ b \in {a, b} OBVIOUS
<1>2. Append(<<a>>, b) = <<a>> \o <<b>> BY <1>1, AppendIsConcat
<1> QED BY <1>2, AppendTwo

\* A chain is one service, or HTTP with something to fall back to.
LEMMA ChainShapes ==
  ASSUME NEW s \in {<<"mock">>, <<"http">>, <<"litellm">>,
                   <<"http", "mock">>, <<"http", "litellm">>}
  PROVE  /\ s \in Seq(Service) /\ Len(s) \in 1..2
         /\ Len(s) = 2 => s[1] = "http" /\ s[2] # "http"
<1>1. CASE Len(s) = 1
  <2>1. \E a \in Service : s = <<a>> BY <1>1 DEF Service
  <2> QED BY <1>1, <2>1
<1>2. CASE Len(s) = 2
  <2>1. \E a \in Service, b \in Service : s = <<a, b>> /\ a = "http" /\ b # "http"
    BY <1>2 DEF Service
  <2> QED BY <1>2, <2>1
<1>3. Len(s) = 1 \/ Len(s) = 2
  OBVIOUS
<1> QED BY <1>1, <1>2, <1>3

\* The services of a provider: one, or HTTP and then one that is not.
LEMMA ChainFacts ==
  ASSUME NEW p \in Provider
  PROVE  /\ p # NoProvider
         /\ Chain[p] \in Seq(Service) /\ Len(Chain[p]) \in 1..2
         /\ Len(Chain[p]) = 2 => Chain[p][1] = "http" /\ Chain[p][2] # "http"
<1>0. Provider = {"mock", "vllm", "ray_serve_mock", "litellm", "litellm_nokey",
                  "custom", "custom_litellm", "custom_nourl"}
  BY DEF Provider, Chain
<1>1. p # NoProvider
  BY <1>0 DEF NoProvider
<1>2. Chain[p] \in {<<"mock">>, <<"http">>, <<"litellm">>,
                    <<"http", "mock">>, <<"http", "litellm">>}
  BY <1>0 DEF Chain
<1> QED BY <1>1, <1>2, ChainShapes

\* The posts a provider may cost: its models, and the retries if it is asked over HTTP.
LEMMA BoundFacts ==
  ASSUME NEW p \in Provider
  PROVE  /\ PostBound(p) \in Nat /\ PostBound(p) >= Models
         /\ Chain[p][1] = "http" => PostBound(p) = MaxRetries + Models
<1>1. 1 \in DOMAIN Chain[p] BY ChainFacts
<1> HIDE DEF Chain
<1>2. CASE "http" \in {Chain[p][i] : i \in DOMAIN Chain[p]}
  BY <1>2, RetriesAssumption DEF PostBound
<1>3. CASE "http" \notin {Chain[p][i] : i \in DOMAIN Chain[p]}
  BY <1>1, <1>3, RetriesAssumption DEF PostBound
<1> QED BY <1>2, <1>3

LEMMA ProviderFacts ==
  ASSUME LlmTypeOK, NEW t \in Turns, ProviderOf(t) # NoProvider
  PROVE  ProviderOf(t) \in Provider
  BY DEF LlmTypeOK, ProviderOf, Turns

LEMMA RayServeMock ==
  ASSUME NEW p \in Provider, NEW i \in DOMAIN Chain[p]
  PROVE  (Chain[p][i] = "mock" /\ Score(BackendId(p, Chain[p][i])) = 80) <=> p = "ray_serve_mock"
<1>1. p = "ray_serve_mock" => Chain[p][i] = "mock"
  BY DEF Chain
<1>2. p = "ray_serve_mock" => Score(BackendId(p, Chain[p][i])) = 80
  BY DEF Score, BackendId
<1>3. p # "ray_serve_mock" /\ Chain[p][i] = "mock" => Score(BackendId(p, Chain[p][i])) = 55
  BY DEF Score, BackendId
<1> QED BY <1>1, <1>2, <1>3

\* The posts of a turn, counted by the attempts of the services before and of this one.
LEMMA Counted ==
  ASSUME LlmInv, turn # "done", Current \in {"http", "litellm"}, CountPost
  PROVE  /\ posts' \in [Turns -> Nat] /\ posts'[turn] = posts[turn] + 1
         /\ \A t \in Turns : t # turn => posts'[t] = posts[t]
         /\ posts'[turn] <= PostBound(ProviderOf(turn))
         /\ Current = "http" => service = 1 /\ posts'[turn] = attempt
<1> DEFINE p == ProviderOf(turn)
<1>1. turn \in Turns /\ posts \in [Turns -> Nat] /\ attempt \in Nat \ {0} /\ service \in 1..2
  BY RetriesAssumption DEF LlmInv, LlmTypeOK
<1>2. p \in Provider BY <1>1, ProviderFacts DEF LlmInv, Underway
<1> HIDE DEF p
<1>3. /\ posts' \in [Turns -> Nat] /\ posts'[turn] = posts[turn] + 1
      /\ \A t \in Turns : t # turn => posts'[t] = posts[t]
  BY <1>1 DEF CountPost
<1>4. /\ Current = Chain[p][service] /\ service \in DOMAIN Chain[p]
      /\ Current = "http" => attempt <= MaxRetries
      /\ Current = "litellm" => attempt <= Models
      /\ service = 1 => posts[turn] = attempt - 1
      /\ service = 2 => posts[turn] \in attempt..(MaxRetries + attempt - 1)
  BY DEF LlmInv, Underway, Current, p
<1>5. service = 2 => Chain[p][1] = "http" /\ Current = "litellm"
  BY <1>2, <1>4, ChainFacts
<1>6. CASE Current = "http"
  <2>1. service = 1 BY <1>1, <1>5, <1>6
  <2>2. PostBound(p) = MaxRetries + Models BY <1>2, <1>4, <1>6, <2>1, BoundFacts
  <2> QED BY <1>1, <1>3, <1>4, <1>6, <2>1, <2>2, RetriesAssumption DEF p
<1>7. CASE Current = "litellm"
  <2>1. CASE service = 1
    <3>1. PostBound(p) \in Nat /\ PostBound(p) >= Models BY <1>2, BoundFacts
    <3> QED BY <1>1, <1>3, <1>4, <1>7, <2>1, <3>1, RetriesAssumption DEF p
  <2>2. CASE service = 2
    <3>1. PostBound(p) = MaxRetries + Models BY <1>2, <1>5, <2>2, BoundFacts
    <3> QED BY <1>1, <1>3, <1>4, <1>7, <2>2, <3>1, RetriesAssumption DEF p
  <2> QED BY <1>1, <2>1, <2>2
<1> QED BY <1>6, <1>7

LEMMA RaisedFacts ==
  ASSUME LlmTypeOK, NEW t \in Turns
  PROVE  ToSet(RaisedBefore(t)) \subseteq Turns \ {t}
  BY DEF RaisedBefore, Turns, ToSet

LEMMA RequestsStep ==
  ASSUME LlmInv, turn # "done", Current \in {"http", "litellm"}, CountPost, UNCHANGED provider,
         raisedIn' = raisedIn \/ raisedIn' = Append(raisedIn, turn)
  PROVE  Requests'
<1>1. turn \in Turns /\ raisedIn \in Seq(Turns) /\ posts \in [Turns -> Nat] BY DEF LlmInv, LlmTypeOK
<1>2. /\ posts' \in [Turns -> Nat] /\ posts'[turn] = posts[turn] + 1
      /\ \A t \in Turns : t # turn => posts'[t] = posts[t]
      /\ posts'[turn] <= PostBound(ProviderOf(turn))
  BY Counted
<1>3. (\A t \in Turns : ProviderOf(t) # NoProvider => posts[t] <= PostBound(ProviderOf(t)))'
  BY <1>2 DEF LlmInv, Requests, ProviderOf
<1>4. provider'.fallback = NoProvider => posts'["fallback"] = 0
  <2>1. ProviderOf(turn) # NoProvider BY DEF LlmInv, Underway
  <2> QED BY <1>2, <2>1 DEF LlmInv, Requests, ProviderOf, Turns
<1>5. \A t \in ToSet(raisedIn') : posts'[t] > 0
  <2>1. ToSet(raisedIn') \subseteq ToSet(raisedIn) \cup {turn} BY <1>1, AppendFacts DEF ToSet
  <2>2. ToSet(raisedIn) \subseteq Turns BY <1>1 DEF ToSet
  <2>3. \A t \in ToSet(raisedIn) : posts[t] > 0 BY DEF LlmInv, Requests
  <2> QED BY <1>1, <1>2, <2>1, <2>2, <2>3
<1> QED BY <1>3, <1>4, <1>5 DEF Requests

\* The steps of a request, each of which keeps the invariant.
LEMMA AnswerStep ==
  ASSUME LlmInv, turn # "done", Answer, posts' \in [Turns -> Nat], Requests'
  PROVE  LlmInv'
<1> DEFINE p == ProviderOf(turn)
<1>1. /\ turn \in Turns /\ p # NoProvider /\ raisedIn = RaisedBefore(turn)
      /\ service \in DOMAIN Chain[p]
  BY DEF LlmInv, LlmTypeOK, Underway
<1>2. p \in Provider BY <1>1, ProviderFacts DEF LlmInv
<1>3. /\ trace'.at = turn /\ trace'.by = Current /\ trace'.warnings = Warnings(turn)
      /\ trace'.score = Score(BackendId(p, Current))
      /\ turn' = "done" /\ UNCHANGED <<provider, service, attempt, raisedIn>>
  BY DEF Answer
<1>4. LlmTypeOK' BY <1>1, <1>3 DEF LlmInv, LlmTypeOK
<1>5. MockedRayServe' <=> p = "ray_serve_mock"
  <2>1. Current = Chain[p][service] BY DEF Current
  <2> HIDE DEF p
  <2> QED BY <1>1, <1>2, <1>3, <2>1, RayServeMock DEF MockedRayServe
<1>6. Ended'
  <2>1. trace'.warnings = Warnings(trace.at)'
    BY <1>3 DEF Warnings
  <2>2. raisedIn' = RaisedBefore(trace.at)'
    BY <1>1, <1>3 DEF RaisedBefore
  <2>3. ProviderOf(trace.at)' = p BY <1>3 DEF ProviderOf
  <2> QED BY <1>1, <1>3, <1>5, <2>1, <2>2, <2>3 DEF Ended
<1>7. Underway' BY <1>3 DEF Underway
<1> QED BY <1>4, <1>6, <1>7 DEF LlmInv

\* The service tries again.
LEMMA RetryStep ==
  ASSUME LlmInv, turn # "done", CountPost, attempt' = attempt + 1,
         \/ Current = "http" /\ attempt < MaxRetries
         \/ Current = "litellm" /\ attempt < Models,
         UNCHANGED <<provider, turn, service, raisedIn, trace>>
  PROVE  LlmInv'
<1>1. /\ turn \in Turns /\ posts \in [Turns -> Nat] /\ service \in 1..2 /\ attempt \in Nat \ {0}
  BY RetriesAssumption DEF LlmInv, LlmTypeOK
<1>2. /\ posts' \in [Turns -> Nat] /\ posts'[turn] = posts[turn] + 1
      /\ Current = "http" => service = 1
  BY Counted
<1>3. Requests' BY RequestsStep
<1>4. LlmTypeOK'
  <2>1. attempt' \in 1..(IF MaxRetries > Models THEN MaxRetries ELSE Models)
    BY <1>1, RetriesAssumption
  <2> QED BY <1>2, <2>1 DEF LlmInv, LlmTypeOK
<1>5. Underway'
  <2>1. Current' = Current BY DEF Current, ProviderOf
  <2>2. /\ trace = NoTrace /\ raisedIn = RaisedBefore(turn) /\ ProviderOf(turn) # NoProvider
        /\ service \in DOMAIN Chain[ProviderOf(turn)]
    BY DEF LlmInv, Underway
  <2>3. (/\ trace = NoTrace /\ raisedIn = RaisedBefore(turn) /\ ProviderOf(turn) # NoProvider
         /\ service \in DOMAIN Chain[ProviderOf(turn)])'
    BY <2>2 DEF RaisedBefore, ProviderOf
  <2>4. Current' = "http" => attempt' <= MaxRetries
    BY <1>1, <2>1, RetriesAssumption
  <2>5. Current' = "litellm" => attempt' <= Models
    BY <1>1, <2>1, RetriesAssumption
  <2>6. service' = 1 => posts'[turn'] = attempt' - 1
    BY <1>1, <1>2 DEF LlmInv, Underway
  <2>7. service' = 2 => posts'[turn'] \in attempt'..(MaxRetries + attempt' - 1)
    BY <1>1, <1>2, RetriesAssumption DEF LlmInv, Underway
  <2>8. \A t \in Turns : t # turn' /\ t \notin ToSet(raisedIn') => posts'[t] = 0
    BY Counted DEF LlmInv, Underway
  <2> QED BY <2>3, <2>4, <2>5, <2>6, <2>7, <2>8 DEF Underway
<1>6. Ended' BY DEF Ended
<1> QED BY <1>3, <1>4, <1>5, <1>6 DEF LlmInv

\* CustomAdapter goes on to its second service.
LEMMA NextServiceStep ==
  ASSUME LlmInv, turn # "done", Current \in {"http", "litellm"}, CountPost,
         service < Len(Chain[ProviderOf(turn)]), service' = service + 1, attempt' = 1,
         UNCHANGED <<provider, turn, raisedIn, trace>>
  PROVE  LlmInv'
<1> DEFINE p == ProviderOf(turn)
<1>1. /\ turn \in Turns /\ posts \in [Turns -> Nat] /\ service \in 1..2 /\ attempt \in Nat \ {0}
      /\ p # NoProvider /\ service \in DOMAIN Chain[p]
      /\ (attempt <= MaxRetries \/ Current # "http")
      /\ raisedIn = RaisedBefore(turn) /\ trace = NoTrace
  BY RetriesAssumption DEF LlmInv, LlmTypeOK, Underway
<1>2. p \in Provider BY <1>1, ProviderFacts DEF LlmInv, Underway
<1>3. Current = Chain[p][service] /\ service < Len(Chain[p]) BY DEF Current
<1> HIDE DEF p
<1>4. /\ service = 1 /\ service' = 2 /\ Len(Chain[p]) = 2 /\ 2 \in DOMAIN Chain[p]
      /\ Current = "http" /\ Chain[p][2] # "http"
  <2> DEFINE n == Len(Chain[p])
  <2>0. n \in 1..2 BY <1>2, ChainFacts
  <2> HIDE DEF n
  <2>4. service < n BY <1>3 DEF n
  <2>5. service \in 1..2 BY <1>1
  <2>1. service = 1 /\ n = 2 BY <2>0, <2>4, <2>5
  <2>2. Chain[p][1] = "http" /\ Chain[p][2] # "http" BY <1>2, <2>1, ChainFacts DEF n
  <2>3. 2 \in DOMAIN Chain[p] BY <1>2, <2>1, ChainFacts DEF n
  <2> QED BY <1>3, <2>1, <2>2, <2>3 DEF n
<1>5. posts' \in [Turns -> Nat] /\ posts'[turn] = attempt
  BY <1>4, Counted
<1>6. attempt <= MaxRetries BY <1>4 DEF LlmInv, Underway
<1>7. Requests' BY RequestsStep
<1>8. LlmTypeOK'
  <2>1. attempt' \in 1..(IF MaxRetries > Models THEN MaxRetries ELSE Models)
    BY RetriesAssumption
  <2> QED BY <1>4, <1>5, <2>1 DEF LlmInv, LlmTypeOK
<1>9. Underway'
  <2>1. ProviderOf(turn)' = p BY DEF p, ProviderOf
  <2>2. Current' = Chain[p][2] BY <1>4, <2>1 DEF Current
  <2>3. raisedIn' = RaisedBefore(turn)' BY <1>1 DEF RaisedBefore
  <2>4. posts'[turn'] \in attempt'..(MaxRetries + attempt' - 1)
    BY <1>1, <1>5, <1>6, RetriesAssumption
  <2>5. (Current' = "litellm" => attempt' <= Models) /\ Current' # "http" 
    BY <1>4, <2>2, RetriesAssumption
  <2>6. p # NoProvider BY <1>2, ChainFacts
  <2>7. trace' = NoTrace BY DEF LlmInv, Underway
  <2>8. \A t \in Turns : t # turn' /\ t \notin ToSet(raisedIn') => posts'[t] = 0
    BY Counted DEF LlmInv, Underway
  <2> QED BY <1>4, <2>1, <2>3, <2>4, <2>5, <2>6, <2>7, <2>8 DEF Underway
<1>10. Ended' BY DEF Ended
<1> QED BY <1>7, <1>8, <1>9, <1>10 DEF LlmInv

LEMMA CompleteRaisesStep ==
  ASSUME LlmInv, turn # "done", Current \in {"http", "litellm"}, CountPost, CompleteRaises
  PROVE  LlmInv'
<1>1. /\ turn \in Turns /\ raisedIn \in Seq(Turns) /\ raisedIn = RaisedBefore(turn)
      /\ ProviderOf(turn) # NoProvider
  BY DEF LlmInv, LlmTypeOK, Underway
<1>2. /\ posts' \in [Turns -> Nat]
      /\ \A t \in Turns : t # turn => posts'[t] = posts[t]
  BY Counted
<1>3. /\ service' = 1 /\ attempt' = 1 /\ raisedIn' = Append(raisedIn, turn) /\ provider' = provider
      /\ turn = "again" => turn' = "done" /\ trace' = [at |-> "raised"]
      /\ turn # "again" => turn' = NextTurn /\ trace' = trace
  BY DEF CompleteRaises
<1>4. Requests' BY <1>3, RequestsStep
<1>5. turn' \in Turns \cup {"done"} BY <1>1, <1>3 DEF NextTurn, Turns
<1>6. LlmTypeOK'
  <2>1. attempt' \in 1..(IF MaxRetries > Models THEN MaxRetries ELSE Models)
    BY <1>3, RetriesAssumption
  <2>2. raisedIn' \in Seq(Turns) BY <1>1, <1>3, AppendFacts
  <2>3. trace'.at \in {"pending", "raised"} \cup Turns
    BY <1>3 DEF LlmInv, LlmTypeOK
  <2> QED BY <1>2, <1>3, <1>5, <2>1, <2>2, <2>3 DEF LlmInv, LlmTypeOK
<1>7. CASE turn = "again"
  <2>1. raisedIn' = AllTurns'
    BY <1>1, <1>3, <1>7, SMTT(30) DEF RaisedBefore, AllTurns
  <2> QED BY <1>3, <1>4, <1>6, <1>7, <2>1 DEF LlmInv, Ended, Underway
<1>8. CASE turn # "again"
  <2>1. turn' = NextTurn /\ turn' # "done" /\ turn' # turn /\ trace' = NoTrace
    BY <1>1, <1>3, <1>8 DEF NextTurn, Turns, LlmInv, Underway
  <2>2. ProviderOf(turn)' \in Provider
    BY <1>3, <2>1 DEF LlmInv, LlmTypeOK, ProviderOf, NextTurn
  <2>3. ProviderOf(turn)' # NoProvider BY <2>2, ChainFacts
  <2>4. service' \in DOMAIN Chain[ProviderOf(turn)']
    BY <1>3, <2>2, ChainFacts
  <2>5. raisedIn' = RaisedBefore(turn)'
    <3>1. CASE turn = "primary"
      <4>1. raisedIn' = <<"primary">> BY <1>1, <1>3, <3>1 DEF RaisedBefore
      <4> QED BY <1>3, <2>1, <3>1, <4>1 DEF RaisedBefore, NextTurn
    <3>2. CASE turn = "fallback"
      <4>3. raisedIn = <<"primary">>
        BY <1>1, <3>2 DEF RaisedBefore, ProviderOf
      <4>4. Append(<<"primary">>, "fallback") = <<"primary", "fallback">> BY AppendTwo
      <4>1. raisedIn' = <<"primary", "fallback">>
        <5>1. raisedIn' = Append(raisedIn, turn) BY <1>3
        <5> QED BY <3>2, <4>3, <4>4, <5>1
      <4>2. turn' = "again" /\ provider'.fallback # NoProvider
        BY <1>1, <1>3, <2>1, <3>2 DEF NextTurn, ProviderOf
      <4> QED BY <4>1, <4>2 DEF RaisedBefore
    <3> QED BY <1>1, <1>8, <3>1, <3>2 DEF Turns
  <2>6. turn' \notin ToSet(raisedIn) /\ ToSet(raisedIn') = ToSet(raisedIn) \cup {turn}
    <3>1. ToSet(raisedIn') = ToSet(raisedIn) \cup {turn} BY <1>1, <1>3, AppendFacts
    <3>2. CASE turn = "primary"
      BY <1>1, <2>1, <3>1, <3>2 DEF RaisedBefore, ToSet
    <3>3. CASE turn = "fallback"
      BY <1>1, <2>1, <3>1, <3>3 DEF RaisedBefore, ToSet, NextTurn
    <3> QED BY <1>1, <1>8, <3>1, <3>2, <3>3 DEF Turns
  <2>7. /\ posts'[turn'] = 0
        /\ \A t \in Turns : t # turn' /\ t \notin ToSet(raisedIn') => posts'[t] = 0
    <3>1. \A t \in Turns : t # turn /\ t \notin ToSet(raisedIn) => posts'[t] = 0
      BY <1>2 DEF LlmInv, Underway
    <3> QED BY <1>5, <2>1, <2>6, <3>1
  <2>8. attempt' <= MaxRetries /\ attempt' <= Models BY <1>3, RetriesAssumption
  <2>9. Underway'
    BY <1>3, <2>1, <2>3, <2>4, <2>5, <2>7, <2>8 DEF Underway
  <2> QED BY <1>4, <1>6, <2>1, <2>9 DEF LlmInv, Ended
<1> QED BY <1>7, <1>8

LEMMA ServiceRaisesStep ==
  ASSUME LlmInv, turn # "done", Current \in {"http", "litellm"}, CountPost, ServiceRaises
  PROVE  LlmInv'
<1>1. CASE service < Len(Chain[ProviderOf(turn)])
  BY <1>1, NextServiceStep DEF ServiceRaises
<1>2. CASE ~(service < Len(Chain[ProviderOf(turn)]))
  BY <1>2, CompleteRaisesStep DEF ServiceRaises
<1> QED BY <1>1, <1>2

LEMMA LlmNextInv ==
  ASSUME LlmInv, [LlmNext]_llmVars
  PROVE  LlmInv'
<1>1. CASE MockAnswers
  <2>1. Answer /\ turn # "done" /\ UNCHANGED <<provider, posts, raisedIn>>
    BY <1>1 DEF MockAnswers, Answer
  <2>2. posts' \in [Turns -> Nat] BY <2>1 DEF LlmInv, LlmTypeOK
  <2>3. Requests' BY <2>1 DEF LlmInv, Requests, ProviderOf
  <2> QED BY <2>1, <2>2, <2>3, AnswerStep
<1>2. ASSUME Current \in {"http", "litellm"}, turn # "done", CountPost, Answer
      PROVE  LlmInv'
  <2>1. UNCHANGED <<provider, raisedIn>> BY <1>2 DEF Answer
  <2>2. Requests' BY <1>2, <2>1, RequestsStep
  <2>3. posts' \in [Turns -> Nat] BY <1>2, Counted
  <2> QED BY <1>2, <2>2, <2>3, AnswerStep
<1>3. CASE HttpAnswers BY <1>2, <1>3 DEF HttpAnswers
<1>4. CASE LitellmAnswers BY <1>2, <1>4 DEF LitellmAnswers
<1>5. CASE HttpFails
  <2>1. CASE attempt < MaxRetries BY <1>5, <2>1, RetryStep DEF HttpFails
  <2>2. CASE ~(attempt < MaxRetries) BY <1>5, <2>2, ServiceRaisesStep DEF HttpFails
  <2> QED BY <2>1, <2>2
<1>6. CASE HttpMalformed BY <1>6, ServiceRaisesStep DEF HttpMalformed
<1>7. CASE LitellmFails
  <2>1. CASE attempt < Models BY <1>7, <2>1, RetryStep DEF LitellmFails
  <2>2. CASE ~(attempt < Models) BY <1>7, <2>2, ServiceRaisesStep DEF LitellmFails
  <2> QED BY <2>1, <2>2
<1>8. CASE UNCHANGED llmVars
  BY <1>8 DEF llmVars, LlmInv, LlmTypeOK, Underway, Ended, Requests, MockedRayServe, AllTurns,
              RaisedBefore, Warnings, ProviderOf, Current
<1> QED BY <1>1, <1>3, <1>4, <1>5, <1>6, <1>7, <1>8 DEF LlmNext

LEMMA LlmInitInv ==
  ASSUME LlmInit
  PROVE  LlmInv
<1>1. /\ turn = "primary" /\ service = 1 /\ attempt = 1 /\ raisedIn = <<>> /\ trace = NoTrace
      /\ posts = [t \in Turns |-> 0]
      /\ provider \in [primary : Provider, fallback : Provider \cup {NoProvider}]
  BY DEF LlmInit
<1>2. ProviderOf(turn) \in Provider BY <1>1 DEF ProviderOf
<1>3. LlmTypeOK
  <2>1. attempt \in 1..(IF MaxRetries > Models THEN MaxRetries ELSE Models)
    BY <1>1, RetriesAssumption
  <2>2. trace.at \in {"pending", "raised"} \cup Turns BY <1>1 DEF NoTrace
  <2>3. turn \in Turns \cup {"done"} /\ posts \in [Turns -> Nat] BY <1>1 DEF Turns
  <2> QED BY <1>1, <2>1, <2>2, <2>3 DEF LlmTypeOK
<1>4. Underway
  <2>1. raisedIn = RaisedBefore(turn) BY <1>1 DEF RaisedBefore
  <2>2. ProviderOf(turn) # NoProvider /\ service \in DOMAIN Chain[ProviderOf(turn)]
    BY <1>1, <1>2, ChainFacts
  <2>3. attempt <= MaxRetries /\ attempt <= Models BY <1>1, RetriesAssumption
  <2>4. \A t \in Turns : posts[t] = 0 BY <1>1
  <2>5. turn \in Turns BY <1>1 DEF Turns
  <2> QED BY <1>1, <2>1, <2>2, <2>3, <2>4, <2>5 DEF Underway
<1>5. Ended BY <1>1 DEF Ended
<1>6. Requests
  <2>1. /\ \A t \in Turns : posts[t] = 0
        /\ "fallback" \in Turns
    BY <1>1 DEF Turns
  <2>2. ASSUME NEW t \in Turns, ProviderOf(t) # NoProvider
        PROVE  posts[t] <= PostBound(ProviderOf(t))
    <3>1. ProviderOf(t) \in Provider BY <1>3, <2>2, ProviderFacts
    <3>2. PostBound(ProviderOf(t)) \in Nat BY <3>1, BoundFacts
    <3> QED BY <2>1, <3>2
  <2>3. \A t : t \notin ToSet(raisedIn)
    <3>1. DOMAIN raisedIn = {} BY <1>1
    <3> QED BY <3>1 DEF ToSet
  <2> QED BY <2>1, <2>2, <2>3 DEF Requests
<1> QED BY <1>3, <1>4, <1>5, <1>6 DEF LlmInv

LEMMA LlmInvHolds == LlmSpec => []LlmInv
  BY LlmInitInv, LlmNextInv, PTL DEF LlmSpec

\* An error comes only when every turn was tried to its end.
LEMMA RaisesOnlyExhaustedFrom ==
  ASSUME LlmInv
  PROVE  RaisesOnlyExhausted
<1>1. ASSUME trace.at = "raised"
      PROVE  /\ raisedIn = AllTurns
             /\ \A t \in Turns : ProviderOf(t) # NoProvider => posts[t] > 0
  <2>1. turn \in Turns \cup {"done"} /\ NoTrace.at # "raised"
    BY DEF LlmInv, LlmTypeOK, NoTrace
  <2>2. turn = "done" BY <1>1, <2>1 DEF LlmInv, Underway
  <2>3. raisedIn = AllTurns BY <1>1, <2>2 DEF LlmInv, Ended, Turns
  <2>4. \A t \in Turns : ProviderOf(t) # NoProvider => t \in ToSet(AllTurns)
    <3>1. CASE provider.fallback = NoProvider
      <4>1. "primary" \in ToSet(AllTurns) /\ "again" \in ToSet(AllTurns)
        BY <3>1 DEF AllTurns, ToSet
      <4> QED BY <3>1, <4>1 DEF Turns, ProviderOf
    <3>2. CASE provider.fallback # NoProvider
      <4>1. "primary" \in ToSet(AllTurns) /\ "fallback" \in ToSet(AllTurns)
            /\ "again" \in ToSet(AllTurns)
        BY <3>2 DEF AllTurns, ToSet
      <4> QED BY <4>1 DEF Turns
    <3> QED BY <3>1, <3>2
  <2> QED BY <2>3, <2>4 DEF LlmInv, Requests
<1>2. Turns = {"primary", "fallback", "again"} BY DEF Turns
<1> QED BY <1>1, <1>2 DEF RaisesOnlyExhausted, LlmInv, Requests, AllTurns

\* A trace names the provider that answered, and warns of the one that did not.
LEMMA TraceTellsItsSourceFrom ==
  ASSUME LlmInv
  PROVE  TraceTellsItsSource
<1> SUFFICES ASSUME trace.at \in Turns
             PROVE  /\ trace.warnings = <<>> <=> raisedIn = <<>>
                    /\ (trace.at = "fallback")
                          = (trace.warnings = <<"primary_provider_failed",
                                                 "fallback_provider_used">>)
                    /\ MockedRayServe <=> ProviderOf(trace.at) = "ray_serve_mock"
  BY DEF TraceTellsItsSource, MockedRayServe
<1>1. /\ raisedIn = RaisedBefore(trace.at) /\ trace.warnings = Warnings(trace.at)
      /\ MockedRayServe <=> ProviderOf(trace.at) = "ray_serve_mock"
      /\ ProviderOf(trace.at) # NoProvider
  <2>1. turn \in Turns \cup {"done"} /\ NoTrace.at \notin Turns
    BY DEF LlmInv, LlmTypeOK, NoTrace, Turns
  <2>2. turn = "done" BY <2>1 DEF LlmInv, Underway
  <2> QED BY <2>2 DEF LlmInv, Ended, Turns
<1>2. CASE trace.at = "primary"
  <2>1. raisedIn = <<>> BY <1>1, <1>2 DEF RaisedBefore
  <2>2. trace.warnings = <<>> BY <1>1, <1>2, <2>1 DEF Warnings
  <2> QED BY <1>1, <1>2, <2>1, <2>2
<1>3. CASE trace.at = "fallback"
  <2>1. raisedIn = <<"primary">> BY <1>1, <1>3 DEF RaisedBefore
  <2>2. raisedIn # <<>> /\ Len(raisedIn) # 2 BY <2>1
  <2>3. trace.warnings = <<"primary_provider_failed">> \o <<"fallback_provider_used">> \o <<>>
    BY <1>1, <1>3, <2>2 DEF Warnings
  <2>4. trace.warnings = <<"primary_provider_failed", "fallback_provider_used">>
    BY <2>3, ConcatTwo, ConcatEmptySeq
  <2>5. trace.warnings # <<>> BY <2>4
  <2> QED BY <1>1, <1>3, <2>2, <2>4, <2>5
<1>4. CASE trace.at = "again" /\ provider.fallback = NoProvider
  <2>1. raisedIn = <<"primary">> BY <1>1, <1>4 DEF RaisedBefore
  <2>2. raisedIn # <<>> /\ Len(raisedIn) # 2 BY <2>1
  <2>3. trace.warnings = <<"primary_provider_failed">> \o <<>> \o <<>>
    BY <1>1, <1>4, <2>2 DEF Warnings
  <2>4. trace.warnings = <<"primary_provider_failed">>
    BY <2>3, ConcatEmptySeq
  <2> QED BY <1>1, <1>4, <2>2, <2>4
<1>5. CASE trace.at = "again" /\ provider.fallback # NoProvider
  <2>1. raisedIn = <<"primary", "fallback">> BY <1>1, <1>5 DEF RaisedBefore
  <2>2. raisedIn # <<>> /\ Len(raisedIn) = 2 BY <2>1
  <2>3. trace.warnings = <<"primary_provider_failed">> \o <<>> \o <<"fallback_provider_failed">>
    BY <1>1, <1>5, <2>2 DEF Warnings
  <2>4. trace.warnings = <<"primary_provider_failed", "fallback_provider_failed">>
    BY <2>3, ConcatTwo, ConcatEmptySeq
  <2> QED BY <1>1, <1>5, <2>2, <2>4, SMTT(30)
<1> QED BY <1>2, <1>3, <1>4, <1>5 DEF Turns

\* Whatever the providers do: a request raises only when every turn is exhausted, and a trace
\* tells which provider it is from and at what cost, for any number of retries.
THEOREM LlmReasonAccountsForItself == LlmSpec => []ReasonAccountsForItself
<1>1. LlmInv => ReasonAccountsForItself
  BY RaisesOnlyExhaustedFrom, TraceTellsItsSourceFrom DEF ReasonAccountsForItself
<1> QED BY <1>1, LlmInvHolds, PTL

--------------------------------------------------------------------------------
(* The prompts                                                                 *)

\* The tokens of a text: 11 for 40 characters, rounded down, and at least one.
LEMMA TokensFacts ==
  ASSUME NEW n \in Nat
  PROVE  /\ Tokens(n) \in Nat /\ 11 * n <= 40 * Tokens(n) + 39
         /\ n > 0 => Tokens(n) >= 1
         /\ Tokens(n) <= 1 \/ 40 * Tokens(n) <= 11 * n
         /\ Tokens(0) = 0
<1>1. PICK q \in Int : q = (11 * n) \div 40 OBVIOUS
<1>2. 40 * q <= 11 * n /\ 11 * n <= 40 * q + 39 BY <1>1
<1>3. q \in Nat BY <1>2
<1>4. AtLeast(1, q) = IF q < 1 THEN 1 ELSE q BY DEF AtLeast
<1>5. Tokens(n) = IF n = 0 THEN 0 ELSE AtLeast(1, q) BY <1>1 DEF Tokens
<1>6. Tokens(0) = 0 BY DEF Tokens
<1> QED BY <1>2, <1>3, <1>4, <1>5, <1>6

\* The separators before a part: one token at least, unless it is the first.
LEMMA ReserveFacts ==
  ASSUME NEW n \in Nat
  PROVE  /\ SeparatorReserve(n + 1) \in Nat
         /\ n > 0 => SeparatorReserve(n + 1) >= 1
<1>1. 2 * n \in Nat /\ (n > 0 => 2 * n > 0) /\ (n + 1) - 1 = n OBVIOUS
<1>2. Tokens(2 * n) \in Nat /\ (2 * n > 0 => Tokens(2 * n) >= 1) BY <1>1, TokensFacts
<1>3. SeparatorReserve(n + 1) = IF n + 1 <= 1 THEN 0 ELSE Tokens(2 * n)
  BY <1>1 DEF SeparatorReserve
<1>4. n + 1 <= 1 <=> n = 0 OBVIOUS
<1> QED BY <1>1, <1>2, <1>3, <1>4

\* A shorter text has no more tokens.
LEMMA TokensMonotone ==
  ASSUME NEW n \in Nat, NEW k \in 0..n
  PROVE  Tokens(k) <= Tokens(n)
<1>1. PICK p \in Int, q \in Int : p = (11 * k) \div 40 /\ q = (11 * n) \div 40 OBVIOUS
<1>2. 40 * p <= 11 * k /\ 11 * n <= 40 * q + 39 /\ 11 * k <= 11 * n BY <1>1
<1>3. p <= q BY <1>2
<1>4. Tokens(k) = (IF k = 0 THEN 0 ELSE AtLeast(1, p)) BY <1>1 DEF Tokens
<1>5. Tokens(n) = (IF n = 0 THEN 0 ELSE AtLeast(1, q)) BY <1>1 DEF Tokens
<1>6. AtLeast(1, p) = (IF p < 1 THEN 1 ELSE p) /\ AtLeast(1, q) = (IF q < 1 THEN 1 ELSE q)
  BY DEF AtLeast
<1> QED BY <1>3, <1>4, <1>5, <1>6

\* A prefix is no longer than the text and fits, and so there is a longest one.
LEMMA PrefixFacts ==
  ASSUME NEW size \in Nat, NEW max \in Int
  PROVE  /\ LongestPrefix(size, max) \in 0..size
         /\ max > 0 => Tokens(LongestPrefix(size, max)) <= max
         /\ max <= 0 => LongestPrefix(size, max) = 0
<1>1. CASE max <= 0 BY <1>1 DEF LongestPrefix
<1>2. CASE max > 0
  <2> DEFINE Fit == {n \in 0..size : Tokens(n) <= max}
             Short == {size - n : n \in Fit}
  <2>1. 0 \in Fit BY <1>2, TokensFacts
  <2>2. Short \in SUBSET Nat /\ Short # {} BY <2>1
  <2>3. PICK m \in Short : \A k \in Short : m <= k BY <2>2, LeastNatural
  <2>4. PICK n \in Fit : m = size - n OBVIOUS
  <2>5. ASSUME NEW longer \in (n + 1)..size PROVE Tokens(longer) > max
    <3>1. longer \in 0..size /\ Tokens(longer) \in Nat BY <2>4, TokensFacts
    <3>2. size - longer < m BY <2>4, <3>1
    <3>3. ASSUME Tokens(longer) <= max PROVE FALSE
      <4>1. size - longer \in Short BY <3>1, <3>3
      <4> QED BY <2>2, <2>3, <3>2, <4>1, SMTT(30)
    <3> QED BY <3>1, <3>3
  <2>6. \E k \in 0..size :
          Tokens(k) <= max /\ \A longer \in (k + 1)..size : Tokens(longer) > max
    BY <2>4, <2>5
  <2>7. LongestPrefix(size, max) = CHOOSE k \in 0..size :
          Tokens(k) <= max /\ \A longer \in (k + 1)..size : Tokens(longer) > max
    BY <1>2 DEF LongestPrefix
  <2> HIDE DEF Fit, Short
  <2>8. LongestPrefix(size, max) \in 0..size /\ Tokens(LongestPrefix(size, max)) <= max
    BY <2>6, <2>7
  <2> QED BY <1>2, <2>8
<1> QED BY <1>1, <1>2

\* What is left of a text that is cut, stripped or not, fits.
LEMMA TruncateFacts ==
  ASSUME NEW size \in Nat, NEW max \in Int, NEW blank \in Nat
  PROVE  /\ TruncateToTokens(size, max, blank) \in Nat
         /\ max > 0 => Tokens(TruncateToTokens(size, max, blank)) <= max
         /\ max <= 0 => TruncateToTokens(size, max, blank) = 0
<1>1. PICK best \in 0..size : /\ best = LongestPrefix(size, max)
                              /\ max > 0 => Tokens(best) <= max
                              /\ max <= 0 => best = 0
  BY PrefixFacts
<1>2. PICK short \in 0..best : short = IF best = size THEN best ELSE AtLeast(0, best - blank)
  BY DEF AtLeast
<1>3. TruncateToTokens(size, max, blank) = short
  BY <1>1, <1>2 DEF TruncateToTokens
<1>4. /\ Tokens(short) <= Tokens(best) /\ Tokens(short) \in Nat /\ Tokens(best) \in Nat
      /\ short \in Nat /\ (best = 0 => short = 0)
  BY TokensMonotone, TokensFacts
<1> QED BY <1>1, <1>3, <1>4

BudgetTypes ==
    /\ segments \in Seq(Segment) /\ limits.max_input \in Nat \ {0} /\ budget \in Int
    /\ kept \in [parts : Nat, texts : Nat, chars : Nat]
    /\ todo \cup cut \subseteq DOMAIN segments /\ todo \cap cut = {}

\* Of the tokens of the limit, those that are left and those of the parts with the separators
\* between them: rounding loses 39/40 of a token per part, and a protected segment that is cut
\* is given a token, and separators, that are not there.
Spent ==
    /\ kept.texts <= kept.parts /\ (kept.parts = 0 => kept.chars = 0)
    /\ 11 * kept.chars + 22 * AtLeast(0, kept.parts - 1) + 40 * AtLeast(0, budget)
          <= 40 * limits.max_input + 39 * kept.parts + 80 * Cardinality(Protected \cap cut)

BudgetInv == BudgetTypes /\ Spent

\* The sets of segments are finite.
LEMMA SegmentsCount ==
  ASSUME BudgetTypes, NEW S \in SUBSET DOMAIN segments
  PROVE  IsFiniteSet(S) /\ Cardinality(S) \in Nat
<1>1. DOMAIN segments = 1..Len(segments) /\ Len(segments) \in Nat
  BY LenProperties DEF BudgetTypes
<1>2. IsFiniteSet(1..Len(segments)) BY <1>1, FS_Interval
<1>3. IsFiniteSet(S) BY <1>1, <1>2, FS_Subset
<1> QED BY <1>3, FS_CardinalityType

\* What the invariant says of the state it holds in.
LEMMA BudgetNow ==
  ASSUME BudgetInv
  PROVE  /\ BudgetTypes /\ \A i \in DOMAIN segments : segments[i] \in Segment
         /\ Cardinality(Protected \cap cut) \in Nat /\ Reserve \in Nat
         /\ kept.parts > 0 => Reserve >= 1
<1>1. BudgetTypes BY DEF BudgetInv
<1>2. \A i \in DOMAIN segments : segments[i] \in Segment
  BY <1>1, ElementOfSeq, LenProperties DEF BudgetTypes
<1>3. Protected \cap cut \in SUBSET DOMAIN segments BY DEF Protected
<1>4. kept.parts \in Nat BY <1>1 DEF BudgetTypes
<1> QED BY <1>1, <1>2, <1>3, <1>4, SegmentsCount, ReserveFacts DEF Reserve

\* A part that is kept whole or cut: of its size, and within the room or one token long.
LEMMA PackedStep ==
  ASSUME BudgetInv, NEW i \in todo, NEW size \in Nat, Packed(size), todo' = todo \ {i},
         UNCHANGED <<segments, limits>>,
         \/ /\ Tokens(size) + Reserve <= budget
            /\ cut' = cut \/ cut' = cut \cup {i}
         \/ segments[i].protected /\ cut' = cut \cup {i} /\ Tokens(size) <= 1
  PROVE  BudgetInv'
<1>1. PICK n \in Nat, c \in Nat, x \in Nat : kept = [parts |-> n, texts |-> x, chars |-> c]
  BY BudgetNow DEF BudgetTypes
<1>2. kept.parts = n /\ kept.texts = x /\ kept.chars = c BY <1>1
<1>3. PICK y \in {0, 1} : y = IF size > 0 THEN 1 ELSE 0 OBVIOUS
<1>4. kept' = [parts |-> n + 1, texts |-> x + y, chars |-> c + size]
  BY <1>1, <1>3 DEF Packed
<1>5. n + 1 \in Nat /\ x + y \in Nat /\ c + size \in Nat OBVIOUS
<1>6. /\ kept' \in [parts : Nat, texts : Nat, chars : Nat]
      /\ kept'.parts = n + 1 /\ kept'.texts = x + y /\ kept'.chars = c + size
  BY <1>4, <1>5
<1>7. PICK t \in Nat, res \in Nat : t = Tokens(size) /\ res = Reserve
  BY TokensFacts, BudgetNow
<1>8. budget' = budget - t - res /\ budget' \in Int /\ budget \in Int
  BY <1>7, BudgetNow DEF Packed, BudgetTypes
<1>9. BudgetTypes'
  <2>1. (todo \cup cut \subseteq DOMAIN segments /\ todo \cap cut = {})'
    BY BudgetNow DEF BudgetTypes
  <2> QED BY <1>6, <1>8, <2>1, BudgetNow DEF BudgetTypes
<1>10. PICK k \in Nat : k = Cardinality(Protected \cap cut) BY BudgetNow
<1>11. PICK m \in Nat \ {0} : m = limits.max_input /\ m = limits'.max_input
  BY BudgetNow DEF BudgetTypes
<1>12. PICK k2 \in Nat : /\ k2 = Cardinality(Protected \cap cut)' /\ k2 >= k
                         /\ segments[i].protected /\ cut' = cut \cup {i} => k2 = k + 1
  <2>1. Protected' = Protected BY DEF Protected
  <2>2. (Protected \cap cut)' = Protected \cap cut' BY <2>1
  <2>3. IsFiniteSet(Protected \cap cut)
    BY SegmentsCount, BudgetNow DEF Protected
  <2>4. i \notin cut /\ i \in DOMAIN segments BY BudgetNow DEF BudgetTypes
  <2>5. CASE cut' = cut \/ i \notin Protected
    <3>1. Protected \cap cut' = Protected \cap cut BY <2>5
    <3>2. ~(segments[i].protected /\ cut' = cut \cup {i}) BY <2>4, <2>5 DEF Protected
    <3>3. k = Cardinality(Protected \cap cut)' BY <1>10, <2>2, <3>1
    <3> QED BY <3>2, <3>3
  <2>6. CASE cut' = cut \cup {i} /\ i \in Protected
    <3>1. Protected \cap cut' = (Protected \cap cut) \cup {i} BY <2>6
    <3>2. Cardinality((Protected \cap cut) \cup {i}) = k + 1
      BY <1>10, <2>3, <2>4, FS_AddElement
    <3>3. k + 1 \in Nat BY <1>10
    <3> QED BY <2>2, <3>1, <3>2, <3>3
  <2> QED BY <2>5, <2>6
<1>13. PICK room \in Int : room = 40 * m + 39 * n + 80 * k OBVIOUS
<1>14. 11 * c + 22 * AtLeast(0, n - 1) + 40 * AtLeast(0, budget) <= room
  BY <1>2, <1>10, <1>11, <1>13 DEF BudgetInv, Spent
<1>15. PICK spent : spent = 11 * (c + size) + 22 * AtLeast(0, (n + 1) - 1)
                            + 40 * AtLeast(0, budget - t - res) OBVIOUS
<1>16. /\ t + res <= budget => spent <= room + 39
       /\ t <= 1 => spent <= room + 39 + 80
  <2>1. 11 * size <= 40 * t + 39 BY <1>7, TokensFacts
  <2>2. n > 0 => res >= 1 BY <1>2, <1>7, BudgetNow
  <2>3. PICK b \in Int : b = budget BY <1>8
  <2>4. 11 * c + 22 * AtLeast(0, n - 1) + 40 * AtLeast(0, b) <= room BY <1>14, <2>3
  <2>5. spent = 11 * (c + size) + 22 * AtLeast(0, (n + 1) - 1) + 40 * AtLeast(0, b - t - res)
    BY <1>15, <2>3
  <2>6. /\ AtLeast(0, n - 1) = (IF n = 0 THEN 0 ELSE n - 1) /\ AtLeast(0, (n + 1) - 1) = n
        /\ AtLeast(0, b) = (IF b < 0 THEN 0 ELSE b)
        /\ AtLeast(0, b - t - res) = (IF b - t - res < 0 THEN 0 ELSE b - t - res)
    BY DEF AtLeast
  <2>7. CASE n = 0 BY <2>1, <2>3, <2>4, <2>5, <2>6, <2>7
  <2>8. CASE n > 0 BY <2>1, <2>2, <2>3, <2>4, <2>5, <2>6, <2>8
  <2> QED BY <2>7, <2>8
<1>17. spent \in Int BY <1>8, <1>15 DEF AtLeast
<1>18. spent <= 40 * m + 39 * (n + 1) + 80 * k2
  <2>1. CASE t + res <= budget BY <1>12, <1>13, <1>16, <1>17, <2>1
  <2>2. CASE ~(t + res <= budget)
    <3>1. k2 = k + 1 /\ t <= 1 BY <1>7, <1>12, <2>2
    <3> QED BY <1>13, <1>16, <1>17, <3>1
  <2> QED BY <2>1, <2>2
<1>19. x + y <= n + 1
  <2>1. x <= n BY <1>2 DEF BudgetInv, Spent
  <2> QED BY <2>1
<1>20. kept'.parts # 0 BY <1>6
<1>21. Spent' BY <1>6, <1>8, <1>11, <1>12, <1>15, <1>18, <1>19, <1>20 DEF Spent, AtLeast
<1> QED BY <1>9, <1>21 DEF BudgetInv

\* A segment is kept whole, cut or left out: each keeps the account.
LEMMA PackStep ==
  ASSUME BudgetInv, Pack
  PROVE  BudgetInv'
<1>1. PICK i \in todo : todo' = todo \ {i} /\ (KeepWhole(i) \/ Truncate(i)) BY DEF Pack
<1>2. UNCHANGED <<segments, limits>> BY DEF Pack
<1>3. i \in DOMAIN segments /\ segments[i] \in Segment /\ budget \in Int /\ Reserve \in Nat
  BY BudgetNow DEF BudgetTypes
<1>4. PICK full \in Nat : full = segments[i].size BY <1>3 DEF Segment
<1>5. CASE KeepWhole(i)
  <2>1. Packed(full) /\ Tokens(full) + Reserve <= budget /\ cut' = cut
    BY <1>4, <1>5 DEF KeepWhole
  <2> QED BY <1>1, <1>2, <2>1, PackedStep
<1>6. CASE Truncate(i)
  <2>1. RoomFor(i) \in Int BY <1>3 DEF RoomFor, AtLeast
  <2>0. PICK blank \in Blank :
          LET size == TruncateToTokens(full, RoomFor(i), blank)
          IN  IF size > 0
              THEN Packed(size) /\ cut' = cut \cup {i} /\ UNCHANGED left
              ELSE left' = left \cup {i} /\ UNCHANGED <<kept, cut, budget>>
    BY <1>4, <1>6 DEF Truncate
  <2>2. PICK size \in Nat : /\ size = TruncateToTokens(full, RoomFor(i), blank)
                            /\ RoomFor(i) > 0 => Tokens(size) <= RoomFor(i)
                            /\ RoomFor(i) <= 0 => size = 0
    BY <2>1, TruncateFacts, BudgetAssumption
  <2>3. CASE size > 0
    <3>1. Packed(size) /\ cut' = cut \cup {i} BY <2>0, <2>2, <2>3
    <3>2. RoomFor(i) > 0 BY <2>1, <2>2, <2>3
    <3>3. Tokens(size) \in Nat /\ Tokens(size) <= RoomFor(i) BY <2>2, <3>2, TokensFacts
    <3>4. CASE budget - Reserve >= 1
      <4>1. RoomFor(i) = budget - Reserve BY <1>3, <3>4 DEF RoomFor, AtLeast
      <4>2. Tokens(size) + Reserve <= budget BY <1>3, <3>3, <4>1
      <4> QED BY <1>1, <1>2, <3>1, <4>2, PackedStep
    <3>5. CASE ~(budget - Reserve >= 1)
      <4>1. segments[i].protected /\ RoomFor(i) = 1
        BY <1>3, <3>2, <3>5 DEF RoomFor, AtLeast, Segment
      <4>2. Tokens(size) <= 1 BY <3>3, <4>1
      <4> QED BY <1>1, <1>2, <3>1, <4>1, <4>2, PackedStep
    <3> QED BY <3>4, <3>5
  <2>4. CASE ~(size > 0)
    <3>1. UNCHANGED <<kept, cut, budget>> BY <2>0, <2>2, <2>4
    <3>2. BudgetTypes' BY <1>1, <1>2, <3>1, BudgetNow DEF BudgetTypes
    <3>3. Spent' BY <1>2, <3>1 DEF BudgetInv, Spent, Protected
    <3> QED BY <3>2, <3>3 DEF BudgetInv
  <2> QED BY <2>3, <2>4
<1> QED BY <1>1, <1>5, <1>6

\* The account holds before the first segment.
LEMMA BudgetInitInv ==
  ASSUME BudgetInit
  PROVE  BudgetInv
<1>1. PICK input \in LimitInputs : limits = ResolveLimits(input) BY DEF BudgetInit
<1>2. input \in LimitInput BY BudgetAssumption
<1>3. limits.max_input \in Nat \ {0}
  <2> DEFINE override == Cap(Cap(input.override, input.max_context_tokens), input.env_cap)
             window == Set(input.extra_window, input.window)
             context == IF override = 0 THEN window ELSE AtMost(override, window)
             reserve == Set(input.extra_reserve, input.reserve)
  <2>1. override \in Nat /\ window \in Nat /\ reserve \in Nat
    BY <1>2 DEF LimitInput, Cap, AtMost, Set
  <2>2. context \in Nat BY <2>1 DEF AtMost
  <2>3. limits.max_input = MaxInput(context, reserve) BY <1>1 DEF ResolveLimits
  <2> HIDE DEF context, reserve
  <2> QED BY <2>1, <2>2, <2>3 DEF MaxInput, AtLeast
<1>4. /\ segments \in Seq(Segment) /\ todo = DOMAIN segments /\ cut = {}
      /\ budget = limits.max_input /\ kept = [parts |-> 0, texts |-> 0, chars |-> 0]
  BY BudgetAssumption DEF BudgetInit
<1>5. kept \in [parts : Nat, texts : Nat, chars : Nat]
      /\ kept.parts = 0 /\ kept.texts = 0 /\ kept.chars = 0
  BY <1>4
<1>6. BudgetTypes BY <1>3, <1>4, <1>5 DEF BudgetTypes
<1>7. Cardinality(Protected \cap cut) = 0
  <2>1. Protected \cap cut = {} BY <1>4
  <2> QED BY <2>1, FS_EmptySet
<1>8. PICK m \in Nat \ {0} : m = limits.max_input BY <1>3
<1>9. AtLeast(0, 0 - 1) = 0 /\ AtLeast(0, m) = m BY DEF AtLeast
<1>10. 11 * 0 + 22 * 0 + 40 * m <= 40 * m + 39 * 0 + 80 * 0 OBVIOUS
<1>11. Spent BY <1>4, <1>5, <1>7, <1>8, <1>9, <1>10 DEF Spent
<1> QED BY <1>6, <1>11 DEF BudgetInv

LEMMA BudgetInvHolds == BudgetSpec => []BudgetInv
<1>1. BudgetInv /\ UNCHANGED budgetVars => BudgetInv'
  BY DEF budgetVars, BudgetInv, BudgetTypes, Spent, Protected
<1> QED BY <1>1, BudgetInitInv, PackStep, PTL DEF BudgetSpec, BudgetNext

\* However the segments and the limits are chosen: rounding loses less than a token per part,
\* and a protected segment that is cut no more than two.
THEOREM BudgetOvershootBounded == BudgetSpec => []OvershootBounded
<1>1. BudgetInv => OvershootBounded
  <2> SUFFICES ASSUME BudgetInv
               PROVE  Tokens(TextSize) - limits.max_input
                        < AtLeast(1, kept.parts) + 2 * Cardinality(Protected \cap cut)
    BY DEF OvershootBounded
  <2>1. PICK n \in Nat, x \in Nat, c \in Nat : n = kept.parts /\ x = kept.texts /\ c = kept.chars
    BY BudgetNow DEF BudgetTypes
  <2>2. PICK k \in Nat : k = Cardinality(Protected \cap cut) BY BudgetNow
  <2>3. PICK m \in Nat \ {0} : m = limits.max_input BY BudgetNow DEF BudgetTypes
  <2>4. PICK s \in Nat, b \in Nat : s = AtLeast(0, n - 1) /\ b = AtLeast(0, budget)
    <3>1. budget \in Int BY BudgetNow DEF BudgetTypes
    <3>2. AtLeast(0, n - 1) \in Nat BY DEF AtLeast
    <3>3. AtLeast(0, budget) \in Nat BY <3>1 DEF AtLeast
    <3> QED BY <3>2, <3>3
  <2>5. x <= n /\ (n = 0 => c = 0) /\ 11 * c + 22 * s + 40 * b <= 40 * m + 39 * n + 80 * k
    BY <2>1, <2>2, <2>3, <2>4 DEF BudgetInv, Spent
  <2>6. PICK z \in Nat : z = AtLeast(1, x) - 1 /\ z <= s
    BY <2>4, <2>5 DEF AtLeast
  <2>7. PICK l \in Nat : l = c + 2 * z OBVIOUS
  <2>8. TextSize = l BY <2>1, <2>6, <2>7 DEF TextSize
  <2>9. PICK t \in Nat : t = Tokens(l) /\ (t <= 1 \/ 40 * t <= 11 * l) /\ (l = 0 => t = 0)
    BY TokensFacts
  <2>10. 11 * l <= 40 * m + 39 * n + 80 * k BY <2>5, <2>6, <2>7
  <2>11. AtLeast(1, n) = (IF n < 1 THEN 1 ELSE n) BY DEF AtLeast
  <2>12. t - m < AtLeast(1, n) + 2 * k
    <3>1. CASE t <= 1 BY <2>11, <3>1
    <3>2. CASE 40 * t <= 11 * l
      <4>1. 40 * t <= 40 * m + 39 * n + 80 * k BY <2>10, <3>2
      <4> QED BY <2>11, <4>1
    <3> QED BY <2>9, <3>1, <3>2
  <2> QED BY <2>1, <2>2, <2>3, <2>8, <2>9, <2>12
<1> QED BY <1>1, BudgetInvHolds, PTL

--------------------------------------------------------------------------------
(* The copies of the artifacts                                                 *)

Content == Int \X Int

PassRecord == [at : {"scan", "store", "done"}, day : 1..MaxDay, seen : SUBSET LocalFile,
               uploaded : SUBSET LocalFile, file : LocalFile \cup {AnyFile}, opened : Content,
               due : SUBSET LocalFile]
UploadRecord == [at : {"tree"}, dry : BOOLEAN, objects : SUBSET LocalFile, todo : SUBSET LocalFile]

SyncTypes ==
    /\ disk \in [LocalFile -> Content] /\ bucket \in [LocalFile -> Content]
    /\ remoteTree \in [1..MaxDay -> [LocalFile -> Content]]
    /\ writes \in Nat /\ day \in 1..MaxDay /\ settled \subseteq LocalFile
    /\ pass = NoPass \/ pass \in PassRecord
    /\ upload = NoPass \/ upload \in UploadRecord
    /\ manifest \in [dry : BOOLEAN, objects : SUBSET LocalFile]

\* What the pass has copied of file f, which it has finished.
Mirrored(f) ==
    /\ remoteTree[pass.day][f] # Absent /\ remoteTree[pass.day][f][2] = disk[f][2]
    /\ f \in pass.uploaded => remoteTree[pass.day][f] = disk[f]

\* What settled says of the pass that runs: it came to those files and to each once, and
\* each is mirrored but the one it is about to store, which is as it was opened.
PassInv ==
    pass.at # "idle" =>
      /\ settled \subseteq pass.seen /\ pass.uploaded \subseteq pass.seen
      /\ \A f \in settled : (pass.at = "store" /\ f = pass.file) \/ Mirrored(f)
      /\ pass.at = "store" =>
           /\ pass.file \in pass.seen \ pass.uploaded /\ pass.opened # Absent
           /\ pass.file \in settled => disk[pass.file] = pass.opened

InBucket(objects) == \A f \in objects : bucket[f] # Absent

\* No file that is there goes away again, on the disk or in the bucket.
BucketInv ==
    /\ manifest.dry \/ InBucket(manifest.objects)
    /\ upload.at = "tree" => /\ upload.dry \/ InBucket(upload.objects)
                             /\ \A f \in upload.todo : disk[f] # Absent

SyncInv == SyncTypes /\ PassInv /\ BucketInv

\* A pass and an upload under way have all their fields.
LEMMA PassAt ==
  ASSUME SyncTypes, pass.at # "idle"
  PROVE  pass \in PassRecord
  BY DEF SyncTypes, NoPass

LEMMA UploadAt ==
  ASSUME SyncTypes, upload.at = "tree"
  PROVE  upload \in UploadRecord
  BY DEF SyncTypes, NoPass

\* Of a file that is written, the pass has yet to say something.
LEMMA DiskStep ==
  ASSUME SyncInv, NEW f \in LocalFile, NEW c \in Content, c # Absent,
         disk' = [disk EXCEPT ![f] = c], settled' = settled \ {f}, writes' \in Nat,
         UNCHANGED <<day, pass, remoteTree, upload, bucket, manifest>>
  PROVE  SyncInv'
<1>1. /\ disk' \in [LocalFile -> Content] /\ disk'[f] = c
      /\ \A g \in LocalFile : g # f => disk'[g] = disk[g]
  BY DEF SyncInv, SyncTypes
<1>2. SyncTypes' BY <1>1 DEF SyncInv, SyncTypes
<1>3. PassInv'
  <2> SUFFICES ASSUME pass.at # "idle"
               PROVE  PassInv'
    BY DEF PassInv
  <2>1. pass \in PassRecord BY PassAt DEF SyncInv
  <2>2. settled' \subseteq pass.seen /\ pass.uploaded \subseteq pass.seen
    BY DEF SyncInv, PassInv
  <2>3. ASSUME NEW g \in settled'
        PROVE  (pass.at = "store" /\ g = pass.file) \/ Mirrored(g)'
    <3>1. g \in settled /\ g # f /\ g \in LocalFile BY DEF SyncInv, SyncTypes
    <3>2. (pass.at = "store" /\ g = pass.file) \/ Mirrored(g) BY <3>1 DEF SyncInv, PassInv
    <3> QED BY <1>1, <3>1, <3>2 DEF Mirrored
  <2>4. ASSUME pass.at = "store"
        PROVE  /\ pass.file \in pass.seen \ pass.uploaded /\ pass.opened # Absent
               /\ pass.file \in settled' => disk'[pass.file] = pass.opened
    BY <1>1, <2>4 DEF SyncInv, PassInv
  <2> QED BY <2>2, <2>3, <2>4 DEF PassInv
<1>4. BucketInv'
  <2>1. upload.at = "tree" => \A g \in upload.todo : g \in LocalFile /\ disk[g] # Absent
    BY UploadAt DEF SyncInv, BucketInv, UploadRecord
  <2>2. upload.at = "tree" => \A g \in upload.todo : disk'[g] # Absent
    BY <1>1, <2>1
  <2> QED BY <2>2 DEF SyncInv, BucketInv, InBucket
<1> QED BY <1>2, <1>3, <1>4 DEF SyncInv

\* The steps of the disk, of a pass and of an upload: each keeps the invariant.
LEMMA WriteFileStep ==
  ASSUME SyncInv, WriteFile
  PROVE  SyncInv'
<1>4. PICK f \in LocalFile : \E size \in 1..FileSize[f] :
        disk' = [disk EXCEPT ![f] = <<writes', size>>] /\ settled' = settled \ {f}
  BY DEF WriteFile
<1>1. PICK size \in 1..FileSize[f] :
        disk' = [disk EXCEPT ![f] = <<writes', size>>] /\ settled' = settled \ {f}
  BY <1>4
<1>2. writes' = writes + 1 /\ writes \in Nat BY DEF WriteFile, SyncInv, SyncTypes
<1>3. <<writes', size>> \in Content /\ <<writes', size>> # Absent
  BY <1>2, SyncAssumption DEF Content, Absent
<1>5. PICK c \in Content : c = <<writes', size>> BY <1>3
<1>6. /\ disk' = [disk EXCEPT ![f] = c] /\ settled' = settled \ {f} /\ writes' \in Nat
      /\ UNCHANGED <<day, pass, remoteTree, upload, bucket, manifest>> /\ c # Absent
  <2>1. writes' \in Nat /\ c # Absent BY <1>2, <1>3, <1>5
  <2> QED BY <1>1, <1>5, <2>1 DEF WriteFile
<1> QED BY <1>6, DiskStep

LEMMA DownloadFileStep ==
  ASSUME SyncInv, DownloadFile
  PROVE  SyncInv'
<1>1. PICK f \in LocalFile : /\ bucket[f] # Absent
                             /\ disk' = [disk EXCEPT ![f] = bucket[f]] /\ settled' = settled \ {f}
  BY DEF DownloadFile
<1>2. bucket[f] \in Content /\ writes' \in Nat BY DEF SyncInv, SyncTypes, DownloadFile
<1> QED BY <1>1, <1>2, DiskStep DEF DownloadFile

LEMMA MidnightStep ==
  ASSUME SyncInv, Midnight
  PROVE  SyncInv'
<1>1. SyncTypes' BY SyncAssumption DEF Midnight, SyncInv, SyncTypes
<1> QED BY <1>1 DEF Midnight, SyncInv, PassInv, Mirrored, BucketInv, InBucket

LEMMA BeginPassStep ==
  ASSUME SyncInv, BeginPass
  PROVE  SyncInv'
<1>1. /\ pass' = [at |-> "scan", day |-> day, seen |-> {}, uploaded |-> {},
                  file |-> AnyFile, opened |-> Absent,
                  due |-> {f \in LocalFile : disk[f] # Absent}]
      /\ settled' = {}
      /\ UNCHANGED <<disk, writes, day, cuts, remoteTree, upload, bucket, manifest>>
  BY DEF BeginPass
<1>2. pass' \in PassRecord
  <2>1. Absent \in Content BY DEF Absent, Content
  <2>2. day \in 1..MaxDay BY DEF SyncInv, SyncTypes
  <2> QED BY <1>1, <2>1, <2>2 DEF PassRecord
<1>3. SyncTypes' BY <1>1, <1>2 DEF SyncInv, SyncTypes
<1>4. PassInv' BY <1>1 DEF PassInv
<1>5. BucketInv' BY <1>1 DEF SyncInv, BucketInv, InBucket
<1> QED BY <1>3, <1>4, <1>5 DEF SyncInv

\* The invariant after a step of the pass, which leaves the disk and the bucket alone.
LEMMA PassSteps ==
  ASSUME SyncInv, pass' \in PassRecord, settled' \subseteq LocalFile, PassInv',
         remoteTree' \in [1..MaxDay -> [LocalFile -> Content]],
         UNCHANGED <<disk, writes, day, upload, bucket, manifest>>
  PROVE  SyncInv'
  BY DEF SyncInv, SyncTypes, BucketInv, InBucket

LEMMA LookAtStep ==
  ASSUME SyncInv, LookAt
  PROVE  SyncInv'
<1>1. pass.at = "scan" /\ UNCHANGED <<disk, writes, day, cuts, upload, bucket, manifest>>
  BY DEF LookAt
<1>2. PICK f \in LocalFile \ pass.seen : /\ disk[f] # Absent
                                         /\ SkipSameSize(f) \/ OpenUpload(f)
  BY DEF LookAt
<1>3. pass \in PassRecord BY <1>1, PassAt DEF SyncInv
<1>4. /\ disk[f] \in Content /\ settled \subseteq LocalFile
      /\ remoteTree \in [1..MaxDay -> [LocalFile -> Content]]
      /\ settled \subseteq pass.seen /\ pass.uploaded \subseteq pass.seen
      /\ f \notin pass.uploaded
      /\ \A g \in settled : Mirrored(g)
      /\ pass.day \in 1..MaxDay /\ pass.seen \subseteq LocalFile
  BY <1>1, <1>2, <1>3 DEF SyncInv, SyncTypes, PassInv, PassRecord
<1>5. CASE SkipSameSize(f)
  <2>1. /\ pass' = [pass EXCEPT !.seen = pass.seen \cup {f}] /\ settled' = settled \cup {f}
        /\ UNCHANGED remoteTree
    BY <1>5 DEF SkipSameSize, Looked
  <2>2. /\ pass' \in PassRecord /\ pass'.at = "scan" /\ pass'.seen = pass.seen \cup {f}
        /\ UNCHANGED <<pass.uploaded, pass.day>>
    BY <1>1, <1>3, <2>1 DEF PassRecord
  <2>3. Mirrored(f)'
    BY <1>1, <1>4, <1>5, <2>1, <2>2 DEF SkipSameSize, SameSize, Remote, Prefix, Mirrored
  <2>4. ASSUME NEW g \in settled PROVE Mirrored(g)'
    BY <1>1, <1>4, <2>1, <2>2 DEF Mirrored
  <2>5. PassInv' BY <1>4, <2>1, <2>2, <2>3, <2>4 DEF PassInv
  <2> QED BY <1>1, <1>4, <2>1, <2>2, <2>5, PassSteps
<1>6. CASE OpenUpload(f)
  <2>1. /\ pass' = [pass EXCEPT !.at = "store", !.seen = pass.seen \cup {f}, !.file = f,
                                !.opened = disk[f]]
        /\ remoteTree' = [remoteTree EXCEPT ![pass.day][f] = <<Garbled, 0>>]
        /\ settled' = settled \cup {f}
    BY <1>6 DEF OpenUpload, Looked, Prefix
  <2>2. /\ pass' \in PassRecord /\ pass'.at = "store" /\ pass'.seen = pass.seen \cup {f}
        /\ pass'.file = f /\ pass'.opened = disk[f] /\ UNCHANGED <<pass.uploaded, pass.day>>
    BY <1>1, <1>3, <1>4, <2>1 DEF PassRecord
  <2>3. /\ remoteTree' \in [1..MaxDay -> [LocalFile -> Content]]
        /\ \A g \in LocalFile : g # f => remoteTree'[pass.day][g] = remoteTree[pass.day][g]
    <3>1. <<Garbled, 0>> \in Content BY DEF Garbled, Content
    <3> QED BY <1>4, <2>1, <3>1
  <2>4. ASSUME NEW g \in settled, g # f PROVE Mirrored(g)'
    BY <1>1, <1>4, <2>1, <2>2, <2>3, <2>4 DEF Mirrored
  <2>5. PassInv' BY <1>1, <1>2, <1>4, <2>1, <2>2, <2>4 DEF PassInv
  <2> QED BY <1>1, <1>4, <2>1, <2>2, <2>3, <2>5, PassSteps
<1> QED BY <1>2, <1>5, <1>6

LEMMA StoreStep ==
  ASSUME SyncInv, Store
  PROVE  SyncInv'
<1>1. pass.at = "store" /\ UNCHANGED <<disk, writes, day, cuts, upload, bucket, manifest, settled>>
  BY DEF Store
<1>2. pass \in PassRecord BY <1>1, PassAt DEF SyncInv
<1>3. PICK f : f = pass.file OBVIOUS
<1>4. /\ f \in LocalFile /\ f \notin pass.uploaded /\ pass.opened # Absent
      /\ pass.opened \in Content /\ pass.day \in 1..MaxDay
      /\ f \in settled => disk[f] = pass.opened
      /\ remoteTree \in [1..MaxDay -> [LocalFile -> Content]]
      /\ settled \subseteq LocalFile /\ pass.uploaded \subseteq LocalFile
      /\ settled \subseteq pass.seen /\ pass.uploaded \subseteq pass.seen
      /\ \A g \in settled : g = f \/ Mirrored(g)
  BY <1>1, <1>2, <1>3 DEF SyncInv, SyncTypes, PassInv, PassRecord
<1>5. PICK c \in Transferred(f, pass.opened) :
        remoteTree' = [remoteTree EXCEPT ![pass.day][f] = c]
  BY <1>3 DEF Store, Prefix
<1>6. c \in Content /\ c # Absent /\ (disk[f] = pass.opened => c = disk[f])
  <2>1. FileSize[f] \in Nat BY <1>4, SyncAssumption
  <2>2. CASE disk[f] = pass.opened BY <1>4, <1>5, <2>2 DEF Transferred
  <2>3. CASE disk[f] # pass.opened
    <3>1. PICK size \in 1..FileSize[f] : c = <<Garbled, size>> BY <1>5, <2>3 DEF Transferred
    <3> QED BY <2>1, <2>3, <3>1 DEF Content, Garbled, Absent
  <2> QED BY <2>2, <2>3
<1>7. /\ pass' \in PassRecord /\ pass'.at = "scan" /\ pass'.uploaded = pass.uploaded \cup {f}
      /\ UNCHANGED <<pass.seen, pass.day>>
  <2>1. pass' = [pass EXCEPT !.at = "scan", !.uploaded = pass.uploaded \cup {f},
                             !.file = AnyFile, !.opened = Absent]
    BY <1>3 DEF Store
  <2>2. Absent \in Content BY DEF Absent, Content
  <2> QED BY <1>2, <1>4, <2>1, <2>2 DEF PassRecord
<1>8. /\ remoteTree' \in [1..MaxDay -> [LocalFile -> Content]] /\ remoteTree'[pass.day][f] = c
      /\ \A g \in LocalFile : g # f => remoteTree'[pass.day][g] = remoteTree[pass.day][g]
  BY <1>4, <1>5, <1>6
<1>9. ASSUME NEW g \in settled PROVE Mirrored(g)'
  <2>1. CASE g = f
    BY <1>1, <1>4, <1>6, <1>7, <1>8, <2>1 DEF Mirrored
  <2>2. CASE g # f
    BY <1>1, <1>4, <1>7, <1>8, <2>2 DEF Mirrored
  <2> QED BY <2>1, <2>2
<1>10. f \in pass.seen
  BY <1>1, <1>3 DEF SyncInv, PassInv
<1>11. PassInv' BY <1>1, <1>4, <1>7, <1>9, <1>10 DEF PassInv
<1> QED BY <1>1, <1>4, <1>7, <1>8, <1>11, PassSteps

LEMMA PassRaisesStep ==
  ASSUME SyncInv, PassRaises
  PROVE  SyncInv'
<1>1. /\ pass.at \in {"scan", "store"} /\ pass' = NoPass
      /\ UNCHANGED <<disk, writes, day, upload, bucket, manifest, settled>>
  BY DEF PassRaises
<1>2. pass \in PassRecord BY <1>1, PassAt DEF SyncInv
<1>3. remoteTree' \in [1..MaxDay -> [LocalFile -> Content]]
  <2>1. CASE pass.at = "store"
    <3>1. PICK size \in 0..(pass.opened[2] - 1) :
            remoteTree' = [remoteTree EXCEPT ![pass.day][pass.file] = <<Garbled, size>>]
      BY <2>1 DEF PassRaises, Prefix
    <3>2. pass.opened[2] \in Int BY <1>2 DEF PassRecord, Content
    <3>3. <<Garbled, size>> \in Content BY <3>2 DEF Garbled, Content
    <3> QED BY <3>1, <3>3 DEF SyncInv, SyncTypes
  <2>2. CASE pass.at # "store" BY <2>2 DEF PassRaises, SyncInv, SyncTypes
  <2> QED BY <2>1, <2>2
<1>4. SyncTypes' BY <1>1, <1>3 DEF SyncInv, SyncTypes
<1>5. PassInv' BY <1>1 DEF PassInv, NoPass
<1>6. BucketInv' BY <1>1 DEF SyncInv, BucketInv, InBucket
<1> QED BY <1>4, <1>5, <1>6 DEF SyncInv

LEMMA EndPassStep ==
  ASSUME SyncInv, EndPass
  PROVE  SyncInv'
<1>1. /\ pass.at = "scan" /\ pass' = [pass EXCEPT !.at = "done"]
      /\ UNCHANGED <<disk, writes, day, cuts, remoteTree, upload, bucket, manifest, settled>>
  BY DEF EndPass
<1>2. pass \in PassRecord BY <1>1, PassAt DEF SyncInv
<1>3. /\ pass' \in PassRecord /\ pass'.at = "done"
      /\ UNCHANGED <<pass.seen, pass.uploaded, pass.day>>
  BY <1>1, <1>2 DEF PassRecord
<1>4. ASSUME NEW g \in settled PROVE Mirrored(g)'
  <2>1. Mirrored(g) BY <1>1 DEF SyncInv, PassInv
  <2> QED BY <1>1, <1>3, <2>1 DEF Mirrored
<1>5. PassInv' BY <1>1, <1>3, <1>4 DEF SyncInv, PassInv
<1> QED BY <1>1, <1>3, <1>5, PassSteps DEF SyncInv, SyncTypes

--------------------------------------------------------------------------------

\* The invariant after a step of upload_tree, which leaves the disk and the pass alone.
LEMMA UploadSteps ==
  ASSUME SyncInv, upload' = NoPass \/ upload' \in UploadRecord,
         bucket' \in [LocalFile -> Content],
         manifest' \in [dry : BOOLEAN, objects : SUBSET LocalFile],
         BucketInv', UNCHANGED <<disk, writes, day, pass, remoteTree, settled>>
  PROVE  SyncInv'
<1>1. SyncTypes' BY DEF SyncInv, SyncTypes
<1>2. PassInv' BY DEF SyncInv, PassInv, Mirrored
<1> QED BY <1>1, <1>2 DEF SyncInv

LEMMA BeginUploadStep ==
  ASSUME SyncInv, BeginUpload
  PROVE  SyncInv'
<1>1. UNCHANGED <<disk, writes, day, cuts, pass, remoteTree, bucket, manifest, settled>>
  BY DEF BeginUpload
<1>2. PICK dry \in BOOLEAN :
        upload' = [at |-> "tree", dry |-> dry, objects |-> {},
                   todo |-> {f \in LocalFile : disk[f] # Absent}]
  BY DEF BeginUpload
<1>3. upload' \in UploadRecord BY <1>2 DEF UploadRecord
<1>4. BucketInv' BY <1>1, <1>2 DEF SyncInv, BucketInv, InBucket
<1> QED BY <1>1, <1>3, <1>4, UploadSteps DEF SyncInv, SyncTypes

LEMMA UploadFileStep ==
  ASSUME SyncInv, UploadFile
  PROVE  SyncInv'
<1>1. upload.at = "tree"
      /\ UNCHANGED <<disk, writes, day, cuts, pass, remoteTree, manifest, settled>>
  BY DEF UploadFile
<1>2. PICK f \in upload.todo :
        /\ upload' = [upload EXCEPT !.todo = upload.todo \ {f}, !.objects = upload.objects \cup {f}]
        /\ bucket' = IF upload.dry THEN bucket ELSE [bucket EXCEPT ![f] = disk[f]]
  BY DEF UploadFile
<1>3. upload \in UploadRecord BY <1>1, UploadAt DEF SyncInv
<1>4. /\ f \in LocalFile /\ disk[f] # Absent /\ disk[f] \in Content
      /\ bucket \in [LocalFile -> Content] /\ upload.dry \in BOOLEAN
      /\ upload.objects \subseteq LocalFile /\ manifest.objects \subseteq LocalFile
  BY <1>1, <1>2, <1>3 DEF SyncInv, SyncTypes, BucketInv, UploadRecord
<1>5. /\ upload' \in UploadRecord /\ upload'.at = "tree" /\ upload'.dry = upload.dry
      /\ upload'.objects = upload.objects \cup {f} /\ upload'.todo = upload.todo \ {f}
  BY <1>1, <1>2, <1>3, <1>4 DEF UploadRecord
<1>6. /\ bucket' \in [LocalFile -> Content]
      /\ \A g \in LocalFile : bucket[g] # Absent => bucket'[g] # Absent
      /\ upload.dry \/ bucket'[f] # Absent
  BY <1>2, <1>4
<1>7. BucketInv'
  <2>1. manifest'.dry \/ \A g \in manifest'.objects : bucket'[g] # Absent
    BY <1>1, <1>4, <1>6 DEF SyncInv, BucketInv, InBucket
  <2>2. upload'.dry \/ \A g \in upload'.objects : bucket'[g] # Absent
    BY <1>1, <1>4, <1>5, <1>6 DEF SyncInv, BucketInv, InBucket
  <2>3. \A g \in upload'.todo : disk'[g] # Absent
    BY <1>1, <1>5 DEF SyncInv, BucketInv
  <2> QED BY <2>1, <2>2, <2>3 DEF BucketInv, InBucket
<1> QED BY <1>1, <1>5, <1>6, <1>7, UploadSteps DEF SyncInv, SyncTypes

LEMMA UploadRaisesStep ==
  ASSUME SyncInv, UploadRaises
  PROVE  SyncInv'
<1>1. upload' = NoPass
      /\ UNCHANGED <<disk, writes, day, pass, remoteTree, bucket, manifest, settled>>
  BY DEF UploadRaises
<1>2. BucketInv' BY <1>1 DEF SyncInv, BucketInv, InBucket, NoPass
<1> QED BY <1>1, <1>2, UploadSteps DEF SyncInv, SyncTypes

LEMMA WriteManifestStep ==
  ASSUME SyncInv, WriteManifest
  PROVE  SyncInv'
<1>1. /\ upload.at = "tree" /\ upload' = NoPass
      /\ manifest' = [dry |-> upload.dry, objects |-> upload.objects]
      /\ UNCHANGED <<disk, writes, day, cuts, pass, remoteTree, bucket, settled>>
  BY DEF WriteManifest
<1>2. upload \in UploadRecord BY <1>1, UploadAt DEF SyncInv
<1>3. manifest' \in [dry : BOOLEAN, objects : SUBSET LocalFile]
  BY <1>1, <1>2 DEF UploadRecord
<1>4. BucketInv' BY <1>1 DEF SyncInv, BucketInv, InBucket, NoPass
<1> QED BY <1>1, <1>3, <1>4, UploadSteps DEF SyncInv, SyncTypes

--------------------------------------------------------------------------------

LEMMA SyncInitInv ==
  ASSUME SyncInit
  PROVE  SyncInv
<1>1. Absent \in Content BY DEF Absent, Content
<1>2. SyncTypes BY <1>1, SyncAssumption DEF SyncInit, SyncTypes, NoManifest
<1>3. PassInv /\ BucketInv BY DEF SyncInit, PassInv, BucketInv, NoPass, NoManifest
<1> QED BY <1>2, <1>3 DEF SyncInv

LEMMA SyncNextInv ==
  ASSUME SyncInv, [SyncNext]_syncVars
  PROVE  SyncInv'
<1>1. CASE UNCHANGED syncVars
  BY <1>1 DEF syncVars, SyncInv, SyncTypes, PassInv, Mirrored, BucketInv, InBucket
<1> QED
  BY <1>1, WriteFileStep, MidnightStep, BeginPassStep, LookAtStep, StoreStep, PassRaisesStep,
     EndPassStep, BeginUploadStep, UploadFileStep, UploadRaisesStep, WriteManifestStep,
     DownloadFileStep
  DEF SyncNext

LEMMA SyncInvHolds == SyncSpec => []SyncInv
  BY SyncInitInv, SyncNextInv, PTL DEF SyncSpec

\* For any files, sizes, days and writes between the steps: a pass that ends has mirrored, in its
\* size, every file it came to that was not written since, in its content what it uploaded
\* itself; and what a manifest lists is in the bucket, unless a dry run wrote it.
THEOREM SyncMirroredUnlessSameSize == SyncSpec => []MirroredUnlessSameSize
<1>1. SyncInv => MirroredUnlessSameSize
  <2> SUFFICES ASSUME SyncInv PROVE MirroredUnlessSameSize
    OBVIOUS
  <2>1. pass.at = "done" => \A f \in settled : Mirrored(f) BY DEF SyncInv, PassInv
  <2> QED BY <2>1 DEF SyncInv, BucketInv, InBucket, Mirrored, MirroredUnlessSameSize
<1> QED BY <1>1, SyncInvHolds, PTL

--------------------------------------------------------------------------------
(* The training runs                                                           *)

Checkpoint == [step : Int, launch : Int, whole : BOOLEAN]

TrainTypes ==
    /\ launches \in Nat /\ step \in Int /\ checkpoints \in Seq(Checkpoint)
    /\ adapter \in [AdapterFile -> Int] /\ \A f \in AdapterFile : adapter[f] <= launches

\* A trainer runs only under a wrapper that waits for it, and has no exit code before.
Child ==
    /\ trainer \in Running => wrapper = "waiting"
    /\ wrapper \in {"config", "handlers"} => trainer = "none"
    /\ trainer \in Running \cup {"none"} => exitCode = NoCode
    /\ trainer \in {"loading", "training", "saving"} => written = {}

\* The files come in the order of Order, and those written are of this launch.
AdapterInv ==
    /\ adapter["manifest"] <= adapter["weights"] /\ adapter["lora_config"] <= adapter["manifest"]
    /\ trainer = "files" => \A f \in written : adapter[f] = launches
    /\ exitCode = 0 => \A f \in AdapterFile : adapter[f] = launches

\* A checkpoint of this launch is whole, or the one being saved, or was left by a kill.
Settled(c) ==
    /\ c.launch <= launches
    /\ \/ c.whole \/ c.launch < launches \/ trainer = "gone"
       \/ trainer = "saving" /\ c.step = step

CheckpointInv == \A i \in DOMAIN checkpoints : Settled(checkpoints[i])

TrainInv == TrainTypes /\ Child /\ AdapterInv /\ CheckpointInv

\* What the invariant says of one checkpoint.
LEMMA AnyCheckpoint ==
  ASSUME TrainInv, NEW i \in DOMAIN checkpoints
  PROVE  checkpoints[i] \in Checkpoint /\ Settled(checkpoints[i])
         /\ checkpoints[i].launch \in Int
<1>1. checkpoints[i] \in Checkpoint BY ElementOfSeq, LenProperties DEF TrainInv, TrainTypes
<1> QED BY <1>1 DEF TrainInv, CheckpointInv, Checkpoint

LEMMA TrainInitInv ==
  ASSUME TrainInit
  PROVE  TrainInv
<1>1. AdapterFile = {"weights", "manifest", "lora_config"} BY DEF AdapterFile
<1>2. TrainTypes /\ Child /\ AdapterInv
  BY <1>1 DEF TrainInit, TrainTypes, Child, AdapterInv, None, NoCode, Running
<1>3. CheckpointInv BY DEF TrainInit, CheckpointInv
<1> QED BY <1>2, <1>3 DEF TrainInv

\* The steps that leave the checkpoints and the adapter alone, within one launch.
LEMMA SameFiles ==
  ASSUME TrainInv, UNCHANGED <<launches, checkpoints, adapter>>, step' \in Int,
         step' = step \/ trainer # "saving",
         Child', exitCode' # 0 \/ exitCode' = exitCode,
         trainer' = "files" => written' = {} \/ (trainer = "files" /\ written' = written),
         \/ trainer' = trainer \/ trainer' = "gone"
         \/ trainer \notin {"gone", "saving"}
  PROVE  TrainInv'
<1>1. TrainTypes' BY DEF TrainInv, TrainTypes
<1>2. AdapterInv' BY DEF TrainInv, AdapterInv
<1>3. CheckpointInv' BY DEF TrainInv, CheckpointInv, Settled
<1> QED BY <1>1, <1>2, <1>3 DEF TrainInv

\* The steps of the wrapper and of the trainer: each keeps the invariant.
LEMMA LaunchStep ==
  ASSUME TrainInv, Launch
  PROVE  TrainInv'
<1>1. /\ launches' = launches + 1 /\ wrapper' = "config" /\ trainer' = "none" /\ exitCode' = NoCode
      /\ UNCHANGED <<step, checkpoints, adapter>> /\ launches \in Nat
  BY DEF Launch, TrainInv, TrainTypes
<1>2. TrainTypes' BY <1>1 DEF TrainInv, TrainTypes
<1>3. Child' /\ AdapterInv'
  BY <1>1 DEF TrainInv, Child, AdapterInv, Running, NoCode
<1>4. ASSUME NEW i \in DOMAIN checkpoints PROVE Settled(checkpoints[i])'
  <2>1. checkpoints[i].launch <= launches /\ checkpoints[i].launch \in Int
    BY AnyCheckpoint DEF Settled
  <2> QED BY <1>1, <2>1 DEF Settled
<1>5. CheckpointInv' BY <1>1, <1>4 DEF CheckpointInv
<1> QED BY <1>2, <1>3, <1>5 DEF TrainInv

LEMMA QuietTrainSteps ==
  ASSUME TrainInv, \/ FindLatestCheckpoint \/ StartTrainer \/ WrapperReturns \/ Signal \/ KillPod
                   \/ TrainerRaises \/ LoadDataset \/ TrainingDone
  PROVE  TrainInv'
<1> USE DEF Running, NoCode
<1>0. step \in Int BY DEF TrainInv, TrainTypes
<1>1. CASE FindLatestCheckpoint
  BY <1>0, <1>1, SameFiles DEF FindLatestCheckpoint, TrainInv, Child
<1>2. CASE StartTrainer
  BY <1>0, <1>2, SameFiles DEF StartTrainer, TrainInv, Child
<1>3. CASE WrapperReturns
  BY <1>0, <1>3, SameFiles DEF WrapperReturns, TrainInv, Child
<1>4. CASE Signal
  BY <1>0, <1>4, SameFiles DEF Signal, TrainInv, Child
<1>5. CASE KillPod
  BY <1>0, <1>5, SameFiles DEF KillPod, TrainInv, Child
<1>6. CASE TrainerRaises
  BY <1>0, <1>6, SameFiles DEF TrainerRaises, TrainInv, Child
<1>7. CASE LoadDataset
  BY <1>0, <1>7, SameFiles DEF LoadDataset, TrainInv, Child, None
<1>8. CASE TrainingDone
  BY <1>0, <1>8, SameFiles DEF TrainingDone, TrainInv, Child
<1> QED BY <1>1, <1>2, <1>3, <1>4, <1>5, <1>6, <1>7, <1>8

\* A checkpoint that is begun is not whole, whatever is rotated out for it.
LEMMA NewCheckpoint ==
  ASSUME TrainInv, NEW c, trainer = "training", trainer' = "saving", step' \in Int,
         c = [step |-> step', launch |-> launches, whole |-> FALSE],
         checkpoints' \in Seq(Checkpoint),
         \A j \in DOMAIN checkpoints' :
            checkpoints'[j] = c \/ \E k \in DOMAIN checkpoints : checkpoints'[j] = checkpoints[k],
         UNCHANGED <<launches, wrapper, written, adapter, exitCode>>
  PROVE  TrainInv'
<1>1. TrainTypes' /\ Child' /\ AdapterInv' BY DEF TrainInv, TrainTypes, Child, AdapterInv, Running
<1>2. ASSUME NEW j \in DOMAIN checkpoints' PROVE Settled(checkpoints[j])'
  <2>1. CASE checkpoints'[j] = c BY <2>1 DEF Settled, TrainInv, TrainTypes
  <2>2. CASE \E k \in DOMAIN checkpoints : checkpoints'[j] = checkpoints[k]
    <3>1. PICK k \in DOMAIN checkpoints : checkpoints'[j] = checkpoints[k] BY <2>2
    <3>2. Settled(checkpoints[k]) BY AnyCheckpoint
    <3>3. PICK d : d = checkpoints[k] OBVIOUS
    <3> QED BY <3>1, <3>2, <3>3 DEF Settled
  <2> QED BY <1>2, <2>1, <2>2
<1>3. CheckpointInv' BY <1>2 DEF CheckpointInv
<1> QED BY <1>1, <1>3 DEF TrainInv

\* The checkpoint being saved replaces the one of its step, or comes last.
LEMMA TrainStepStep ==
  ASSUME TrainInv, TrainStep
  PROVE  TrainInv'
<1>1. /\ trainer = "training" /\ trainer' = "saving" /\ step' \in Int
      /\ UNCHANGED <<launches, wrapper, written, adapter, exitCode>>
  BY DEF TrainStep, TrainInv, TrainTypes
<1>2. PICK c : c = [step |-> step', launch |-> launches, whole |-> FALSE] OBVIOUS
<1>3. c \in Checkpoint BY <1>1, <1>2 DEF Checkpoint, TrainInv, TrainTypes
<1>4. checkpoints \in Seq(Checkpoint) /\ DOMAIN checkpoints = 1..Len(checkpoints)
      /\ Len(checkpoints) \in Nat
  BY LenProperties DEF TrainInv, TrainTypes
<1>5. ASSUME NEW q \in Seq(Checkpoint), ToSet(q) \subseteq ToSet(checkpoints),
             checkpoints' = Append(q, c)
      PROVE  TrainInv'
  <2>1. /\ checkpoints' \in Seq(Checkpoint)
        /\ ToSet(checkpoints') = ToSet(q) \cup {c}
    BY <1>3, <1>5, AppendFacts
  <2>2. \A j \in DOMAIN checkpoints' :
          checkpoints'[j] = c \/ \E k \in DOMAIN checkpoints : checkpoints'[j] = checkpoints[k]
    BY <1>5, <2>1 DEF ToSet
  <2> QED BY <1>1, <1>2, <2>1, <2>2, NewCheckpoint
<1>6. CASE checkpoints' = Append(checkpoints, c) BY <1>4, <1>5, <1>6
<1>7. ASSUME NEW i \in DOMAIN checkpoints, checkpoints' = Append(RemoveAt(checkpoints, i), c)
      PROVE  TrainInv'
  <2>1. RemoveAt(checkpoints, i) \in Seq(Checkpoint)
        /\ ToSet(RemoveAt(checkpoints, i)) \subseteq ToSet(checkpoints)
    BY <1>4, RemoveAtFacts
  <2> QED BY <1>5, <1>7, <2>1
<1>8. ASSUME NEW i \in DOMAIN checkpoints, checkpoints' = [checkpoints EXCEPT ![i] = c]
      PROVE  TrainInv'
  <2>1. checkpoints' \in Seq(Checkpoint) BY <1>3, <1>4, <1>8, ExceptSeq
  <2>2. \A j \in DOMAIN checkpoints' :
          checkpoints'[j] = c \/ \E k \in DOMAIN checkpoints : checkpoints'[j] = checkpoints[k]
    BY <1>8
  <2> QED BY <1>1, <1>2, <2>1, <2>2, NewCheckpoint
<1> QED BY <1>2, <1>6, <1>7, <1>8 DEF TrainStep

\* A function on 1..n is a sequence.
LEMMA FunctionSeq ==
  ASSUME NEW S, NEW n \in Nat, NEW f \in [1..n -> S]
  PROVE  f \in Seq(S) /\ DOMAIN f = 1..n
<1>1. [i \in 1..n |-> f[i]] \in Seq(S) OBVIOUS
<1> QED BY <1>1

\* Saving ends with checkpoints that were there, those of its step whole.
LEMMA CheckpointSavedStep ==
  ASSUME TrainInv, CheckpointSaved
  PROVE  TrainInv'
<1>1. /\ trainer = "saving" /\ trainer' = "training"
      /\ UNCHANGED <<launches, step, wrapper, written, adapter, exitCode>>
  BY DEF CheckpointSaved
<1>2. PICK place \in [1..Left -> DOMAIN checkpoints] :
        checkpoints' = [i \in 1..Left |->
          LET c == checkpoints[place[i]]
          IN  IF c.step = step THEN [c EXCEPT !.whole = TRUE] ELSE c]
  BY DEF CheckpointSaved
<1>3. Left \in Nat
  BY LenProperties, StepsAssumption DEF Left, TrainInv, TrainTypes
<1>4. ASSUME NEW i \in 1..Left
      PROVE  /\ checkpoints'[i] \in Checkpoint
             /\ checkpoints'[i].launch <= launches
             /\ checkpoints'[i].whole \/ checkpoints'[i].launch < launches
  <2>1. place[i] \in DOMAIN checkpoints BY <1>2, <1>4
  <2>2. PICK c \in Checkpoint : c = checkpoints[place[i]] /\ Settled(c) BY <2>1, AnyCheckpoint
  <2>3. checkpoints'[i] = IF c.step = step THEN [c EXCEPT !.whole = TRUE] ELSE c
    BY <1>2, <1>4, <2>2
  <2> QED BY <1>1, <2>2, <2>3 DEF Settled, Checkpoint
<1>5. checkpoints' \in Seq(Checkpoint) /\ DOMAIN checkpoints' = 1..Left
  <2>1. checkpoints' \in [1..Left -> Checkpoint] BY <1>2, <1>4
  <2> QED BY <1>3, <2>1, FunctionSeq
<1>6. TrainTypes' /\ Child' /\ AdapterInv'
  BY <1>1, <1>5 DEF TrainInv, TrainTypes, Child, AdapterInv, Running
<1>7. ASSUME NEW i \in DOMAIN checkpoints' PROVE Settled(checkpoints[i])'
  <2>1. PICK d : d = checkpoints'[i] OBVIOUS
  <2> QED BY <1>1, <1>4, <1>5, <2>1 DEF Settled
<1>8. CheckpointInv' BY <1>7 DEF CheckpointInv
<1> QED BY <1>6, <1>8 DEF TrainInv

\* Each file is written over those before it: of this launch, as they are.
LEMMA WriteAdapterFileStep ==
  ASSUME TrainInv, WriteAdapterFile
  PROVE  TrainInv'
<1>0. AdapterFile = {"weights", "manifest", "lora_config"} BY DEF AdapterFile
<1>1. /\ trainer = "files" /\ exitCode = NoCode /\ launches \in Nat
      /\ UNCHANGED <<launches, step, wrapper, trainer, checkpoints, exitCode>>
      /\ adapter \in [AdapterFile -> Int] /\ \A f \in AdapterFile : adapter[f] <= launches
      /\ \A f \in written : adapter[f] = launches
  BY DEF WriteAdapterFile, TrainInv, TrainTypes, Child, AdapterInv, Running
<1>2. PICK i \in 1..3 : /\ written = {Order[j] : j \in 1..(i - 1)}
                        /\ written' = written \cup {Order[i]}
                        /\ adapter' = [adapter EXCEPT ![Order[i]] = launches]
  <2>1. DOMAIN Order = 1..3 BY DEF Order
  <2> QED BY <2>1 DEF WriteAdapterFile
<1>3. Order[1] = "weights" /\ Order[2] = "manifest" /\ Order[3] = "lora_config" BY DEF Order
<1>4. /\ adapter' \in [AdapterFile -> Int] /\ \A f \in AdapterFile : adapter'[f] <= launches
      /\ \A f \in written' : adapter'[f] = launches
      /\ adapter'["manifest"] <= adapter'["weights"]
      /\ adapter'["lora_config"] <= adapter'["manifest"]
  <2>1. CASE i = 1
    <3>1. 1..(i - 1) = {} BY <2>1
    <3>2. written = {} BY <1>2, <3>1
    <3>3. adapter' = [adapter EXCEPT !["weights"] = launches] /\ written' = {"weights"}
      BY <1>2, <1>3, <2>1, <3>2
    <3> QED BY <1>0, <1>1, <3>2, <3>3 DEF TrainInv, AdapterInv
  <2>2. CASE i = 2
    <3>1. 1..(i - 1) = {1} BY <2>2
    <3>2. written = {"weights"} BY <1>2, <1>3, <3>1
    <3>3. adapter' = [adapter EXCEPT !["manifest"] = launches]
          /\ written' = {"weights", "manifest"}
      BY <1>2, <1>3, <2>2, <3>2
    <3> QED BY <1>0, <1>1, <3>2, <3>3 DEF TrainInv, AdapterInv
  <2>3. CASE i = 3
    <3>1. 1..(i - 1) = {1, 2} BY <2>3
    <3>2. written = {"weights", "manifest"} BY <1>2, <1>3, <3>1
    <3>3. adapter' = [adapter EXCEPT !["lora_config"] = launches]
          /\ written' = {"weights", "manifest", "lora_config"}
      BY <1>2, <1>3, <2>3, <3>2
    <3> QED BY <1>0, <1>1, <3>2, <3>3 DEF TrainInv, AdapterInv
  <2> QED BY <2>1, <2>2, <2>3
<1>5. TrainTypes' /\ Child' BY <1>1, <1>4 DEF TrainInv, TrainTypes, Child
<1>6. AdapterInv' BY <1>1, <1>4 DEF AdapterInv, NoCode
<1>7. CheckpointInv' BY <1>1 DEF TrainInv, CheckpointInv, Settled
<1> QED BY <1>5, <1>6, <1>7 DEF TrainInv

\* A trainer that ends well has written every file itself.
LEMMA TrainerExitsStep ==
  ASSUME TrainInv, TrainerExits
  PROVE  TrainInv'
<1>1. /\ trainer = "files" /\ written = AdapterFile /\ trainer' = "gone" /\ exitCode' = 0
      /\ UNCHANGED <<launches, step, wrapper, checkpoints, written, adapter>>
  BY DEF TrainerExits
<1>2. TrainTypes' BY <1>1 DEF TrainInv, TrainTypes
<1>3. wrapper' = "waiting" BY <1>1 DEF TrainInv, Child, Running
<1>4. Child' BY <1>1, <1>3 DEF Child, Running
<1>5. AdapterInv' BY <1>1 DEF TrainInv, AdapterInv
<1>6. CheckpointInv' BY <1>1 DEF TrainInv, CheckpointInv, Settled
<1> QED BY <1>2, <1>4, <1>5, <1>6 DEF TrainInv

LEMMA TrainNextInv ==
  ASSUME TrainInv, [TrainNext]_trainVars
  PROVE  TrainInv'
<1>1. CASE UNCHANGED trainVars
  BY <1>1 DEF trainVars, TrainInv, TrainTypes, Child, AdapterInv, CheckpointInv, Settled
<1> QED BY <1>1, LaunchStep, QuietTrainSteps, TrainStepStep, CheckpointSavedStep,
           WriteAdapterFileStep, TrainerExitsStep DEF TrainNext

\* The inductive invariant of the training runs.
THEOREM TrainInvariant == TrainSpec => []TrainInv
  BY TrainInitInv, TrainNextInv, PTL DEF TrainSpec

\* However often a training is killed and launched again, the files of its adapter stay in
\* order, success means all of them are of the launch that reports it, and only the checkpoint
\* being saved is not whole unless a kill left it: for any number of steps, checkpoints kept
\* and launches.
THEOREM TrainManifestNeverAhead == TrainSpec => []ManifestNeverAhead
<1>1. ASSUME TrainInv PROVE ManifestNeverAhead
  <2>1. ASSUME NEW i \in DOMAIN checkpoints
        PROVE  checkpoints[i].whole \/ checkpoints[i].launch < launches
               \/ trainer \in {"saving", "gone"} \/ wrapper # "waiting"
    BY <1>1, AnyCheckpoint DEF Settled
  <2> QED BY <1>1, <2>1 DEF ManifestNeverAhead, TrainInv, AdapterInv
<1>2. TrainInv => ManifestNeverAhead BY <1>1
<1> QED BY <1>2, TrainInvariant, PTL

--------------------------------------------------------------------------------
(* The decision gate                                                           *)

ActionSet == [direction : {"BUY", "SELL", "HOLD"}, size : Nat, cvar_impact : Nat]

\* What the gate selects is HOLD if no candidate fits, and otherwise one that fits, as large
\* as any that does and before any other as large.
LEMMA SelectFacts ==
  ASSUME NEW c \in Seq(ActionSet), NEW price, NEW bound
  PROVE  \/ /\ Select(c, price, bound) = Hold
            /\ \A i \in DOMAIN c : ~(TailLoss(c[i], price) <= bound)
         \/ \E i \in DOMAIN c :
              /\ Select(c, price, bound) = c[i] /\ TailLoss(c[i], price) <= bound
              /\ \A j \in DOMAIN c : TailLoss(c[j], price) <= bound =>
                    c[j].size <= c[i].size /\ (c[j].size = c[i].size => i <= j)
<1> DEFINE feasible == {i \in DOMAIN c : TailLoss(c[i], price) <= bound}
           largest == {i \in feasible : \A j \in feasible : c[j].size <= c[i].size}
           first == CHOOSE i \in largest : \A j \in largest : i <= j
<1>1. Select(c, price, bound) = IF feasible = {} THEN Hold ELSE c[first] BY DEF Select
<1>2. DOMAIN c = 1..Len(c) /\ Len(c) \in Nat BY LenProperties
<1>3. \A i \in DOMAIN c : c[i] \in ActionSet BY <1>2, ElementOfSeq
<1>4. CASE feasible = {} BY <1>1, <1>4
<1>5. CASE feasible # {}
  <2> DEFINE size == [i \in feasible |-> c[i].size]
  <2>1. feasible \in SUBSET (1..Len(c)) BY <1>2
  <2>2. size \in [feasible -> Nat] BY <1>3 DEF ActionSet
  <2> HIDE DEF feasible
  <2>3. \E i \in {i \in feasible : \A j \in feasible : size[j] <= size[i]} :
           \A j \in {k \in feasible : \A l \in feasible : size[l] <= size[k]} : i <= j
    BY <1>2, <1>5, <2>1, <2>2, FirstOfLargest, ZenonT(30)
  <2>4. {i \in feasible : \A j \in feasible : size[j] <= size[i]} = largest OBVIOUS
  <2>5. \E i \in largest : \A j \in largest : i <= j BY <2>3, <2>4
  <2>6. first \in largest /\ \A j \in largest : first <= j BY <2>5
  <2>7. ASSUME NEW j \in feasible, c[j].size = c[first].size PROVE first <= j
    <3>1. j \in largest BY <2>6, <2>7
    <3> QED BY <2>6, <3>1
  <2>8. first \in feasible /\ \A j \in feasible : c[j].size <= c[first].size BY <2>6
  <2>9. Select(c, price, bound) = c[first] BY <1>1, <1>5
  <2> HIDE DEF first, largest
  <2> QED BY <2>7, <2>8, <2>9 DEF feasible
<1> QED BY <1>4, <1>5

\* What passed the gate: an action within the limit.
Fits(a) == TailLoss(a, event.price) <= limit

Chosen == IF search THEN ToSet(Candidates) ELSE {target}

\* HOLD only if none of those to choose from fits.
HoldsOnlyIf(a, S) == a.direction = "HOLD" => \A b \in S : b.direction = "HOLD" \/ ~Fits(b)

\* What a RiskGatedPolicy proposed within the thresholds of its profile.
OfPolicy(a) ==
    /\ signals.drawdown <= Profile[profile].drawdown_max
    /\ \E inner \in InnerAction :
         /\ inner.cvar_impact <= Profile[profile].cvar_max
         /\ 2 * TailLoss(a, event.price)
              = Profile[profile].size_scaling * TailLoss(inner, event.price)

GateTypes ==
    /\ event \in MarketEvent /\ search \in BOOLEAN /\ profile \in DOMAIN Profile \cup {NoProfile}
    /\ target \in ActionSet /\ proposed \in ActionSet /\ optimized \in ActionSet
    /\ signals \in [score : Int, cvar : 0..CvarLimit, drawdown : Int]
    /\ signals.score \in {NoScore, 55, 75, 80, 90}
    /\ limit \in Nat

Admitted(a) == /\ Fits(a) \/ (source = "policy" /\ ~search /\ OfPolicy(a))
               /\ HoldsOnlyIf(a, Chosen)

StageInv ==
    /\ stage \in {"calc", "reason", "select", "policy", "search", "optimize", "decided"}
    /\ stage = "policy" => Fits(proposed) /\ HoldsOnlyIf(proposed, {target})
    /\ stage = "search" =>
         /\ Fits(proposed) \/ (source = "policy" /\ OfPolicy(proposed))
         /\ HoldsOnlyIf(proposed, {target})
    /\ stage = "optimize" => Admitted(proposed)
    /\ stage = "decided" => /\ Admitted(optimized) /\ optimized.cvar_impact = NoImpact
                            /\ flagged <=> ShouldAutoFlag(optimized)

GateInv == GateTypes /\ StageInv

\* What the assumption says of the event in hand.
LEMMA EventFacts ==
  ASSUME GateTypes
  PROVE  event.price \in Nat /\ event.volume \in Nat
  BY GateAssumption DEF GateTypes

\* The tail loss of an action does not depend on its impact, and holding has none.
LEMMA TailLossFacts ==
  ASSUME NEW a \in ActionSet, NEW p \in Nat
  PROVE  /\ TailLoss(a, p) \in Nat
         /\ a.size = 0 \/ a.direction = "HOLD" => TailLoss(a, p) = 0
         /\ TailLoss([a EXCEPT !.cvar_impact = NoImpact], p) = TailLoss(a, p)
         /\ TailLoss(Hold, p) = 0
<1>1. a.size * p \in Nat /\ a.size \in Nat /\ a.direction \in {"BUY", "SELL", "HOLD"}
  BY DEF ActionSet
<1>2. 10 * a.size * p \in Nat /\ 12 * a.size * p \in Nat
  <2>1. 10 * a.size \in Nat /\ 12 * a.size \in Nat BY <1>1
  <2> QED BY <2>1
<1>3. TailLoss(a, p) \in Nat BY <1>1, <1>2 DEF TailLoss
<1>4. a.size = 0 \/ a.direction = "HOLD" => TailLoss(a, p) = 0 BY <1>1 DEF TailLoss
<1>5. TailLoss([a EXCEPT !.cvar_impact = NoImpact], p) = TailLoss(a, p)
  <2>1. /\ [a EXCEPT !.cvar_impact = NoImpact].direction = a.direction
        /\ [a EXCEPT !.cvar_impact = NoImpact].size = a.size
    BY DEF ActionSet
  <2> QED BY <2>1 DEF TailLoss
<1>6. TailLoss(Hold, p) = 0 BY DEF TailLoss, Hold, Action
<1> QED BY <1>3, <1>4, <1>5, <1>6

\* The synthetic CVaR of every event is 3 %.
LEMMA CvarOfEvent ==
  ASSUME NEW e, e.volume \in Nat
  PROVE  Cvar(Returns(e)) = 30000
<1>1. -30000 \in Returns(e) /\ \A r \in Returns(e) : r \in Int /\ -30000 <= r
  BY DEF Returns
<1>2. Min(Returns(e)) = -30000
  <2>1. \E x \in Returns(e) : \A y \in Returns(e) : x <= y BY <1>1
  <2>2. /\ Min(Returns(e)) \in Returns(e) /\ \A y \in Returns(e) : Min(Returns(e)) <= y
    BY <2>1 DEF Min
  <2> QED BY <1>1, <2>2
<1>3. PICK m \in Int : m = Min(Returns(e)) /\ m = -30000 BY <1>2
<1>4. 0 - m = 30000 BY <1>3
<1> QED BY <1>3, <1>4 DEF Cvar

LEMMA CvarWithinLimit ==
  0 \in 0..CvarLimit /\ 30000 \in 0..CvarLimit /\ \A c \in 0..CvarLimit : ~(c > CvarLimit)
  BY DEF CvarLimit

LEMMA HoldIsAction == Hold \in ActionSet
  BY DEF Hold, Action, ActionSet, NoImpact

LEMMA GateInitInv ==
  ASSUME GateInit
  PROVE  GateInv
<1>1. GateTypes BY HoldIsAction DEF GateInit, GateTypes, NoScore, CvarLimit
<1>2. StageInv BY DEF GateInit, StageInv
<1> QED BY <1>1, <1>2 DEF GateInv

\* The stages of a decision, each of which keeps the invariant.
LEMMA CalcStep ==
  ASSUME GateInv, Calc
  PROVE  GateInv'
<1>1. event \in MarketEvent /\ event.price \in Nat /\ event.volume \in Nat
  BY EventFacts DEF GateInv, GateTypes
<1>2. Cvar(Returns(event)) = 30000 BY <1>1, CvarOfEvent
<1>3. PICK d \in Int : d = Drawdown(event)
  BY <1>1 DEF Drawdown, Larger
<1>4. PICK s \in [score : Int, cvar : 0..CvarLimit, drawdown : Int] :
        s = signals /\ s.score \in {NoScore, 55, 75, 80, 90}
  BY DEF GateInv, GateTypes
<1>5. signals' = [s EXCEPT !.cvar = 30000, !.drawdown = d] BY <1>2, <1>3, <1>4 DEF Calc
<1>6. /\ signals' \in [score : Int, cvar : 0..CvarLimit, drawdown : Int]
      /\ signals'.score = s.score /\ signals'.cvar = 30000
  <2>1. 30000 \in 0..CvarLimit BY CvarWithinLimit
  <2>2. PICK n \in 0..CvarLimit : n = 30000 BY <2>1
  <2>3. signals' = [s EXCEPT !.cvar = n, !.drawdown = d] BY <1>5, <2>2
  <2>4. /\ signals' \in [score : Int, cvar : 0..CvarLimit, drawdown : Int]
        /\ signals'.score = s.score /\ signals'.cvar = n
    BY <1>4, <2>3
  <2> QED BY <2>2, <2>4
<1>7. limit' = 30000
  <2>1. limit' = Smaller(CvarLimit, Larger(signals'.cvar, 10000)) BY DEF Calc
  <2>2. limit' = Smaller(CvarLimit, Larger(30000, 10000)) BY <1>6, <2>1
  <2>3. Larger(30000, 10000) = 30000 BY DEF Larger
  <2>4. CvarLimit < 30000 => CvarLimit = 30000 BY CvarWithinLimit
  <2> QED BY <2>2, <2>3, <2>4 DEF Smaller
<1>8. GateTypes' BY <1>4, <1>6, <1>7 DEF Calc, GateInv, GateTypes
<1>9. StageInv' BY DEF Calc, StageInv
<1> QED BY <1>8, <1>9 DEF GateInv

LEMMA ProposeStep ==
  ASSUME GateInv, Propose
  PROVE  GateInv'
<1>1. event.price \in Nat /\ event.volume \in Nat BY EventFacts DEF GateInv
<1>2. PICK s \in [score : Int, cvar : 0..CvarLimit, drawdown : Int] :
        s = signals /\ s.score \in {NoScore, 55, 75, 80, 90}
  BY DEF GateInv, GateTypes
<1>3. PICK n \in {NoScore, 55, 75, 80, 90} : signals' = [s EXCEPT !.score = n]
  <2>1. \E n \in {90, 75, 80, 55, s.score} : signals' = [s EXCEPT !.score = n]
    BY <1>2 DEF Propose
  <2> QED BY <1>2, <2>1
<1>4. signals' \in [score : Int, cvar : 0..CvarLimit, drawdown : Int] /\ signals'.score = n
  BY <1>3 DEF NoScore
<1>5. target' \in ActionSet
  <2>1. Larger(10, Smaller(event.volume, 1000)) \in Nat BY <1>1 DEF Larger, Smaller
  <2> QED BY <2>1, HoldIsAction DEF Propose, Action, ActionSet
<1>6. GateTypes' BY <1>3, <1>4, <1>5 DEF Propose, GateInv, GateTypes
<1>7. StageInv' BY DEF Propose, StageInv
<1> QED BY <1>6, <1>7 DEF GateInv

LEMMA SelectTargetStep ==
  ASSUME GateInv, SelectTarget
  PROVE  GateInv'
<1>0. event.price \in Nat /\ limit \in Nat /\ target \in ActionSet
  BY EventFacts DEF GateInv, GateTypes
<1>1. /\ proposed' = Select(<<target>>, event.price, limit)
      /\ stage' = "policy"
      /\ UNCHANGED <<event, profile, search, limit, signals, target, optimized>>
  BY DEF SelectTarget, Feasible
<1>2. <<target>> \in Seq(ActionSet) /\ DOMAIN <<target>> = {1} /\ <<target>>[1] = target
  BY <1>0
<1>3. \/ proposed' = Hold /\ ~Fits(target)
      \/ proposed' = target /\ Fits(target)
  <2> DEFINE c == <<target>>
  <2>1. c \in Seq(ActionSet) /\ DOMAIN c = {1} /\ c[1] = target BY <1>2
  <2> HIDE DEF c
  <2>2. \/ /\ Select(c, event.price, limit) = Hold
           /\ \A i \in DOMAIN c : ~(TailLoss(c[i], event.price) <= limit)
        \/ \E i \in DOMAIN c :
              /\ Select(c, event.price, limit) = c[i] /\ TailLoss(c[i], event.price) <= limit
    BY <2>1, SelectFacts
  <2> QED BY <1>1, <2>1, <2>2 DEF c, Fits
<1>4. TailLoss(Hold, event.price) = 0 /\ Hold.direction = "HOLD"
  BY <1>0, HoldIsAction, TailLossFacts DEF Hold, Action
<1>5. PICK a \in ActionSet : /\ a = proposed' /\ Fits(a) /\ HoldsOnlyIf(a, {target})
  BY <1>0, <1>3, <1>4, HoldIsAction DEF Fits, HoldsOnlyIf
<1>6. Fits(proposed)' /\ HoldsOnlyIf(proposed, {target})'
  BY <1>1, <1>5 DEF Fits, HoldsOnlyIf
<1>7. GateTypes' BY <1>1, <1>5 DEF GateInv, GateTypes
<1>8. StageInv' BY <1>1, <1>6 DEF StageInv
<1> QED BY <1>7, <1>8 DEF GateInv

\* What a RiskGatedPolicy makes of a proposal: HOLD, or the proposal scaled.
LEMMA RiskGatedFacts ==
  ASSUME GateTypes, NEW inner \in InnerAction \cup {ToolAware}
  PROVE  /\ RiskGated(inner) \in ActionSet
         /\ Fits(RiskGated(inner)) \/ OfPolicy(RiskGated(inner))
<1>0. /\ event.price \in Nat /\ limit \in Nat /\ signals.drawdown \in Int
      /\ profile \in DOMAIN Profile \cup {NoProfile}
  BY EventFacts DEF GateTypes
<1>1. PICK a \in ActionSet : a = inner /\ a.size % 2 = 0
  BY GateAssumption, HoldIsAction DEF ToolAware, ActionSet, Hold, Action
<1>2. CASE profile = NoProfile
  <2>1. RiskGated(inner) = Hold BY <1>2 DEF RiskGated
  <2>2. TailLoss(Hold, event.price) = 0 BY <1>0, HoldIsAction, TailLossFacts
  <2> QED BY <1>0, <2>1, <2>2, HoldIsAction DEF Fits
<1>3. CASE profile # NoProfile
  <2> DEFINE scale == Profile[profile].size_scaling
             most == Profile[profile].drawdown_max
             cap == Profile[profile].cvar_max
  <2>1. scale \in {1, 2, 3} /\ most \in Int /\ cap \in Int
    BY <1>0, <1>3 DEF Profile
  <2> HIDE DEF scale, most, cap
  <2>2. CASE a.cvar_impact > cap \/ signals.drawdown > most \/ a.size = 0
    <3>1. RiskGated(inner) = [Hold EXCEPT !.cvar_impact = a.cvar_impact]
      BY <1>1, <1>3, <2>2 DEF RiskGated, most, cap
    <3>2. /\ RiskGated(inner) \in ActionSet /\ RiskGated(inner).direction = "HOLD"
      BY <1>1, <3>1 DEF Hold, Action, ActionSet
    <3>3. PICK r \in ActionSet : r = RiskGated(inner) /\ r.direction = "HOLD" BY <3>2
    <3>4. TailLoss(r, event.price) = 0 BY <1>0, <3>3, TailLossFacts
    <3> QED BY <1>0, <3>3, <3>4 DEF Fits
  <2>3. CASE ~(a.cvar_impact > cap \/ signals.drawdown > most \/ a.size = 0)
    <3>1. PICK n \in Nat : n = (a.size * scale) \div 2 /\ 2 * n = a.size * scale
      <4>1. PICK h \in Nat : a.size = 2 * h BY <1>1 DEF ActionSet
      <4>2. a.size * scale = 2 * (h * scale) /\ h * scale \in Nat BY <2>1, <4>1
      <4>3. PICK m \in Nat : m = h * scale BY <4>2
      <4>4. (2 * m) \div 2 = m OBVIOUS
      <4> QED BY <4>2, <4>3, <4>4
    <3>2. RiskGated(inner) = [a EXCEPT !.size = n]
      BY <1>1, <1>3, <2>3, <3>1 DEF RiskGated, scale, most, cap
    <3>3. PICK b \in ActionSet : b = RiskGated(inner) /\ b.direction = a.direction /\ b.size = n
      BY <3>2 DEF ActionSet
    <3>4. 2 * TailLoss(b, event.price) = scale * TailLoss(a, event.price)
      <4>1. PICK p \in Nat : p = event.price BY <1>0
      <4>2. PICK s \in Nat : s = a.size BY DEF ActionSet
      <4>3. 2 * n = s * scale BY <3>1, <4>2
      <4>4. 2 * (n * p) = scale * (s * p)
        <5>1. CASE scale = 1 BY <4>3, <5>1
        <5>2. CASE scale = 2 BY <4>3, <5>2
        <5>3. CASE scale = 3 BY <4>3, <5>3
        <5> QED BY <2>1, <5>1, <5>2, <5>3
      <4>5. /\ 2 * (10 * n * p) = scale * (10 * s * p) /\ 2 * (12 * n * p) = scale * (12 * s * p)
            /\ 2 * 0 = scale * 0
        BY <2>1, <4>4
      <4> QED BY <3>3, <4>1, <4>2, <4>5 DEF TailLoss
    <3>5. a \in InnerAction
      BY <1>1, <2>3 DEF ToolAware, Hold, Action
    <3>6. a.cvar_impact <= cap /\ signals.drawdown <= most
      BY <1>0, <2>1, <2>3 DEF ActionSet
    <3> QED BY <3>3, <3>4, <3>5, <3>6 DEF OfPolicy, scale, most, cap
  <2> QED BY <2>2, <2>3
<1> QED BY <1>2, <1>3

LEMMA AskPolicyStep ==
  ASSUME GateInv, AskPolicy
  PROVE  GateInv'
<1>0. /\ stage = "policy" /\ stage' = "search" /\ Fits(proposed) /\ HoldsOnlyIf(proposed, {target})
      /\ UNCHANGED <<event, profile, search, limit, signals, target, optimized>>
  BY DEF AskPolicy, GateInv, StageInv
<1>1. CASE proposed.direction = "HOLD"
  <2>1. PICK inner \in InnerAction \cup {ToolAware} : proposed' = RiskGated(inner)
    BY <1>1 DEF AskPolicy
  <2>2. PICK a \in ActionSet : a = RiskGated(inner) /\ (Fits(a) \/ OfPolicy(a))
    BY <2>1, RiskGatedFacts DEF GateInv
  <2>3. proposed' = a /\ source' = "policy" BY <1>1, <2>1, <2>2 DEF AskPolicy
  <2>4. GateTypes' BY <1>0, <2>3 DEF GateInv, GateTypes
  <2>5. Fits(proposed)' \/ OfPolicy(proposed)' BY <1>0, <2>2, <2>3 DEF Fits, OfPolicy
  <2>6. HoldsOnlyIf(proposed, {target})' BY <1>0, <1>1 DEF HoldsOnlyIf, Fits
  <2>7. StageInv' BY <1>0, <2>3, <2>5, <2>6 DEF StageInv
  <2> QED BY <2>4, <2>7 DEF GateInv
<1>2. CASE proposed.direction # "HOLD"
  <2>1. UNCHANGED <<proposed, source>> BY <1>2 DEF AskPolicy
  <2>2. GateTypes' BY <1>0, <2>1 DEF GateInv, GateTypes
  <2>3. Fits(proposed)' /\ HoldsOnlyIf(proposed, {target})'
    BY <1>0, <2>1 DEF Fits, HoldsOnlyIf
  <2>4. StageInv' BY <1>0, <2>3 DEF StageInv
  <2> QED BY <2>2, <2>4 DEF GateInv
<1> QED BY <1>1, <1>2

\* The three candidates of the search.
LEMMA CandidatesFacts ==
  ASSUME GateTypes
  PROVE  /\ Candidates \in Seq(ActionSet) /\ DOMAIN Candidates = 1..3
         /\ Candidates[1] = Action("BUY", event.volume \div 10, NoImpact)
         /\ Candidates[2] = Hold
         /\ Candidates[3] = Action("SELL", (12 * event.volume) \div 100, NoImpact)
         /\ \A i \in 1..3 : Candidates[i] \in ActionSet
<1>1. event.volume \in Nat BY EventFacts
<1>2. event.volume \div 10 \in Nat /\ (12 * event.volume) \div 100 \in Nat BY <1>1
<1>3. /\ Action("BUY", event.volume \div 10, NoImpact) \in ActionSet
      /\ Action("SELL", (12 * event.volume) \div 100, NoImpact) \in ActionSet
  BY <1>2 DEF Action, ActionSet, NoImpact
<1>4. PICK a \in ActionSet : a = Action("BUY", event.volume \div 10, NoImpact) BY <1>3
<1>5. PICK b \in ActionSet : b = Action("SELL", (12 * event.volume) \div 100, NoImpact) BY <1>3
<1>6. Candidates = <<a, Hold, b>> BY <1>4, <1>5 DEF Candidates
<1>7. <<a, Hold, b>> \in Seq(ActionSet) /\ DOMAIN <<a, Hold, b>> = 1..3
      /\ <<a, Hold, b>>[1] = a /\ <<a, Hold, b>>[2] = Hold /\ <<a, Hold, b>>[3] = b
  BY HoldIsAction
<1>8. \A i \in 1..3 : i = 1 \/ i = 2 \/ i = 3 OBVIOUS
<1> QED BY <1>4, <1>5, <1>6, <1>7, <1>8, HoldIsAction

\* The best node of the search buys: no other action has a reward above that.
LEMMA BestNodeBuys ==
  ASSUME GateTypes
  PROVE  BestNode = Candidates[1]
<1>1. event.price \in Nat /\ event.volume \in Nat BY EventFacts
<1>2. /\ Candidates[1].direction = "BUY" /\ Candidates[1].size \in Nat
      /\ Candidates[2].direction = "HOLD" /\ Candidates[2].size = 0
      /\ Candidates[3].direction = "SELL" /\ Candidates[3].size \in Nat
  BY <1>1, CandidatesFacts DEF Action, Hold
<1>3. PICK p \in Nat : p = event.price BY <1>1
<1>4. PICK b \in Nat : b = Candidates[1].size BY <1>2
<1>5. PICK s \in Nat : s = Candidates[3].size BY <1>2
<1>6. b * p \in Nat /\ s * p \in Nat OBVIOUS
<1>7. /\ Reward(Candidates[1]) = b * p /\ Reward(Candidates[2]) = (0 * p) \div 5
      /\ Reward(Candidates[3]) = 0 - s * p
  BY <1>2, <1>3, <1>4, <1>5 DEF Reward
<1>8. (0 * p) \div 5 = 0 OBVIOUS
<1>9. \A j \in 1..3 : Reward(Candidates[j]) <= Reward(Candidates[1])
  <2>1. \A j \in 1..3 : j = 1 \/ j = 2 \/ j = 3 OBVIOUS
  <2>2. Reward(Candidates[3]) <= b * p /\ Reward(Candidates[2]) <= b * p /\ b * p <= b * p
    BY <1>6, <1>7, <1>8
  <2> QED BY <1>7, <2>1, <2>2
<1> DEFINE best == {i \in 1..3 : \A j \in 1..3 : Reward(Candidates[j]) <= Reward(Candidates[i])}
           first == CHOOSE i \in best : \A j \in best : i <= j
<1>10. 1 \in best /\ \A j \in best : j \in 1..3 BY <1>9
<1> HIDE DEF best
<1>11. \A j \in best : 1 <= j BY <1>10
<1>12. first \in best /\ first <= 1 BY <1>10, <1>11
<1>13. first = 1 BY <1>10, <1>12
<1> QED BY <1>13 DEF BestNode, best

\* What the search chooses from fits, and holds only when no candidate fits.
LEMMA RefinedChoice ==
  ASSUME GateTypes
  PROVE  \E a \in ActionSet : /\ a = Feasible(<<BestNode>> \o Candidates)
                              /\ Fits(a) /\ HoldsOnlyIf(a, ToSet(Candidates))
<1> DEFINE c == <<BestNode>> \o Candidates
<1>0. event.price \in Nat /\ event.volume \in Nat /\ limit \in Nat
  BY EventFacts DEF GateTypes
<1>1. PICK b \in ActionSet : b = Candidates[1] /\ b.direction = "BUY"
                             /\ b.size = event.volume \div 10
  BY CandidatesFacts DEF Action
<1>2. PICK d \in ActionSet : d = Candidates[3] /\ d.direction = "SELL"
                             /\ d.size = (12 * event.volume) \div 100
  BY CandidatesFacts DEF Action
<1>3. /\ c \in Seq(ActionSet) /\ DOMAIN c = 1..4
      /\ c[1] = b /\ c[2] = b /\ c[3] = Hold /\ c[4] = d
  <2>1. PICK one \in Seq(ActionSet) : one = <<BestNode>> /\ Len(one) = 1 /\ one[1] = b
    <3>1. BestNode = b BY <1>1, BestNodeBuys
    <3>2. <<b>> \in Seq(ActionSet) /\ Len(<<b>>) = 1 /\ <<b>>[1] = b OBVIOUS
    <3> QED BY <3>1, <3>2
  <2>2. PICK s \in Seq(ActionSet) : /\ s = Candidates /\ Len(s) = 3
                                    /\ s[1] = b /\ s[2] = Hold /\ s[3] = d
    BY <1>1, <1>2, CandidatesFacts, LenProperties
  <2>3. /\ one \o s \in Seq(ActionSet) /\ Len(one \o s) = 4
        /\ \A i \in 1..4 : (one \o s)[i] = IF i <= 1 THEN one[i] ELSE s[i - 1]
    <3>1. one \in Seq(ActionSet) /\ s \in Seq(ActionSet) /\ Len(one) = 1 /\ Len(s) = 3
      BY <2>1, <2>2
    <3>2. /\ one \o s \in Seq(ActionSet) /\ Len(one \o s) = Len(one) + Len(s)
          /\ \A i \in 1..(Len(one) + Len(s)) :
               (one \o s)[i] = IF i <= Len(one) THEN one[i] ELSE s[i - Len(one)]
      BY ONLY <3>1, ConcatProperties
    <3>3. Len(one) + Len(s) = 4 BY <3>1
    <3> QED BY <3>1, <3>2, <3>3
  <2>4. DOMAIN (one \o s) = 1..4 BY <2>3, LenProperties
  <2> QED BY <2>1, <2>2, <2>3, <2>4
<1> HIDE DEF c
<1>4. PICK a : a = Select(c, event.price, limit) OBVIOUS
<1>5. TailLoss(Hold, event.price) = 0 BY <1>0, HoldIsAction, TailLossFacts
<1>6. PICK i \in 1..4 :
        /\ a = c[i] /\ TailLoss(c[i], event.price) <= limit
        /\ \A j \in 1..4 : TailLoss(c[j], event.price) <= limit =>
              c[j].size <= c[i].size /\ (c[j].size = c[i].size => i <= j)
  BY <1>0, <1>3, <1>4, <1>5, SelectFacts, SMTT(30)
<1>7. i = 1 \/ i = 2 \/ i = 3 \/ i = 4 OBVIOUS
<1>8. a \in ActionSet /\ Fits(a)
  BY <1>3, <1>6, <1>7, HoldIsAction DEF Fits
<1>9. ASSUME a.direction = "HOLD" PROVE ~Fits(b) /\ ~Fits(d)
  <2>1. i = 3 /\ c[i].size = 0 /\ b.size \in Nat /\ d.size \in Nat
    BY <1>1, <1>2, <1>3, <1>6, <1>7, <1>9, SMTT(30) DEF Hold, Action, ActionSet
  <2>2. ~Fits(b)
    <3>1. CASE Fits(b)
      <4>1. c[1].size <= 0 /\ (c[1].size = 0 => i <= 1)
        BY <1>3, <1>6, <2>1, <3>1 DEF Fits
      <4> QED BY <1>3, <2>1, <4>1
    <3> QED BY <3>1
  <2>3. b.size # 0
    <3>1. CASE b.size = 0
      <4>1. TailLoss(b, event.price) = 0 BY <1>0, <3>1, TailLossFacts
      <4> QED BY <1>0, <2>2, <4>1 DEF Fits
    <3> QED BY <3>1
  <2>4. d.size # 0
    <3>1. event.volume >= 10 BY <1>0, <1>1, <2>1, <2>3
    <3> QED BY <1>0, <1>2, <3>1
  <2>5. ~Fits(d)
    <3>1. CASE Fits(d)
      <4>1. c[4].size <= 0 BY <1>3, <1>6, <2>1, <3>1 DEF Fits
      <4> QED BY <1>3, <2>1, <2>4, <4>1
    <3> QED BY <3>1
  <2> QED BY <2>2, <2>5
<1>10. ToSet(Candidates) = {b, Hold, d}
  <2>1. \A k \in 1..3 : k = 1 \/ k = 2 \/ k = 3 OBVIOUS
  <2>2. DOMAIN Candidates = 1..3 /\ Candidates[2] = Hold BY CandidatesFacts
  <2> QED BY <1>1, <1>2, <2>1, <2>2 DEF ToSet
<1>11. HoldsOnlyIf(a, ToSet(Candidates))
  BY <1>9, <1>10 DEF HoldsOnlyIf, Hold, Action
<1> QED BY <1>4, <1>8, <1>11 DEF Feasible, c

LEMMA RefineStep ==
  ASSUME GateInv, Refine
  PROVE  GateInv'
<1>0. /\ stage = "search" /\ stage' = "optimize"
      /\ UNCHANGED <<event, profile, search, limit, signals, target, optimized>>
  BY DEF Refine
<1>1. CASE search
  <2>1. PICK a \in ActionSet : /\ a = Feasible(<<BestNode>> \o Candidates)
                               /\ Fits(a) /\ HoldsOnlyIf(a, ToSet(Candidates))
    BY RefinedChoice DEF GateInv
  <2>2. proposed' = a /\ source' = "search" BY <1>1, <2>1 DEF Refine
  <2>3. GateTypes' BY <1>0, <2>2 DEF GateInv, GateTypes
  <2>4. PICK S : S = ToSet(Candidates) OBVIOUS
  <2>5. ToSet(Candidates)' = S BY <1>0, <2>4 DEF Candidates, ToSet
  <2>6. Chosen' = S BY <1>0, <1>1, <2>5 DEF Chosen
  <2>7. Fits(proposed)' /\ HoldsOnlyIf(proposed, Chosen)'
    BY <1>0, <2>1, <2>2, <2>4, <2>6 DEF Fits, HoldsOnlyIf
  <2>8. StageInv' BY <1>0, <2>7 DEF StageInv, Admitted
  <2> QED BY <2>3, <2>8 DEF GateInv
<1>2. CASE ~search
  <2>1. UNCHANGED <<proposed, source>> BY <1>2 DEF Refine
  <2>2. GateTypes' BY <1>0, <2>1 DEF GateInv, GateTypes
  <2>3. /\ Fits(proposed) \/ (source = "policy" /\ OfPolicy(proposed))
        /\ HoldsOnlyIf(proposed, {target})
    BY <1>0 DEF GateInv, StageInv
  <2>4. Fits(proposed)' \/ (source' = "policy" /\ OfPolicy(proposed)')
    BY <1>0, <2>1, <2>3 DEF Fits, OfPolicy
  <2>5. Chosen' = {target} /\ ~search' BY <1>0, <1>2 DEF Chosen
  <2>6. HoldsOnlyIf(proposed, Chosen)'
    BY <1>0, <2>1, <2>3, <2>5 DEF HoldsOnlyIf, Fits
  <2>7. StageInv' BY <1>0, <2>4, <2>5, <2>6 DEF StageInv, Admitted
  <2> QED BY <2>2, <2>7 DEF GateInv
<1> QED BY <1>1, <1>2

LEMMA DecideStep ==
  ASSUME GateInv, Decide
  PROVE  GateInv'
<1>0. /\ stage = "optimize" /\ stage' = "decided" /\ Admitted(proposed)
      /\ UNCHANGED <<event, profile, search, limit, signals, target, proposed, source>>
      /\ event.price \in Nat /\ proposed \in ActionSet
  BY EventFacts DEF Decide, GateInv, GateTypes, StageInv
<1>1. PICK a \in ActionSet : /\ a = proposed BY <1>0
<1>2. PICK b \in ActionSet : /\ b = [a EXCEPT !.cvar_impact = NoImpact]
                             /\ b.direction = a.direction /\ b.cvar_impact = NoImpact
                             /\ TailLoss(b, event.price) = TailLoss(a, event.price)
  <2>1. [a EXCEPT !.cvar_impact = NoImpact] \in ActionSet BY DEF ActionSet, NoImpact
  <2>2. TailLoss([a EXCEPT !.cvar_impact = NoImpact], event.price) = TailLoss(a, event.price)
    BY <1>0, TailLossFacts
  <2> QED BY <2>1, <2>2 DEF ActionSet
<1>3. optimized' = b /\ flagged' = ShouldAutoFlag(b)
  BY <1>1, <1>2 DEF Decide, PassThrough, ShouldAutoFlag
<1>4. GateTypes' BY <1>0, <1>3 DEF GateInv, GateTypes
<1>5. Admitted(b)
  BY <1>0, <1>1, <1>2 DEF Admitted, Fits, HoldsOnlyIf, OfPolicy
<1>6. PICK S : S = Chosen OBVIOUS
<1>7. Chosen' = S BY <1>0, <1>6 DEF Chosen, Candidates, ToSet
<1>8. (Fits(optimized) \/ (source = "policy" /\ ~search /\ OfPolicy(optimized)))'
  BY <1>0, <1>3, <1>5 DEF Admitted, Fits, OfPolicy
<1>9. HoldsOnlyIf(optimized, Chosen)'
  BY <1>0, <1>3, <1>5, <1>6, <1>7 DEF Admitted, Fits, HoldsOnlyIf
<1>10. optimized'.cvar_impact = NoImpact /\ (flagged' <=> ShouldAutoFlag(optimized)')
  BY <1>0, <1>2, <1>3 DEF ShouldAutoFlag
<1>11. StageInv' BY <1>0, <1>8, <1>9, <1>10 DEF StageInv, Admitted
<1> QED BY <1>4, <1>11 DEF GateInv

LEMMA GateNextInv ==
  ASSUME GateInv, [GateNext]_gateVars
  PROVE  GateInv'
<1>1. CASE UNCHANGED gateVars
  BY <1>1 DEF gateVars, GateInv, GateTypes, StageInv, Admitted, Fits, HoldsOnlyIf, OfPolicy,
              Chosen, Candidates, ShouldAutoFlag, ToSet
<1> QED BY <1>1, CalcStep, ProposeStep, SelectTargetStep, AskPolicyStep, RefineStep, DecideStep
        DEF GateNext

\* The inductive invariant of the gate.
THEOREM GateInvariant == GateSpec => []GateInv
  BY GateInitInv, GateNextInv, PTL DEF GateSpec

\* No decision risks more than the effective limit, but for what a RiskGatedPolicy proposes
\* within its thresholds after the gate, and none holds where a candidate would have fit: for
\* every event and every proposal of an inner policy.
THEOREM GateLossBounded == GateSpec => []LossBounded
<1>1. ASSUME GateInv, stage = "decided"
      PROVE  /\ \/ TailLoss(optimized, event.price) <= limit
                \/ /\ source = "policy" /\ ~search
                   /\ signals.drawdown <= Profile[profile].drawdown_max
                   /\ \E inner \in InnerAction :
                        /\ inner.cvar_impact <= Profile[profile].cvar_max
                        /\ 2 * TailLoss(optimized, event.price)
                              = Profile[profile].size_scaling * TailLoss(inner, event.price)
             /\ optimized.direction = "HOLD" =>
                  \A a \in (IF search THEN ToSet(Candidates) ELSE {target}) :
                     a.direction = "HOLD" \/ TailLoss(a, event.price) > limit
  <2>1. Admitted(optimized) /\ limit \in Nat /\ GateTypes /\ event.price \in Nat
    BY <1>1, EventFacts DEF GateInv, GateTypes, StageInv
  <2>2. ASSUME NEW a \in Chosen, ~Fits(a) PROVE TailLoss(a, event.price) > limit
    <3>1. a \in ActionSet
      BY <2>1, CandidatesFacts DEF Chosen, ToSet, GateTypes
    <3>2. TailLoss(a, event.price) \in Nat BY <2>1, <3>1, TailLossFacts
    <3> QED BY <2>1, <2>2, <3>2 DEF Fits
  <2> QED BY <2>1, <2>2 DEF Admitted, Fits, HoldsOnlyIf, OfPolicy, Chosen
<1>2. GateInv => LossBounded BY <1>1 DEF LossBounded
<1> QED BY <1>2, GateInvariant, PTL

\* Only low confidence flags a decision, whatever the event and the proposal were: the two CVaR
\* rules of should_auto_flag never fire.
THEOREM GateFlagMeansLowConfidence == GateSpec => []FlagMeansLowConfidence
<1>1. ASSUME GateInv, stage = "decided" PROVE flagged <=> signals.score \in 0..69
  <2>1. flagged <=> ShouldAutoFlag(optimized)
    BY <1>1 DEF GateInv, StageInv
  <2>2. PICK n \in Int : n = signals.score /\ n \in {NoScore, 55, 75, 80, 90}
    BY <1>1 DEF GateInv, GateTypes
  <2>3. PICK c \in 0..CvarLimit : c = signals.cvar
    BY <1>1 DEF GateInv, GateTypes
  <2>4. ~(c > CvarLimit) BY CvarWithinLimit
  <2>5. optimized.cvar_impact = 0 /\ ~(0 > CvarLimit)
    <3>1. optimized.cvar_impact = 0 BY <1>1 DEF GateInv, StageInv, NoImpact
    <3>2. ~(0 > CvarLimit) BY CvarWithinLimit
    <3> QED BY <3>1, <3>2
  <2>6. ShouldAutoFlag(optimized) <=> n # NoScore /\ n < 70
    BY <2>2, <2>3, <2>4, <2>5 DEF ShouldAutoFlag
  <2>7. n # NoScore /\ n < 70 <=> n \in 0..69
    BY <2>2 DEF NoScore
  <2> QED BY <2>1, <2>2, <2>6, <2>7
<1>2. GateInv => FlagMeansLowConfidence BY <1>1 DEF FlagMeansLowConfidence
<1> QED BY <1>2, GateInvariant, PTL

--------------------------------------------------------------------------------
(* The evaluations                                                             *)

Before == {"start", "reflectionRows", "feedbackRows", "exported", "bench"}
Held(n) == IF QueueLimit < n THEN QueueLimit ELSE n
AuditScore == IF phase = "post" /\ adapterUsed # "none" THEN 70 ELSE 50
OfPre == [cases |-> Len(records), passes |-> Cardinality(GatePasses(records)),
          quality |-> Sum(records), audited |-> Held(Len(records)), audits |-> 50 * Held(Len(records))]
OfPost == [cases |-> Len(records), passes |-> Cardinality(GatePasses(records)),
           quality |-> Sum(records), audited |-> Held(Len(records)),
           audits |-> (IF adapterUsed = "none" THEN 50 ELSE 70) * Held(Len(records))]

EvalTypes ==
    /\ decisions \in UpTo(MaxDecisions, BOOLEAN)
    /\ feedbackFile \in [rows : Int, torn : BOOLEAN]
    /\ feedbackFile # NoFile => feedbackFile.rows >= 0
    /\ Len(records) \in Nat /\ evaluated \in Nat /\ queued \in Nat
    /\ audits \in [count : Nat, sum : Int]
    /\ DOMAIN batches = FullBatch
    /\ adapterUsed \in {"none", "given", "missing", "trained"}
    /\ metrics = [pre |-> metrics.pre, post |-> metrics.post]

\* An evaluation under way: what is in the queue and what was audited are the records that
\* the queue held, each audited once.
Evaluating ==
    phase \in {"pre", "post"} =>
      /\ evaluated <= Len(records) /\ audits.count + queued = Held(evaluated)
      /\ audits.count > 0 => evaluated = Len(records)
      /\ audits.sum = AuditScore * audits.count

PhaseInv ==
    /\ phase \in Before \cup {"pre", "train", "post", "reported", "raised"}
    /\ phase \in Before \cup {"train"} => evaluated = 0 /\ queued = 0 /\ audits = NoAudits
    /\ phase \in Before \cup {"pre", "train"} =>
         adapterUsed = "none" /\ \A v \in FullBatch : batches[v] # "post"
    /\ phase \in {"train", "post", "reported"} => metrics.pre = OfPre
    /\ phase = "post" => \A v \in FullBatch : batches[v] = "post" <=> v <= audits.count
    /\ phase = "reported" =>
         metrics.post = OfPost
         /\ \A v \in FullBatch : batches[v] = "post" <=> v <= Held(Len(records))

BenchInv ==
    /\ bench \in [cases : Nat, regrets : Nat, breaches : {0}, faithful : Int]
    /\ bench.faithful = 100 * bench.cases - 20 * bench.regrets

EvalInv == EvalTypes /\ Evaluating /\ PhaseInv /\ BenchInv

\* The audits that the queue holds of n records.
LEMMA HeldFacts ==
  ASSUME NEW n \in Nat
  PROVE  /\ Held(n) \in Nat /\ Held(n) <= n /\ Held(n) <= QueueLimit
         /\ Held(n + 1) = IF Held(n) < QueueLimit THEN Held(n) + 1 ELSE Held(n)
         /\ Held(0) = 0
  BY EvalAssumption DEF Held

\* The exported decisions are finite in number.
LEMMA ExportedIsNat ==
  ASSUME NEW n \in Nat, DOMAIN decisions = 1..n
  PROVE  Exported \in Nat
<1>1. IsFiniteSet(1..n) BY FS_Interval
<1>2. {i \in DOMAIN decisions : FillOutcomes(decisions)[i]} \in SUBSET (1..n) OBVIOUS
<1>3. IsFiniteSet({i \in DOMAIN decisions : FillOutcomes(decisions)[i]})
  BY <1>1, <1>2, FS_Subset
<1> QED BY <1>3, FS_CardinalityType DEF Exported

LEMMA EvalInitInv ==
  ASSUME EvalInit
  PROVE  EvalInv
<1>0. MaxDecisions \in Nat BY EvalAssumption
<1>1. Len(<<>>) = 0 OBVIOUS
<1>2. EvalTypes
  BY <1>1 DEF EvalInit, EvalTypes, NoFile, NoAudits
<1>3. Evaluating BY DEF EvalInit, Evaluating
<1>4. PhaseInv BY DEF EvalInit, PhaseInv, Before
<1>5. BenchInv BY DEF EvalInit, BenchInv, NoBench
<1> QED BY <1>2, <1>3, <1>4, <1>5 DEF EvalInv

\* The steps of the export.
LEMMA ExportSteps ==
  ASSUME EvalInv, BeginExport \/ WriteReflectionRows \/ WriteFeedbackRows \/ ExportDies
  PROVE  EvalInv'
<1>1. Exported \in Nat
  <2>1. PICK k \in 0..MaxDecisions : decisions \in [1..k -> BOOLEAN]
    BY DEF UpTo, EvalInv, EvalTypes
  <2>2. k \in Nat BY EvalAssumption
  <2> QED BY <2>1, <2>2, ExportedIsNat
<1>2. phase \in Before /\ phase' \in Before \ {"start", "bench"}
  BY DEF BeginExport, WriteReflectionRows, WriteFeedbackRows, ExportDies, Before
<1>3. UNCHANGED <<compareVars, bench>>
  BY DEF BeginExport, WriteReflectionRows, WriteFeedbackRows, ExportDies
<1>4. /\ feedbackFile' \in [rows : Int, torn : BOOLEAN]
      /\ feedbackFile' # NoFile => feedbackFile'.rows >= 0
  <2>1. CASE feedbackFile' = feedbackFile BY <2>1 DEF EvalInv, EvalTypes
  <2>2. CASE feedbackFile' # feedbackFile
    <3>1. \E n \in 0..Exported : \E torn \in BOOLEAN : feedbackFile' = Rows(n, torn)
      <4>1. 0 \in 0..Exported /\ Exported \in 0..Exported BY <1>1
      <4>2. CASE WriteReflectionRows BY <4>1, <4>2 DEF WriteReflectionRows
      <4>3. CASE WriteFeedbackRows BY <4>1, <4>3 DEF WriteFeedbackRows
      <4>4. CASE ExportDies BY <2>2, <4>4 DEF ExportDies
      <4>5. CASE BeginExport BY <2>2, <4>5 DEF BeginExport
      <4> QED BY <4>2, <4>3, <4>4, <4>5
    <3>2. PICK n \in 0..Exported : \E torn \in BOOLEAN : feedbackFile' = Rows(n, torn) BY <3>1
    <3>3. PICK torn \in BOOLEAN : feedbackFile' = Rows(n, torn) BY <3>2
    <3>4. n \in Int /\ n >= 0 BY <1>1
    <3> QED BY <3>3, <3>4 DEF Rows
  <2> QED BY <2>1, <2>2
<1>9. UNCHANGED decisions
  BY DEF BeginExport, WriteReflectionRows, WriteFeedbackRows, ExportDies
<1>5. EvalTypes' BY <1>3, <1>4, <1>9 DEF compareVars, EvalInv, EvalTypes
<1>6. Evaluating' BY <1>2 DEF Evaluating, Before
<1>7. PhaseInv' BY <1>2, <1>3 DEF compareVars, EvalInv, PhaseInv, Before
<1>8. BenchInv' BY <1>3 DEF EvalInv, BenchInv
<1> QED BY <1>5, <1>6, <1>7, <1>8 DEF EvalInv

\* The steps of the evaluation, each of which keeps the invariant.
LEMMA LoadRecordsStep ==
  ASSUME EvalInv, LoadRecords
  PROVE  EvalInv'
<1>1. /\ phase \in Before /\ phase' = "pre"
      /\ UNCHANGED <<exportVars, evaluated, queued, audits, batches, adapterUsed, metrics, bench>>
  BY DEF LoadRecords, Before
<1>2. Len(records') \in Nat
  <2>1. CASE /\ phase = "exported" /\ feedbackFile # NoFile
             /\ records' = [i \in 1..feedbackFile.rows |-> StubScore]
    <3>1. PICK n \in Nat : n = feedbackFile.rows BY <2>1 DEF EvalInv, EvalTypes
    <3>2. records' \in [1..n -> {StubScore}] BY <2>1, <3>1
    <3> QED BY <3>1, <3>2, FunctionLen
  <2>2. CASE records' \in UpTo(MaxDecisions, {40, StubScore})
    <3>1. PICK k \in 0..MaxDecisions : records' \in [1..k -> {40, StubScore}] BY <2>2 DEF UpTo
    <3>2. k \in Nat BY EvalAssumption
    <3> QED BY <3>1, <3>2, FunctionLen
  <2> QED BY <2>1, <2>2 DEF LoadRecords
<1>3. evaluated = 0 /\ queued = 0 /\ audits = NoAudits BY <1>1 DEF EvalInv, PhaseInv
<1>4. EvalTypes' BY <1>1, <1>2 DEF exportVars, EvalInv, EvalTypes
<1>5. Evaluating'
  <2>1. /\ evaluated' = 0 /\ queued' = 0 /\ audits'.count = 0 /\ audits'.sum = 0
    BY <1>1, <1>3 DEF NoAudits
  <2>2. Held(0) = 0 BY HeldFacts
  <2>3. AuditScore' = 50 BY <1>1 DEF AuditScore
  <2> QED BY <1>2, <2>1, <2>2, <2>3 DEF Evaluating
<1>6. PhaseInv' BY <1>1 DEF EvalInv, PhaseInv, Before
<1>7. BenchInv' BY <1>1 DEF EvalInv, BenchInv
<1> QED BY <1>4, <1>5, <1>6, <1>7 DEF EvalInv

LEMMA CompareRaisesStep ==
  ASSUME EvalInv, CompareRaises
  PROVE  EvalInv'
<1>1. phase' = "raised" /\ UNCHANGED <<exportVars, compareVars, bench>> BY DEF CompareRaises
<1>2. EvalTypes' BY <1>1 DEF exportVars, compareVars, EvalInv, EvalTypes
<1>3. Evaluating' /\ PhaseInv' BY <1>1 DEF Evaluating, PhaseInv, Before
<1>4. BenchInv' BY <1>1 DEF EvalInv, BenchInv
<1> QED BY <1>2, <1>3, <1>4 DEF EvalInv

LEMMA EvaluateRecordStep ==
  ASSUME EvalInv, EvaluateRecord
  PROVE  EvalInv'
<1>1. /\ phase \in {"pre", "post"} /\ evaluated < Len(records) /\ evaluated' = evaluated + 1
      /\ queued' = (IF queued < QueueLimit THEN queued + 1 ELSE queued)
      /\ UNCHANGED <<phase, exportVars, records, audits, batches, adapterUsed, metrics, bench>>
  BY DEF EvaluateRecord
<1>2. /\ evaluated \in Nat /\ queued \in Nat /\ Len(records) \in Nat
      /\ audits.count \in Nat /\ audits.count + queued = Held(evaluated)
      /\ ~(audits.count > 0) /\ audits.sum = AuditScore * audits.count
  BY <1>1 DEF EvalInv, EvalTypes, Evaluating
<1>3. audits.count = 0 /\ queued = Held(evaluated) BY <1>2
<1>4. queued' = Held(evaluated + 1) /\ queued' \in Nat
  <2>1. Held(evaluated + 1) = IF Held(evaluated) < QueueLimit THEN Held(evaluated) + 1
                              ELSE Held(evaluated)
    BY <1>2, HeldFacts
  <2> QED BY <1>1, <1>2, <1>3, <2>1
<1>5. EvalTypes' BY <1>1, <1>2, <1>4 DEF exportVars, EvalInv, EvalTypes
<1>6. Evaluating'
  <2>1. AuditScore' = AuditScore BY <1>1 DEF AuditScore
  <2>2. evaluated' <= Len(records)' /\ (audits.count + queued)' = Held(evaluated')
    BY <1>1, <1>2, <1>3, <1>4
  <2> QED BY <1>1, <1>2, <1>3, <2>1, <2>2 DEF Evaluating
<1>7. PhaseInv' BY <1>1 DEF EvalInv, PhaseInv, Before, OfPre
<1>8. BenchInv' BY <1>1 DEF EvalInv, BenchInv
<1> QED BY <1>5, <1>6, <1>7, <1>8 DEF EvalInv

LEMMA DrainOneStep ==
  ASSUME EvalInv, DrainOne
  PROVE  EvalInv'
<1>1. /\ phase \in {"pre", "post"} /\ evaluated = Len(records) /\ queued > 0
      /\ queued' = queued - 1
      /\ audits' = [count |-> audits.count + 1, sum |-> audits.sum + Faithfulness]
      /\ batches' = [v \in DOMAIN batches |-> IF v = audits'.count THEN phase ELSE batches[v]]
      /\ UNCHANGED <<phase, exportVars, records, evaluated, adapterUsed, metrics, bench>>
  BY DEF DrainOne
<1>2. /\ queued \in Nat /\ audits.count \in Nat /\ audits.sum \in Int /\ evaluated \in Nat
      /\ audits.count + queued = Held(evaluated) /\ audits.sum = AuditScore * audits.count
      /\ DOMAIN batches = FullBatch
  BY <1>1 DEF EvalInv, EvalTypes, Evaluating
<1>3. Faithfulness = AuditScore /\ AuditScore \in {50, 70} BY <1>1 DEF Faithfulness, AuditScore
<1>4. PICK n \in Nat : n = audits.count BY <1>2
<1>5. audits'.count = n + 1 /\ audits'.sum = AuditScore * (n + 1)
  <2>1. audits'.count = n + 1 /\ audits'.sum = audits.sum + AuditScore BY <1>1, <1>3, <1>4
  <2>2. AuditScore * n + AuditScore = AuditScore * (n + 1) BY <1>3
  <2> QED BY <1>2, <1>4, <2>1, <2>2
<1>6. EvalTypes'
  <2>1. audits' \in [count : Nat, sum : Int] BY <1>1, <1>2, <1>3, SMTT(30)
  <2> QED BY <1>1, <1>2, <2>1 DEF exportVars, EvalInv, EvalTypes
<1>7. Evaluating'
  <2>1. AuditScore' = AuditScore BY <1>1 DEF AuditScore
  <2>2. (n + 1) + queued' = Held(evaluated) BY <1>1, <1>2, <1>4
  <2>3. evaluated' = evaluated /\ records' = records BY <1>1
  <2>4. evaluated <= Len(records) BY <1>1, <1>2
  <2> QED BY <1>1, <1>5, <2>1, <2>2, <2>3, <2>4 DEF Evaluating
<1>8. PhaseInv'
  <2>1. /\ batches' \in [FullBatch -> {phase} \cup {batches[v] : v \in FullBatch}]
        /\ \A v \in FullBatch : batches'[v] = IF v = n + 1 THEN phase ELSE batches[v]
    BY <1>1, <1>2, <1>5
  <2>2. \A v \in FullBatch : v \in Int BY EvalAssumption DEF FullBatch
  <2>3. CASE phase = "pre"
    BY <1>1, <2>1, <2>3 DEF EvalInv, PhaseInv, Before
  <2>4. CASE phase = "post"
    <3>1. ASSUME NEW v \in FullBatch PROVE batches'[v] = "post" <=> v <= n + 1
      <4>1. batches[v] = "post" <=> v <= n BY <1>4, <2>4 DEF EvalInv, PhaseInv
      <4> QED BY <2>1, <2>2, <2>4, <4>1
    <3> QED BY <1>1, <1>5, <2>4, <3>1 DEF EvalInv, PhaseInv, Before, OfPre
  <2> QED BY <1>1, <2>3, <2>4
<1>9. BenchInv' BY <1>1 DEF EvalInv, BenchInv
<1> QED BY <1>6, <1>7, <1>8, <1>9 DEF EvalInv

\* What is measured once the queue is drained.
LEMMA MeasuredFacts ==
  ASSUME EvalInv, phase \in {"pre", "post"}, evaluated = Len(records), queued = 0
  PROVE  /\ audits.count = Held(Len(records))
         /\ Measured = [cases |-> Len(records), passes |-> Cardinality(GatePasses(records)),
                        quality |-> Sum(records), audited |-> Held(Len(records)), audits |-> AuditScore * Held(Len(records))]
<1>1. audits.count \in Nat /\ audits.count + queued = Held(Len(records))
      /\ audits.sum = AuditScore * audits.count
  BY DEF EvalInv, EvalTypes, Evaluating
<1>2. audits.count = Held(Len(records)) BY <1>1
<1> QED BY <1>1, <1>2 DEF Measured

LEMMA MeasurePreStep ==
  ASSUME EvalInv, MeasurePre
  PROVE  EvalInv'
<1>1. /\ phase = "pre" /\ evaluated = Len(records) /\ queued = 0 /\ phase' = "train"
      /\ metrics' = [metrics EXCEPT !.pre = Measured]
      /\ evaluated' = 0 /\ audits' = NoAudits
      /\ UNCHANGED <<exportVars, records, queued, batches, adapterUsed, bench>>
  BY DEF MeasurePre, FreshLoop
<1>2. Measured = OfPre BY <1>1, MeasuredFacts DEF OfPre, AuditScore
<1>3. /\ metrics'.pre = OfPre /\ metrics' = [pre |-> OfPre, post |-> metrics.post]
  BY <1>1, <1>2 DEF EvalInv, EvalTypes
<1>4. OfPre' = OfPre BY <1>1 DEF OfPre
<1>5. EvalTypes'
  <2>1. metrics' = [pre |-> metrics'.pre, post |-> metrics'.post] BY <1>3
  <2> QED BY <1>1, <2>1 DEF exportVars, EvalInv, EvalTypes, NoAudits
<1>6. Evaluating' BY <1>1 DEF Evaluating
<1>7. PhaseInv' BY <1>1, <1>3, <1>4 DEF EvalInv, PhaseInv, Before
<1>8. BenchInv' BY <1>1 DEF EvalInv, BenchInv
<1> QED BY <1>5, <1>6, <1>7, <1>8 DEF EvalInv

LEMMA ObtainAdapterStep ==
  ASSUME EvalInv, ObtainAdapter
  PROVE  EvalInv'
<1>1. /\ phase = "train" /\ phase' = "post" /\ adapterUsed' \in {"given", "trained", "none"}
      /\ UNCHANGED <<exportVars, records, evaluated, queued, audits, batches, metrics, bench>>
  BY DEF ObtainAdapter
<1>2. evaluated = 0 /\ queued = 0 /\ audits = NoAudits /\ metrics.pre = OfPre
      /\ \A v \in FullBatch : batches[v] # "post"
  BY <1>1 DEF EvalInv, PhaseInv
<1>3. EvalTypes' BY <1>1 DEF exportVars, EvalInv, EvalTypes
<1>4. Evaluating'
  <2>1. evaluated' = 0 /\ queued' = 0 /\ audits'.count = 0 /\ audits'.sum = 0
        /\ Len(records') \in Nat
    BY <1>1, <1>2 DEF NoAudits, EvalInv, EvalTypes
  <2>2. Held(0) = 0 BY HeldFacts
  <2>3. AuditScore' = 50 \/ AuditScore' = 70 BY DEF AuditScore
  <2>4. AuditScore' * 0 = 0 BY <2>3
  <2> QED BY <2>1, <2>2, <2>4 DEF Evaluating
<1>5. PhaseInv'
  <2>1. \A v \in FullBatch : v > 0 /\ v \in Int BY EvalAssumption DEF FullBatch
  <2>2. audits'.count = 0 /\ batches' = batches BY <1>1, <1>2 DEF NoAudits
  <2>3. \A v \in FullBatch : batches'[v] = "post" <=> v <= audits'.count
    BY <1>2, <2>1, <2>2
  <2>4. OfPre' = OfPre BY <1>1 DEF OfPre
  <2> QED BY <1>1, <1>2, <2>3, <2>4 DEF PhaseInv, Before
<1>6. BenchInv' BY <1>1 DEF EvalInv, BenchInv
<1> QED BY <1>3, <1>4, <1>5, <1>6 DEF EvalInv

LEMMA MeasurePostStep ==
  ASSUME EvalInv, MeasurePost
  PROVE  EvalInv'
<1>1. /\ phase = "post" /\ evaluated = Len(records) /\ queued = 0 /\ phase' = "reported"
      /\ metrics' = [metrics EXCEPT !.post = Measured]
      /\ UNCHANGED <<exportVars, records, evaluated, queued, audits, batches, adapterUsed, bench>>
  BY DEF MeasurePost
<1>2. Measured = OfPost /\ audits.count = Held(Len(records))
  BY <1>1, MeasuredFacts DEF OfPost, AuditScore
<1>3. metrics' = [pre |-> OfPre, post |-> OfPost]
  BY <1>1, <1>2 DEF EvalInv, EvalTypes, PhaseInv
<1>4. OfPre' = OfPre /\ OfPost' = OfPost BY <1>1 DEF OfPre, OfPost
<1>5. EvalTypes'
  <2>1. metrics' = [pre |-> metrics'.pre, post |-> metrics'.post] BY <1>3
  <2> QED BY <1>1, <2>1 DEF exportVars, EvalInv, EvalTypes
<1>6. Evaluating' BY <1>1 DEF Evaluating
<1>7. PhaseInv'
  <2>1. metrics'.pre = OfPre' /\ metrics'.post = OfPost' BY <1>3, <1>4
  <2>2. \A v \in FullBatch : batches'[v] = "post" <=> v <= Held(Len(records'))
    BY <1>1, <1>2 DEF EvalInv, PhaseInv
  <2> QED BY <1>1, <2>1, <2>2 DEF PhaseInv, Before
<1>8. BenchInv' BY <1>1 DEF EvalInv, BenchInv
<1> QED BY <1>5, <1>6, <1>7, <1>8 DEF EvalInv

\* What the gate selects is within the limit.
LEMMA BenchmarkStep ==
  ASSUME EvalInv, Benchmark
  PROVE  EvalInv'
<1>1. PICK c \in BenchCase :
        LET chosen == Select(c.candidates, c.price, BenchLimit)
            regret == IF chosen.direction = c.optimal THEN 0 ELSE 1
            breach == IF TailLoss(chosen, c.price) > BenchLimit THEN 1 ELSE 0
        IN  bench' = [cases |-> bench.cases + 1, regrets |-> bench.regrets + regret,
                      breaches |-> bench.breaches + breach,
                      faithful |-> bench.faithful + (IF regret = 0 THEN 100 ELSE Target)]
  BY DEF Benchmark
<1>2. c.price \in Nat /\ c.candidates \in Seq(ActionSet) BY EvalAssumption DEF ActionSet
<1>3. PICK p \in Nat, q \in Seq(ActionSet) : p = c.price /\ q = c.candidates BY <1>2
<1>4. PICK chosen : chosen = Select(q, p, BenchLimit) OBVIOUS
<1>5. ~(TailLoss(chosen, p) > BenchLimit)
  <2>1. CASE chosen = Hold
    <3>1. TailLoss(Hold, p) = 0 BY HoldIsAction, TailLossFacts
    <3> QED BY <2>1, <3>1 DEF BenchLimit
  <2>2. CASE \E i \in DOMAIN q : chosen = q[i] /\ TailLoss(q[i], p) <= BenchLimit
    <3>1. PICK i \in DOMAIN q : chosen = q[i] /\ TailLoss(q[i], p) <= BenchLimit BY <2>2
    <3>2. q[i] \in ActionSet BY ElementOfSeq, LenProperties
    <3>3. TailLoss(q[i], p) \in Nat BY <3>2, TailLossFacts
    <3> QED BY <3>1, <3>3 DEF BenchLimit
  <2> QED BY <1>4, <2>1, <2>2, SelectFacts
<1>6. PICK r \in {0, 1} : /\ bench' = [cases |-> bench.cases + 1, regrets |-> bench.regrets + r,
                                       breaches |-> bench.breaches + 0,
                                       faithful |-> bench.faithful + (IF r = 0 THEN 100 ELSE 80)]
  <2>1. PICK n \in Int : n = bench.breaches BY DEF EvalInv, BenchInv
  <2>2. CASE chosen.direction = c.optimal BY <1>1, <1>3, <1>4, <1>5, <2>2 DEF Target
  <2>3. CASE chosen.direction # c.optimal BY <1>1, <1>3, <1>4, <1>5, <2>3 DEF Target
  <2> QED BY <2>2, <2>3
<1>7. BenchInv'
  <2>1. PICK m \in Nat : m = bench.cases BY DEF EvalInv, BenchInv
  <2>2. PICK k \in Nat : k = bench.regrets BY DEF EvalInv, BenchInv
  <2>3. PICK f \in Int : f = bench.faithful /\ f = 100 * m - 20 * k
    BY <2>1, <2>2 DEF EvalInv, BenchInv
  <2>4. PICK g \in Int : g = f + (IF r = 0 THEN 100 ELSE 80) /\ g = 100 * (m + 1) - 20 * (k + r)
    BY <2>3
  <2>5. bench' = [cases |-> m + 1, regrets |-> k + r, breaches |-> 0, faithful |-> g]
    BY <1>6, <2>1, <2>2, <2>3, <2>4 DEF EvalInv, BenchInv
  <2>6. m + 1 \in Nat /\ k + r \in Nat OBVIOUS
  <2> QED BY <2>4, <2>5, <2>6 DEF BenchInv
<1>8. phase \in Before /\ phase' = "bench" /\ UNCHANGED <<exportVars, compareVars>>
  BY DEF Benchmark, Before
<1>9. EvalTypes' BY <1>8 DEF exportVars, compareVars, EvalInv, EvalTypes
<1>10. Evaluating' /\ PhaseInv'
  BY <1>8 DEF exportVars, compareVars, EvalInv, Evaluating, PhaseInv, Before
<1> QED BY <1>7, <1>9, <1>10 DEF EvalInv

LEMMA EvalNextInv ==
  ASSUME EvalInv, [EvalNext]_evalVars
  PROVE  EvalInv'
<1>1. CASE UNCHANGED evalVars
  BY <1>1 DEF evalVars, exportVars, compareVars, EvalInv, EvalTypes, Evaluating, PhaseInv,
              BenchInv, AuditScore, OfPre, OfPost
<1> QED BY <1>1, ExportSteps, LoadRecordsStep, CompareRaisesStep, EvaluateRecordStep,
           DrainOneStep, MeasurePreStep, ObtainAdapterStep, MeasurePostStep, BenchmarkStep
        DEF EvalNext

\* The inductive invariant of the evaluation.
THEOREM EvalInvariant == EvalSpec => []EvalInv
  BY EvalInitInv, EvalNextInv, PTL DEF EvalSpec

\* Whatever was exported and however large the queue: each evaluation of a report audited what
\* the queue holds, once and as its backend audits, the runtime exports are those of post, and
\* the benchmark never counts a breach.
THEOREM EvalEvaluationsApart == EvalSpec => []EvaluationsApart
<1>1. ASSUME EvalInv, phase = "reported"
      PROVE  LET held == IF QueueLimit < Len(records) THEN QueueLimit ELSE Len(records)
             IN  /\ metrics.pre.audited = held /\ metrics.post.audited = held
                 /\ metrics.pre.audits = 50 * held
                 /\ metrics.post.audits = (IF adapterUsed = "none" THEN 50 ELSE 70) * held
                 /\ \A v \in DOMAIN batches : batches[v] = "post" <=> v <= held
  <2>1. metrics.pre = OfPre /\ metrics.post = OfPost /\ DOMAIN batches = FullBatch
        /\ \A v \in FullBatch : batches[v] = "post" <=> v <= Held(Len(records))
    BY <1>1 DEF EvalInv, EvalTypes, PhaseInv
  <2> QED BY <2>1 DEF OfPre, OfPost, Held
<1>2. ASSUME EvalInv
      PROVE  bench.breaches = 0
             /\ bench.faithful = 100 * bench.cases - (100 - Target) * bench.regrets
  <2>1. 100 - Target = 20 BY DEF Target
  <2> QED BY <1>2, <2>1 DEF EvalInv, BenchInv
<1>3. EvalInv => EvaluationsApart BY <1>1, <1>2 DEF EvaluationsApart
<1> QED BY <1>3, EvalInvariant, PTL

--------------------------------------------------------------------------------
(* What reviewers read                                                         *)

Submission ==
    {Idle} \cup [at : {"made", "stored"}, decision : ReviewedId, action : FeedbackAction, ts : Int]
Row == [decision : ReviewedId, action : FeedbackAction, ts : Int]
Event == [decision : ReviewedId, ts : Int]

ReviewTypes ==
    /\ clock \in Int /\ submission \in [Reviewer -> Submission]
    /\ feedback \in Seq(Row) /\ emitted \in Seq(Event) /\ auditEvents \subseteq DOMAIN emitted

RowsOf(d) == {i \in DOMAIN feedback : feedback[i].decision = d}
EventsOf(d) == {i \in DOMAIN emitted : emitted[i].decision = d}
StoredOf(d) == {w \in Reviewer : submission[w].at = "stored" /\ submission[w].decision = d}

\* Every row of a decision has its event, or a request is still to emit it.
RowsCounted ==
    \A d \in ReviewedId :
      Cardinality(EventsOf(d)) + Cardinality(StoredOf(d)) = Cardinality(RowsOf(d))

ReviewInv == ReviewTypes /\ RowsCounted

\* What the invariant says of the state it holds in.
LEMMA ReviewNow ==
  ASSUME ReviewInv
  PROVE  /\ ReviewTypes /\ RowsCounted
         /\ DOMAIN feedback = 1..Len(feedback) /\ Len(feedback) \in Nat
         /\ DOMAIN emitted = 1..Len(emitted) /\ Len(emitted) \in Nat
         /\ \A i \in DOMAIN feedback : feedback[i] \in Row
         /\ \A i \in DOMAIN emitted : emitted[i] \in Event
         /\ IsFiniteSet(DOMAIN feedback) /\ IsFiniteSet(DOMAIN emitted)
<1>1. ReviewTypes /\ RowsCounted BY DEF ReviewInv
<1>2. /\ DOMAIN feedback = 1..Len(feedback) /\ Len(feedback) \in Nat
      /\ DOMAIN emitted = 1..Len(emitted) /\ Len(emitted) \in Nat
  BY <1>1, LenProperties DEF ReviewTypes
<1>3. \A i \in 1..Len(feedback) : feedback[i] \in Row BY <1>1, ElementOfSeq DEF ReviewTypes
<1>4. \A i \in 1..Len(emitted) : emitted[i] \in Event BY <1>1, ElementOfSeq DEF ReviewTypes
<1>5. IsFiniteSet(1..Len(feedback)) /\ IsFiniteSet(1..Len(emitted)) BY <1>2, FS_Interval
<1> QED BY <1>1, <1>2, <1>3, <1>4, <1>5

\* The rows, the events and the requests of a decision are finite in number.
LEMMA CountsNow ==
  ASSUME ReviewInv, NEW d
  PROVE  /\ IsFiniteSet(EventsOf(d)) /\ IsFiniteSet(StoredOf(d)) /\ IsFiniteSet(RowsOf(d))
         /\ Cardinality(EventsOf(d)) \in Nat /\ Cardinality(StoredOf(d)) \in Nat
         /\ Cardinality(RowsOf(d)) \in Nat
<1>1. EventsOf(d) \in SUBSET DOMAIN emitted /\ StoredOf(d) \in SUBSET Reviewer
      /\ RowsOf(d) \in SUBSET DOMAIN feedback
  BY DEF EventsOf, StoredOf, RowsOf
<1>2. IsFiniteSet(EventsOf(d)) BY <1>1, ReviewNow, FS_Subset
<1>3. IsFiniteSet(StoredOf(d)) BY <1>1, LimitAssumption, FS_Subset
<1>4. IsFiniteSet(RowsOf(d)) BY <1>1, ReviewNow, FS_Subset
<1> QED BY <1>2, <1>3, <1>4, FS_CardinalityType

LEMMA ReviewInitInv ==
  ASSUME ReviewInit
  PROVE  ReviewInv
<1>1. /\ feedback = <<>> /\ emitted = <<>> /\ auditEvents = {} /\ clock = 1
      /\ submission = [w \in Reviewer |-> Idle]
  BY DEF ReviewInit
<1>2. ReviewTypes
  <2>1. feedback \in Seq(Row) /\ emitted \in Seq(Event) BY <1>1
  <2>2. submission \in [Reviewer -> Submission] BY <1>1 DEF Submission
  <2> QED BY <1>1, <2>1, <2>2 DEF ReviewTypes
<1>3. RowsCounted
  <2> SUFFICES ASSUME NEW d \in ReviewedId
               PROVE  Cardinality(EventsOf(d)) + Cardinality(StoredOf(d)) = Cardinality(RowsOf(d))
    BY DEF RowsCounted
  <2>1. DOMAIN feedback = {} /\ DOMAIN emitted = {} BY <1>1
  <2>2. Idle.at = "idle" BY DEF Idle
  <2>3. EventsOf(d) = {} /\ StoredOf(d) = {} /\ RowsOf(d) = {}
    BY <1>1, <2>1, <2>2 DEF EventsOf, StoredOf, RowsOf
  <2>4. Cardinality({}) = 0 BY FS_EmptySet
  <2> QED BY <2>3, <2>4
<1> QED BY <1>2, <1>3 DEF ReviewInv

\* Steps that store no row and emit no event, and leave every stored row to its request.
LEMMA QuietReview ==
  ASSUME ReviewInv, clock' \in Int, UNCHANGED <<feedback, emitted>>,
         submission' \in [Reviewer -> Submission], auditEvents' \subseteq DOMAIN emitted,
         \A w \in Reviewer : submission'[w] = submission[w]
                             \/ (submission[w].at # "stored" /\ submission'[w].at # "stored")
  PROVE  ReviewInv'
<1>1. ReviewTypes' BY ReviewNow DEF ReviewTypes
<1>2. ASSUME NEW d \in ReviewedId
      PROVE  /\ EventsOf(d)' = EventsOf(d) /\ StoredOf(d)' = StoredOf(d)
             /\ RowsOf(d)' = RowsOf(d)
  BY DEF EventsOf, StoredOf, RowsOf
<1>3. RowsCounted' BY <1>2, ReviewNow DEF RowsCounted
<1> QED BY <1>1, <1>3 DEF ReviewInv

\* The steps of a request, each of which keeps the count.
LEMMA MakeFeedbackStep ==
  ASSUME ReviewInv, NEW w \in Reviewer, MakeFeedback(w)
  PROVE  ReviewInv'
<1>1. submission[w] = Idle /\ UNCHANGED <<clock, feedback, emitted, auditEvents>>
  BY DEF MakeFeedback
<1>2. PICK d \in ReviewedId, a \in FeedbackAction :
        submission' = [submission EXCEPT ![w] =
                         [at |-> "made", decision |-> d, action |-> a, ts |-> clock]]
  BY DEF MakeFeedback
<1>3. PICK made \in Submission :
        made = [at |-> "made", decision |-> d, action |-> a, ts |-> clock] /\ made.at = "made"
  <2>1. PICK now \in Int : now = clock BY ReviewNow DEF ReviewTypes
  <2>2. [at |-> "made", decision |-> d, action |-> a, ts |-> now] \in Submission BY DEF Submission
  <2> QED BY <2>1, <2>2
<1>4. submission' = [submission EXCEPT ![w] = made] BY <1>2, <1>3
<1>5. Idle.at = "idle" BY DEF Idle
<1>6. /\ submission' \in [Reviewer -> Submission] /\ submission'[w] = made
      /\ \A v \in Reviewer : v # w => submission'[v] = submission[v]
  BY <1>4, ReviewNow DEF ReviewTypes
<1> QED BY <1>1, <1>3, <1>5, <1>6, QuietReview, ReviewNow DEF ReviewTypes

LEMMA SubmissionRaisesStep ==
  ASSUME ReviewInv, NEW w \in Reviewer, SubmissionRaises(w)
  PROVE  ReviewInv'
<1>1. /\ submission[w].at = "made" /\ submission' = [submission EXCEPT ![w] = Idle]
      /\ UNCHANGED <<clock, feedback, emitted, auditEvents>>
  BY DEF SubmissionRaises
<1>2. Idle.at = "idle" /\ Idle \in Submission BY DEF Idle, Submission
<1>3. /\ submission' \in [Reviewer -> Submission] /\ submission'[w] = Idle
      /\ \A v \in Reviewer : v # w => submission'[v] = submission[v]
  BY <1>1, <1>2, ReviewNow DEF ReviewTypes
<1> QED BY <1>1, <1>2, <1>3, QuietReview, ReviewNow DEF ReviewTypes

LEMMA TickStep ==
  ASSUME ReviewInv, Tick
  PROVE  ReviewInv'
<1>1. clock' = clock + 1 /\ UNCHANGED <<submission, feedback, emitted, auditEvents>> BY DEF Tick
<1> QED BY <1>1, QuietReview, ReviewNow DEF ReviewTypes

LEMMA AppendEventStep ==
  ASSUME ReviewInv, AppendEvent
  PROVE  ReviewInv'
<1>1. UNCHANGED <<clock, submission, feedback, emitted>> BY DEF AppendEvent
<1>2. auditEvents' \subseteq DOMAIN emitted BY ReviewNow DEF AppendEvent, ReviewTypes
<1> QED BY <1>1, <1>2, QuietReview, ReviewNow DEF ReviewTypes

LEMMA SubmitStep ==
  ASSUME ReviewInv, NEW w \in Reviewer, Submit(w)
  PROVE  ReviewInv'
<1>1. /\ submission[w].at = "made" /\ submission' = [submission EXCEPT ![w].at = "stored"]
      /\ UNCHANGED <<clock, emitted, auditEvents>>
  BY DEF Submit
<1>2. PICK made \in Submission : made = submission[w] BY ReviewNow DEF ReviewTypes
<1>3. /\ made.at = "made" /\ made # Idle
      /\ made \in [at : {"made", "stored"}, decision : ReviewedId, action : FeedbackAction,
                  ts : Int]
  BY <1>1, <1>2 DEF Idle, Submission
<1> DEFINE new == [made EXCEPT !.at = "stored"]
<1>4. new \in Submission /\ new.at = "stored" /\ new.decision = made.decision
  BY <1>3 DEF Submission
<1>5. submission' = [submission EXCEPT ![w] = new] BY <1>1, <1>2
<1> HIDE DEF new
<1>6. /\ submission' \in [Reviewer -> Submission] /\ submission'[w] = new
      /\ \A v \in Reviewer : v # w => submission'[v] = submission[v]
  BY <1>4, <1>5, ReviewNow DEF ReviewTypes
<1>7. PICK row \in Row :
        /\ row = [decision |-> made.decision, action |-> made.action, ts |-> made.ts]
        /\ row.decision = made.decision
  <2>1. PICK d \in ReviewedId, a \in FeedbackAction, now \in Int :
          d = made.decision /\ a = made.action /\ now = made.ts
    BY <1>3
  <2>2. [decision |-> d, action |-> a, ts |-> now] \in Row BY DEF Row
  <2> QED BY <2>1, <2>2
<1> DEFINE last == Len(feedback) + 1
<1>8. feedback' = Append(feedback, row) BY <1>2, <1>7 DEF Submit
<1>9. /\ feedback' \in Seq(Row) /\ Len(feedback') = Len(feedback) + 1
      /\ \A i \in 1..Len(feedback) : feedback'[i] = feedback[i]
      /\ feedback'[Len(feedback) + 1] = row
  <2>1. feedback \in Seq(Row) BY ReviewNow DEF ReviewTypes
  <2> QED BY <1>8, <2>1, AppendProperties
<1>10. /\ DOMAIN feedback' = DOMAIN feedback \cup {last} /\ last \notin DOMAIN feedback
       /\ feedback'[last] = row /\ \A i \in DOMAIN feedback : feedback'[i] = feedback[i]
  <2>1. DOMAIN feedback' = 1..Len(feedback') BY <1>9, LenProperties
  <2>2. DOMAIN feedback' = 1..last BY <1>9, <2>1
  <2>3. 1..last = (1..Len(feedback)) \cup {last} /\ last \notin 1..Len(feedback) BY ReviewNow
  <2> QED BY <1>9, <2>2, <2>3, ReviewNow
<1> HIDE DEF last
<1>11. ReviewTypes' BY <1>1, <1>6, <1>9, ReviewNow DEF ReviewTypes
<1>12. ASSUME NEW d \in ReviewedId
       PROVE  Cardinality(EventsOf(d))' + Cardinality(StoredOf(d))' = Cardinality(RowsOf(d))'
  <2>1. EventsOf(d)' = EventsOf(d) BY <1>1 DEF EventsOf
  <2>2. StoredOf(d)' = StoredOf(d) \cup (IF made.decision = d THEN {w} ELSE {})
        /\ w \notin StoredOf(d)
    BY <1>1, <1>4, <1>6 DEF StoredOf
  <2>3. RowsOf(d)' = RowsOf(d) \cup (IF made.decision = d THEN {last} ELSE {})
        /\ last \notin RowsOf(d)
    BY <1>7, <1>10 DEF RowsOf
  <2>4. Cardinality(EventsOf(d)) + Cardinality(StoredOf(d)) = Cardinality(RowsOf(d))
    BY ReviewNow DEF RowsCounted
  <2>5. CASE made.decision = d
    <3>1. Cardinality(StoredOf(d) \cup {w}) = Cardinality(StoredOf(d)) + 1
      BY <2>2, CountsNow, FS_AddElement
    <3>2. Cardinality(RowsOf(d) \cup {last}) = Cardinality(RowsOf(d)) + 1
      BY <2>3, CountsNow, FS_AddElement
    <3>3. StoredOf(d)' = StoredOf(d) \cup {w} /\ RowsOf(d)' = RowsOf(d) \cup {last}
      BY <2>2, <2>3, <2>5
    <3>4. /\ Cardinality(EventsOf(d)) \in Nat /\ Cardinality(StoredOf(d)) \in Nat
          /\ Cardinality(RowsOf(d)) \in Nat
      BY CountsNow
    <3> QED BY <2>1, <2>4, <3>1, <3>2, <3>3, <3>4
  <2>6. CASE made.decision # d
    <3>1. StoredOf(d)' = StoredOf(d) /\ RowsOf(d)' = RowsOf(d) BY <2>2, <2>3, <2>6
    <3> QED BY <2>1, <2>4, <3>1
  <2> QED BY <2>5, <2>6
<1>13. RowsCounted' BY <1>12 DEF RowsCounted
<1> QED BY <1>11, <1>13 DEF ReviewInv

LEMMA EmitFeedbackStep ==
  ASSUME ReviewInv, NEW w \in Reviewer, EmitFeedback(w)
  PROVE  ReviewInv'
<1>1. /\ submission[w].at = "stored" /\ submission' = [submission EXCEPT ![w] = Idle]
      /\ UNCHANGED <<clock, feedback, auditEvents>>
      /\ emitted' = Append(emitted, [decision |-> submission[w].decision, ts |-> clock])
  BY DEF EmitFeedback
<1>2. Idle.at = "idle" /\ Idle \in Submission BY DEF Idle, Submission
<1>3. /\ submission' \in [Reviewer -> Submission] /\ submission'[w] = Idle
      /\ \A v \in Reviewer : v # w => submission'[v] = submission[v]
  BY <1>1, <1>2, ReviewNow DEF ReviewTypes
<1>4. submission[w].decision \in ReviewedId
  BY <1>1, <1>2, ReviewNow DEF ReviewTypes, Submission
<1>5. PICK posted \in Event : /\ posted = [decision |-> submission[w].decision, ts |-> clock]
                             /\ posted.decision = submission[w].decision
  <2>1. PICK d \in ReviewedId, now \in Int : d = submission[w].decision /\ now = clock
    BY <1>4, ReviewNow DEF ReviewTypes
  <2>2. [decision |-> d, ts |-> now] \in Event BY DEF Event
  <2> QED BY <2>1, <2>2
<1> DEFINE last == Len(emitted) + 1
<1>6. emitted' = Append(emitted, posted) BY <1>1, <1>5
<1>7. /\ emitted' \in Seq(Event) /\ Len(emitted') = Len(emitted) + 1
      /\ \A i \in 1..Len(emitted) : emitted'[i] = emitted[i]
      /\ emitted'[Len(emitted) + 1] = posted
  <2>1. emitted \in Seq(Event) BY ReviewNow DEF ReviewTypes
  <2> QED BY <1>6, <2>1, AppendProperties
<1>8. /\ DOMAIN emitted' = DOMAIN emitted \cup {last} /\ last \notin DOMAIN emitted
      /\ emitted'[last] = posted /\ \A i \in DOMAIN emitted : emitted'[i] = emitted[i]
  <2>1. DOMAIN emitted' = 1..Len(emitted') BY <1>7, LenProperties
  <2>2. DOMAIN emitted' = 1..last BY <1>7, <2>1
  <2>3. 1..last = (1..Len(emitted)) \cup {last} /\ last \notin 1..Len(emitted) BY ReviewNow
  <2> QED BY <1>7, <2>2, <2>3, ReviewNow
<1> HIDE DEF last
<1>9. ReviewTypes' BY <1>1, <1>3, <1>7, <1>8, ReviewNow DEF ReviewTypes
<1>10. ASSUME NEW d \in ReviewedId
       PROVE  Cardinality(EventsOf(d))' + Cardinality(StoredOf(d))' = Cardinality(RowsOf(d))'
  <2>1. RowsOf(d)' = RowsOf(d) BY <1>1 DEF RowsOf
  <2>2. StoredOf(d)' = StoredOf(d) \ {w} /\ (w \in StoredOf(d) <=> submission[w].decision = d)
    BY <1>1, <1>2, <1>3 DEF StoredOf
  <2>3. EventsOf(d)' = EventsOf(d) \cup (IF submission[w].decision = d THEN {last} ELSE {})
        /\ last \notin EventsOf(d)
    BY <1>5, <1>8 DEF EventsOf
  <2>4. Cardinality(EventsOf(d)) + Cardinality(StoredOf(d)) = Cardinality(RowsOf(d))
    BY ReviewNow DEF RowsCounted
  <2>5. CASE submission[w].decision = d
    <3>1. Cardinality(StoredOf(d) \ {w}) = Cardinality(StoredOf(d)) - 1
      BY <2>2, <2>5, CountsNow, FS_RemoveElement
    <3>2. Cardinality(EventsOf(d) \cup {last}) = Cardinality(EventsOf(d)) + 1
      BY <2>3, CountsNow, FS_AddElement
    <3>3. EventsOf(d)' = EventsOf(d) \cup {last} BY <2>3, <2>5
    <3>4. /\ Cardinality(EventsOf(d)) \in Nat /\ Cardinality(StoredOf(d)) \in Nat
          /\ Cardinality(RowsOf(d)) \in Nat
      BY CountsNow
    <3> QED BY <2>1, <2>2, <2>4, <3>1, <3>2, <3>3, <3>4
  <2>6. CASE submission[w].decision # d
    <3>1. StoredOf(d)' = StoredOf(d) /\ EventsOf(d)' = EventsOf(d) BY <2>2, <2>3, <2>6
    <3> QED BY <2>1, <2>4, <3>1
  <2> QED BY <2>5, <2>6
<1>11. RowsCounted' BY <1>10 DEF RowsCounted
<1> QED BY <1>9, <1>11 DEF ReviewInv

LEMMA ReviewInvHolds == ReviewSpec => []ReviewInv
<1>1. ASSUME ReviewInv, [ReviewNext]_reviewVars PROVE ReviewInv'
  <2>1. CASE UNCHANGED reviewVars
    BY <1>1, <2>1, QuietReview, ReviewNow DEF reviewVars, ReviewTypes
  <2> QED
    BY <1>1, <2>1, TickStep, AppendEventStep, MakeFeedbackStep, SubmitStep,
       SubmissionRaisesStep, EmitFeedbackStep
    DEF ReviewNext
<1> QED BY <1>1, ReviewInitInv, PTL DEF ReviewSpec

\* Rows of the newest time come first, and those inserted first of one time.
LEMMA FlagsOrdered ==
  ASSUME ReviewInv
  PROVE  /\ IsFiniteSet(Flags)
         /\ \A i \in Flags : feedback[i].ts \in Int /\ i \in Int
         /\ \A i \in Flags : ~ Newer(i, i)
         /\ \A i, j, k \in Flags : Newer(i, j) /\ Newer(j, k) => Newer(i, k)
         /\ \A i, j \in Flags : i = j \/ Newer(i, j) \/ Newer(j, i)
<1>1. Flags \in SUBSET DOMAIN feedback BY DEF Flags
<1>2. IsFiniteSet(Flags) BY <1>1, ReviewNow, FS_Subset
<1>3. \A i \in Flags : feedback[i].ts \in Int /\ i \in Int BY <1>1, ReviewNow DEF Row
<1> QED BY <1>2, <1>3 DEF Newer

\* The review queue: the first flags of each decision, up to the end of the page.
LEMMA PendingHolds ==
  ASSUME ReviewInv
  PROVE  PendingHidesOnlyOlder
<1> DEFINE Preceding(i) == {j \in Flags : Newer(j, i)}
           R == {p \in Flags \X Flags : Newer(p[1], p[2])}
<1>1. \A i \in Flags : Preceding(i) = {j \in Flags : <<j, i>> \in R} OBVIOUS
<1>2. \A i, j \in Flags : <<i, j>> \in R <=> Newer(i, j) OBVIOUS
<1>3. \A i \in Flags : IsFiniteSet(Preceding(i)) /\ Cardinality(Preceding(i)) \in Nat
  <2> SUFFICES ASSUME NEW i \in Flags
               PROVE  IsFiniteSet(Preceding(i)) /\ Cardinality(Preceding(i)) \in Nat
    OBVIOUS
  <2>1. Preceding(i) \in SUBSET Flags OBVIOUS
  <2>2. IsFiniteSet(Preceding(i)) BY <2>1, FlagsOrdered, FS_Subset
  <2> QED BY <2>2, FS_CardinalityType
<1>4. ASSUME NEW i \in Flags, NEW j \in Flags, Newer(j, i)
      PROVE  Cardinality(Preceding(j)) < Cardinality(Preceding(i))
  <2>1. IsFiniteSet(Flags) /\ <<j, i>> \in R BY <1>2, <1>4, FlagsOrdered
  <2>2. \A k \in Flags : <<k, k>> \notin R BY FlagsOrdered
  <2>3. \A k, l, m \in Flags : <<k, l>> \in R /\ <<l, m>> \in R => <<k, m>> \in R
    BY <1>2, FlagsOrdered
  <2> HIDE DEF R
  <2>4. Cardinality({k \in Flags : <<k, j>> \in R}) < Cardinality({k \in Flags : <<k, i>> \in R})
    BY <2>1, <2>2, <2>3, RankGrows
  <2> QED BY <1>1, <2>4
<1>5. \A i \in Flags : i \in Page <=> Cardinality(Preceding(i)) < PageLimit BY DEF Page
<1>6. Page \subseteq Flags BY DEF Page
<1> HIDE DEF Preceding, R
<1>7. ASSUME NEW i \in Flags, NEW j \in Flags, i \in Page, Newer(j, i) PROVE j \in Page
  BY <1>3, <1>4, <1>5, <1>7, LimitAssumption
<1>8. ASSUME NEW i \in ListPending, NEW j \in Flags, feedback[i].decision = feedback[j].decision
      PROVE  feedback[i].ts >= feedback[j].ts /\ (j \in ListPending => i = j)
  <2>1. i \in Page /\ i \in Flags BY <1>6 DEF ListPending
  <2>2. ~ Newer(j, i) BY <1>7, <1>8, <2>1 DEF ListPending
  <2>3. feedback[i].ts >= feedback[j].ts BY <2>1, <2>2, FlagsOrdered DEF Newer
  <2>4. ASSUME j \in ListPending PROVE i = j
    <3>1. ~ Newer(i, j) BY <1>6, <1>8, <2>1, <2>4 DEF ListPending
    <3> QED BY <2>1, <2>2, <3>1, FlagsOrdered
  <2> QED BY <2>3, <2>4
<1>9. ASSUME NEW j \in Flags, j \in Page
      PROVE  \E i \in ListPending : feedback[i].decision = feedback[j].decision
  <2> DEFINE same == {i \in Page : feedback[i].decision = feedback[j].decision}
             ranks == {Cardinality(Preceding(i)) : i \in same}
  <2>1. ranks \in SUBSET Nat /\ ranks # {} BY <1>3, <1>6, <1>9
  <2>2. PICK m \in ranks : \A k \in ranks : m <= k BY <2>1, LeastNatural
  <2>3. PICK i \in same : m = Cardinality(Preceding(i)) OBVIOUS
  <2>4. ASSUME NEW k \in Page, Newer(k, i), feedback[k].decision = feedback[i].decision
        PROVE  FALSE
    <3>1. k \in same /\ k \in Flags /\ i \in Flags BY <1>6, <2>4
    <3>2. Cardinality(Preceding(k)) < m BY <1>4, <2>3, <2>4, <3>1
    <3>3. m <= Cardinality(Preceding(k)) BY <2>2, <3>1
    <3>4. Cardinality(Preceding(k)) \in Nat /\ m \in Nat BY <1>3, <2>1, <3>1
    <3> QED BY <3>2, <3>3, <3>4
  <2>5. i \in ListPending BY <2>4 DEF ListPending
  <2> QED BY <2>5
<1>10. ASSUME NEW j \in Flags, j \notin Page
       PROVE  Cardinality({i \in Flags : feedback[i].ts >= feedback[j].ts}) > PageLimit
  <2> DEFINE newer == {i \in Flags : feedback[i].ts >= feedback[j].ts}
  <2>1. PICK B : B = Preceding(j) OBVIOUS
  <2>2. B \subseteq Flags /\ j \notin B /\ (\A i \in B : Newer(i, j))
    BY <2>1, FlagsOrdered DEF Preceding
  <2>3. IsFiniteSet(B) /\ Cardinality(B) \in Nat /\ ~(Cardinality(B) < PageLimit)
    BY <1>3, <1>5, <1>10, <2>1
  <2>4. IsFiniteSet(B \cup {j}) /\ Cardinality(B \cup {j}) = Cardinality(B) + 1
    BY <2>2, <2>3, FS_AddElement
  <2>5. \A i \in B : feedback[i].ts >= feedback[j].ts BY <2>2, FlagsOrdered DEF Newer
  <2>6. B \cup {j} \in SUBSET newer BY <2>2, <2>5, FlagsOrdered
  <2>7. IsFiniteSet(newer)
    <3>1. newer \in SUBSET Flags OBVIOUS
    <3> QED BY <3>1, FlagsOrdered, FS_Subset
  <2> HIDE DEF newer
  <2>8. Cardinality(B \cup {j}) <= Cardinality(newer) /\ Cardinality(newer) \in Nat
    BY <2>6, <2>7, FS_Subset, FS_CardinalityType
  <2>9. Cardinality(newer) > PageLimit BY <2>3, <2>4, <2>8, LimitAssumption
  <2> QED BY <2>9 DEF newer
<1> QED BY <1>8, <1>9, <1>10 DEF PendingHidesOnlyOlder

\* The export, whichever way the lower bound reaches it: the events of the range, up to the
\* limit.
LEMMA ExportHolds ==
  ASSUME ReviewInv
  PROVE  ExportLosesOnlyNewer
<1> DEFINE BoundsAsked == {Unbounded} \cup {b \in Bound : b.zone # "ahead"}
<1> SUFFICES ASSUME NEW given \in BoundsAsked, NEW to \in BoundsAsked, NEW name \in LowerName
             PROVE  LET export == ExportAudit(name, given, to)
                        inside == IF name = "from" THEN Between(Unbounded, to)
                                                   ELSE Between(given, to)
                    IN  /\ export \subseteq inside
                        /\ \A i \in inside \ export :
                             \/ to.zone = "none" /\ emitted[i].ts = Instant(to)
                             \/ /\ Cardinality(export) = ExportLimit
                                /\ \A k \in export : emitted[k].ts <= emitted[i].ts
  BY DEF ExportLosesOnlyNewer
<1>0. PICK from \in BoundsAsked : from = LowerBound(name, given) BY DEF LowerBound
<1> DEFINE inside == Between(from, to)
           S == ExportRange(from, to)
           R == {p \in S \X S : Older(p[1], p[2])}
           Rank(i) == Cardinality({k \in S : <<k, i>> \in R})
           export == ExportAudit(name, given, to)
<1>15. inside = IF name = "from" THEN Between(Unbounded, to) ELSE Between(given, to)
  BY <1>0 DEF LowerBound
<1>1. auditEvents \subseteq DOMAIN emitted BY ReviewNow DEF ReviewTypes
<1>2. \A i \in auditEvents : emitted[i].ts \in Int /\ i \in Int BY <1>1, ReviewNow DEF Event
<1>3. \A b \in BoundsAsked : /\ b.zone # "ahead" /\ b.wall \in Int /\ Instant(b) = b.wall
  BY DEF Bound, Clock, Instant, Unbounded
<1>4. S \subseteq auditEvents BY DEF ExportRange
<1>5. S \subseteq inside
  <2>1. ASSUME NEW i \in S PROVE i \in inside
    <3>1. i \in auditEvents /\ TextFrom(emitted[i].ts, from) /\ TextTo(emitted[i].ts, to)
      BY <2>1 DEF ExportRange
    <3>2. emitted[i].ts \in Int BY <1>2, <3>1
    <3>3. from = Unbounded \/ Instant(from) <= emitted[i].ts
      BY <1>3, <3>1, <3>2 DEF TextFrom
    <3>4. to = Unbounded \/ emitted[i].ts <= Instant(to)
      BY <1>3, <3>1, <3>2 DEF TextTo
    <3> QED BY <3>1, <3>3, <3>4 DEF Between
  <2> QED BY <2>1
<1>6. ASSUME NEW i \in inside, i \notin S PROVE to.zone = "none" /\ emitted[i].ts = Instant(to)
  <2>1. /\ i \in auditEvents /\ (from = Unbounded \/ Instant(from) <= emitted[i].ts)
        /\ (to = Unbounded \/ emitted[i].ts <= Instant(to))
    BY <1>6 DEF Between
  <2>2. emitted[i].ts \in Int BY <1>2, <2>1
  <2>3. TextFrom(emitted[i].ts, from) BY <1>3, <2>1, <2>2 DEF TextFrom
  <2>4. ~TextTo(emitted[i].ts, to) BY <1>6, <2>1, <2>3 DEF ExportRange
  <2> QED BY <1>3, <2>1, <2>2, <2>4 DEF TextTo
<1>7. IsFiniteSet(S)
  <2>1. S \in SUBSET DOMAIN emitted BY <1>1, <1>4
  <2> QED BY <2>1, ReviewNow, FS_Subset
<1>8. \A i, j \in S : <<i, j>> \in R <=> Older(i, j) OBVIOUS
<1>9. /\ \A i \in S : <<i, i>> \notin R
      /\ \A i, j, k \in S : <<i, j>> \in R /\ <<j, k>> \in R => <<i, k>> \in R
      /\ \A i, j \in S : i = j \/ <<i, j>> \in R \/ <<j, i>> \in R
  <2>1. \A i \in S : emitted[i].ts \in Int /\ i \in Int BY <1>2, <1>4
  <2> HIDE DEF S, R
  <2> QED BY <1>8, <2>1 DEF Older
<1>10. export = {i \in S : Rank(i) < ExportLimit}
  <2>1. \A i \in S : {j \in S : Older(j, i)} = {k \in S : <<k, i>> \in R} BY <1>8
  <2>2. \A i \in S : Cardinality({j \in S : Older(j, i)}) = Rank(i) BY <2>1
  <2> QED BY <1>0, <2>2 DEF ExportAudit, FirstRows
<1>11. \A i \in S : Rank(i) \in Nat
  <2> SUFFICES ASSUME NEW i \in S PROVE Rank(i) \in Nat OBVIOUS
  <2>1. {k \in S : <<k, i>> \in R} \in SUBSET S OBVIOUS
  <2>2. IsFiniteSet({k \in S : <<k, i>> \in R}) BY <1>7, <2>1, FS_Subset
  <2> QED BY <2>2, FS_CardinalityType
<1> HIDE DEF S, R, export, inside, BoundsAsked
<1>12. ASSUME NEW i \in S, i \notin export
       PROVE  /\ Cardinality(export) = ExportLimit
              /\ \A k \in export : emitted[k].ts <= emitted[i].ts
  <2>1. ~(Rank(i) < ExportLimit) BY <1>10, <1>12
  <2>2. Cardinality({j \in S : Rank(j) < ExportLimit}) = ExportLimit
    <3>1. Orders(R, S) BY <1>9 DEF Orders
    <3>2. PICK n \in Nat : n = ExportLimit BY LimitAssumption
    <3>3. {j \in S : Rank(j) < ExportLimit} = FirstOf(R, S, n) BY <3>2 DEF FirstOf, RankOf
    <3>4. i \in S /\ i \notin FirstOf(R, S, n) BY <1>12, <2>1, <3>3
    <3>5. Cardinality(FirstOf(R, S, n)) = n
      BY ONLY <1>7, <3>1, <3>4, n \in Nat, FirstRanks
    <3> QED BY <3>2, <3>3, <3>5
  <2>3. ASSUME NEW k \in export PROVE emitted[k].ts <= emitted[i].ts
    <3>1. k \in S /\ Rank(k) < ExportLimit BY <1>10, <2>3
    <3>2. <<i, k>> \in R => Rank(i) < Rank(k) BY <1>7, <1>9, <3>1, RankGrows
    <3>3. ~ Older(i, k) BY <1>8, <1>11, <2>1, <3>1, <3>2, LimitAssumption
    <3>4. emitted[i].ts \in Int /\ emitted[k].ts \in Int BY <1>2, <1>4, <3>1
    <3> QED BY <3>3, <3>4 DEF Older
  <2> QED BY <1>10, <2>2, <2>3
<1>13. export \subseteq inside BY <1>5, <1>10
<1>14. ASSUME NEW i \in inside \ export
       PROVE  \/ to.zone = "none" /\ emitted[i].ts = Instant(to)
              \/ /\ Cardinality(export) = ExportLimit
                 /\ \A k \in export : emitted[k].ts <= emitted[i].ts
  BY <1>6, <1>12
<1> HIDE DEF Rank
<1> QED BY <1>13, <1>14, <1>15 DEF export, inside

\* For any limits, requests and decisions: the pending list hides a flagged decision only
\* behind a full page, the export loses only its newest events, and no trail of a decision
\* has more feedback events than the store has rows.
THEOREM ReviewReadersLoseOneEnd == ReviewSpec => []ReadersLoseOneEnd
<1>1. ASSUME ReviewInv, NEW d \in ReviewedId
      PROVE  Cardinality(ListForDecision(d))
               <= Cardinality({i \in DOMAIN feedback : feedback[i].decision = d})
  <2>1. ListForDecision(d) \in SUBSET EventsOf(d)
    BY <1>1, ReviewNow DEF ListForDecision, EventsOf, ReviewTypes
  <2>2. Cardinality(ListForDecision(d)) <= Cardinality(EventsOf(d))
        /\ Cardinality(ListForDecision(d)) \in Nat
    BY <1>1, <2>1, CountsNow, FS_Subset, FS_CardinalityType
  <2>3. Cardinality(EventsOf(d)) + Cardinality(StoredOf(d)) = Cardinality(RowsOf(d))
    BY <1>1, ReviewNow DEF RowsCounted
  <2>4. Cardinality(ListForDecision(d)) <= Cardinality(RowsOf(d))
    BY <1>1, <2>2, <2>3, CountsNow
  <2> QED BY <2>4 DEF RowsOf
<1>2. ReviewInv => ReadersLoseOneEnd
  BY <1>1, PendingHolds, ExportHolds DEF ReadersLoseOneEnd
<1> QED BY <1>2, ReviewInvHolds, PTL

--------------------------------------------------------------------------------
(* The types of the other components                                           *)

\* Every variable of the LLM client has its type.
THEOREM LlmTypes == LlmSpec => []LlmTypeOK
<1>1. LlmInv => LlmTypeOK BY DEF LlmInv
<1> QED BY <1>1, LlmInvHolds, PTL

\* Every variable of the budget has its type: only segments of the prompt are cut or left out.
THEOREM BudgetTypesHold == BudgetSpec => []BudgetTypeOK
<1> DEFINE OfPrompt == segments \in SegmentLists /\ left \subseteq DOMAIN segments
<1>1. BudgetInit => OfPrompt BY DEF BudgetInit
<1>2. ASSUME OfPrompt, BudgetInv, [BudgetNext]_budgetVars PROVE OfPrompt'
  <2>1. todo \subseteq DOMAIN segments BY <1>2 DEF BudgetInv, BudgetTypes
  <2>2. CASE UNCHANGED budgetVars BY <1>2, <2>2 DEF budgetVars
  <2>3. CASE Pack
    <3>1. segments' = segments BY <2>3 DEF Pack
    <3>2. PICK i \in todo : KeepWhole(i) \/ Truncate(i) BY <2>3 DEF Pack
    <3>3. left' = left \/ left' = left \cup {i} BY <3>2 DEF KeepWhole, Truncate
    <3> QED BY <1>2, <2>1, <3>1, <3>3
  <2> QED BY <1>2, <2>2, <2>3 DEF BudgetNext
<1>3. BudgetInv /\ OfPrompt => BudgetTypeOK
  BY DEF BudgetInv, BudgetTypes, Spent, BudgetTypeOK
<1>4. OfPrompt /\ BudgetInv /\ [BudgetNext]_budgetVars => OfPrompt' BY <1>2
<1> HIDE DEF OfPrompt
<1> QED BY <1>1, <1>3, <1>4, BudgetInvHolds, PTL DEF BudgetSpec

\* Every variable of the gate has its type: the effective limit is never above CvarLimit.
THEOREM GateTypesHold == GateSpec => []GateTypeOK
<1> DEFINE Limited == limit <= CvarLimit /\ source \in {"none", "reasoner", "policy", "search"}
<1>0. CvarLimit \in Nat BY DEF CvarLimit
<1>1. GateInit => Limited
  <2> SUFFICES ASSUME GateInit PROVE Limited OBVIOUS
  <2>1. limit = CvarLimit /\ source = "none" BY DEF GateInit
  <2> QED BY <1>0, <2>1
<1>2. ASSUME Limited, GateInv, [GateNext]_gateVars PROVE Limited'
  <2>1. CASE Calc
    <3>1. source' = source /\ limit' = Smaller(CvarLimit, Larger(signals'.cvar, 10000))
      BY <2>1 DEF Calc
    <3>2. PICK n : n = Larger(signals'.cvar, 10000) OBVIOUS
    <3>3. limit' = CvarLimit \/ (limit' = n /\ ~(CvarLimit < n))
      BY <3>1, <3>2 DEF Smaller
    <3>4. limit' \in Nat
      <4>1. GateInv' BY <1>2, GateNextInv
      <4> QED BY <4>1 DEF GateInv, GateTypes
    <3> HIDE DEF Smaller
    <3>5. limit' <= CvarLimit BY <1>0, <3>3, <3>4
    <3> QED BY <1>2, <3>1, <3>5
  <2>2. CASE Propose \/ SelectTarget \/ AskPolicy \/ Refine \/ Decide
    <3>1. limit' = limit BY <2>2 DEF Propose, SelectTarget, AskPolicy, Refine, Decide
    <3>2. source' \in {source, "reasoner", "policy", "search"}
      BY <2>2 DEF Propose, SelectTarget, AskPolicy, Refine, Decide
    <3> QED BY <1>2, <3>1, <3>2
  <2>3. CASE UNCHANGED gateVars BY <1>2, <2>3 DEF gateVars
  <2> QED BY <1>2, <2>1, <2>2, <2>3 DEF GateNext
<1>3. ASSUME GateInv, Limited PROVE GateTypeOK
  <2>1. \A a \in {target, proposed, optimized} :
          a.direction \in {"BUY", "SELL", "HOLD"} /\ a.size \in Nat /\ a.cvar_impact \in Nat
    BY <1>3 DEF GateInv, GateTypes, ActionSet
  <2>2. limit \in 0..CvarLimit BY <1>0, <1>3 DEF GateInv, GateTypes
  <2> QED BY <1>3, <2>1, <2>2 DEF GateTypeOK, GateInv, StageInv
<1>4. Limited /\ GateInv /\ [GateNext]_gateVars => Limited' BY <1>2
<1>5. GateInv /\ Limited => GateTypeOK BY <1>3
<1> HIDE DEF Limited
<1> QED BY <1>1, <1>4, <1>5, GateInvariant, PTL DEF GateSpec

\* Every variable of the review queue has its type: a row and an event carry a time of the clock.
THEOREM ReviewTypesHold == ReviewSpec => []ReviewTypeOK
<1> DEFINE Made == [at : {"made", "stored"}, decision : ReviewedId, action : FeedbackAction,
                    ts : Clock]
           Rows1 == [decision : ReviewedId, action : FeedbackAction, ts : Clock]
           Events1 == [decision : ReviewedId, ts : Clock]
           Timed == /\ clock \in Clock /\ submission \in [Reviewer -> {Idle} \cup Made]
                    /\ feedback \in Seq(Rows1) /\ emitted \in Seq(Events1)
<1>0. Idle.at = "idle" BY DEF Idle
<1>1. ReviewInit => Timed BY LimitAssumption DEF ReviewInit, Clock
<1>2. ASSUME Timed, [ReviewNext]_reviewVars PROVE Timed'
  <2>1. CASE UNCHANGED reviewVars \/ AppendEvent
    BY <1>2, <2>1 DEF reviewVars, AppendEvent
  <2>2. CASE Tick BY <1>2, <2>2, LimitAssumption DEF Tick, Clock
  <2>3. ASSUME NEW w \in Reviewer, MakeFeedback(w) PROVE Timed'
    <3>1. PICK d \in ReviewedId, a \in FeedbackAction :
            submission' = [submission EXCEPT ![w] =
                             [at |-> "made", decision |-> d, action |-> a, ts |-> clock]]
      BY <2>3 DEF MakeFeedback
    <3>2. [at |-> "made", decision |-> d, action |-> a, ts |-> clock] \in Made BY <1>2
    <3>3. UNCHANGED <<clock, feedback, emitted>> BY <2>3 DEF MakeFeedback
    <3> HIDE DEF Made
    <3> QED BY <1>2, <3>1, <3>2, <3>3
  <2>4. ASSUME NEW w \in Reviewer, SubmissionRaises(w) PROVE Timed'
    BY <1>2, <2>4 DEF SubmissionRaises
  <2>5. ASSUME NEW w \in Reviewer, Submit(w) PROVE Timed'
    <3>1. submission[w] \in Made BY <1>0, <1>2, <2>5 DEF Submit
    <3>2. PICK made \in Made : made = submission[w] BY <3>1
    <3>3. PICK row \in Rows1 :
            row = [decision |-> made.decision, action |-> made.action, ts |-> made.ts]
      OBVIOUS
    <3>4. feedback' = Append(feedback, row) BY <2>5, <3>2, <3>3 DEF Submit
    <3>5. feedback' \in Seq(Rows1) BY <1>2, <3>4, AppendFacts
    <3>6. PICK stored \in Made : stored = [made EXCEPT !.at = "stored"] OBVIOUS
    <3>7. submission' = [submission EXCEPT ![w] = stored] BY <1>2, <2>5, <3>2, <3>6 DEF Submit
    <3>8. UNCHANGED <<clock, emitted>> BY <2>5 DEF Submit
    <3> HIDE DEF Made, Rows1
    <3> QED BY <1>2, <3>5, <3>7, <3>8
  <2>6. ASSUME NEW w \in Reviewer, EmitFeedback(w) PROVE Timed'
    <3>1. submission[w] \in Made BY <1>0, <1>2, <2>6 DEF EmitFeedback
    <3>2. PICK event1 \in Events1 :
            event1 = [decision |-> submission[w].decision, ts |-> clock]
      BY <1>2, <3>1
    <3>3. emitted' = Append(emitted, event1) BY <2>6, <3>2 DEF EmitFeedback
    <3>4. emitted' \in Seq(Events1) BY <1>2, <3>3, AppendFacts
    <3>5. UNCHANGED <<clock, feedback>> /\ submission' = [submission EXCEPT ![w] = Idle]
      BY <2>6 DEF EmitFeedback
    <3> HIDE DEF Made, Events1
    <3> QED BY <1>2, <3>4, <3>5
  <2> QED BY <1>2, <2>1, <2>2, <2>3, <2>4, <2>5, <2>6 DEF ReviewNext
<1>3. ASSUME Timed, ReviewInv PROVE ReviewTypeOK
  <2>1. \A w \in Reviewer : submission[w].at \in {"idle", "made", "stored"} BY <1>0, <1>3
  <2> QED BY <1>3, <2>1 DEF ReviewTypeOK, ReviewInv, ReviewTypes
<1>4. Timed /\ [ReviewNext]_reviewVars => Timed' BY <1>2
<1>5. Timed /\ ReviewInv => ReviewTypeOK BY <1>3
<1> HIDE DEF Timed
<1> QED BY <1>1, <1>4, <1>5, ReviewInvHolds, PTL DEF ReviewSpec

--------------------------------------------------------------------------------
\* Nothing runs and nothing is written before the first launch.
Launched == launches = 0 => wrapper = "down" /\ trainer = "none"

\* A checkpoint of a training: of one of its steps, by one of its launches.
SavedCheckpoint == [step : 1..Steps, launch : 1..MaxLaunches, whole : BOOLEAN]

TrainTypeInv == TrainTypeOK /\ Launched

\* What the steps below start from.
LEMMA TrainTypeNow ==
  ASSUME TrainTypeInv
  PROVE  /\ backend \in {"unsloth", "stub"} /\ launches \in 0..MaxLaunches
         /\ wrapper \in {"down", "config", "handlers", "waiting", "ended"}
         /\ trainer \in Running \cup {"none", "gone"}
         /\ resumeFrom \in 0..Steps /\ began \in 0..Steps /\ step \in 0..Steps /\ loaded \in {0, 1}
         /\ checkpoints \in Seq(SavedCheckpoint)
         /\ DOMAIN checkpoints = 1..Len(checkpoints) /\ Len(checkpoints) \in Nat
         /\ written \subseteq AdapterFile /\ adapter \in [AdapterFile -> 0..MaxLaunches]
         /\ exitCode \in {NoCode, 0, 1} /\ Launched
         /\ Steps \in Nat \ {0} /\ MaxLaunches \in Nat /\ 0 \in 0..Steps
<1>1. checkpoints \in Seq(SavedCheckpoint) BY DEF TrainTypeInv, TrainTypeOK, SavedCheckpoint
<1> QED BY <1>1, LenProperties, StepsAssumption DEF TrainTypeInv, TrainTypeOK

\* The checkpoint that is begun, and those that are left when it is saved.
LEMMA TrainStepType ==
  ASSUME TrainTypeInv, TrainStep
  PROVE  step' \in 0..Steps /\ checkpoints' \in Seq(SavedCheckpoint)
<1>1. /\ trainer = "training" /\ step < Steps /\ step' = step + 1
  BY DEF TrainStep
<1>2. launches \in 1..MaxLaunches BY <1>1, TrainTypeNow DEF Launched
<1>3. step' \in 1..Steps BY <1>1, TrainTypeNow
<1>4. PICK c \in SavedCheckpoint : c = [step |-> step', launch |-> launches, whole |-> FALSE]
  BY <1>2, <1>3 DEF SavedCheckpoint
<1>5. \/ checkpoints' = Append(checkpoints, c)
      \/ \E i \in DOMAIN checkpoints : \/ checkpoints' = Append(RemoveAt(checkpoints, i), c)
                                       \/ checkpoints' = [checkpoints EXCEPT ![i] = c]
  BY <1>4 DEF TrainStep
<1>6. CASE checkpoints' = Append(checkpoints, c) BY <1>3, <1>6, TrainTypeNow, AppendFacts
<1>7. ASSUME NEW i \in DOMAIN checkpoints, checkpoints' = Append(RemoveAt(checkpoints, i), c)
      PROVE  checkpoints' \in Seq(SavedCheckpoint)
  <2>1. RemoveAt(checkpoints, i) \in Seq(SavedCheckpoint) BY TrainTypeNow, RemoveAtFacts
  <2> QED BY <1>7, <2>1, AppendFacts
<1>8. ASSUME NEW i \in DOMAIN checkpoints, checkpoints' = [checkpoints EXCEPT ![i] = c]
      PROVE  checkpoints' \in Seq(SavedCheckpoint)
  BY <1>8, TrainTypeNow, ExceptSeq
<1> QED BY <1>3, <1>5, <1>6, <1>7, <1>8

LEMMA CheckpointSavedType ==
  ASSUME TrainTypeInv, CheckpointSaved
  PROVE  checkpoints' \in Seq(SavedCheckpoint)
<1>1. PICK place \in [1..Left -> DOMAIN checkpoints] :
        checkpoints' = [i \in 1..Left |->
           LET c == checkpoints[place[i]]
           IN  IF c.step = step THEN [c EXCEPT !.whole = TRUE] ELSE c]
  BY DEF CheckpointSaved
<1>2. Left \in Nat BY TrainTypeNow, StepsAssumption DEF Left
<1>3. ASSUME NEW i \in 1..Left
      PROVE  (LET c == checkpoints[place[i]]
              IN  IF c.step = step THEN [c EXCEPT !.whole = TRUE] ELSE c) \in SavedCheckpoint
  <2>1. place[i] \in 1..Len(checkpoints) BY TrainTypeNow
  <2>2. PICK c \in SavedCheckpoint : c = checkpoints[place[i]]
    BY <2>1, TrainTypeNow, ElementOfSeq
  <2>3. [c EXCEPT !.whole = TRUE] \in SavedCheckpoint BY DEF SavedCheckpoint
  <2> QED BY <2>2, <2>3
<1>4. checkpoints' \in [1..Left -> SavedCheckpoint] BY <1>1, <1>3
<1> QED BY <1>2, <1>4, FunctionSeq

LEMMA TrainTypeNext ==
  ASSUME TrainTypeInv, [TrainNext]_trainVars
  PROVE  TrainTypeInv'
<1> USE DEF Running, NoCode, None
<1>1. CASE UNCHANGED trainVars
  BY <1>1 DEF trainVars, TrainTypeInv, TrainTypeOK, Launched
<1>2. CASE Launch
  <2>1. launches' \in 1..MaxLaunches BY <1>2, TrainTypeNow DEF Launch
  <2> QED BY <1>2, <2>1, TrainTypeNow DEF Launch, TrainTypeInv, TrainTypeOK, Launched
<1>3. CASE FindLatestCheckpoint
  <2>1. resumeFrom' \in 0..Steps
    <3>1. CASE checkpoints = <<>> BY <1>3, <3>1, TrainTypeNow DEF FindLatestCheckpoint
    <3>2. CASE checkpoints # <<>>
      <4>1. Len(checkpoints) \in 1..Len(checkpoints) BY <3>2, TrainTypeNow, EmptySeq
      <4>2. checkpoints[Len(checkpoints)] \in SavedCheckpoint
        BY <4>1, TrainTypeNow, ElementOfSeq
      <4>3. resumeFrom' = checkpoints[Len(checkpoints)].step
        BY <1>3, <3>2 DEF FindLatestCheckpoint, Last
      <4> QED BY <4>2, <4>3 DEF SavedCheckpoint
    <3> QED BY <3>1, <3>2
  <2> QED
    BY <1>3, <2>1, TrainTypeNow DEF FindLatestCheckpoint, TrainTypeInv, TrainTypeOK, Launched
<1>4. CASE StartTrainer
  BY <1>4, TrainTypeNow DEF StartTrainer, TrainTypeInv, TrainTypeOK, Launched
<1>5. CASE WrapperReturns
  BY <1>5, TrainTypeNow DEF WrapperReturns, TrainTypeInv, TrainTypeOK, Launched
<1>6. CASE Signal
  BY <1>6, TrainTypeNow DEF Signal, TrainTypeInv, TrainTypeOK, Launched
<1>7. CASE KillPod
  BY <1>7, TrainTypeNow DEF KillPod, TrainTypeInv, TrainTypeOK, Launched
<1>8. CASE TrainerRaises
  BY <1>8, TrainTypeNow DEF TrainerRaises, TrainTypeInv, TrainTypeOK, Launched
<1>9. CASE LoadDataset
  BY <1>9, TrainTypeNow DEF LoadDataset, TrainTypeInv, TrainTypeOK, Launched
<1>10. CASE TrainStep
  BY <1>10, TrainTypeNow, TrainStepType
  DEF TrainStep, TrainTypeInv, TrainTypeOK, Launched, SavedCheckpoint
<1>11. CASE CheckpointSaved
  BY <1>11, TrainTypeNow, CheckpointSavedType
  DEF CheckpointSaved, TrainTypeInv, TrainTypeOK, Launched, SavedCheckpoint
<1>12. CASE TrainingDone
  BY <1>12, TrainTypeNow DEF TrainingDone, TrainTypeInv, TrainTypeOK, Launched
<1>13. CASE WriteAdapterFile
  <2>1. PICK f \in AdapterFile : /\ written' = written \cup {f}
                                 /\ adapter' = [adapter EXCEPT ![f] = launches]
    <3>1. PICK i \in DOMAIN Order : /\ written' = written \cup {Order[i]}
                                    /\ adapter' = [adapter EXCEPT ![Order[i]] = launches]
      BY <1>13 DEF WriteAdapterFile
    <3>2. Order[i] \in AdapterFile BY DEF Order, AdapterFile
    <3> QED BY <3>1, <3>2
  <2>2. written' \subseteq AdapterFile /\ adapter' \in [AdapterFile -> 0..MaxLaunches]
    BY <2>1, TrainTypeNow
  <2> QED
    BY <1>13, <2>2, TrainTypeNow DEF WriteAdapterFile, TrainTypeInv, TrainTypeOK, Launched
<1>14. CASE TrainerExits
  BY <1>14, TrainTypeNow DEF TrainerExits, TrainTypeInv, TrainTypeOK, Launched
<1> QED BY <1>1, <1>2, <1>3, <1>4, <1>5, <1>6, <1>7, <1>8, <1>9, <1>10, <1>11, <1>12, <1>13,
           <1>14 DEF TrainNext

\* Every variable of the training has its type: no checkpoint is of a step beyond the last or of
\* a launch that never was.
THEOREM TrainTypesHold == TrainSpec => []TrainTypeOK
<1>1. TrainInit => TrainTypeInv
  <2>1. 0 \in 0..Steps /\ 0 \in 0..MaxLaunches BY StepsAssumption
  <2> QED BY <2>1 DEF TrainInit, TrainTypeInv, TrainTypeOK, Launched, None, Running, NoCode
<1>2. TrainTypeInv => TrainTypeOK BY DEF TrainTypeInv
<1> QED BY <1>1, <1>2, TrainTypeNext, PTL DEF TrainSpec

--------------------------------------------------------------------------------
\* The files of an export hold no more rows than there are decisions, and the comparison goes
\* through no more records than it read.
Ranges ==
    /\ reflectionFile.rows \in -1..MaxDecisions /\ feedbackFile.rows \in -1..MaxDecisions
    /\ Len(records) \in 0..MaxDecisions /\ evaluated \in 0..Len(records)
    /\ queued \in 0..QueueLimit
    /\ \A v \in DOMAIN batches : batches[v] \in {"nobody", "server", "pre", "post"}
    /\ adapterUsed \in {"given", "trained", "none"}

\* What a sequence of at most MaxDecisions elements is.
LEMMA UpToFacts ==
  ASSUME NEW S, NEW s \in UpTo(MaxDecisions, S)
  PROVE  \E k \in 0..MaxDecisions : s \in [1..k -> S] /\ Len(s) = k
<1>1. PICK k \in 0..MaxDecisions : s \in [1..k -> S] BY DEF UpTo
<1>2. k \in Nat BY EvalAssumption
<1> QED BY <1>1, <1>2, FunctionLen

LEMMA ExportedFits ==
  ASSUME EvalTypes
  PROVE  Exported \in 0..MaxDecisions
<1>1. PICK k \in 0..MaxDecisions : decisions \in [1..k -> BOOLEAN]
  BY UpToFacts DEF EvalTypes
<1>2. k \in Nat /\ DOMAIN decisions = 1..k BY <1>1, EvalAssumption
<1>3. {i \in DOMAIN decisions : FillOutcomes(decisions)[i]} \in SUBSET (1..k) BY <1>2
<1>4. Exported <= Cardinality(1..k) /\ Cardinality(1..k) = k
  BY <1>2, <1>3, FS_Interval, FS_Subset DEF Exported
<1>5. Exported \in Nat BY <1>2, ExportedIsNat
<1> QED BY <1>1, <1>2, <1>4, <1>5, EvalAssumption

LEMMA RangesNext ==
  ASSUME Ranges, EvalInv, [EvalNext]_evalVars
  PROVE  Ranges'
<1>0. /\ MaxDecisions \in Nat /\ QueueLimit \in Nat \ {0} /\ Exported \in 0..MaxDecisions
      /\ EvalTypes /\ Len(records) \in Nat
  BY EvalAssumption, ExportedFits DEF EvalInv, EvalTypes
<1>1. CASE BeginExport \/ WriteReflectionRows \/ WriteFeedbackRows \/ ExportDies
  <2>1. UNCHANGED <<records, evaluated, queued, batches, adapterUsed>>
    BY <1>1 DEF BeginExport, WriteReflectionRows, WriteFeedbackRows, ExportDies, compareVars
  <2>2. reflectionFile'.rows \in -1..MaxDecisions /\ feedbackFile'.rows \in -1..MaxDecisions
    BY <1>0, <1>1 DEF BeginExport, WriteReflectionRows, WriteFeedbackRows, ExportDies, Rows, Ranges
  <2> QED BY <2>1, <2>2 DEF Ranges
<1>2. CASE LoadRecords
  <2>1. phase \in Before /\ UNCHANGED <<exportVars, evaluated, queued, batches, adapterUsed>>
    BY <1>2 DEF LoadRecords, Before
  <2>2. evaluated = 0 BY <2>1 DEF EvalInv, PhaseInv
  <2>3. Len(records') \in 0..MaxDecisions
    <3>1. CASE feedbackFile # NoFile /\ records' = [i \in 1..feedbackFile.rows |-> StubScore]
      <4>1. feedbackFile.rows \in Nat /\ feedbackFile.rows <= MaxDecisions
        BY <1>0, <3>1 DEF EvalTypes, Ranges
      <4>2. Len(records') = feedbackFile.rows BY <3>1, <4>1
      <4> QED BY <1>0, <4>1, <4>2
    <3>2. CASE records' \in UpTo(MaxDecisions, {40, StubScore})
      BY <3>2, UpToFacts
    <3> QED BY <1>2, <3>1, <3>2 DEF LoadRecords
  <2> QED BY <2>1, <2>2, <2>3 DEF Ranges, exportVars
<1>3. CASE CompareRaises \/ ObtainAdapter \/ MeasurePost \/ Benchmark \/ UNCHANGED evalVars
  <2>1. UNCHANGED <<exportVars, records, evaluated, queued, batches>>
    BY <1>3 DEF CompareRaises, ObtainAdapter, MeasurePost, Benchmark, compareVars, evalVars
  <2>2. adapterUsed' \in {"given", "trained", "none"}
    BY <1>3 DEF CompareRaises, ObtainAdapter, MeasurePost, Benchmark, compareVars, evalVars, Ranges
  <2> QED BY <2>1, <2>2 DEF Ranges, exportVars
<1>4. CASE EvaluateRecord
  <2>1. /\ evaluated < Len(records) /\ evaluated' = evaluated + 1
        /\ queued' = IF queued < QueueLimit THEN queued + 1 ELSE queued
        /\ UNCHANGED <<exportVars, records, batches, adapterUsed>>
    BY <1>4 DEF EvaluateRecord
  <2>2. evaluated' \in 0..Len(records) /\ queued' \in 0..QueueLimit BY <1>0, <2>1 DEF Ranges
  <2> QED BY <2>1, <2>2 DEF Ranges, exportVars
<1>5. CASE DrainOne
  <2>1. /\ phase \in {"pre", "post"} /\ queued > 0 /\ queued' = queued - 1
        /\ batches' = [v \in DOMAIN batches |-> IF v = audits'.count THEN phase ELSE batches[v]]
        /\ UNCHANGED <<exportVars, records, evaluated, adapterUsed>>
    BY <1>5 DEF DrainOne
  <2>2. queued' \in 0..QueueLimit BY <1>0, <2>1 DEF Ranges
  <2>3. \A v \in DOMAIN batches' : batches'[v] \in {"nobody", "server", "pre", "post"}
    BY <2>1 DEF Ranges
  <2> QED BY <2>1, <2>2, <2>3 DEF Ranges, exportVars
<1>6. CASE MeasurePre
  <2>1. evaluated' = 0 /\ UNCHANGED <<exportVars, records, queued, batches, adapterUsed>>
    BY <1>6 DEF MeasurePre
  <2>2. 0 \in 0..Len(records) BY <1>0
  <2> QED BY <2>1, <2>2 DEF Ranges, exportVars
<1> QED BY <1>1, <1>2, <1>3, <1>4, <1>5, <1>6 DEF EvalNext

\* Every variable of the evaluations has its type.
THEOREM EvalTypesHold == EvalSpec => []EvalTypeOK
<1>1. EvalInit => Ranges
  <2>1. -1 \in -1..MaxDecisions /\ 0 \in 0..MaxDecisions /\ 0 \in 0..0 /\ 0 \in 0..QueueLimit
    BY EvalAssumption
  <2>2. Len(<<>>) = 0 OBVIOUS
  <2> QED BY <2>1, <2>2 DEF EvalInit, Ranges, NoFile
<1>2. ASSUME EvalInv, Ranges PROVE EvalTypeOK
  <2>1. Len(records) \in -1..MaxDecisions BY <1>2, EvalAssumption DEF Ranges
  <2> QED BY <1>2, <2>1 DEF EvalInv, PhaseInv, Before, Ranges, EvalTypeOK
<1>3. EvalInv /\ Ranges => EvalTypeOK BY <1>2
<1>4. Ranges /\ EvalInv /\ [EvalNext]_evalVars => Ranges' BY RangesNext
<1> QED BY <1>1, <1>3, <1>4, EvalInvariant, PTL DEF EvalSpec

--------------------------------------------------------------------------------
\* What a pass has opened is a content of its file, and so is what it leaves of it.
Trees ==
    /\ Tree(disk) /\ Tree(bucket) /\ \A d \in 1..MaxDay : Tree(remoteTree[d])
    /\ pass.at = "store" => pass.opened \in Contents(pass.file)
    /\ writes \in 0..MaxWrites

LEMMA ContentFacts ==
  ASSUME NEW f \in LocalFile
  PROVE  /\ Absent \in Contents(f)
         /\ \A n \in 0..FileSize[f] : <<Garbled, n>> \in Contents(f)
         /\ \A v \in 1..MaxWrites : \A n \in 1..FileSize[f] : <<v, n>> \in Contents(f)
         /\ \A c \in Contents(f) : c[2] \in Int /\ c[2] <= FileSize[f]
         /\ FileSize[f] \in Nat \ {0}
<1>1. FileSize[f] \in Nat \ {0} BY SyncAssumption
<1>2. \A c \in Contents(f) : c[2] \in Int /\ c[2] <= FileSize[f]
  BY <1>1 DEF Contents, Absent
<1> QED BY <1>1, <1>2 DEF Contents

\* A tree in which one file has another content.
LEMMA TreeExcept ==
  ASSUME NEW t, Tree(t), NEW f \in LocalFile, NEW c \in Contents(f)
  PROVE  Tree([t EXCEPT ![f] = c])
<1>1. DOMAIN [t EXCEPT ![f] = c] = LocalFile BY DEF Tree
<1>2. ASSUME NEW g \in LocalFile PROVE [t EXCEPT ![f] = c][g] \in Contents(g)
  BY DEF Tree
<1> QED BY <1>1, <1>2 DEF Tree

LEMMA RemoteExcept ==
  ASSUME SyncTypes, Trees, NEW d \in 1..MaxDay, NEW f \in LocalFile, NEW c \in Contents(f),
         remoteTree' = [remoteTree EXCEPT ![d][f] = c]
  PROVE  \A e \in 1..MaxDay : Tree(remoteTree'[e])
<1>1. PICK t : t = [remoteTree[d] EXCEPT ![f] = c] OBVIOUS
<1>2. Tree(t) BY <1>1, TreeExcept DEF Trees
<1>3. remoteTree'[d] = t /\ \A e \in 1..MaxDay : e # d => remoteTree'[e] = remoteTree[e]
  BY <1>1 DEF SyncTypes
<1> QED BY <1>2, <1>3 DEF Trees

LEMMA TreesNext ==
  ASSUME SyncInv, Trees, [SyncNext]_syncVars
  PROVE  Trees'
<1>0. /\ SyncTypes /\ MaxWrites \in Nat /\ writes \in 0..MaxWrites
      /\ pass.at # "idle" => pass \in PassRecord
  BY SyncAssumption, PassAt DEF SyncInv, Trees
<1>1. CASE Midnight \/ UploadRaises \/ WriteManifest \/ BeginUpload \/ UNCHANGED syncVars
  <2>1. UNCHANGED <<disk, bucket, remoteTree, pass, writes>>
    BY <1>1 DEF Midnight, UploadRaises, WriteManifest, BeginUpload, syncVars
  <2> QED BY <2>1 DEF Trees, Tree, Contents
<1>2. CASE WriteFile
  <2>1. PICK f \in LocalFile : \E size \in 1..FileSize[f] :
          disk' = [disk EXCEPT ![f] = <<writes', size>>]
    BY <1>2 DEF WriteFile
  <2>2. PICK size \in 1..FileSize[f] : disk' = [disk EXCEPT ![f] = <<writes', size>>]
    BY <2>1
  <2>3. writes' \in 1..MaxWrites BY <1>0, <1>2 DEF WriteFile
  <2>4. PICK c \in Contents(f) : c = <<writes', size>> BY <2>3, ContentFacts
  <2>5. disk' = [disk EXCEPT ![f] = c] BY <2>2, <2>4
  <2>6. Tree(disk') BY <2>5, TreeExcept DEF Trees
  <2>7. UNCHANGED <<bucket, remoteTree, pass>> BY <1>2 DEF WriteFile
  <2>8. writes' \in 0..MaxWrites BY <1>0, <2>3
  <2> QED BY <2>6, <2>7, <2>8 DEF Trees, Tree, Contents
<1>3. CASE DownloadFile
  <2>1. PICK f \in LocalFile : disk' = [disk EXCEPT ![f] = bucket[f]] BY <1>3 DEF DownloadFile
  <2>2. bucket[f] \in Contents(f) BY DEF Trees, Tree
  <2>3. Tree(disk') BY <2>1, <2>2, TreeExcept DEF Trees
  <2>4. UNCHANGED <<bucket, remoteTree, pass, writes>> BY <1>3 DEF DownloadFile
  <2> QED BY <2>3, <2>4 DEF Trees, Tree, Contents
<1>4. CASE UploadFile
  <2>1. PICK f \in upload.todo : bucket' = IF upload.dry THEN bucket
                                                         ELSE [bucket EXCEPT ![f] = disk[f]]
    BY <1>4 DEF UploadFile
  <2>2. f \in LocalFile
    <3>1. upload \in UploadRecord BY <1>0, <1>4, UploadAt DEF UploadFile
    <3> QED BY <2>1, <3>1 DEF UploadRecord
  <2>3. disk[f] \in Contents(f) BY <2>2 DEF Trees, Tree
  <2>4. Tree(bucket') BY <2>1, <2>2, <2>3, TreeExcept DEF Trees
  <2>5. UNCHANGED <<disk, remoteTree, pass, writes>> BY <1>4 DEF UploadFile
  <2> QED BY <2>4, <2>5 DEF Trees, Tree, Contents
<1>5. CASE BeginPass \/ EndPass
  <2>1. UNCHANGED <<disk, bucket, remoteTree, writes>> BY <1>5 DEF BeginPass, EndPass
  <2>2. pass'.at # "store"
    <3>1. CASE BeginPass BY <3>1 DEF BeginPass
    <3>2. CASE EndPass BY <1>0, <3>2 DEF EndPass, PassRecord
    <3> QED BY <1>5, <3>1, <3>2
  <2> QED BY <2>1, <2>2 DEF Trees, Tree, Contents
<1>6. CASE LookAt
  <2>1. pass.at = "scan" /\ UNCHANGED <<disk, bucket, writes>> /\ pass \in PassRecord
    BY <1>0, <1>6 DEF LookAt
  <2>2. PICK f \in LocalFile : SkipSameSize(f) \/ OpenUpload(f) BY <1>6 DEF LookAt
  <2>3. CASE SkipSameSize(f)
    <3>1. pass'.at = "scan" /\ UNCHANGED remoteTree BY <2>1, <2>3 DEF SkipSameSize, PassRecord
    <3> QED BY <2>1, <3>1 DEF Trees, Tree, Contents
  <2>4. CASE OpenUpload(f)
    <3>1. pass'.file = f /\ pass'.opened = disk[f] BY <2>1, <2>4 DEF OpenUpload, PassRecord
    <3>2. disk[f] \in Contents(f) BY DEF Trees, Tree
    <3>3. pass'.opened \in Contents(pass'.file) BY <3>1, <3>2
    <3>4. pass.day \in 1..MaxDay BY <2>1 DEF PassRecord
    <3>5. PICK c \in Contents(f) : c = <<Garbled, 0>>
      <4>1. 0 \in 0..FileSize[f] BY ContentFacts
      <4> QED BY <4>1, ContentFacts
    <3>6. remoteTree' = [remoteTree EXCEPT ![pass.day][f] = c]
      BY <2>4, <3>5 DEF OpenUpload, Prefix
    <3>7. \A d \in 1..MaxDay : Tree(remoteTree'[d]) BY <1>0, <3>4, <3>6, RemoteExcept
    <3> QED BY <2>1, <3>3, <3>7 DEF Trees, Tree, Contents
  <2> QED BY <2>2, <2>3, <2>4
<1>7. CASE Store
  <2>1. /\ pass.at = "store" /\ UNCHANGED <<disk, bucket, writes>>
        /\ pass \in PassRecord /\ pass.opened \in Contents(pass.file)
    BY <1>0, <1>7 DEF Store, Trees
  <2>2. PICK f \in LocalFile, d \in 1..MaxDay : f = pass.file /\ d = pass.day
    BY <2>1 DEF PassRecord, SyncInv, PassInv, SyncTypes
  <2>3. PICK c \in Transferred(f, pass.opened) : remoteTree' = [remoteTree EXCEPT ![d][f] = c]
    BY <1>7, <2>2 DEF Store, Prefix
  <2>4. c \in Contents(f)
    <3>1. CASE disk[f] = pass.opened BY <2>1, <2>2, <2>3, <3>1 DEF Transferred
    <3>2. CASE disk[f] # pass.opened
      <4>1. PICK n \in 1..FileSize[f] : c = <<Garbled, n>> BY <2>3, <3>2 DEF Transferred
      <4>2. n \in 0..FileSize[f] BY ContentFacts
      <4> QED BY <4>1, <4>2, ContentFacts
    <3> QED BY <3>1, <3>2
  <2>5. \A e \in 1..MaxDay : Tree(remoteTree'[e]) BY <1>0, <2>3, <2>4, RemoteExcept
  <2>6. pass'.at = "scan" BY <1>7, <2>1 DEF Store, PassRecord
  <2> QED BY <2>1, <2>5, <2>6 DEF Trees, Tree, Contents
<1>8. CASE PassRaises
  <2>1. /\ UNCHANGED <<disk, bucket, writes>> /\ pass' = NoPass /\ pass \in PassRecord
    BY <1>0, <1>8 DEF PassRaises
  <2>2. pass'.at # "store" BY <2>1 DEF NoPass
  <2>3. CASE pass.at # "store"
    <3>1. UNCHANGED remoteTree BY <1>8, <2>3 DEF PassRaises
    <3> QED BY <2>1, <2>2, <3>1 DEF Trees, Tree, Contents
  <2>4. CASE pass.at = "store"
    <3>1. PICK f \in LocalFile, d \in 1..MaxDay : f = pass.file /\ d = pass.day
      BY <2>1, <2>4 DEF PassRecord, SyncInv, PassInv, SyncTypes
    <3>2. PICK size \in 0..(pass.opened[2] - 1) :
            remoteTree' = [remoteTree EXCEPT ![d][f] = <<Garbled, size>>]
      BY <1>8, <2>4, <3>1 DEF PassRaises, Prefix
    <3>3. pass.opened[2] \in Int /\ pass.opened[2] <= FileSize[f] /\ FileSize[f] \in Nat
      BY <2>4, <3>1, ContentFacts DEF Trees
    <3>4. size \in 0..FileSize[f] BY <3>3
    <3>5. PICK c \in Contents(f) : c = <<Garbled, size>> BY <3>4, ContentFacts
    <3>6. remoteTree' = [remoteTree EXCEPT ![d][f] = c] BY <3>2, <3>5
    <3>7. \A e \in 1..MaxDay : Tree(remoteTree'[e]) BY <1>0, <3>6, RemoteExcept
    <3> QED BY <2>1, <2>2, <3>7 DEF Trees, Tree, Contents
  <2> QED BY <2>3, <2>4
<1> QED BY <1>1, <1>2, <1>3, <1>4, <1>5, <1>6, <1>7, <1>8 DEF SyncNext

\* Every variable of the transfers has its type: no copy, cut off or not, is larger than its file
\* ever gets, and none has a version that was not written.
THEOREM SyncTypesHold == SyncSpec => []SyncTypeOK
<1>1. ASSUME SyncInit PROVE Trees
  <2>1. \A f \in LocalFile : Absent \in Contents(f) BY ContentFacts
  <2>2. 0 \in 0..MaxWrites BY SyncAssumption
  <2>3. Tree([f \in LocalFile |-> Absent]) BY <2>1 DEF Tree
  <2>4. pass.at = "idle" BY <1>1 DEF SyncInit, NoPass
  <2> QED BY <1>1, <2>2, <2>3, <2>4 DEF SyncInit, Trees
<1>2. ASSUME SyncInv, Trees PROVE SyncTypeOK
  <2>1. SyncTypes BY <1>2 DEF SyncInv
  <2>2. pass.at \in {"idle", "scan", "store", "done"}
    BY <2>1, PassAt DEF PassRecord
  <2>3. upload.at \in {"idle", "tree"} BY <2>1 DEF SyncTypes, NoPass, UploadRecord
  <2> QED BY <1>2, <2>1, <2>2, <2>3 DEF SyncTypeOK, Trees, SyncTypes
<1>3. SyncInit => Trees BY <1>1
<1>4. SyncInv /\ Trees => SyncTypeOK BY <1>2
<1>5. SyncInv /\ Trees /\ [SyncNext]_syncVars => Trees' BY TreesNext
<1> QED BY <1>3, <1>4, <1>5, SyncInvHolds, PTL DEF SyncSpec

--------------------------------------------------------------------------------
(* The components side by side                                                 *)

\* Of the composition, each component takes its own steps or none.
LEMMA ComponentSteps ==
  ASSUME [Next]_vars
  PROVE  /\ which' = which
         /\ [StoreNext]_storeVars /\ [BusNext]_busVars /\ [LlmNext]_llmVars
         /\ [BudgetNext]_budgetVars /\ [GateNext]_gateVars /\ [ReviewNext]_reviewVars
         /\ [SyncNext]_syncVars /\ [TrainNext]_trainVars /\ [EvalNext]_evalVars
<1>1. CASE UNCHANGED vars BY <1>1 DEF vars
<1>2. CASE RunStore BY <1>2 DEF RunStore
<1>3. CASE RunBus BY <1>3 DEF RunBus
<1>4. CASE RunLlm BY <1>4 DEF RunLlm
<1>5. CASE RunBudget BY <1>5 DEF RunBudget
<1>6. CASE RunGate BY <1>6 DEF RunGate
<1>7. CASE RunReview BY <1>7 DEF RunReview
<1>8. CASE RunSync BY <1>8 DEF RunSync
<1>9. CASE RunTrain BY <1>9 DEF RunTrain
<1>10. CASE RunEval BY <1>10 DEF RunEval
<1> QED BY <1>1, <1>2, <1>3, <1>4, <1>5, <1>6, <1>7, <1>8, <1>9, <1>10 DEF Next

\* What is checked side by side is each component's own specification.
THEOREM SideBySide ==
  Spec => /\ StoreSpec /\ BusSpec /\ LlmSpec /\ BudgetSpec /\ GateSpec /\ ReviewSpec
          /\ SyncSpec /\ TrainSpec /\ EvalSpec /\ [](which \in components)
<1>1. Init => /\ StoreInit /\ BusInit /\ LlmInit /\ BudgetInit /\ GateInit /\ ReviewInit
              /\ SyncInit /\ TrainInit /\ EvalInit /\ which \in components
  BY DEF Init
<1>2. which \in components /\ which' = which => (which \in components)' BY DEF components
<1> QED BY <1>1, <1>2, ComponentSteps, PTL
  DEF Spec, StoreSpec, BusSpec, LlmSpec, BudgetSpec, GateSpec, ReviewSpec, SyncSpec, TrainSpec,
      EvalSpec

\* Whichever component runs, every variable of it has its type.
THEOREM ComponentsTypesHold == Spec => []ComponentsTypeOK
<1>1. /\ which \in components /\ StoreTypeOK /\ BusTypeOK /\ LlmTypeOK /\ BudgetTypeOK
      /\ GateTypeOK /\ ReviewTypeOK /\ SyncTypeOK /\ TrainTypeOK /\ EvalTypeOK
      => ComponentsTypeOK
  BY DEF components, ComponentsTypeOK
<1> QED BY <1>1, SideBySide, StoreTypes, BusTypesHold, LlmTypes, BudgetTypesHold, GateTypesHold,
           ReviewTypesHold, SyncTypesHold, TrainTypesHold, EvalTypesHold, PTL

\* The run of the composition and the theorems of the components speak of the same behaviours:
\* every safety property that the run checks holds in it for every value of the constants.
THEOREM ComponentsSafe ==
  Spec => [](/\ OnlyDemosLeavePools /\ TablesTogether /\ BackendsAgree
             /\ NobodyStarves /\ OnceAndInOrder /\ ReasonAccountsForItself /\ OvershootBounded
             /\ LossBounded /\ FlagMeansLowConfidence /\ ReadersLoseOneEnd
             /\ MirroredUnlessSameSize /\ ManifestNeverAhead /\ EvaluationsApart)
BY SideBySide, StoreOnlyDemosLeavePools, StoreTablesTogether, StoreBackendsAgree, BusNobodyStarves,
   BusOnceAndInOrder, LlmReasonAccountsForItself, BudgetOvershootBounded, GateLossBounded,
   GateFlagMeansLowConfidence, ReviewReadersLoseOneEnd, SyncMirroredUnlessSameSize,
   TrainManifestNeverAhead, EvalEvaluationsApart, PTL
================================================================================

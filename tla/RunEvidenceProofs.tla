------------------------- MODULE RunEvidenceProofs -------------------------
(***************************************************************************)
(* The evidence of a run for every plan and schedule of points, any number *)
(* of executions, restarts and broken connections: what the coverage, the  *)
(* completed groups, the seal and the outcome say of the log.              *)
(*                                                                         *)
(* The properties are about tables, and nothing in the tables keeps them:  *)
(* the daemon takes the coverage, the groups and the count of a seal from  *)
(* the executor.  The invariant therefore follows the executor through its *)
(* requests: WorkOK is what it leaves out and has handed over, StageOK     *)
(* what it has behind it when it makes a request, MadeOK how many records  *)
(* it holds for what it counts, and CallOK what remains true of a request  *)
(* while it waits, possibly for ever, in the daemon.                       *)
(***************************************************************************)
EXTENDS RunEvidence, FiniteSetTheorems, SequenceTheorems, TLAPS

-----------------------------------------------------------------------------
(* Least, largest and ordered elements. *)

\* A set of naturals that is not empty has a least member, which Min returns.
LEMMA MinNat ==
    ASSUME NEW S, S \subseteq Nat, S # {}
    PROVE  Min(S) \in S /\ \A y \in S : Min(S) <= y
<1> DEFINE less == {ss \in Nat \X Nat : ss[1] < ss[2]}
<1>1. IsWellFoundedOn(less, Nat)
  BY NatLessThanWellFounded DEF OpToRel
<1>2. \A a, b \in Nat : a < b => <<a, b>> \in less
  OBVIOUS
<1> HIDE DEF less
<1>3. PICK x \in S : \A y \in S : ~ (<<y, x>> \in less)
  BY <1>1, WFMin
<1>4. \A y \in S : x <= y
  <2> TAKE y \in S
  <2>1. x \in Nat /\ y \in Nat
    OBVIOUS
  <2>2. ~ (<<y, x>> \in less)
    BY <1>3
  <2>3. ~ (y < x)
    BY <1>2, <2>1, <2>2
  <2> QED BY <2>1, <2>3
<1> QED BY <1>4 DEF Min

LEMMA MaxNat ==
    ASSUME NEW n \in Nat, NEW S, S \subseteq 0..n, S # {}
    PROVE  Max(S) \in S /\ \A y \in S : y <= Max(S)
<1> DEFINE T == {m \in Nat : \A y \in S : y <= m}
           m == Min(T)
<1>1. m \in T /\ \A k \in T : m <= k
  <2>1. n \in T
    OBVIOUS
  <2>2. T \subseteq Nat /\ T # {}
    BY <2>1
  <2> HIDE DEF T
  <2> QED BY <2>2, MinNat
<1>2. m \in S
  <2> SUFFICES ASSUME m \notin S PROVE FALSE
    OBVIOUS
  <2>1. m \in Nat /\ \A y \in S : y <= m
    BY <1>1
  <2> HIDE DEF m
  <2>2. \A y \in S : y <= m - 1
    BY <2>1
  <2>3. m - 1 \in Nat
    <3>1. PICK y \in S : TRUE
      OBVIOUS
    <3>2. y \in Nat /\ y <= m - 1
      BY <2>2
    <3> QED BY <2>1, <3>2
  <2>4. m - 1 \in T
    BY <2>2, <2>3
  <2> QED BY <2>4, <1>1, <2>1
<1>3. \A y \in S : m >= y
  BY <1>1
<1> HIDE DEF m
<1> QED BY <1>2, <1>3 DEF Max


LEMMA RankSurjective ==
    ASSUME NEW S, S \subseteq Nat, IsFiniteSet(S)
    PROVE  \A i \in 1..Cardinality(S) : \E p \in S : Cardinality({q \in S : q <= p}) = i
<1> DEFINE n == Cardinality(S)
           Down(p) == {q \in S : q <= p}
           r == [p \in S |-> Cardinality(Down(p))]
<1>1. n \in Nat
  BY FS_CardinalityType
<1>2. \A p \in S : Cardinality(Down(p)) \in 1..n
  <2> TAKE p \in S
  <2>1. Down(p) \in SUBSET S
    OBVIOUS
  <2>2. p \in Down(p)
    OBVIOUS
  <2> HIDE DEF Down
  <2>3. IsFiniteSet(Down(p)) /\ Cardinality(Down(p)) <= n
    BY <2>1, FS_Subset
  <2>4. Cardinality(Down(p)) \in Nat /\ Cardinality(Down(p)) # 0
    BY <2>2, <2>3, FS_CardinalityType, FS_EmptySet
  <2> HIDE DEF n
  <2> QED BY <1>1, <2>3, <2>4
<1>3. \A p, q \in S : Cardinality(Down(p)) = Cardinality(Down(q)) => p = q
  <2>1. ASSUME NEW p \in S, NEW q \in S, p < q, Cardinality(Down(p)) = Cardinality(Down(q))
        PROVE  FALSE
    <3>0. p \in Nat /\ q \in Nat
      OBVIOUS
    <3>1. Down(p) \in SUBSET Down(q) /\ Down(q) \in SUBSET S
      <4>1. \A t \in S : t \in Nat /\ (t <= p => t <= q)
        BY <2>1, <3>0
      <4> QED BY <4>1
    <3>2. q \in Down(q) /\ q \notin Down(p)
      BY <2>1
    <3> HIDE DEF Down
    <3>3. IsFiniteSet(Down(q))
      BY <3>1, FS_Subset
    <3>4. Down(q) = Down(p)
      BY <3>1, <3>3, <2>1, FS_Subset
    <3> QED BY <3>2, <3>4
  <2> SUFFICES ASSUME NEW p \in S, NEW q \in S, Cardinality(Down(p)) = Cardinality(Down(q)), p # q
               PROVE  FALSE
    OBVIOUS
  <2>2. p < q \/ q < p
    OBVIOUS
  <2> QED BY <2>1, <2>2
<1>4. r \in Injection(S, 1..n)
  <2> HIDE DEF Down, n
  <2>1. r \in [S -> 1..n]
    BY <1>2
  <2>2. IsInjective(r)
    BY <1>3 DEF IsInjective
  <2> QED BY <2>1, <2>2 DEF Injection
<1>5. IsFiniteSet(1..n) /\ Cardinality(1..n) = n
  BY <1>1, FS_Interval
<1>6. r \in Surjection(S, 1..n)
  <2> HIDE DEF r
  <2> QED BY <1>4, <1>5, FS_Injection
<1>7. \A i \in 1..n : \E p \in S : r[p] = i
  <2> HIDE DEF n, r
  <2> QED BY <1>6 DEF Surjection
<1> QED BY <1>7

\* InOrder lists the set: as many members as it has, each of them one of its own.
LEMMA InOrderLists ==
    ASSUME NEW S, S \subseteq Nat, IsFiniteSet(S)
    PROVE  InOrder(S) \in Seq(S) /\ Len(InOrder(S)) = Cardinality(S)
<1>1. Cardinality(S) \in Nat
  BY FS_CardinalityType
<1>2. \A i \in 1..Cardinality(S) : (CHOOSE p \in S : Cardinality({q \in S : q <= p}) = i) \in S
  BY RankSurjective
<1>3. InOrder(S) \in [1..Cardinality(S) -> S]
  BY <1>2 DEF InOrder
<1>4. InOrder(S) \in Seq(S)
  BY <1>1, <1>3
<1>5. Len(InOrder(S)) = Cardinality(S)
  BY <1>1 DEF InOrder
<1> QED BY <1>4, <1>5

-----------------------------------------------------------------------------
(* The schedule: its groups partition the points. *)

LEMMA ScheduleFacts ==
    /\ PointCount \in Nat \ {0} /\ Len(Schedule) \in Nat
    /\ IsFiniteSet(Point) /\ IsFiniteSet(GroupIndex) /\ Point \subseteq Nat
    /\ \A g \in GroupIndex : Schedule[g] \in SUBSET Point /\ Schedule[g] # {}
<1>1. Len(Schedule) \in Nat /\ \A g \in GroupIndex : Schedule[g] \in SUBSET Point
  BY EvidenceAssumption DEF GroupIndex
<1>2. IsFiniteSet(Point)
  BY EvidenceAssumption, FS_Interval DEF Point
<1>3. IsFiniteSet(GroupIndex)
  BY <1>1, FS_Interval DEF GroupIndex
<1> QED BY <1>1, <1>2, <1>3, EvidenceAssumption DEF Point

LEMMA GroupOfPoint ==
    ASSUME NEW p \in Point
    PROVE  GroupOf(p) \in GroupIndex /\ p \in Schedule[GroupOf(p)]
<1>1. \E g \in GroupIndex : p \in Schedule[g]
  BY EvidenceAssumption
<1> QED BY <1>1 DEF GroupOf

LEMMA OneGroup ==
    ASSUME NEW g \in GroupIndex, NEW p \in Schedule[g]
    PROVE  p \in Point /\ GroupOf(p) = g
<1>1. p \in Point
  BY ScheduleFacts
<1>2. GroupOf(p) \in GroupIndex /\ p \in Schedule[GroupOf(p)]
  BY <1>1, GroupOfPoint
<1>3. GroupOf(p) # g => Schedule[GroupOf(p)] \cap Schedule[g] = {}
  BY <1>2, EvidenceAssumption
<1> QED BY <1>1, <1>2, <1>3

LEMMA InUnion ==
    ASSUME NEW G \in SUBSET GroupIndex
    PROVE  /\ Union(G) \in SUBSET Point /\ IsFiniteSet(Union(G))
           /\ \A p \in Point : p \in Union(G) <=> GroupOf(p) \in G
<1>1. \A g \in G : Schedule[g] \in SUBSET Point
  BY ScheduleFacts
<1>2. Union(G) \in SUBSET Point
  BY <1>1 DEF Union
<1>3. ASSUME NEW p \in Point PROVE p \in Union(G) <=> GroupOf(p) \in G
  <2>1. ASSUME p \in Union(G) PROVE GroupOf(p) \in G
    <3>1. PICK g \in G : p \in Schedule[g]
      BY <2>1 DEF Union
    <3>2. g \in GroupIndex
      OBVIOUS
    <3> QED BY <3>1, <3>2, OneGroup
  <2>2. ASSUME GroupOf(p) \in G PROVE p \in Union(G)
    BY <2>2, GroupOfPoint DEF Union
  <2> QED BY <2>1, <2>2
<1>4. IsFiniteSet(Union(G))
  BY <1>2, ScheduleFacts, FS_Subset
<1> QED BY <1>2, <1>3, <1>4

\* A cut has every group on one side.
LEMMA CutSplitsNoGroup ==
    ASSUME NEW n, IsDurableCut(n), NEW g \in GroupIndex
    PROVE  Schedule[g] \subseteq Prefix(n) \/ Schedule[g] \cap Prefix(n) = {}
<1>1. PICK k \in 0..Len(Schedule) : Union(1..k) = Prefix(n)
  BY DEF IsDurableCut
<1>2. 1..k \in SUBSET GroupIndex
  BY <1>1, ScheduleFacts DEF GroupIndex
<1>3. \A p \in Schedule[g] : p \in Point /\ GroupOf(p) = g
  BY OneGroup
<1>4. \A p \in Schedule[g] : p \in Prefix(n) <=> g \in 1..k
  BY <1>1, <1>2, <1>3, InUnion
<1> QED BY <1>4

LEMMA NothingBeforeZero == Prefix(0) = {}
<1>1. \A p \in Point : ~ (p < 0)
  BY DEF Point
<1> QED BY <1>1 DEF Prefix

LEMMA ZeroIsCut == IsDurableCut(0)
<1>1. Prefix(0) = {}
  BY NothingBeforeZero
<1>2. Union(1..0) = {}
  BY DEF Union
<1>3. 0 \in 0..Len(Schedule)
  BY ScheduleFacts
<1> QED BY <1>1, <1>2, <1>3 DEF IsDurableCut

LEMMA InPrefix ==
    ASSUME NEW n \in 0..PointCount
    PROVE  /\ Prefix(n) \in SUBSET Point /\ Prefix(n) = 0..(n - 1)
           /\ IsFiniteSet(Prefix(n)) /\ Cardinality(Prefix(n)) = n
<1>1. Prefix(n) \in SUBSET Point
  BY DEF Prefix
<1>2. Prefix(n) = 0..(n - 1)
  BY ScheduleFacts DEF Prefix, Point
<1>3. IsFiniteSet(0..(n - 1)) /\ Cardinality(0..(n - 1)) = n
  <2>1. n \in Nat /\ n - 1 \in Int
    BY ScheduleFacts
  <2> QED BY <2>1, FS_Interval
<1> QED BY <1>1, <1>2, <1>3

LEMMA NextIndexFacts ==
    ASSUME NEW x
    PROVE  /\ NextIndex(x) \in 0..PointCount /\ IsDurableCut(NextIndex(x))
           /\ Prefix(NextIndex(x)) \subseteq Prefix(x.start) \cup Union(x.skip \cup x.executed)
<1> DEFINE S == {n \in 0..PointCount : IsDurableCut(n)
                  /\ Prefix(n) \subseteq Prefix(x.start) \cup Union(x.skip \cup x.executed)}
<1>1. 0 \in S
  <2>1. Prefix(0) = {}
    BY NothingBeforeZero
  <2>2. 0 \in 0..PointCount
    BY ScheduleFacts
  <2> QED BY <2>1, <2>2, ZeroIsCut
<1>2. S \subseteq 0..PointCount
  OBVIOUS
<1>3. NextIndex(x) = Max(S)
  BY DEF NextIndex
<1>4. Max(S) \in S
  <2>1. PointCount \in Nat
    BY ScheduleFacts
  <2> HIDE DEF S
  <2> QED BY <1>1, <1>2, <2>1, MaxNat
<1> QED BY <1>3, <1>4

LEMMA SameNextIndex ==
    ASSUME NEW x, NEW y, x.start = y.start, x.skip = y.skip, x.executed = y.executed
    PROVE  NextIndex(x) = NextIndex(y)
BY DEF NextIndex

-----------------------------------------------------------------------------
(* The invariant of an executor, over what the daemon has made durable: the *)
(* coverage n, the completed groups C, and whether the run is sealed (fin).  *)

CommittedTo(n, C) == \A p \in Prefix(n) : GroupOf(p) \in C

Virgin(x) == x.executed = {} /\ x.handed = {} /\ x.done = {} /\ x.made = <<>>

WorkOK(x, n, C) ==
    /\ x.start <= n /\ x.start \in 0..PointCount /\ IsDurableCut(x.start)
    /\ x.skip \subseteq C /\ x.done \subseteq C
    /\ x.handed \subseteq x.executed
    /\ x.executed \cap (x.skip \cup Before(x.start)) = {}
    /\ Prefix(NextIndex(x)) \subseteq Prefix(x.start) \cup Union(x.skip \cup x.handed)

Counted(x) == Cardinality(Union(x.executed))
Fresh(x) ==
    /\ x.fault = "none" /\ x.made # <<>> /\ CurrentGroup(x) \in Remaining(x)
    /\ Len(x.made) = Counted(x) + Cardinality(Schedule[CurrentGroup(x)])
Accounts(x) == x.fault \in {"none", "effect"} => Len(x.made) = Counted(x)
MadeOK(x) == IF x.mode = "measure" THEN Fresh(x) /\ x.pc = "ingest" ELSE Accounts(x)

StageOK(x, fin) ==
    /\ x.mode = "restore" => Virgin(x)
    /\ x.mode = "transfer" => x.fault = "none"
    /\ x.pc \in {"new", "reading", "ready", "header"} => x.mode = "restore" /\ x.fault = "none"
    /\ x.pc = "groups" => x.mode \in {"check", "final"}
    /\ x.pc \in {"cover", "seal"} => x.handed \subseteq x.done
    /\ x.pc \in {"cover", "seal"} /\ x.mode = "final" => x.executed \subseteq x.done
    /\ x.pc = "seal" => x.mode = "final" /\ x.fault \in {"none", "effect"}
    /\ x.pc = "success" => fin
    /\ x.pc # "refused"

ExecutorOK(x, n, C, fin) ==
    /\ x \in Executor
    /\ WorkOK(x, n, C) /\ MadeOK(x) /\ StageOK(x, fin)

Moved(x, pc) == [x EXCEPT !.pc = pc]

LEMMA MovedFields ==
    ASSUME NEW x \in Executor, NEW pc \in Request \cup {"running", "new", "reading", "ready", "gone"}
    PROVE  /\ Moved(x, pc) \in Executor /\ Moved(x, pc).pc = pc
           /\ Moved(x, pc).mode = x.mode /\ Moved(x, pc).fault = x.fault
           /\ Moved(x, pc).start = x.start /\ Moved(x, pc).skip = x.skip
           /\ Moved(x, pc).base = x.base /\ Moved(x, pc).made = x.made
           /\ Moved(x, pc).sent = x.sent /\ Moved(x, pc).executed = x.executed
           /\ Moved(x, pc).handed = x.handed /\ Moved(x, pc).done = x.done
           /\ Moved(x, pc).told = x.told
BY DEF Moved, Executor, Request

\* What the work of an executor is does not depend on what it is at.
LEMMA SameWork ==
    ASSUME NEW x, NEW y, NEW n, NEW C, WorkOK(x, n, C),
           x.start = y.start, x.skip = y.skip, x.executed = y.executed,
           x.handed = y.handed, x.done = y.done
    PROVE  WorkOK(y, n, C)
<1>1. NextIndex(x) = NextIndex(y)
  BY SameNextIndex
<1> QED BY <1>1 DEF WorkOK

LEMMA SameFresh ==
    ASSUME NEW x, NEW y, Fresh(x), x.fault = y.fault, x.made = y.made,
           x.start = y.start, x.skip = y.skip, x.executed = y.executed
    PROVE  Fresh(y)
<1>1. CurrentGroup(x) = CurrentGroup(y) /\ Remaining(x) = Remaining(y)
  BY DEF CurrentGroup, Remaining
<1> QED BY <1>1 DEF Fresh, Counted

LEMMA StageNumbers ==
    /\ Len(Stages) = 8
    /\ Stages[1] = "ingest" /\ Stages[2] = "flush" /\ Stages[3] = "rest" /\ Stages[4] = "groups"
    /\ Stages[5] = "cover" /\ Stages[6] = "seal" /\ Stages[7] = "success" /\ Stages[8] = "failure"
BY DEF Stages

\* From goes to the first stage after k that is needed, or lets the executor run on.
LEMMA FromStage ==
    ASSUME NEW x, NEW k \in 0..8
    PROVE  \/ /\ \A j \in (k + 1)..8 : ~ Needed(x, Stages[j])
              /\ From(x, k) = Moved(x, "running")
           \/ \E j \in (k + 1)..8 :
                 /\ Needed(x, Stages[j]) /\ \A i \in (k + 1)..(j - 1) : ~ Needed(x, Stages[i])
                 /\ From(x, k) = Moved(x, IF Stages[j] = "rest" THEN "groups" ELSE Stages[j])
<1> DEFINE next == {j \in (k + 1)..Len(Stages) : Needed(x, Stages[j])}
<1>1. From(x, k) = Moved(x, IF next = {} THEN "running"
                            ELSE IF Stages[Min(next)] = "rest" THEN "groups" ELSE Stages[Min(next)])
  BY DEF From, Moved
<1>2. CASE next = {}
  <2>1. \A j \in (k + 1)..8 : ~ Needed(x, Stages[j])
    BY <1>2, StageNumbers
  <2> HIDE DEF next
  <2> QED BY <1>1, <1>2, <2>1
<1>3. CASE next # {}
  <2>1. next \subseteq Nat
    BY StageNumbers
  <2>2. Min(next) \in next /\ \A j \in next : Min(next) <= j
    <3> HIDE DEF next
    <3> QED BY <2>1, <1>3, MinNat
  <2>3. Min(next) \in (k + 1)..8 /\ Needed(x, Stages[Min(next)])
    BY <2>2, StageNumbers
  <2>4. \A i \in (k + 1)..(Min(next) - 1) : ~ Needed(x, Stages[i])
    <3> SUFFICES ASSUME NEW i \in (k + 1)..(Min(next) - 1), Needed(x, Stages[i]) PROVE FALSE
      OBVIOUS
    <3>1. i \in (k + 1)..Len(Stages) /\ i < Min(next)
      BY <2>3, StageNumbers
    <3>2. i \in next
      BY <3>1
    <3> HIDE DEF next
    <3>3. Min(next) <= i
      BY <3>2, <2>2
    <3> QED BY <3>1, <3>3, <2>3
  <2>5. From(x, k) = Moved(x, IF Stages[Min(next)] = "rest" THEN "groups" ELSE Stages[Min(next)])
    <3> HIDE DEF next
    <3> QED BY <1>1, <1>3
  <2> HIDE DEF next
  <2> QED BY <2>3, <2>4, <2>5
<1> QED BY <1>2, <1>3

\* What has been dealt with once the stages up to k are passed.
Reached(x, k, fin) ==
    /\ x.mode = "restore" => Virgin(x)
    /\ x.mode = "transfer" => x.fault = "none"
    /\ k >= 4 => x.handed \subseteq x.done
    /\ k >= 3 /\ x.mode = "final" => Rest(x) = {}
    /\ k >= 6 => fin

LEMMA MovedWork ==
    ASSUME NEW x \in Executor, NEW pc \in Request \cup {"running", "new", "reading", "ready", "gone"},
           NEW n, NEW C, WorkOK(x, n, C), x.mode # "measure" => Accounts(x),
           x.mode = "measure" => Fresh(x) /\ pc = "ingest"
    PROVE  Moved(x, pc) \in Executor /\ WorkOK(Moved(x, pc), n, C) /\ MadeOK(Moved(x, pc))
<1> PICK y : y = Moved(x, pc)
  OBVIOUS
<1>1. /\ y \in Executor /\ y.pc = pc
      /\ y.mode = x.mode /\ y.fault = x.fault /\ y.start = x.start /\ y.skip = x.skip
      /\ y.made = x.made /\ y.executed = x.executed /\ y.handed = x.handed /\ y.done = x.done
  BY MovedFields
<1>2. WorkOK(y, n, C)
  BY <1>1, SameWork
<1>3. Fresh(x) => Fresh(y)
  BY <1>1, SameFresh
<1>4. Accounts(x) => Accounts(y)
  BY <1>1 DEF Accounts, Counted
<1>5. MadeOK(y)
  BY <1>1, <1>3, <1>4 DEF MadeOK
<1> QED BY <1>1, <1>2, <1>5

\* An executor that goes on to its next request keeps its invariant.
LEMMA FromKeeps ==
    ASSUME NEW x \in Executor, NEW k \in 0..8, NEW n, NEW C, NEW fin \in BOOLEAN,
           WorkOK(x, n, C), x.mode # "measure" => Accounts(x),
           x.mode = "measure" => Fresh(x) /\ k = 0 /\ x.sent < Len(x.made),
           Reached(x, k, fin)
    PROVE  ExecutorOK(From(x, k), n, C, fin)
<1>1. ASSUME NEW j \in (k + 1)..8, Needed(x, Stages[j]),
             \A i \in (k + 1)..(j - 1) : ~ Needed(x, Stages[i]),
             NEW pc, pc = IF Stages[j] = "rest" THEN "groups" ELSE Stages[j]
      PROVE  ExecutorOK(Moved(x, pc), n, C, fin)
  <2>0. j \in 1..8 /\ k \in Nat /\ j > k
    OBVIOUS
  <2>1. pc \in Request
    BY <1>1, <2>0, StageNumbers DEF Request
  <2>2. x.mode = "measure" => pc = "ingest"
    <3> SUFFICES ASSUME x.mode = "measure" PROVE pc = "ingest"
      OBVIOUS
    <3>1. Needed(x, Stages[1])
      BY StageNumbers DEF Needed
    <3>2. k = 0
      OBVIOUS
    <3>3. j = 1
      BY <3>1, <3>2, <1>1, <2>0
    <3> QED BY <3>3, <1>1, StageNumbers
  <2> PICK y : y = Moved(x, pc)
    OBVIOUS
  <2>3. /\ y.pc = pc /\ y.mode = x.mode /\ y.fault = x.fault /\ y.made = x.made
        /\ y.executed = x.executed /\ y.handed = x.handed /\ y.done = x.done
    BY <2>1, MovedFields
  <2>4. y \in Executor /\ WorkOK(y, n, C) /\ MadeOK(y)
    BY <2>1, <2>2, MovedWork
  <2>5. pc = "groups" => x.mode \in {"check", "final"}
    BY <1>1, <2>0, StageNumbers DEF Needed
  <2>6. pc = "cover" => x.mode \in {"restore", "check", "final"}
    BY <1>1, <2>0, StageNumbers DEF Needed
  <2>7. pc = "seal" => x.mode = "final" /\ x.fault \in {"none", "effect"}
    BY <1>1, <2>0, StageNumbers DEF Needed, Executor
  <2>8. pc \in {"cover", "seal"} => j >= 5
    BY <1>1, <2>0, StageNumbers
  <2>9. pc \in {"cover", "seal"} => x.handed \subseteq x.done
    <3> SUFFICES ASSUME pc \in {"cover", "seal"} PROVE x.handed \subseteq x.done
      OBVIOUS
    <3>1. CASE k >= 4
      BY <3>1 DEF Reached
    <3>2. CASE k < 4 /\ x.mode = "restore"
      BY <3>2 DEF Reached, Virgin
    <3>3. CASE k < 4 /\ x.mode # "restore"
      <4>1. ~ Needed(x, Stages[4])
        BY <3>3, <1>1, <2>0, <2>8
      <4>2. Handed(x) = {}
        BY <4>1, <3>3, <2>6, <2>7, StageNumbers DEF Needed
      <4> QED BY <4>2 DEF Handed
    <3> QED BY <3>1, <3>2, <3>3, <2>0
  <2>10. pc \in {"cover", "seal"} /\ x.mode = "final" => x.executed \subseteq x.done
    <3> SUFFICES ASSUME pc \in {"cover", "seal"}, x.mode = "final" PROVE x.executed \subseteq x.done
      OBVIOUS
    <3>1. Rest(x) = {}
      <4>1. CASE k >= 3
        BY <4>1 DEF Reached
      <4>2. CASE k < 3
        <5>1. ~ Needed(x, Stages[3])
          BY <4>2, <1>1, <2>0, <2>8
        <5> QED BY <5>1, StageNumbers DEF Needed
      <4> QED BY <4>1, <4>2, <2>0
    <3> QED BY <3>1, <2>9 DEF Rest
  <2>11. pc = "success" => fin
    <3> SUFFICES ASSUME pc = "success" PROVE fin
      OBVIOUS
    <3>0. j = 7
      BY <1>1, <2>0, StageNumbers
    <3>1. j = 7 /\ x.mode = "final" /\ x.fault = "none"
      <4>1. Needed(x, "success")
        BY <1>1, <3>0, StageNumbers
      <4> QED BY <3>0, <4>1 DEF Needed
    <3>2. Needed(x, Stages[6])
      BY <3>1, StageNumbers DEF Needed
    <3>3. k >= 6
      BY <3>1, <3>2, <1>1, <2>0
    <3> QED BY <3>3 DEF Reached
  <2>12. /\ x.mode = "restore" => Virgin(y)
         /\ x.mode = "transfer" => x.fault = "none"
    BY <2>3 DEF Reached, Virgin
  <2>13. pc \notin {"new", "reading", "ready", "header", "refused"}
    BY <1>1, <2>0, StageNumbers
  <2>14. StageOK(y, fin)
    BY <2>3, <2>5, <2>6, <2>7, <2>9, <2>10, <2>11, <2>12, <2>13 DEF StageOK
  <2> QED BY <2>4, <2>14 DEF ExecutorOK
<1>2. ASSUME \A j \in (k + 1)..8 : ~ Needed(x, Stages[j])
      PROVE  ExecutorOK(Moved(x, "running"), n, C, fin)
  <2>1. x.mode # "measure"
    <3> SUFFICES ASSUME x.mode = "measure" PROVE FALSE
      OBVIOUS
    <3>1. Needed(x, Stages[1]) /\ k = 0
      BY StageNumbers DEF Needed
    <3> QED BY <3>1, <1>2
  <2>2. Moved(x, "running") \in Executor /\ WorkOK(Moved(x, "running"), n, C)
        /\ MadeOK(Moved(x, "running"))
    BY <2>1, MovedWork
  <2>3. StageOK(Moved(x, "running"), fin)
    <3> PICK y : y = Moved(x, "running")
      OBVIOUS
    <3>1. /\ y.pc = "running" /\ y.mode = x.mode /\ y.fault = x.fault /\ y.made = x.made
          /\ y.executed = x.executed /\ y.handed = x.handed /\ y.done = x.done
      BY MovedFields
    <3> QED BY <3>1 DEF StageOK, Reached, Virgin
  <2> QED BY <2>2, <2>3 DEF ExecutorOK
<1>3. CASE /\ \A j \in (k + 1)..8 : ~ Needed(x, Stages[j])
           /\ From(x, k) = Moved(x, "running")
  BY <1>3, <1>2
<1>4. CASE \E j \in (k + 1)..8 :
             /\ Needed(x, Stages[j]) /\ \A i \in (k + 1)..(j - 1) : ~ Needed(x, Stages[i])
             /\ From(x, k) = Moved(x, IF Stages[j] = "rest" THEN "groups" ELSE Stages[j])
  BY <1>4, <1>1
<1> QED BY <1>3, <1>4, FromStage

\* An executor that goes on to its next step without a request keeps its invariant.
LEMMA RunningKeeps ==
    ASSUME NEW x \in Executor, NEW n, NEW C, NEW fin \in BOOLEAN,
           WorkOK(x, n, C), x.mode # "measure", Accounts(x),
           x.mode = "restore" => Virgin(x), x.mode = "transfer" => x.fault = "none"
    PROVE  ExecutorOK(Moved(x, "running"), n, C, fin)
<1>1. Moved(x, "running") \in Executor /\ WorkOK(Moved(x, "running"), n, C)
      /\ MadeOK(Moved(x, "running"))
  BY MovedWork
<1>2. StageOK(Moved(x, "running"), fin)
  <2> PICK y : y = Moved(x, "running")
    OBVIOUS
  <2>1. /\ y.pc = "running" /\ y.mode = x.mode /\ y.fault = x.fault /\ y.made = x.made
        /\ y.executed = x.executed /\ y.handed = x.handed /\ y.done = x.done
    BY MovedFields
  <2> QED BY <2>1 DEF StageOK, Virgin
<1> QED BY <1>1, <1>2 DEF ExecutorOK

\* An executor that has taken nothing is in order, at the start and when it is gone.
LEMMA VirginWork ==
    ASSUME NEW x \in Executor, NEW n, NEW C, Virgin(x), x.start <= n,
           IsDurableCut(x.start), x.start \in 0..PointCount, x.skip \subseteq C
    PROVE  WorkOK(x, n, C) /\ Accounts(x)
<1>1. x.executed = {} /\ x.handed = {} /\ x.done = {} /\ x.made = <<>>
  BY DEF Virgin
<1>2. Prefix(NextIndex(x)) \subseteq Prefix(x.start) \cup Union(x.skip \cup x.handed)
  BY <1>1, NextIndexFacts
<1>3. WorkOK(x, n, C)
  BY <1>1, <1>2 DEF WorkOK
<1>4. Counted(x) = 0
  BY <1>1, FS_EmptySet DEF Counted, Union
<1>5. Len(x.made) = 0
  BY <1>1
<1> QED BY <1>3, <1>4, <1>5 DEF Accounts

LEMMA NewKeeps ==
    ASSUME NEW n \in Nat, NEW C, NEW fin \in BOOLEAN
    PROVE  ExecutorOK(NewExecutor, n, C, fin) /\ ExecutorOK(Gone, n, C, fin)
<1>1. ASSUME NEW x, x \in {NewExecutor, Gone}
      PROVE  ExecutorOK(x, n, C, fin)
  <2>1. /\ x.executed = {} /\ x.handed = {} /\ x.done = {} /\ x.made = <<>>
        /\ x.start = 0 /\ x.skip = {} /\ x.mode = "restore" /\ x.fault = "none"
        /\ x.pc \in {"new", "gone"} /\ x.base = 0 /\ x.sent = 0 /\ x.told = 0
    BY <1>1 DEF NewExecutor, Gone
  <2>2. x \in Executor
    <3>1. NewExecutor \in Executor
      BY ScheduleFacts DEF Executor, NewExecutor, Mode
    <3>2. Gone \in Executor
      BY <3>1 DEF Executor, Gone
    <3> QED BY <1>1, <3>1, <3>2
  <2>3. Virgin(x)
    BY <2>1 DEF Virgin
  <2>4. x.start <= n /\ IsDurableCut(x.start) /\ x.start \in 0..PointCount /\ x.skip \subseteq C
    BY <2>1, ZeroIsCut, ScheduleFacts
  <2>5. WorkOK(x, n, C) /\ Accounts(x)
    BY <2>2, <2>3, <2>4, VirginWork
  <2>6. StageOK(x, fin) /\ MadeOK(x)
    BY <2>1, <2>3, <2>5 DEF StageOK, MadeOK
  <2> QED BY <2>2, <2>5, <2>6 DEF ExecutorOK
<1> QED BY <1>1

LEMMA GroupSizes ==
    ASSUME NEW G \in SUBSET GroupIndex, NEW g \in GroupIndex, g \notin G
    PROVE  Cardinality(Union(G \cup {g})) = Cardinality(Union(G)) + Cardinality(Schedule[g])
<1>1. Union(G \cup {g}) = Union(G) \cup Schedule[g]
  BY DEF Union
<1>2. Union(G) \cap Schedule[g] = {}
  <2> SUFFICES ASSUME NEW p \in Schedule[g], p \in Union(G) PROVE FALSE
    OBVIOUS
  <2>1. p \in Point /\ GroupOf(p) = g
    BY OneGroup
  <2> QED BY <2>1, InUnion
<1>3. IsFiniteSet(Union(G))
  BY InUnion
<1>4. IsFiniteSet(Schedule[g])
  BY ScheduleFacts, FS_Subset
<1>5. Cardinality(Union(G) \cup Schedule[g])
        = Cardinality(Union(G)) + Cardinality(Schedule[g]) - Cardinality(Union(G) \cap Schedule[g])
  BY <1>3, <1>4, FS_Union
<1>6. Cardinality(Union(G)) \in Nat /\ Cardinality(Schedule[g]) \in Nat
  BY <1>3, <1>4, FS_CardinalityType
<1>7. Cardinality(Union(G) \cap Schedule[g]) = 0
  BY <1>2, FS_EmptySet
<1>8. Cardinality(Union(G \cup {g})) = Cardinality(Union(G) \cup Schedule[g])
  BY <1>1, Zenon
<1> QED BY <1>5, <1>6, <1>7, <1>8

\* The group of the records just taken is counted in: it goes out with its coverage,
\* or it waits for a later one.
LEMMA AccountedKeeps ==
    ASSUME NEW x \in Executor, NEW n, NEW C, NEW fin \in BOOLEAN,
           WorkOK(x, n, C), Fresh(x), NEW w \in Accounted(x)
    PROVE  ExecutorOK(w, n, C, fin)
<1> PICK g : g = CurrentGroup(x)
  OBVIOUS
<1> PICK y : y = [x EXCEPT !.executed = @ \cup {CurrentGroup(x)}, !.mode = "check"]
  OBVIOUS
<1> PICK z : z = IF NextIndex(y) > NextIndex(x) THEN [y EXCEPT !.handed = y.executed] ELSE y
  OBVIOUS
<1>1. g \in GroupIndex /\ g \notin x.executed /\ g \notin x.skip \cup Before(x.start)
  BY DEF Fresh, Remaining
<1>2. /\ y \in Executor /\ y.mode = "check" /\ y.executed = x.executed \cup {g}
      /\ y.handed = x.handed /\ y.done = x.done /\ y.start = x.start /\ y.skip = x.skip
      /\ y.made = x.made /\ y.fault = x.fault
  BY <1>1 DEF Executor, Mode
<1>3. /\ z \in Executor /\ z.mode = "check" /\ z.executed = x.executed \cup {g}
      /\ z.done = x.done /\ z.start = x.start /\ z.skip = x.skip
      /\ z.made = x.made /\ z.fault = x.fault
      /\ z.handed = IF NextIndex(y) > NextIndex(x) THEN z.executed ELSE x.handed
  BY <1>2 DEF Executor
<1>4. NextIndex(z) = NextIndex(y)
  BY <1>2, <1>3, SameNextIndex
<1>5. WorkOK(z, n, C)
  <2>1. /\ z.start <= n /\ z.start \in 0..PointCount /\ IsDurableCut(z.start)
        /\ z.skip \subseteq C /\ z.done \subseteq C /\ z.handed \subseteq z.executed
    BY <1>3 DEF WorkOK
  <2>2. z.executed \cap (z.skip \cup Before(z.start)) = {}
    BY <1>1, <1>3 DEF WorkOK
  <2>3. Prefix(NextIndex(z)) \subseteq Prefix(z.start) \cup Union(z.skip \cup z.handed)
    <3>1. CASE NextIndex(y) > NextIndex(x)
      <4>1. z.handed = z.executed
        BY <3>1, <1>3
      <4>2. Prefix(NextIndex(z)) \subseteq Prefix(z.start) \cup Union(z.skip \cup z.executed)
        BY NextIndexFacts
      <4> QED BY <4>1, <4>2
    <3>2. CASE ~ (NextIndex(y) > NextIndex(x))
      <4>1. NextIndex(x) \in Nat /\ NextIndex(y) \in Nat
        <5>1. NextIndex(x) \in 0..PointCount /\ NextIndex(y) \in 0..PointCount
          BY NextIndexFacts, Zenon
        <5> QED BY <5>1, ScheduleFacts
      <4>2. Prefix(NextIndex(y)) \subseteq Prefix(NextIndex(x))
        <5>1. \A p \in Point : p \in Nat
          BY DEF Point
        <5> QED BY <3>2, <4>1, <5>1 DEF Prefix
      <4>3. Prefix(NextIndex(x)) \subseteq Prefix(x.start) \cup Union(x.skip \cup x.handed)
        BY DEF WorkOK
      <4> QED BY <3>2, <4>2, <4>3, <1>3, <1>4
    <3> QED BY <3>1, <3>2
  <2> QED BY <2>1, <2>2, <2>3 DEF WorkOK
<1>6. Accounts(z)
  <2>1. Len(x.made) = Cardinality(Union(x.executed)) + Cardinality(Schedule[g])
    BY DEF Fresh, Counted
  <2>2. x.executed \in SUBSET GroupIndex
    BY DEF Executor
  <2>3. Cardinality(Union(x.executed \cup {g})) = Cardinality(Union(x.executed)) + Cardinality(Schedule[g])
    BY <2>2, <1>1, GroupSizes
  <2> QED BY <2>1, <2>3, <1>3 DEF Accounts, Counted
<1>7. ExecutorOK(Moved(z, "running"), n, C, fin)
  BY <1>3, <1>5, <1>6, RunningKeeps
<1>8. ExecutorOK(From(z, 0), n, C, fin)
  <2>1. Reached(z, 0, fin)
    BY <1>3 DEF Reached
  <2>2. /\ z.mode # "measure" => Accounts(z)
        /\ z.mode = "measure" => Fresh(z) /\ 0 = 0 /\ z.sent < Len(z.made)
    BY <1>3, <1>6
  <2>3. 0 \in 0..8
    OBVIOUS
  <2>4. z \in Executor
    BY <1>3
  <2> QED BY <2>4, <1>5, <2>1, <2>2, <2>3, FromKeeps
<1>9. w = Moved(z, "running") \/ w = From(z, 0)
  BY DEF Accounted, Moved
<1> QED BY <1>7, <1>8, <1>9

LEMMA NumberOf ==
    /\ Number("ingest") = 1 /\ Number("flush") = 2 /\ Number("rest") = 3
    /\ Number("groups") = 4 /\ Number("cover") = 5 /\ Number("seal") = 6
BY StageNumbers DEF Number

\* An executor that turns to its end keeps its invariant, whatever it was doing.
LEMMA FinishKeeps ==
    ASSUME NEW x \in Executor, NEW n, NEW C, NEW fin \in BOOLEAN, WorkOK(x, n, C), Accounts(x)
    PROVE  ExecutorOK(Finish(x), n, C, fin)
<1> PICK y : y = [x EXCEPT !.mode = "final"]
  OBVIOUS
<1>1. /\ y \in Executor /\ y.mode = "final" /\ y.fault = x.fault /\ y.start = x.start
      /\ y.skip = x.skip /\ y.made = x.made /\ y.executed = x.executed
      /\ y.handed = x.handed /\ y.done = x.done
  BY DEF Executor, Mode
<1>2. WorkOK(y, n, C)
  BY <1>1, SameWork
<1>3. Accounts(y)
  BY <1>1 DEF Accounts, Counted
<1>4. /\ y.mode # "measure" => Accounts(y)
      /\ y.mode = "measure" => Fresh(y) /\ 0 = 0 /\ y.sent < Len(y.made)
  BY <1>1, <1>3
<1>5. Reached(y, 0, fin)
  BY <1>1 DEF Reached
<1>6. 0 \in 0..8 /\ y \in Executor
  BY <1>1
<1>7. ExecutorOK(From(y, 0), n, C, fin)
  BY <1>2, <1>4, <1>5, <1>6, FromKeeps
<1> QED BY <1>7 DEF Finish

LEMMA FinishFaulty ==
    ASSUME NEW x \in Executor, NEW n, NEW C, NEW fin \in BOOLEAN, WorkOK(x, n, C),
           NEW f \in {"none", "effect", "recording", "header"},
           f \in {"none", "effect"} => Len(x.made) = Counted(x)
    PROVE  ExecutorOK(Finish([x EXCEPT !.fault = f]), n, C, fin)
<1> PICK y : y = [x EXCEPT !.fault = f]
  OBVIOUS
<1>1. /\ y \in Executor /\ y.fault = f /\ y.start = x.start
      /\ y.skip = x.skip /\ y.made = x.made /\ y.executed = x.executed
      /\ y.handed = x.handed /\ y.done = x.done
  BY DEF Executor
<1>2. WorkOK(y, n, C)
  BY <1>1, SameWork
<1>3. Accounts(y)
  BY <1>1 DEF Accounts, Counted
<1> QED BY <1>1, <1>2, <1>3, FinishKeeps

\* An executor whose request has succeeded keeps its invariant.
LEMMA SucceededKeeps ==
    ASSUME NEW x, NEW n \in Nat, NEW C, NEW fin \in BOOLEAN, ExecutorOK(x, n, C, fin),
           NEW call, x.pc \in Request, call.count \in Nat,
           x.pc = "groups" => /\ call.set = IF StageOf(x) = "rest" THEN Rest(x) ELSE Handed(x)
                              /\ call.set \subseteq C,
           x.pc = "seal" => fin,
           NEW w \in Succeeded(x, call)
    PROVE  ExecutorOK(w, n, C, fin)
<1>0. x \in Executor /\ WorkOK(x, n, C) /\ MadeOK(x) /\ StageOK(x, fin)
  BY DEF ExecutorOK
<1> PICK y : y = CASE x.pc = "header" -> [x EXCEPT !.base = call.count]
                   [] x.pc = "ingest" -> [x EXCEPT !.sent = Len(x.made)]
                   [] x.pc = "groups" -> [x EXCEPT !.done = @ \cup call.set]
                   [] x.pc = "cover" -> [x EXCEPT !.told = call.count]
                   [] OTHER -> x
  OBVIOUS
<1>1. x.pc = "groups" => call.set \subseteq GroupIndex
  BY <1>0 DEF Rest, Handed, Executor
<1>2. /\ y \in Executor /\ y.pc = x.pc /\ y.mode = x.mode /\ y.fault = x.fault /\ y.start = x.start
      /\ y.skip = x.skip /\ y.made = x.made /\ y.executed = x.executed /\ y.handed = x.handed
      /\ y.done = IF x.pc = "groups" THEN x.done \cup call.set ELSE x.done
  <2>1. CASE x.pc = "header"
    <3>1. y = [x EXCEPT !.base = call.count]
      BY <2>1
    <3> QED BY <3>1, <2>1, <1>0 DEF Executor
  <2>2. CASE x.pc = "ingest"
    <3>1. y = [x EXCEPT !.sent = Len(x.made)]
      BY <2>2
    <3>2. Len(x.made) \in Nat
      BY <1>0 DEF Executor
    <3> QED BY <3>1, <3>2, <2>2, <1>0 DEF Executor
  <2>3. CASE x.pc = "groups"
    <3>1. y = [x EXCEPT !.done = @ \cup call.set]
      BY <2>3
    <3> QED BY <3>1, <2>3, <1>0, <1>1 DEF Executor
  <2>4. CASE x.pc = "cover"
    <3>1. y = [x EXCEPT !.told = call.count]
      BY <2>4
    <3> QED BY <3>1, <2>4, <1>0 DEF Executor
  <2>5. CASE x.pc \notin {"header", "ingest", "groups", "cover"}
    <3>1. y = x
      BY <2>5
    <3> QED BY <3>1, <2>5, <1>0 DEF Executor
  <2> QED BY <2>1, <2>2, <2>3, <2>4, <2>5
<1>3. WorkOK(y, n, C)
  <2>1. NextIndex(x) = NextIndex(y)
    BY <1>2, SameNextIndex
  <2>2. y.done \subseteq C
    BY <1>0, <1>2 DEF WorkOK
  <2> QED BY <1>0, <1>2, <2>1, <2>2 DEF WorkOK
<1>4. y.mode # "measure" => Accounts(y)
  BY <1>0, <1>2 DEF MadeOK, Accounts, Counted
<1>5. y.mode = "restore" => Virgin(y)
  BY <1>0, <1>2 DEF StageOK, Virgin
<1>6. y.mode = "transfer" => y.fault = "none"
  BY <1>0, <1>2 DEF StageOK
<1>a. w \in (CASE x.pc = "header" -> {IF y.told < NextIndex(y) THEN From(y, 0)
                                      ELSE [y EXCEPT !.pc = "running"]}
              [] x.pc \in {"success", "failure"} -> {Gone}
              [] x.mode = "measure" -> Accounted(y)
              [] OTHER -> {From(y, Number(StageOf(x)))})
  BY DEF Succeeded
<1>7. CASE x.pc = "header"
  <2>1. y.mode # "measure"
    BY <1>0, <1>2, <1>7 DEF StageOK
  <2>2. w = From(y, 0) \/ w = Moved(y, "running")
    BY <1>7, <1>a, <2>1, <1>2 DEF Moved
  <2>3. ExecutorOK(Moved(y, "running"), n, C, fin)
    BY <2>1, <1>2, <1>3, <1>4, <1>5, <1>6, RunningKeeps
  <2>4. Reached(y, 0, fin)
    BY <1>5, <1>6 DEF Reached
  <2>5. /\ 0 \in 0..8 /\ y \in Executor
        /\ y.mode = "measure" => Fresh(y) /\ 0 = 0 /\ y.sent < Len(y.made)
    BY <2>1, <1>2
  <2>6. ExecutorOK(From(y, 0), n, C, fin)
    BY <2>4, <2>5, <1>3, <1>4, FromKeeps
  <2> QED BY <2>2, <2>3, <2>6
<1>8. CASE x.pc \in {"success", "failure"}
  <2>0. x.mode # "measure"
    BY <1>0, <1>8 DEF MadeOK
  <2>1. w = Gone
    BY <1>8, <1>a, <2>0
  <2> QED BY <2>1, NewKeeps
<1>9. CASE x.pc \notin {"header", "success", "failure"} /\ x.mode = "measure"
  <2>1. w \in Accounted(y)
    BY <1>9, <1>a
  <2>2. Fresh(x)
    BY <1>0, <1>9 DEF MadeOK
  <2>3. Fresh(y)
    BY <2>2, <1>2, SameFresh
  <2> QED BY <2>1, <2>3, <1>2, <1>3, AccountedKeeps
<1>10. CASE x.pc \notin {"header", "success", "failure"} /\ x.mode # "measure"
  <2> PICK k : k = Number(StageOf(x))
    OBVIOUS
  <2>1. w = From(y, k)
    BY <1>10, <1>a
  <2>2. x.pc \in {"ingest", "flush", "groups", "cover", "seal"}
    BY <1>10 DEF Request
  <2>3. /\ StageOf(x) = IF x.pc = "groups" /\ Rest(x) # {} /\ x.mode = "final" THEN "rest" ELSE x.pc
        /\ k \in 1..6
        /\ k >= 3 => x.pc \in {"groups", "cover", "seal"}
        /\ k >= 4 => StageOf(x) # "rest"
        /\ k >= 6 => x.pc = "seal"
    BY <2>2, NumberOf DEF StageOf
  <2>4. k >= 4 => y.handed \subseteq y.done
    <3> SUFFICES ASSUME k >= 4 PROVE y.handed \subseteq y.done
      OBVIOUS
    <3>1. CASE x.pc = "groups"
      <4>1. call.set = Handed(x)
        BY <3>1, <2>3
      <4> QED BY <4>1, <3>1, <1>2 DEF Handed
    <3>2. CASE x.pc \in {"cover", "seal"}
      BY <3>2, <1>0, <1>2 DEF StageOK
    <3> QED BY <3>1, <3>2, <2>3
  <2>5. k >= 3 /\ y.mode = "final" => Rest(y) = {}
    <3> SUFFICES ASSUME k >= 3, y.mode = "final" PROVE Rest(y) = {}
      OBVIOUS
    <3>1. CASE x.pc = "groups" /\ StageOf(x) = "rest"
      <4>1. call.set = Rest(x)
        BY <3>1
      <4> QED BY <4>1, <3>1, <1>2 DEF Rest
    <3>2. CASE x.pc = "groups" /\ StageOf(x) # "rest"
      <4>1. Rest(x) = {}
        BY <3>2, <2>3, <1>2
      <4> QED BY <4>1, <1>2 DEF Rest
    <3>3. CASE x.pc \in {"cover", "seal"}
      <4>1. x.executed \subseteq x.done
        BY <3>3, <1>0, <1>2 DEF StageOK
      <4> QED BY <4>1, <3>3, <1>2 DEF Rest
    <3> QED BY <3>1, <3>2, <3>3, <2>3
  <2>6. Reached(y, k, fin)
    BY <2>3, <2>4, <2>5, <1>5, <1>6 DEF Reached
  <2>7. /\ k \in 0..8 /\ y \in Executor
        /\ y.mode = "measure" => Fresh(y) /\ k = 0 /\ y.sent < Len(y.made)
    BY <2>3, <1>2, <1>10
  <2>8. ExecutorOK(From(y, k), n, C, fin)
    BY <2>6, <2>7, <1>3, <1>4, FromKeeps
  <2> QED BY <2>1, <2>8
<1> QED BY <1>7, <1>8, <1>9, <1>10

\* An executor whose request has failed keeps its invariant.
LEMMA BrokenKeeps ==
    ASSUME NEW x, NEW n \in Nat, NEW C, NEW fin \in BOOLEAN, ExecutorOK(x, n, C, fin),
           x.pc \in Request
    PROVE  ExecutorOK(Broken(x), n, C, fin)
<1>0. x \in Executor /\ WorkOK(x, n, C) /\ MadeOK(x) /\ StageOK(x, fin)
  BY DEF ExecutorOK
<1>1. CASE x.pc = "header"
  <2> PICK y : y = [x EXCEPT !.fault = "header"]
    OBVIOUS
  <2>1. /\ y \in Executor /\ y.fault = "header" /\ y.mode = x.mode /\ y.start = x.start
        /\ y.skip = x.skip /\ y.made = x.made /\ y.executed = x.executed
        /\ y.handed = x.handed /\ y.done = x.done
    BY <1>0 DEF Executor
  <2>2. y.mode = "restore" /\ Virgin(x)
    BY <1>0, <1>1, <2>1 DEF StageOK
  <2>3. WorkOK(y, n, C)
    BY <1>0, <2>1, SameWork
  <2>4. Accounts(y) /\ Virgin(y)
    BY <2>1, <2>2 DEF Accounts, Virgin
  <2>5. ExecutorOK(Moved(y, "running"), n, C, fin)
    BY <2>1, <2>2, <2>3, <2>4, RunningKeeps
  <2>6. Reached(y, 0, fin)
    BY <2>2, <2>4 DEF Reached
  <2>7. /\ 0 \in 0..8 /\ y \in Executor
        /\ y.mode # "measure" => Accounts(y)
        /\ y.mode = "measure" => Fresh(y) /\ 0 = 0 /\ y.sent < Len(y.made)
    BY <2>1, <2>2, <2>4
  <2>8. ExecutorOK(From(y, 0), n, C, fin)
    BY <2>3, <2>6, <2>7, FromKeeps
  <2>9. Broken(x) = From(y, 0) \/ Broken(x) = Moved(y, "running")
    BY <1>1 DEF Broken, Moved
  <2> QED BY <2>5, <2>8, <2>9
<1>2. CASE x.pc # "header" /\ (x.pc \in {"success", "failure"} \/ x.mode = "restore")
  <2>1. Broken(x) = Gone
    BY <1>2 DEF Broken
  <2> QED BY <2>1, NewKeeps
<1>3. CASE x.pc \notin {"header", "success", "failure"} /\ x.mode = "transfer"
  <2>1. Broken(x) = Finish([x EXCEPT !.fault = "effect"])
    BY <1>3 DEF Broken
  <2>2. x.fault = "none" /\ Accounts(x)
    BY <1>0, <1>3 DEF StageOK, MadeOK
  <2>3. Len(x.made) = Counted(x)
    BY <2>2 DEF Accounts
  <2> QED BY <2>1, <2>3, <1>0, FinishFaulty
<1>4. CASE x.pc \notin {"header", "success", "failure"} /\ x.mode \in {"measure", "check"}
  <2>1. Broken(x) = Finish([x EXCEPT !.fault = "recording"])
    BY <1>4 DEF Broken
  <2> QED BY <2>1, <1>0, FinishFaulty
<1>5. CASE x.pc \notin {"header", "success", "failure"} /\ x.mode = "final"
  <2> PICK y : y = [x EXCEPT !.pc = "failure", !.fault = "recording"]
    OBVIOUS
  <2>1. /\ y \in Executor /\ y.pc = "failure" /\ y.fault = "recording" /\ y.mode = "final"
        /\ y.start = x.start /\ y.skip = x.skip /\ y.made = x.made /\ y.executed = x.executed
        /\ y.handed = x.handed /\ y.done = x.done
    BY <1>0, <1>5 DEF Executor, Request
  <2>2. WorkOK(y, n, C)
    BY <1>0, <2>1, SameWork
  <2>3. MadeOK(y) /\ StageOK(y, fin)
    BY <2>1 DEF MadeOK, Accounts, StageOK
  <2>4. Broken(x) = y
    BY <1>5 DEF Broken
  <2> QED BY <2>1, <2>2, <2>3, <2>4 DEF ExecutorOK
<1> QED BY <1>0, <1>1, <1>2, <1>3, <1>4, <1>5 DEF Executor, Mode

-----------------------------------------------------------------------------
(* The invariant of a request. *)

\* c is the request of the executor e; h says whether its fragment has been opened.
CallOK(c, C, fin, h) ==
    /\ c \in Call
    /\ c.pc \notin {"ok", "failed"}
    /\ c.kind = "none" => c = NoCall
    /\ c.kind = "header" /\ c.pc = "stored" => h
    /\ c.kind = "cover" => c.count \in 0..PointCount /\ IsDurableCut(c.count) /\ CommittedTo(c.count, C)
    /\ c.kind = "seal" =>
          /\ \E A \in SUBSET Point : (\A p \in A : GroupOf(p) \in C) /\ Cardinality(A) = c.count
          /\ c.pc # "sent" => c.by # NoSegment
          /\ c.pc = "stored" => fin
    /\ c.kind = "success" => fin
    /\ c.pc \in {"flushing", "taken", "appended"} =>
          c.by # NoSegment /\ c.kind \in {"ingest", "flush", "retain"}
    /\ c.by \in Segment \cup {NoSegment}

\* The executor that waits for a request is at that request.
WaitOK(x, c) ==
    c.kind # "none" =>
        /\ c.kind = x.pc /\ x.pc \in Request
        /\ x.pc = "groups" => c.set = IF StageOf(x) = "rest" THEN Rest(x) ELSE Handed(x)

LEMMA NoCallOK ==
    ASSUME NEW C, NEW fin, NEW h
    PROVE  CallOK(NoCall, C, fin, h) /\ NoCall.kind = "none"
<1>1. /\ NoCall.kind = "none" /\ NoCall.pc = "sent" /\ NoCall.by = NoSegment
  BY DEF NoCall
<1>2. NoCall \in Call
  BY DEF NoCall, Call, NoSegment
<1> QED BY <1>1, <1>2 DEF CallOK

\* The dataset an executor counts for its seal is made of completed groups.
LEMMA CountedPoints ==
    ASSUME NEW x \in Executor, NEW n \in Nat, NEW C, WorkOK(x, n, C), CommittedTo(n, C),
           x.executed \subseteq x.done, Len(x.made) = Counted(x)
    PROVE  \E A \in SUBSET Point : (\A p \in A : GroupOf(p) \in C) /\ Cardinality(A) = RecordCount(x)
<1> DEFINE new == x.skip \ Before(x.start)
           P == Prefix(x.start)
           S == Union(new)
           E == Union(x.executed)
<1>1. /\ x.skip \in SUBSET GroupIndex /\ x.executed \in SUBSET GroupIndex
      /\ new \in SUBSET GroupIndex
  BY DEF Executor
<1>2. /\ P \in SUBSET Point /\ IsFiniteSet(P) /\ Cardinality(P) = x.start
  <2>1. x.start \in 0..PointCount
    BY DEF WorkOK
  <2> QED BY <2>1, InPrefix
<1>3. /\ S \in SUBSET Point /\ IsFiniteSet(S) /\ E \in SUBSET Point /\ IsFiniteSet(E)
  BY <1>1, InUnion
<1>4. P \cap S = {}
  <2> SUFFICES ASSUME NEW p \in P, p \in S PROVE FALSE
    OBVIOUS
  <2>1. p \in Point /\ GroupOf(p) \in new
    BY <1>1, <1>2, InUnion
  <2>2. GroupOf(p) \in GroupIndex /\ p \in Schedule[GroupOf(p)]
    BY <2>1, GroupOfPoint
  <2>3. Schedule[GroupOf(p)] \subseteq P
    BY <2>2, CutSplitsNoGroup DEF WorkOK
  <2> QED BY <2>1, <2>2, <2>3 DEF Before
<1>5. (P \cup S) \cap E = {}
  <2> SUFFICES ASSUME NEW p \in E, p \in P \cup S PROVE FALSE
    OBVIOUS
  <2>1. p \in Point /\ GroupOf(p) \in x.executed
    BY <1>1, <1>3, InUnion
  <2>2. GroupOf(p) \in GroupIndex /\ p \in Schedule[GroupOf(p)]
    BY <2>1, GroupOfPoint
  <2>3. GroupOf(p) \notin x.skip \cup Before(x.start)
    BY <2>1 DEF WorkOK
  <2>4. p \notin S
    BY <2>1, <2>3, <1>1, InUnion
  <2>5. p \in P
    BY <2>4
  <2>6. Schedule[GroupOf(p)] \subseteq P
    BY <2>2, <2>5, CutSplitsNoGroup DEF WorkOK
  <2> QED BY <2>2, <2>3, <2>6 DEF Before
<1>6. \A p \in P \cup S \cup E : p \in Point /\ GroupOf(p) \in C
  <2>1. ASSUME NEW p \in P PROVE p \in Point /\ GroupOf(p) \in C
    <3>1. p \in Point /\ p < x.start /\ x.start <= n /\ x.start \in 0..PointCount /\ p \in Nat
      BY <1>2 DEF Prefix, WorkOK, Point
    <3>2. p < n
      BY <3>1, ScheduleFacts
    <3>3. p \in Prefix(n)
      BY <3>1, <3>2 DEF Prefix
    <3> QED BY <3>1, <3>3 DEF CommittedTo
  <2>2. ASSUME NEW p \in S PROVE p \in Point /\ GroupOf(p) \in C
    <3>1. p \in Point /\ GroupOf(p) \in new
      BY <1>1, <1>3, InUnion
    <3> QED BY <3>1 DEF WorkOK
  <2>3. ASSUME NEW p \in E PROVE p \in Point /\ GroupOf(p) \in C
    <3>1. p \in Point /\ GroupOf(p) \in x.executed
      BY <1>1, <1>3, InUnion
    <3> QED BY <3>1 DEF WorkOK
  <2> QED BY <2>1, <2>2, <2>3
<1>7. RecordCount(x) = x.start + Cardinality(S) + Cardinality(E)
  BY DEF RecordCount, Counted
<1> HIDE DEF P, S, E, new
<1>8. IsFiniteSet(P \cup S) /\ Cardinality(P \cup S) = Cardinality(P) + Cardinality(S) - Cardinality(P \cap S)
  BY <1>2, <1>3, FS_Union
<1>9. Cardinality((P \cup S) \cup E)
        = Cardinality(P \cup S) + Cardinality(E) - Cardinality((P \cup S) \cap E)
  BY <1>8, <1>3, FS_Union
<1>10. Cardinality(P \cap S) = 0 /\ Cardinality((P \cup S) \cap E) = 0
  BY <1>4, <1>5, FS_EmptySet
<1>11. Cardinality(P) \in Nat /\ Cardinality(S) \in Nat /\ Cardinality(E) \in Nat
  BY <1>2, <1>3, FS_CardinalityType
<1>12. Cardinality((P \cup S) \cup E) = RecordCount(x)
  BY <1>2, <1>7, <1>8, <1>9, <1>10, <1>11
<1> PICK A : A = (P \cup S) \cup E
  OBVIOUS
<1>13. A \in SUBSET Point /\ \A p \in A : GroupOf(p) \in C
  BY <1>6
<1> QED BY <1>12, <1>13

LEMMA KindOfRequest ==
    ASSUME NEW x
    PROVE  RequestOf(x).kind = IF x.pc \in Request THEN x.pc ELSE "none"
BY DEF RequestOf, NoCall, Request

\* The request of an executor in order is in order, and what it waits for.
LEMMA RequestKeeps ==
    ASSUME NEW x, NEW n \in Nat, NEW C, NEW fin \in BOOLEAN, NEW h,
           ExecutorOK(x, n, C, fin), CommittedTo(n, C)
    PROVE  CallOK(RequestOf(x), C, fin, h) /\ WaitOK(x, RequestOf(x))
<1>0. x \in Executor /\ WorkOK(x, n, C) /\ MadeOK(x) /\ StageOK(x, fin)
  BY DEF ExecutorOK
<1>1. CASE x.pc \notin Request
  <2>1. RequestOf(x) = NoCall
    BY <1>1 DEF RequestOf, Request
  <2> QED BY <2>1, NoCallOK DEF WaitOK
<1>2. CASE x.pc \in Request
  <2> PICK r : r = [NoCall EXCEPT !.kind = x.pc]
    OBVIOUS
  <2> PICK c : c = RequestOf(x)
    OBVIOUS
  <2>1. /\ r \in Call /\ r.kind = x.pc /\ r.pc = "sent" /\ r.by = NoSegment /\ r.recs = <<>>
        /\ r.set = {} /\ r.start = 0 /\ r.count = 0
    <3>1. NoCall \in Call
      BY DEF NoCall, Call, NoSegment
    <3> QED BY <1>2, <3>1 DEF NoCall, Call
  <2>2. /\ x.made \in Seq(Record) /\ Len(x.made) \in Nat /\ x.sent \in Nat /\ x.base \in Nat
        /\ x.told \in Nat /\ x.start \in Nat /\ x.skip \in SUBSET GroupIndex
        /\ x.executed \in SUBSET GroupIndex /\ x.handed \in SUBSET GroupIndex
    BY <1>0 DEF Executor
  <2>3. CASE x.pc = "ingest"
    <3>1. c = [r EXCEPT !.recs = SubSeq(x.made, x.sent + 1, Len(x.made)), !.start = x.base + x.sent]
      BY <2>3, <1>2 DEF RequestOf
    <3>2. SubSeq(x.made, x.sent + 1, Len(x.made)) \in Seq(Record)
      <4>1. \A i \in (x.sent + 1)..Len(x.made) : x.made[i] \in Record
        BY <2>2
      <4>2. x.sent + 1 \in Int /\ Len(x.made) \in Int
        BY <2>2
      <4> QED BY <4>1, <4>2, SubSeqProperties
    <3>3. x.base + x.sent \in Nat
      BY <2>2
    <3>4. c \in Call /\ c.kind = "ingest" /\ c.pc = "sent" /\ c.by = NoSegment
      BY <3>1, <3>2, <3>3, <2>1, <2>3 DEF Call
    <3> QED BY <3>4, <2>3, <1>2 DEF CallOK, WaitOK
  <2>4. CASE x.pc = "groups"
    <3> PICK G : G = IF StageOf(x) = "rest" THEN Rest(x) ELSE Handed(x)
      OBVIOUS
    <3>1. c = [r EXCEPT !.set = G]
      BY <2>4, <1>2 DEF RequestOf
    <3>2. G \in SUBSET GroupIndex
      BY <2>2 DEF Rest, Handed
    <3>3. c \in Call /\ c.kind = "groups" /\ c.pc = "sent" /\ c.by = NoSegment /\ c.set = G
      BY <3>1, <3>2, <2>1, <2>4 DEF Call
    <3> QED BY <3>3, <2>4, <1>2 DEF CallOK, WaitOK
  <2>5. CASE x.pc = "seal"
    <3>1. c = [r EXCEPT !.recs = x.made, !.count = RecordCount(x)]
      BY <2>5, <1>2 DEF RequestOf
    <3>2. x.executed \subseteq x.done /\ x.fault \in {"none", "effect"} /\ x.mode = "final"
      BY <1>0, <2>5 DEF StageOK
    <3>3. Len(x.made) = Counted(x)
      BY <1>0, <3>2 DEF MadeOK, Accounts
    <3>4. PICK A \in SUBSET Point : (\A p \in A : GroupOf(p) \in C) /\ Cardinality(A) = RecordCount(x)
      BY <1>0, <3>2, <3>3, CountedPoints
    <3>5. RecordCount(x) \in Nat
      BY <3>4, ScheduleFacts, FS_Subset, FS_CardinalityType
    <3>6. /\ c \in Call /\ c.kind = "seal" /\ c.pc = "sent" /\ c.by = NoSegment
          /\ c.count = RecordCount(x)
      BY <3>1, <3>5, <2>1, <2>2, <2>5 DEF Call
    <3> QED BY <3>4, <3>6, <2>5, <1>2 DEF CallOK, WaitOK
  <2>6. CASE x.pc = "cover"
    <3>1. c = [r EXCEPT !.start = x.told, !.count = NextIndex(x)]
      BY <2>6, <1>2 DEF RequestOf
    <3>2. /\ NextIndex(x) \in 0..PointCount /\ IsDurableCut(NextIndex(x))
      BY NextIndexFacts, Zenon
    <3>3. CommittedTo(NextIndex(x), C)
      <4> SUFFICES ASSUME NEW p \in Prefix(NextIndex(x)) PROVE GroupOf(p) \in C
        BY DEF CommittedTo
      <4>1. p \in Prefix(x.start) \cup Union(x.skip \cup x.handed)
        BY <1>0 DEF WorkOK
      <4>2. p \in Point
        BY DEF Prefix
      <4>3. CASE p \in Prefix(x.start)
        <5>1. p < x.start /\ x.start <= n /\ p \in Nat
          BY <4>3, <4>2, <1>0 DEF Prefix, WorkOK, Point
        <5>2. p \in Prefix(n)
          BY <5>1, <4>2, <2>2 DEF Prefix
        <5> QED BY <5>2 DEF CommittedTo
      <4>4. CASE p \in Union(x.skip \cup x.handed)
        <5>1. x.skip \cup x.handed \in SUBSET GroupIndex
          BY <2>2
        <5>2. GroupOf(p) \in x.skip \cup x.handed
          BY <5>1, <4>2, <4>4, InUnion
        <5>3. x.handed \subseteq x.done
          BY <1>0, <2>6 DEF StageOK
        <5> QED BY <5>2, <5>3, <1>0 DEF WorkOK
      <4> QED BY <4>1, <4>3, <4>4
    <3>4. NextIndex(x) \in Nat
      BY <3>2, ScheduleFacts
    <3>5. /\ c \in Call /\ c.kind = "cover" /\ c.pc = "sent" /\ c.by = NoSegment
          /\ c.count = NextIndex(x)
      BY <3>1, <3>4, <2>1, <2>2, <2>6 DEF Call
    <3> QED BY <3>2, <3>3, <3>5, <2>6, <1>2 DEF CallOK, WaitOK
  <2>7. CASE x.pc \notin {"ingest", "groups", "seal", "cover"}
    <3>1. c = r
      BY <2>7, <1>2 DEF RequestOf
    <3>2. x.pc = "success" => fin
      BY <1>0 DEF StageOK
    <3> QED BY <3>1, <3>2, <2>1, <2>7, <1>2 DEF CallOK, WaitOK, Request
  <2> QED BY <2>3, <2>4, <2>5, <2>6, <2>7
<1> QED BY <1>1, <1>2

LEMMA FunctionIsSeq ==
    ASSUME NEW S, NEW n \in Nat, NEW f \in [1..n -> S]
    PROVE  f \in Seq(S) /\ Len(f) = n
<1>1. f \in Seq(S)
  OBVIOUS
<1>2. DOMAIN f = 1..n
  OBVIOUS
<1> QED BY <1>1, <1>2, LenProperties

LEMMA Appended ==
    ASSUME NEW S, NEW s \in Seq(S), NEW t \in Seq(S)
    PROVE  /\ s \o t \in Seq(S) /\ Len(s \o t) = Len(s) + Len(t)
           /\ \A i \in 1..Len(s) : (s \o t)[i] = s[i]
           /\ Len(t) # 0 => (s \o t)[Len(s \o t)] = t[Len(t)]
<1>1. Len(s) \in Nat /\ Len(t) \in Nat
  OBVIOUS
<1> QED BY <1>1, ConcatProperties

\* The records of points, in their order.
RecordsOf(points, e) == [i \in 1..Len(points) |-> [point |-> points[i], seg |-> e]]

LEMMA RecordsOfPoints ==
    ASSUME NEW S \in SUBSET Point, NEW points \in Seq(S), NEW e \in Segment
    PROVE  /\ RecordsOf(points, e) \in Seq(Record) /\ Len(RecordsOf(points, e)) = Len(points)
           /\ \A i \in 1..Len(points) : RecordsOf(points, e)[i] = [point |-> points[i], seg |-> e]
<1> DEFINE n == Len(points)
           rows == [i \in 1..n |-> [point |-> points[i], seg |-> e]]
<1>1. n \in Nat
  OBVIOUS
<1>2. \A i \in 1..n : [point |-> points[i], seg |-> e] \in Record
  BY DEF Record
<1>3. rows \in [1..n -> Record]
  BY <1>2
<1>4. \A i \in 1..n : rows[i] = [point |-> points[i], seg |-> e]
  OBVIOUS
<1>5. RecordsOf(points, e) = rows
  BY DEF RecordsOf
<1> HIDE DEF rows
<1>6. rows \in Seq(Record) /\ Len(rows) = n
  <2> HIDE DEF n
  <2> QED BY <1>1, <1>3, FunctionIsSeq
<1> QED BY <1>4, <1>5, <1>6

\* The executor once it has measured a group: its records go out, or stay with it.
Taken(x, made) == [x EXCEPT !.mode = "measure", !.made = made]

LEMMA TakenKeeps ==
    ASSUME NEW x, NEW n \in Nat, NEW C, NEW fin \in BOOLEAN, ExecutorOK(x, n, C, fin),
           x.pc = "running", x.fault = "none", x.sent = Len(x.made),
           NEW g \in Remaining(x), NEW made \in Seq(Record),
           Len(made) = Len(x.made) + Cardinality(Schedule[g]),
           made[Len(made)].point \in Schedule[g],
           NEW y, y = Taken(x, made), NEW z \in Accounted(y) \cup {From(y, 0)}
    PROVE  ExecutorOK(z, n, C, fin)
<1>0. x \in Executor /\ WorkOK(x, n, C) /\ MadeOK(x) /\ StageOK(x, fin)
  BY DEF ExecutorOK
<1>1. g \in GroupIndex
  BY DEF Remaining
<1>2. Cardinality(Schedule[g]) \in Nat /\ Cardinality(Schedule[g]) # 0
  <2>1. Schedule[g] \in SUBSET Point /\ Schedule[g] # {}
    BY <1>1, ScheduleFacts
  <2>2. IsFiniteSet(Schedule[g])
    BY <2>1, ScheduleFacts, FS_Subset
  <2> QED BY <2>1, <2>2, FS_CardinalityType, FS_EmptySet
<1>3. Len(x.made) \in Nat /\ Len(made) > Len(x.made) /\ Len(made) # 0
  <2>1. Len(x.made) \in Nat
    BY <1>0 DEF Executor
  <2> QED BY <2>1, <1>2
<1>4. /\ y \in Executor /\ y.mode = "measure" /\ y.made = made /\ y.fault = "none"
      /\ y.start = x.start /\ y.skip = x.skip /\ y.executed = x.executed
      /\ y.handed = x.handed /\ y.done = x.done /\ y.sent = x.sent
  BY <1>0 DEF Executor, Mode, Taken
<1>5. WorkOK(y, n, C)
  BY <1>0, <1>4, SameWork
<1>6. CurrentGroup(y) = g
  <2>1. \A h \in GroupIndex : made[Len(made)].point \in Schedule[h] => h = g
    BY <1>1, OneGroup
  <2> QED BY <1>1, <1>4, <2>1 DEF CurrentGroup
<1>7. Fresh(y)
  <2>1. Remaining(y) = Remaining(x)
    BY <1>4 DEF Remaining
  <2>2. Len(x.made) = Counted(x)
    BY <1>0 DEF MadeOK, Accounts
  <2>3. Len(y.made) = Counted(y) + Cardinality(Schedule[g])
    BY <2>2, <1>4 DEF Counted
  <2>4. y.made # <<>>
    BY <1>3, <1>4, EmptySeq
  <2> QED BY <2>1, <2>3, <2>4, <1>4, <1>6 DEF Fresh
<1>8. CASE z \in Accounted(y)
  BY <1>8, <1>4, <1>5, <1>7, AccountedKeeps
<1>9. CASE z = From(y, 0)
  <2>1. /\ 0 \in 0..8 /\ y \in Executor
        /\ y.mode # "measure" => Accounts(y)
        /\ y.mode = "measure" => Fresh(y) /\ 0 = 0 /\ y.sent < Len(y.made)
    BY <1>3, <1>4, <1>7
  <2>2. Reached(y, 0, fin)
    BY <1>4 DEF Reached
  <2>3. ExecutorOK(From(y, 0), n, C, fin)
    BY <2>1, <2>2, <1>5, FromKeeps
  <2> QED BY <2>3, <1>9
<1> QED BY <1>8, <1>9

\* The records of the group that is measured next.
LEMMA NextGroup ==
    ASSUME NEW x, Remaining(x) # {}, NEW e \in Segment,
           NEW g, g = Min(Remaining(x)), NEW rows, rows = RecordsOf(InOrder(Schedule[g]), e)
    PROVE  /\ g \in Remaining(x) /\ rows \in Seq(Record) /\ Len(rows) = Cardinality(Schedule[g])
           /\ Len(rows) # 0 /\ rows[Len(rows)].point \in Schedule[g]
<1>1. g \in Remaining(x) /\ g \in GroupIndex
  <2>1. Remaining(x) \subseteq GroupIndex /\ GroupIndex \subseteq Nat
    BY ScheduleFacts DEF Remaining, GroupIndex
  <2>2. Remaining(x) \subseteq Nat
    BY <2>1
  <2>3. g \in Remaining(x)
    BY <2>2, MinNat
  <2> QED BY <2>1, <2>3
<1> PICK points : points = InOrder(Schedule[g])
  OBVIOUS
<1>2. /\ points \in Seq(Schedule[g]) /\ Len(points) = Cardinality(Schedule[g])
      /\ Len(points) \in Nat /\ Len(points) # 0
  <2>1. Schedule[g] \in SUBSET Point /\ Schedule[g] # {} /\ IsFiniteSet(Schedule[g])
    BY <1>1, ScheduleFacts, FS_Subset
  <2>2. Schedule[g] \subseteq Nat
    BY <2>1, ScheduleFacts
  <2>3. points \in Seq(Schedule[g]) /\ Len(points) = Cardinality(Schedule[g])
    BY <2>1, <2>2, InOrderLists
  <2>4. Cardinality(Schedule[g]) \in Nat /\ Cardinality(Schedule[g]) # 0
    BY <2>1, FS_CardinalityType, FS_EmptySet
  <2> QED BY <2>3, <2>4
<1>3. Schedule[g] \in SUBSET Point
  BY <1>1, ScheduleFacts
<1>4. points \in Seq(Schedule[g]) /\ Len(points) \in 1..Len(points)
  BY <1>2
<1>5. /\ rows \in Seq(Record) /\ Len(rows) = Len(points)
      /\ rows[Len(points)] = [point |-> points[Len(points)], seg |-> e]
  BY <1>3, <1>4, RecordsOfPoints
<1>6. points[Len(points)] \in Schedule[g]
  BY <1>4
<1> QED BY <1>1, <1>2, <1>5, <1>6

Measured(x, e) == Taken(x, x.made \o RecordsOf(InOrder(Schedule[Min(Remaining(x))]), e))

LEMMA MeasureKeeps ==
    ASSUME NEW x, NEW n \in Nat, NEW C, NEW fin \in BOOLEAN, ExecutorOK(x, n, C, fin),
           NEW e \in Segment, x.pc = "running", x.fault = "none", Remaining(x) # {},
           x.sent = Len(x.made), NEW y, y = Measured(x, e), NEW z \in Accounted(y) \cup {From(y, 0)}
    PROVE  ExecutorOK(z, n, C, fin)
<1> DEFINE g == Min(Remaining(x))
           rows == RecordsOf(InOrder(Schedule[g]), e)
           made == x.made \o rows
<1>1. /\ g \in Remaining(x) /\ rows \in Seq(Record) /\ Len(rows) = Cardinality(Schedule[g])
      /\ Len(rows) # 0 /\ rows[Len(rows)].point \in Schedule[g]
  BY NextGroup
<1>2. x.made \in Seq(Record)
  BY DEF ExecutorOK, Executor
<1>3. y = Taken(x, made)
  BY DEF Measured
<1> HIDE DEF g, rows
<1>4. /\ made \in Seq(Record) /\ Len(made) = Len(x.made) + Len(rows)
      /\ made[Len(made)] = rows[Len(rows)]
  BY <1>1, <1>2, Appended
<1>5. Len(made) = Len(x.made) + Cardinality(Schedule[g]) /\ made[Len(made)].point \in Schedule[g]
  BY <1>1, <1>4
<1> HIDE DEF made
<1> QED BY <1>1, <1>3, <1>4, <1>5, TakenKeeps

LEMMA TransferKeeps ==
    ASSUME NEW x, NEW n \in Nat, NEW C, NEW fin \in BOOLEAN, ExecutorOK(x, n, C, fin),
           x.pc = "running", x.fault = "none",
           NEW y, y = [x EXCEPT !.mode = "transfer"]
    PROVE  ExecutorOK(From(y, 0), n, C, fin)
<1>0. x \in Executor /\ WorkOK(x, n, C) /\ MadeOK(x) /\ StageOK(x, fin)
  BY DEF ExecutorOK
<1>1. /\ y \in Executor /\ y.mode = "transfer" /\ y.made = x.made /\ y.fault = "none"
      /\ y.start = x.start /\ y.skip = x.skip /\ y.executed = x.executed
      /\ y.handed = x.handed /\ y.done = x.done /\ y.sent = x.sent
  BY <1>0 DEF Executor, Mode
<1>2. WorkOK(y, n, C)
  BY <1>0, <1>1, SameWork
<1>3. Accounts(y)
  BY <1>0, <1>1 DEF MadeOK, Accounts, Counted
<1>4. /\ 0 \in 0..8 /\ y \in Executor
      /\ y.mode # "measure" => Accounts(y)
      /\ y.mode = "measure" => Fresh(y) /\ 0 = 0 /\ y.sent < Len(y.made)
  BY <1>1, <1>3
<1>5. Reached(y, 0, fin)
  BY <1>1 DEF Reached
<1> QED BY <1>2, <1>4, <1>5, FromKeeps

\* An executor that reads the coverage, and then the completed groups.
Informed(x, n) == [x EXCEPT !.pc = "reading", !.start = n, !.told = n]
Ready(x, C) == [x EXCEPT !.skip = C, !.pc = IF Accepted(x.start, C) THEN "ready" ELSE "refused"]

LEMMA ReadCoverageKeeps ==
    ASSUME NEW x, NEW n \in 0..PointCount, NEW C, NEW fin \in BOOLEAN, ExecutorOK(x, n, C, fin),
           x.pc = "new", IsDurableCut(n)
    PROVE  ExecutorOK(Informed(x, n), n, C, fin)
<1>0. x \in Executor /\ WorkOK(x, n, C) /\ MadeOK(x) /\ StageOK(x, fin)
  BY DEF ExecutorOK
<1> PICK y : y = Informed(x, n)
  OBVIOUS
<1>1. n \in Nat
  BY ScheduleFacts
<1>2. /\ y \in Executor /\ y.pc = "reading" /\ y.mode = x.mode /\ y.made = x.made
      /\ y.fault = x.fault /\ y.start = n /\ y.skip = x.skip /\ y.executed = x.executed
      /\ y.handed = x.handed /\ y.done = x.done
  BY <1>0, <1>1 DEF Executor, Informed
<1>3. Virgin(y) /\ y.mode = "restore" /\ y.fault = "none"
  BY <1>0, <1>2 DEF StageOK, Virgin
<1>4. y.start <= n /\ y.skip \subseteq C
  BY <1>0, <1>1, <1>2 DEF WorkOK
<1>5. WorkOK(y, n, C) /\ Accounts(y)
  BY <1>2, <1>3, <1>4, VirginWork
<1> QED BY <1>2, <1>3, <1>5 DEF ExecutorOK, MadeOK, StageOK

LEMMA ReadGroupsKeeps ==
    ASSUME NEW x, NEW n \in Nat, NEW C \in SUBSET GroupIndex, NEW fin \in BOOLEAN,
           ExecutorOK(x, n, C, fin), x.pc = "reading"
    PROVE  ExecutorOK(Ready(x, C), n, C, fin)
<1>0. x \in Executor /\ WorkOK(x, n, C) /\ MadeOK(x) /\ StageOK(x, fin)
  BY DEF ExecutorOK
<1>1. Accepted(x.start, C)
  <2>1. IsDurableCut(x.start)
    BY <1>0 DEF WorkOK
  <2>2. \A g \in C : Schedule[g] \subseteq Prefix(x.start) \/ Schedule[g] \cap Prefix(x.start) = {}
    BY <2>1, CutSplitsNoGroup
  <2> QED BY <2>1, <2>2 DEF Accepted
<1> PICK y : y = [x EXCEPT !.skip = C, !.pc = "ready"]
  OBVIOUS
<1>2. /\ y \in Executor /\ y.pc = "ready" /\ y.mode = x.mode /\ y.made = x.made
      /\ y.fault = x.fault /\ y.start = x.start /\ y.skip = C /\ y.executed = x.executed
      /\ y.handed = x.handed /\ y.done = x.done
  BY <1>0 DEF Executor
<1>3. Virgin(y) /\ y.mode = "restore" /\ y.fault = "none"
  BY <1>0, <1>2 DEF StageOK, Virgin
<1>4. y.start <= n /\ IsDurableCut(y.start) /\ y.start \in 0..PointCount /\ y.skip \subseteq C
  BY <1>0, <1>2 DEF WorkOK
<1>5. WorkOK(y, n, C) /\ Accounts(y)
  BY <1>2, <1>3, <1>4, VirginWork
<1>6. ExecutorOK(y, n, C, fin)
  BY <1>2, <1>3, <1>5 DEF ExecutorOK, MadeOK, StageOK
<1> QED BY <1>1, <1>6 DEF Ready

LEMMA BeginKeeps ==
    ASSUME NEW x, NEW n \in Nat, NEW C, NEW fin \in BOOLEAN, ExecutorOK(x, n, C, fin),
           x.pc = "ready"
    PROVE  ExecutorOK([x EXCEPT !.pc = "header"], n, C, fin)
<1>0. x \in Executor /\ WorkOK(x, n, C) /\ MadeOK(x) /\ StageOK(x, fin)
  BY DEF ExecutorOK
<1> PICK y : y = [x EXCEPT !.pc = "header"]
  OBVIOUS
<1>1. /\ y \in Executor /\ y.pc = "header" /\ y.mode = x.mode /\ y.made = x.made
      /\ y.fault = x.fault /\ y.start = x.start /\ y.skip = x.skip /\ y.executed = x.executed
      /\ y.handed = x.handed /\ y.done = x.done
  BY <1>0 DEF Executor, Request
<1>2. WorkOK(y, n, C)
  BY <1>0, <1>1, SameWork
<1>3. x.mode = "restore" /\ x.fault = "none" /\ Virgin(x)
  BY <1>0 DEF StageOK
<1>4. MadeOK(y)
  BY <1>0, <1>1, <1>3 DEF MadeOK, Accounts, Counted
<1>5. StageOK(y, fin)
  BY <1>1, <1>3 DEF StageOK, Virgin
<1> QED BY <1>1, <1>2, <1>4, <1>5 DEF ExecutorOK

\* What an executor relies on is never taken back.
LEMMA ExecutorStays ==
    ASSUME NEW x, NEW n \in Nat, NEW m \in Nat, NEW C, NEW D, NEW fin, NEW fin2,
           ExecutorOK(x, n, C, fin), n <= m, C \subseteq D, fin => fin2
    PROVE  ExecutorOK(x, m, D, fin2)
<1>1. x.start \in Nat /\ x.start <= m
  BY DEF ExecutorOK, WorkOK, Executor
<1>2. WorkOK(x, m, D)
  BY <1>1 DEF ExecutorOK, WorkOK
<1>3. StageOK(x, fin2)
  BY DEF ExecutorOK, StageOK
<1> QED BY <1>2, <1>3 DEF ExecutorOK

LEMMA CallStays ==
    ASSUME NEW c, NEW C, NEW D, NEW fin, NEW fin2, NEW h, NEW h2,
           CallOK(c, C, fin, h), C \subseteq D, fin => fin2, h => h2
    PROVE  CallOK(c, D, fin2, h2)
<1>1. c.kind = "cover" => CommittedTo(c.count, D)
  BY DEF CallOK, CommittedTo
<1>2. c.kind = "seal" =>
        \E A \in SUBSET Point : (\A p \in A : GroupOf(p) \in D) /\ Cardinality(A) = c.count
  <2> SUFFICES ASSUME c.kind = "seal"
               PROVE  \E A \in SUBSET Point : (\A p \in A : GroupOf(p) \in D) /\ Cardinality(A) = c.count
    OBVIOUS
  <2>1. PICK A \in SUBSET Point : (\A p \in A : GroupOf(p) \in C) /\ Cardinality(A) = c.count
    BY DEF CallOK
  <2> QED BY <2>1
<1> QED BY <1>1, <1>2 DEF CallOK

-----------------------------------------------------------------------------
(* The inductive invariant. *)

Committed == {g \in GroupIndex : groups[g] # NoSegment}
Sealed == sealed # NotSealed
Opened(e) == fragments[e] # -1

DurableOK ==
    /\ IsDurableCut(covered) /\ CommittedTo(covered, Committed)
    /\ GroupFromOneExecution
    /\ Sealed => /\ Recs(RowsOf(sealed.seg)) = sealed.recs
                 /\ Projected = Prefix(sealed.count)
                 /\ \A p \in Point : IndicesOf(p) # {} => selected[p] # 0
    /\ run.state = "succeeded" => Sealed /\ covered = PointCount

WorkersOK ==
    /\ ex \in [Segment -> Executor] /\ calls \in [Segment -> [Slot -> Call]]
    /\ \A e \in Segment : ExecutorOK(ex[e], covered, Committed, Sealed)
    /\ \A e \in Segment, s \in Slot : CallOK(calls[e][s], Committed, Sealed, Opened(e))
    /\ \A e \in Segment : WaitOK(ex[e], calls[e]["awaited"])

EvidenceInv == EvidenceTypeOK /\ DurableOK /\ WorkersOK

\* The durable state only ever grows, and the coverage stays within what is complete.
Grows ==
    /\ covered \in 0..PointCount /\ covered' \in 0..PointCount /\ covered <= covered'
    /\ Committed \subseteq Committed'
    /\ Sealed => Sealed'
    /\ \A e \in Segment : Opened(e) => Opened(e)'
    /\ CommittedTo(covered', Committed')

LEMMA WorkersStay ==
    ASSUME WorkersOK, Grows, UNCHANGED <<ex, calls>>
    PROVE  WorkersOK'
<1>1. covered \in Nat /\ covered' \in Nat
  BY ScheduleFacts DEF Grows
<1>2. ASSUME NEW e \in Segment PROVE ExecutorOK(ex'[e], covered', Committed', Sealed')
  <2>1. ExecutorOK(ex[e], covered, Committed, Sealed)
    BY DEF WorkersOK
  <2> QED BY <2>1, <1>1, ExecutorStays DEF Grows
<1>3. ASSUME NEW e \in Segment, NEW s \in Slot
      PROVE  CallOK(calls'[e][s], Committed', Sealed', Opened(e)')
  <2>1. CallOK(calls[e][s], Committed, Sealed, Opened(e))
    BY DEF WorkersOK
  <2> QED BY <2>1, CallStays DEF Grows
<1> QED BY <1>2, <1>3 DEF WorkersOK

\* An executor goes on to x, and makes the request it is then at.
LEMMA BecomeKeeps ==
    ASSUME WorkersOK, Grows, NEW e \in Segment, NEW x,
           ExecutorOK(x, covered', Committed', Sealed'), Become(e, x)
    PROVE  WorkersOK'
<1>0. covered \in Nat /\ covered' \in Nat
  BY ScheduleFacts DEF Grows
<1>1. ex \in [Segment -> Executor] /\ calls \in [Segment -> [Slot -> Call]]
  BY DEF WorkersOK
<1>2. ex' = [ex EXCEPT ![e] = x] /\ calls' = [calls EXCEPT ![e]["awaited"] = RequestOf(x)]
  BY DEF Become
<1>3. CallOK(RequestOf(x), Committed', Sealed', Opened(e)') /\ WaitOK(x, RequestOf(x))
  <2>1. CommittedTo(covered', Committed')
    BY DEF Grows
  <2>2. Sealed' \in BOOLEAN
    BY DEF Sealed
  <2> QED BY <1>0, <2>1, <2>2, RequestKeeps
<1>4. x \in Executor /\ RequestOf(x) \in Call
  BY <1>3 DEF ExecutorOK, CallOK
<1>5. ex' \in [Segment -> Executor] /\ calls' \in [Segment -> [Slot -> Call]]
  BY <1>1, <1>2, <1>4
<1>6. ASSUME NEW f \in Segment PROVE ExecutorOK(ex'[f], covered', Committed', Sealed')
  <2>1. ex'[f] = IF f = e THEN x ELSE ex[f]
    BY <1>1, <1>2
  <2>2. ExecutorOK(ex[f], covered, Committed, Sealed)
    BY DEF WorkersOK
  <2>3. ExecutorOK(ex[f], covered', Committed', Sealed')
    BY <2>2, <1>0, ExecutorStays DEF Grows
  <2> QED BY <2>1, <2>3
<1>7. ASSUME NEW f \in Segment, NEW s \in Slot
      PROVE  CallOK(calls'[f][s], Committed', Sealed', Opened(f)')
  <2>1. calls'[f][s] = IF f = e /\ s = "awaited" THEN RequestOf(x) ELSE calls[f][s]
    BY <1>1, <1>2
  <2>2. CallOK(calls[f][s], Committed, Sealed, Opened(f))
    BY DEF WorkersOK
  <2>3. CallOK(calls[f][s], Committed', Sealed', Opened(f)')
    BY <2>2, CallStays DEF Grows
  <2> QED BY <2>1, <2>3, <1>3
<1>8. ASSUME NEW f \in Segment PROVE WaitOK(ex'[f], calls'[f]["awaited"])
  <2>1. /\ ex'[f] = IF f = e THEN x ELSE ex[f]
        /\ calls'[f]["awaited"] = IF f = e THEN RequestOf(x) ELSE calls[f]["awaited"]
    BY <1>1, <1>2 DEF Slot
  <2>2. WaitOK(ex[f], calls[f]["awaited"])
    BY DEF WorkersOK
  <2> QED BY <2>1, <2>2, <1>3
<1> QED BY <1>5, <1>6, <1>7, <1>8 DEF WorkersOK

\* A request gets on to c; what the executor waits for stays the same request.
LEMMA SetCallKeeps ==
    ASSUME WorkersOK, Grows, NEW e \in Segment, NEW s \in Slot, NEW c,
           CallOK(c, Committed', Sealed', Opened(e)'),
           s = "awaited" => c.kind = calls[e][s].kind /\ c.set = calls[e][s].set,
           ex' = ex, calls' = [calls EXCEPT ![e][s] = c]
    PROVE  WorkersOK'
<1>0. covered \in Nat /\ covered' \in Nat
  BY ScheduleFacts DEF Grows
<1>1. ex \in [Segment -> Executor] /\ calls \in [Segment -> [Slot -> Call]]
  BY DEF WorkersOK
<1>2. c \in Call
  BY DEF CallOK
<1>3. calls' \in [Segment -> [Slot -> Call]]
  BY <1>1, <1>2
<1>4. ASSUME NEW f \in Segment PROVE ExecutorOK(ex'[f], covered', Committed', Sealed')
  <2>1. ExecutorOK(ex[f], covered, Committed, Sealed)
    BY DEF WorkersOK
  <2> QED BY <2>1, <1>0, ExecutorStays DEF Grows
<1>5. ASSUME NEW f \in Segment, NEW t \in Slot
      PROVE  CallOK(calls'[f][t], Committed', Sealed', Opened(f)')
  <2>1. calls'[f][t] = IF f = e /\ t = s THEN c ELSE calls[f][t]
    BY <1>1
  <2>2. CallOK(calls[f][t], Committed, Sealed, Opened(f))
    BY DEF WorkersOK
  <2>3. CallOK(calls[f][t], Committed', Sealed', Opened(f)')
    BY <2>2, CallStays DEF Grows
  <2> QED BY <2>1, <2>3
<1>6. ASSUME NEW f \in Segment PROVE WaitOK(ex'[f], calls'[f]["awaited"])
  <2>1. calls'[f]["awaited"] = IF f = e /\ s = "awaited" THEN c ELSE calls[f]["awaited"]
    BY <1>1 DEF Slot
  <2>2. WaitOK(ex[f], calls[f]["awaited"])
    BY DEF WorkersOK
  <2> QED BY <2>1, <2>2 DEF WaitOK
<1> QED BY <1>1, <1>3, <1>4, <1>5, <1>6 DEF WorkersOK

\* What has to hold of a request that has been carried out.
Fulfilled(c, C, fin) ==
    /\ c.kind = "groups" => c.set \subseteq C
    /\ c.kind = "seal" => fin

\* The next step of a request keeps the invariant of executors and requests.
LEMMA ProceedKeeps ==
    ASSUME WorkersOK, Grows, NEW e \in Segment, NEW s \in Slot, NEW c, Proceed(e, s, c),
           calls[e][s].kind # "none", c \in Call,
           c.kind = calls[e][s].kind, c.set = calls[e][s].set,
           c.pc \notin {"ok", "failed"} => CallOK(c, Committed', Sealed', Opened(e)'),
           c.pc = "ok" => Fulfilled(c, Committed', Sealed')
    PROVE  WorkersOK'
<1>0. covered \in Nat /\ covered' \in Nat /\ Sealed' \in BOOLEAN
  BY ScheduleFacts DEF Grows, Sealed
<1>1. CASE c.pc \notin {"ok", "failed"}
  <2>1. ex' = ex /\ calls' = [calls EXCEPT ![e][s] = c]
    BY <1>1 DEF Proceed
  <2>2. CallOK(c, Committed', Sealed', Opened(e)')
    BY <1>1
  <2> QED BY <2>1, <2>2, SetCallKeeps
<1>2. CASE c.pc \in {"ok", "failed"} /\ s # "awaited"
  <2>1. ex' = ex /\ calls' = [calls EXCEPT ![e][s] = NoCall]
    BY <1>2 DEF Proceed
  <2>2. CallOK(NoCall, Committed', Sealed', Opened(e)')
    BY NoCallOK
  <2> QED BY <1>2, <2>1, <2>2, SetCallKeeps
<1>3. CASE c.pc \in {"ok", "failed"} /\ s = "awaited"
  <2>1. PICK x \in IF ~Live(e) THEN {Gone}
                   ELSE IF c.pc = "ok" THEN Succeeded(ex[e], c) ELSE {Broken(ex[e])} :
               Become(e, x)
    BY <1>3 DEF Proceed
  <2>2. ExecutorOK(ex[e], covered', Committed', Sealed')
    <3>1. ExecutorOK(ex[e], covered, Committed, Sealed)
      BY DEF WorkersOK
    <3> QED BY <3>1, <1>0, ExecutorStays DEF Grows
  <2>3. WaitOK(ex[e], calls[e]["awaited"])
    BY DEF WorkersOK
  <2>4. /\ ex[e].pc \in Request /\ c.kind = ex[e].pc
        /\ ex[e].pc = "groups" => c.set = IF StageOf(ex[e]) = "rest" THEN Rest(ex[e]) ELSE Handed(ex[e])
    BY <2>3, <1>3 DEF WaitOK
  <2>5. ExecutorOK(x, covered', Committed', Sealed')
    <3>1. CASE x = Gone
      BY <3>1, <1>0, NewKeeps
    <3>2. CASE x = Broken(ex[e])
      BY <3>2, <1>0, <2>2, <2>4, BrokenKeeps
    <3>3. CASE c.pc = "ok" /\ x \in Succeeded(ex[e], c)
      <4>1. c.count \in Nat
        BY DEF Call
      <4>2. ex[e].pc = "groups" =>
              /\ c.set = IF StageOf(ex[e]) = "rest" THEN Rest(ex[e]) ELSE Handed(ex[e])
              /\ c.set \subseteq Committed'
        BY <3>3, <2>4 DEF Fulfilled
      <4>3. ex[e].pc = "seal" => Sealed'
        BY <3>3, <2>4 DEF Fulfilled
      <4>4. ex[e].pc \in Request
        BY <2>4
      <4>5. x \in Succeeded(ex[e], c)
        BY <3>3
      <4> QED BY <4>1, <4>2, <4>3, <4>4, <4>5, <1>0, <2>2, SucceededKeeps
    <3> QED BY <3>1, <3>2, <3>3, <2>1, <1>3
  <2> QED BY <2>1, <2>5, BecomeKeeps
<1> QED BY <1>1, <1>2, <1>3

-----------------------------------------------------------------------------
(* The steps of the executors. *)

LEMMA GrowsSame ==
    ASSUME EvidenceInv, UNCHANGED <<groups, covered, sealed, fragments>>
    PROVE  Grows
<1>1. covered \in 0..PointCount /\ CommittedTo(covered, Committed)
  BY DEF EvidenceInv, EvidenceTypeOK, DurableOK
<1>2. Committed' = Committed /\ Sealed' = Sealed /\ \A e \in Segment : Opened(e)' = Opened(e)
  BY DEF Committed, Sealed, Opened
<1>3. covered <= covered'
  BY <1>1, ScheduleFacts
<1> QED BY <1>1, <1>2, <1>3 DEF Grows

\* What a fragment holds depends on the log.
LEMMA SameNamed ==
    ASSUME UNCHANGED <<log, sealed>>
    PROVE  Recs(RowsOf(sealed.seg))' = Recs(RowsOf(sealed.seg))
<1>1. RowsOf(sealed.seg)' = RowsOf(sealed.seg)
  BY DEF RowsOf
<1> QED BY <1>1 DEF Recs

LEMMA DurableSame ==
    ASSUME DurableOK, UNCHANGED durable
    PROVE  DurableOK'
BY SameNamed DEF DurableOK, durable, Committed, Sealed, GroupFromOneExecution, Projected, IndicesOf

\* A step of the workers alone.
LEMMA WorkersOnly ==
    ASSUME EvidenceInv, UNCHANGED <<durable, active, reaping>>, WorkersOK', mishaps' \in 0..MaxMishaps
    PROVE  EvidenceInv'
<1>1. DurableOK'
  BY DurableSame DEF EvidenceInv
<1>2. EvidenceTypeOK'
  BY DEF EvidenceInv, EvidenceTypeOK, WorkersOK, durable
<1> QED BY <1>1, <1>2 DEF EvidenceInv

LEMMA MishapCounts ==
    ASSUME EvidenceInv, Mishap
    PROVE  mishaps' \in 0..MaxMishaps
BY EvidenceAssumption DEF EvidenceInv, EvidenceTypeOK, Mishap

LEMMA ExecutorStepKeeps ==
    ASSUME EvidenceInv, NEW e \in Segment, ExecutorStep(e)
    PROVE  EvidenceInv'
<1>0. /\ EvidenceTypeOK /\ DurableOK /\ WorkersOK
      /\ covered \in 0..PointCount /\ covered \in Nat /\ mishaps \in 0..MaxMishaps
  BY ScheduleFacts DEF EvidenceInv, EvidenceTypeOK
<1>1. ExecutorOK(ex[e], covered, Committed, Sealed) /\ ex[e] \in Executor
  BY <1>0 DEF WorkersOK, ExecutorOK
<1>2. Committed \in SUBSET GroupIndex /\ Sealed \in BOOLEAN
  BY DEF Committed, Sealed
<1>3. ASSUME UNCHANGED durable PROVE Grows /\ covered' = covered /\ Committed' = Committed /\ Sealed' = Sealed
  BY <1>3, GrowsSame DEF durable, Committed, Sealed
<1>4. ASSUME NEW x, Become(e, x), ExecutorOK(x, covered, Committed, Sealed),
             UNCHANGED <<durable, active, reaping>>, mishaps' \in 0..MaxMishaps
      PROVE  EvidenceInv'
  <2>1. Grows /\ covered' = covered /\ Committed' = Committed /\ Sealed' = Sealed
    BY <1>3, <1>4
  <2>2. ExecutorOK(x, covered', Committed', Sealed')
    BY <2>1, <1>4
  <2>3. WorkersOK'
    BY <2>1, <2>2, <1>0, <1>4, BecomeKeeps
  <2> QED BY <2>3, <1>4, WorkersOnly
<1>5. mishaps' = mishaps => mishaps' \in 0..MaxMishaps
  BY <1>0
<1>6. CASE ReadCoverage(e)
  <2>1. /\ ex[e].pc = "new" /\ Become(e, Informed(ex[e], covered))
        /\ UNCHANGED <<durable, active, reaping>>
    BY <1>6 DEF ReadCoverage, Informed
  <2>2. mishaps' \in 0..MaxMishaps
    BY <1>6, <1>5, MishapCounts DEF ReadCoverage
  <2>3. IsDurableCut(covered)
    BY <1>0 DEF DurableOK
  <2>4. ExecutorOK(Informed(ex[e], covered), covered, Committed, Sealed)
    BY <2>1, <2>3, <1>0, <1>1, <1>2, ReadCoverageKeeps
  <2> QED BY <2>1, <2>2, <2>4, <1>4
<1>7. CASE ReadGroups(e)
  <2>1. /\ ex[e].pc = "reading" /\ Become(e, Ready(ex[e], Committed))
        /\ UNCHANGED <<durable, active, reaping>> /\ mishaps' = mishaps
    BY <1>7 DEF ReadGroups, Committed, Ready
  <2>2. ExecutorOK(Ready(ex[e], Committed), covered, Committed, Sealed)
    BY <2>1, <1>0, <1>1, <1>2, ReadGroupsKeeps
  <2> QED BY <2>1, <2>2, <1>4, <1>5
<1>8. CASE Begin(e)
  <2> PICK x : x = [ex[e] EXCEPT !.pc = "header"]
    OBVIOUS
  <2>1. /\ ex[e].pc = "ready" /\ Become(e, x) /\ run' = [state |-> "leased", seg |-> e]
        /\ UNCHANGED <<log, fragments, groups, selected, covered, sealed, active, reaping, mishaps>>
    BY <1>8 DEF Begin
  <2>2. ExecutorOK(x, covered, Committed, Sealed)
    BY <2>1, <1>0, <1>1, <1>2, BeginKeeps
  <2>3. Grows /\ Committed' = Committed /\ Sealed' = Sealed
    BY <2>1, GrowsSame DEF Committed, Sealed
  <2>4. ExecutorOK(x, covered', Committed', Sealed')
    BY <2>1, <2>2, <2>3
  <2>5. WorkersOK'
    BY <2>1, <2>3, <2>4, <1>0, BecomeKeeps
  <2>6. DurableOK'
    <3>1. Recs(RowsOf(sealed.seg))' = Recs(RowsOf(sealed.seg))
      BY <2>1, SameNamed
    <3>2. run'.state # "succeeded"
      BY <2>1
    <3> QED BY <2>1, <3>1, <3>2, <1>0 DEF DurableOK, Committed, Sealed, GroupFromOneExecution,
                                           Projected, IndicesOf
  <2>7. EvidenceTypeOK'
    BY <2>1, <2>5, <1>0 DEF EvidenceTypeOK, WorkersOK
  <2> QED BY <2>5, <2>6, <2>7 DEF EvidenceInv
<1>9. CASE Measure(e)
  <2> PICK y : y = Measured(ex[e], e)
    OBVIOUS
  <2>1. /\ ex[e].pc = "running" /\ ex[e].fault = "none" /\ Remaining(ex[e]) # {}
        /\ ex[e].sent = Len(ex[e].made)
        /\ \E z \in Accounted(y) \cup {From(y, 0)} : Become(e, z)
        /\ UNCHANGED <<durable, active, reaping>> /\ mishaps' = mishaps
    BY <1>9 DEF Measure, Measured, Taken, RecordsOf
  <2>2. PICK z \in Accounted(y) \cup {From(y, 0)} : Become(e, z)
    BY <2>1
  <2>3. ExecutorOK(z, covered, Committed, Sealed)
    BY <2>1, <1>0, <1>1, <1>2, MeasureKeeps
  <2> QED BY <2>1, <2>2, <2>3, <1>4, <1>5
<1>10. CASE Transfer(e)
  <2> PICK y : y = [ex[e] EXCEPT !.mode = "transfer"]
    OBVIOUS
  <2>1. /\ ex[e].pc = "running" /\ ex[e].fault = "none" /\ Become(e, From(y, 0))
        /\ UNCHANGED <<durable, active, reaping>> /\ mishaps' = mishaps
    <3>1. y.pc = ex[e].pc /\ y.fault = ex[e].fault
      BY <1>1 DEF Executor
    <3> QED BY <1>10, <3>1 DEF Transfer
  <2>2. ExecutorOK(From(y, 0), covered, Committed, Sealed)
    BY <2>1, <1>0, <1>1, <1>2, TransferKeeps
  <2> QED BY <2>1, <2>2, <1>4, <1>5
<1>11. CASE Stop(e)
  <2>1. ex[e].pc = "running" /\ UNCHANGED <<durable, active, reaping>> /\ mishaps' = mishaps
    BY <1>11 DEF Stop
  <2>2. WorkOK(ex[e], covered, Committed) /\ Accounts(ex[e])
    BY <2>1, <1>1 DEF ExecutorOK, MadeOK
  <2>3. CASE Become(e, Finish(ex[e]))
    <3>1. ExecutorOK(Finish(ex[e]), covered, Committed, Sealed)
      BY <2>2, <1>1, <1>2, FinishKeeps
    <3> QED BY <2>1, <2>3, <3>1, <1>4, <1>5
  <2>4. CASE ex[e].fault = "none" /\ Become(e, Finish([ex[e] EXCEPT !.fault = "effect"]))
    <3>1. Len(ex[e].made) = Counted(ex[e])
      BY <2>2, <2>4 DEF Accounts
    <3>2. ExecutorOK(Finish([ex[e] EXCEPT !.fault = "effect"]), covered, Committed, Sealed)
      BY <2>2, <3>1, <1>1, <1>2, FinishFaulty
    <3> QED BY <2>1, <2>4, <3>2, <1>4, <1>5
  <2> QED BY <1>11, <2>3, <2>4 DEF Stop
<1>12. CASE Lose(e)
  <2> PICK x : x = Broken(ex[e])
    OBVIOUS
  <2>1. /\ calls[e]["awaited"] # NoCall /\ calls[e]["lost"] = NoCall /\ Mishap
        /\ ex' = [ex EXCEPT ![e] = x]
        /\ calls' = [calls EXCEPT ![e]["awaited"] = RequestOf(x), ![e]["lost"] = calls[e]["awaited"]]
        /\ UNCHANGED <<durable, active, reaping>>
    BY <1>12 DEF Lose
  <2>2. calls \in [Segment -> [Slot -> Call]] /\ ex \in [Segment -> Executor]
    BY <1>0 DEF WorkersOK
  <2>3. ASSUME NEW f \in Segment, NEW s \in Slot
        PROVE  CallOK(calls[f][s], Committed, Sealed, Opened(f))
    BY <1>0 DEF WorkersOK
  <2>4. /\ WaitOK(ex[e], calls[e]["awaited"]) /\ "awaited" \in Slot
        /\ CallOK(calls[e]["awaited"], Committed, Sealed, Opened(e))
    BY <1>0, <2>3 DEF WorkersOK, Slot
  <2>5. ex[e].pc \in Request
    BY <2>1, <2>4 DEF WaitOK, CallOK
  <2>6. ExecutorOK(x, covered, Committed, Sealed)
    BY <2>5, <1>0, <1>1, <1>2, BrokenKeeps
  <2>7. CallOK(RequestOf(x), Committed, Sealed, Opened(e)) /\ WaitOK(x, RequestOf(x))
    <3>1. CommittedTo(covered, Committed)
      BY <1>0 DEF DurableOK
    <3> QED BY <2>6, <3>1, <1>0, <1>2, RequestKeeps
  <2>8. RequestOf(x) \in Call /\ x \in Executor
    BY <2>6, <2>7 DEF CallOK, ExecutorOK
  <2>9. \A f \in Segment, s \in Slot :
          calls'[f][s] = IF f # e THEN calls[f][s] ELSE IF s = "awaited" THEN RequestOf(x)
                         ELSE IF s = "lost" THEN calls[e]["awaited"] ELSE calls[f][s]
    BY <2>1, <2>2 DEF Slot
  <2>10. calls' \in [Segment -> [Slot -> Call]] /\ ex' \in [Segment -> Executor]
    BY <2>1, <2>2, <2>4, <2>8 DEF Slot
  <2>11. /\ covered' = covered /\ Committed' = Committed /\ Sealed' = Sealed
         /\ \A f \in Segment : Opened(f)' = Opened(f)
    BY <2>1 DEF durable, Committed, Sealed, Opened
  <2>12. ASSUME NEW f \in Segment PROVE ExecutorOK(ex'[f], covered', Committed', Sealed')
    <3>1. ex'[f] = IF f = e THEN x ELSE ex[f]
      BY <2>1, <2>2
    <3>2. ExecutorOK(ex[f], covered, Committed, Sealed)
      BY <1>0 DEF WorkersOK
    <3> QED BY <3>1, <3>2, <2>6, <2>11
  <2>13. ASSUME NEW f \in Segment, NEW s \in Slot
         PROVE  CallOK(calls'[f][s], Committed', Sealed', Opened(f)')
    <3>1. CallOK(calls'[f][s], Committed, Sealed, Opened(f))
      BY <2>3, <2>4, <2>7, <2>9
    <3> QED BY <3>1, <2>11
  <2>14. ASSUME NEW f \in Segment PROVE WaitOK(ex'[f], calls'[f]["awaited"])
    <3>1. /\ ex'[f] = IF f = e THEN x ELSE ex[f]
          /\ calls'[f]["awaited"] = IF f = e THEN RequestOf(x) ELSE calls[f]["awaited"]
      BY <2>1, <2>2, <2>4, <2>9
    <3>2. WaitOK(ex[f], calls[f]["awaited"])
      BY <1>0 DEF WorkersOK
    <3> QED BY <3>1, <3>2, <2>7
  <2>15. WorkersOK'
    BY <2>10, <2>12, <2>13, <2>14 DEF WorkersOK
  <2>16. mishaps' \in 0..MaxMishaps
    BY <2>1, MishapCounts
  <2> QED BY <2>1, <2>15, <2>16, WorkersOnly
<1> QED BY <1>6, <1>7, <1>8, <1>9, <1>10, <1>11, <1>12 DEF ExecutorStep

-----------------------------------------------------------------------------
(* The steps of the daemon that leave the tables alone. *)

Buffer == [seg : Segment \cup {NoSegment}, received : Nat, durable : Nat, pending : Seq(Record)]

LEMMA BufferOnly ==
    ASSUME EvidenceInv, UNCHANGED <<durable, mishaps>>, reaping' \in BOOLEAN, WorkersOK',
           active' \in Buffer
    PROVE  EvidenceInv'
<1>1. DurableOK'
  BY DurableSame DEF EvidenceInv
<1>2. EvidenceTypeOK'
  BY DEF EvidenceInv, EvidenceTypeOK, WorkersOK, durable, Buffer
<1> QED BY <1>1, <1>2 DEF EvidenceInv

LEMMA NoBufferTyped == NoBuffer \in Buffer
BY DEF NoBuffer, Buffer, NoSegment

\* The points a request may get to, and what must hold there.
StepOK(c, pc, fin, h) ==
    /\ pc \in {"checked", "flushing", "taken", "appended", "stored"}
    /\ c.kind = "header" /\ pc = "stored" => h
    /\ c.kind = "seal" => c.by # NoSegment
    /\ c.kind = "seal" /\ pc = "stored" => fin
    /\ pc \in {"flushing", "taken", "appended"} =>
          c.by # NoSegment /\ c.kind \in {"ingest", "flush", "retain"}

LEMMA StepKeeps ==
    ASSUME NEW c, NEW C, NEW fin, NEW h, CallOK(c, C, fin, h), c.kind # "none",
           NEW pc, StepOK(c, pc, fin, h)
    PROVE  CallOK([c EXCEPT !.pc = pc], C, fin, h)
<1> PICK d : d = [c EXCEPT !.pc = pc]
  OBVIOUS
<1>1. c \in Call
  BY DEF CallOK
<1>2. /\ d \in Call /\ d.pc = pc /\ d.kind = c.kind /\ d.by = c.by /\ d.set = c.set
      /\ d.count = c.count
  BY <1>1 DEF Call, StepOK
<1>3. CallOK(d, C, fin, h)
  BY <1>2 DEF CallOK, StepOK
<1> QED BY <1>3

LEMMA GotoKeeps ==
    ASSUME WorkersOK, Grows, NEW e \in Segment, NEW s \in Slot, NEW pc, Goto(e, s, pc),
           calls[e][s].kind # "none",
           \/ StepOK(calls[e][s], pc, Sealed', Opened(e)')
           \/ pc = "ok" /\ Fulfilled(calls[e][s], Committed', Sealed')
           \/ pc = "failed"
    PROVE  WorkersOK'
<1> PICK c : c = calls[e][s]
  OBVIOUS
<1> PICK d : d = [c EXCEPT !.pc = pc]
  OBVIOUS
<1>1. CallOK(c, Committed, Sealed, Opened(e)) /\ c \in Call
  BY DEF WorkersOK, CallOK
<1>2. CallOK(c, Committed', Sealed', Opened(e)')
  BY <1>1, CallStays DEF Grows
<1>3. pc \in {"checked", "flushing", "taken", "appended", "stored", "ok", "failed"}
  BY DEF StepOK
<1>4. d \in Call /\ d.pc = pc /\ d.kind = c.kind /\ d.set = c.set
  BY <1>1, <1>3 DEF Call
<1>5. Proceed(e, s, d)
  BY DEF Goto
<1>6. d.pc \notin {"ok", "failed"} => CallOK(d, Committed', Sealed', Opened(e)')
  BY <1>2, <1>4, StepKeeps
<1>7. d.pc = "ok" => Fulfilled(d, Committed', Sealed')
  BY <1>4 DEF Fulfilled, StepOK
<1> QED BY <1>4, <1>5, <1>6, <1>7, ProceedKeeps

LEMMA RequireKeeps ==
    ASSUME WorkersOK, Grows, NEW e \in Segment, NEW s \in Slot, NEW pc, NEW guard \in BOOLEAN,
           Require(guard, e, s, pc), calls[e][s].kind # "none",
           guard => \/ StepOK(calls[e][s], pc, Sealed', Opened(e)')
                    \/ pc = "ok" /\ Fulfilled(calls[e][s], Committed', Sealed')
    PROVE  WorkersOK'
<1>1. CASE guard
  <2>1. Goto(e, s, pc)
    BY <1>1 DEF Require
  <2> QED BY <1>1, <2>1, GotoKeeps
<1>2. CASE ~ guard
  <2>1. Goto(e, s, "failed")
    BY <1>2 DEF Require
  <2> QED BY <2>1, GotoKeeps
<1> QED BY <1>1, <1>2

\* What the steps of a request rely on.
LEMMA AtWorkers ==
    ASSUME EvidenceInv, NEW e \in Segment, NEW s \in Slot
    PROVE  /\ WorkersOK /\ DurableOK /\ EvidenceTypeOK /\ active \in Buffer
           /\ calls[e][s] \in Call
           /\ CallOK(calls[e][s], Committed, Sealed, Opened(e))
BY DEF EvidenceInv, EvidenceTypeOK, WorkersOK, Buffer, CallOK

LEMMA InitializeKeeps ==
    ASSUME EvidenceInv, NEW e \in Segment, NEW s \in Slot, Initialize(e, s)
    PROVE  EvidenceInv'
<1>0. /\ WorkersOK /\ DurableOK /\ EvidenceTypeOK /\ active \in Buffer
      /\ CallOK(calls[e][s], Committed, Sealed, Opened(e))
  BY AtWorkers
<1>1. /\ calls[e][s].kind = "header" /\ calls[e][s].pc = "stored" /\ Goto(e, s, "ok")
      /\ UNCHANGED <<durable, reaping, mishaps>>
  BY DEF Initialize, At
<1>2. Grows
  BY <1>1, GrowsSame DEF durable
<1>3. Fulfilled(calls[e][s], Committed', Sealed')
  BY <1>1 DEF Fulfilled
<1>4. WorkersOK'
  BY <1>0, <1>1, <1>2, <1>3, GotoKeeps
<1>5. fragments[e] \in Nat
  BY <1>0, <1>1 DEF CallOK, Opened, EvidenceTypeOK
<1>6. active' \in Buffer
  BY <1>0, <1>5 DEF Initialize, Buffer
<1>7. reaping' \in BOOLEAN
  BY <1>0, <1>1 DEF EvidenceTypeOK
<1> QED BY <1>1, <1>4, <1>6, <1>7, BufferOnly

LEMMA CheckSegmentKeeps ==
    ASSUME EvidenceInv, NEW e \in Segment, NEW s \in Slot, CheckSegment(e, s)
    PROVE  EvidenceInv'
<1>0. WorkersOK /\ EvidenceTypeOK /\ active \in Buffer
  BY AtWorkers
<1>1. /\ calls[e][s].kind \in {"ingest", "flush"}
      /\ Require(Live(e) /\ active.seg = e, e, s, "checked")
      /\ UNCHANGED <<durable, active, reaping, mishaps>>
  BY DEF CheckSegment, At
<1>2. Grows
  BY <1>1, GrowsSame DEF durable
<1>3. StepOK(calls[e][s], "checked", Sealed', Opened(e)')
  BY <1>1 DEF StepOK
<1>4. (Live(e) /\ active.seg = e) \in BOOLEAN
  BY DEF Live
<1>5. WorkersOK'
  BY <1>0, <1>1, <1>2, <1>3, <1>4, RequireKeeps
<1>6. active' \in Buffer /\ reaping' \in BOOLEAN
  BY <1>0, <1>1 DEF EvidenceTypeOK
<1> QED BY <1>1, <1>5, <1>6, BufferOnly

LEMMA ReceiveKeeps ==
    ASSUME EvidenceInv, NEW e \in Segment, NEW s \in Slot, Receive(e, s)
    PROVE  EvidenceInv'
<1>0. WorkersOK /\ EvidenceTypeOK /\ active \in Buffer /\ calls[e][s] \in Call
  BY AtWorkers
<1> DEFINE call == calls[e][s]
           next == active.seg # NoSegment /\ call.start = active.received
<1>1. /\ calls[e][s].kind = "ingest" /\ Require(next, e, s, "stored")
      /\ UNCHANGED <<durable, reaping, mishaps>>
  BY DEF Receive, At
<1>2. Grows
  BY <1>1, GrowsSame DEF durable
<1>3. StepOK(calls[e][s], "stored", Sealed', Opened(e)')
  BY <1>1 DEF StepOK
<1>4. next \in BOOLEAN
  OBVIOUS
<1>5. WorkersOK'
  <2> HIDE DEF next
  <2> QED BY <1>0, <1>1, <1>2, <1>3, <1>4, RequireKeeps
<1>6. active' \in Buffer
  <2>1. CASE next
    <3>1. active' = [active EXCEPT !.pending = @ \o call.recs, !.received = @ + Len(call.recs)]
      BY <2>1 DEF Receive
    <3>2. call.recs \in Seq(Record) /\ active.pending \in Seq(Record) /\ active.received \in Nat
      BY <1>0 DEF Buffer, Call
    <3>3. active.pending \o call.recs \in Seq(Record) /\ active.received + Len(call.recs) \in Nat
      BY <3>2, Appended
    <3> QED BY <3>1, <3>3, <1>0 DEF Buffer
  <2>2. CASE ~ next
    BY <2>2, <1>0 DEF Receive
  <2> QED BY <2>1, <2>2
<1>7. reaping' \in BOOLEAN
  BY <1>0, <1>1 DEF EvidenceTypeOK
<1> QED BY <1>1, <1>5, <1>6, <1>7, BufferOnly

LEMMA StartFlushKeeps ==
    ASSUME EvidenceInv, NEW e \in Segment, NEW s \in Slot, StartFlush(e, s)
    PROVE  EvidenceInv'
<1>0. /\ WorkersOK /\ EvidenceTypeOK /\ active \in Buffer
      /\ CallOK(calls[e][s], Committed, Sealed, Opened(e)) /\ calls[e][s] \in Call
  BY AtWorkers
<1>1. calls[e][s].kind \in {"ingest", "flush", "retain"} /\ UNCHANGED <<durable, active, reaping, mishaps>>
  BY DEF StartFlush, At
<1>2. Grows
  BY <1>1, GrowsSame DEF durable
<1>3. CASE active.seg = NoSegment
  <2>1. Goto(e, s, "failed")
    BY <1>3 DEF StartFlush
  <2>2. WorkersOK'
    BY <2>1, <1>0, <1>1, <1>2, GotoKeeps
  <2>3. active' \in Buffer /\ reaping' \in BOOLEAN
    BY <1>0, <1>1 DEF EvidenceTypeOK
  <2> QED BY <1>1, <2>2, <2>3, BufferOnly
<1>4. CASE active.seg # NoSegment
  <2> PICK c : c = calls[e][s]
    OBVIOUS
  <2> PICK d : d = [c EXCEPT !.pc = "flushing", !.by = active.seg]
    OBVIOUS
  <2>1. Proceed(e, s, d)
    BY <1>4 DEF StartFlush
  <2>2. active.seg \in Segment /\ active.seg \in Nat
    BY <1>4, <1>0 DEF Buffer, Segment, NoSegment
  <2>3. /\ d \in Call /\ d.pc = "flushing" /\ d.by = active.seg /\ d.kind = c.kind
        /\ d.set = c.set
    BY <1>0, <2>2 DEF Call
  <2>4. CallOK(d, Committed', Sealed', Opened(e)')
    BY <2>2, <2>3, <1>1, <1>4 DEF CallOK
  <2>5. /\ d.pc \notin {"ok", "failed"} => CallOK(d, Committed', Sealed', Opened(e)')
        /\ d.pc = "ok" => Fulfilled(d, Committed', Sealed')
    BY <2>3, <2>4
  <2>6. WorkersOK'
    BY <2>1, <2>3, <2>5, <1>0, <1>1, <1>2, ProceedKeeps
  <2>7. active' \in Buffer /\ reaping' \in BOOLEAN
    BY <1>0, <1>1 DEF EvidenceTypeOK
  <2> QED BY <1>1, <2>6, <2>7, BufferOnly
<1> QED BY <1>3, <1>4

\* A chunk is the beginning of what is pending.
LEMMA ChunkIsPending ==
    ASSUME NEW pending \in Seq(Record)
    PROVE  SubSeq(pending, 1, Min({ChunkLimit, Len(pending)})) \in Seq(Record)
<1>1. ChunkLimit \in Nat /\ Len(pending) \in Nat
  BY EvidenceAssumption
<1>2. PICK m : m = Min({ChunkLimit, Len(pending)})
  OBVIOUS
<1>3. m \in {ChunkLimit, Len(pending)} /\ m <= Len(pending)
  <2> DEFINE S == {ChunkLimit, Len(pending)}
  <2>1. S \subseteq Nat /\ S # {} /\ Len(pending) \in S
    BY <1>1
  <2>2. m = Min(S)
    BY <1>2
  <2>3. m \in S /\ \A y \in S : m <= y
    <3> HIDE DEF S
    <3> QED BY <2>1, <2>2, MinNat
  <2> QED BY <2>1, <2>3
<1>4. m \in Int /\ 1 \in Int
  BY <1>1, <1>3
<1>5. \A i \in 1..m : pending[i] \in Record
  <2> TAKE i \in 1..m
  <2>1. i \in 1..Len(pending)
    BY <1>1, <1>3, <1>4
  <2> QED BY <2>1, ElementOfSeq
<1>6. SubSeq(pending, 1, m) \in Seq(Record)
  BY <1>4, <1>5, SubSeqProperties
<1> QED BY <1>2, <1>6

LEMMA TakeChunkKeeps ==
    ASSUME EvidenceInv, NEW e \in Segment, NEW s \in Slot, TakeChunk(e, s)
    PROVE  EvidenceInv'
<1>0. /\ WorkersOK /\ EvidenceTypeOK /\ active \in Buffer
      /\ CallOK(calls[e][s], Committed, Sealed, Opened(e)) /\ calls[e][s] \in Call
  BY AtWorkers
<1> PICK c : c = calls[e][s]
  OBVIOUS
<1> PICK chunk : chunk = SubSeq(active.pending, 1, Min({ChunkLimit, Len(active.pending)}))
  OBVIOUS
<1>1. c.pc = "flushing" /\ UNCHANGED <<durable, active, reaping, mishaps>>
  BY DEF TakeChunk
<1>2. c.by # NoSegment /\ c.by \in Segment \cup {NoSegment} /\ c.kind \in {"ingest", "flush", "retain"}
  BY <1>0, <1>1 DEF CallOK
<1>3. Grows
  BY <1>1, GrowsSame DEF durable
<1>4. \/ Proceed(e, s, [c EXCEPT !.pc = "taken", !.recs = chunk])
      \/ Require(active.seg # NoSegment, e, s, "ok")
  BY DEF TakeChunk
<1>5. CASE Proceed(e, s, [c EXCEPT !.pc = "taken", !.recs = chunk])
  <2> PICK d : d = [c EXCEPT !.pc = "taken", !.recs = chunk]
    OBVIOUS
  <2>1. chunk \in Seq(Record)
    BY <1>0, ChunkIsPending DEF Buffer
  <2>2. /\ d \in Call /\ d.pc = "taken" /\ d.by = c.by /\ d.kind = c.kind
        /\ d.set = c.set
    BY <1>0, <2>1 DEF Call
  <2>3. CallOK(d, Committed', Sealed', Opened(e)')
    BY <2>2, <1>2 DEF CallOK
  <2>4. /\ d.pc \notin {"ok", "failed"} => CallOK(d, Committed', Sealed', Opened(e)')
        /\ d.pc = "ok" => Fulfilled(d, Committed', Sealed')
    BY <2>2, <2>3
  <2>5. Proceed(e, s, d) /\ calls[e][s].kind # "none"
    BY <1>2, <1>5
  <2>6. WorkersOK'
    BY <2>2, <2>4, <2>5, <1>0, <1>3, ProceedKeeps
  <2>7. active' \in Buffer /\ reaping' \in BOOLEAN
    BY <1>0, <1>1 DEF EvidenceTypeOK
  <2> QED BY <1>1, <2>6, <2>7, BufferOnly
<1>6. CASE Require(active.seg # NoSegment, e, s, "ok")
  <2>1. Fulfilled(calls[e][s], Committed', Sealed')
    BY <1>2 DEF Fulfilled
  <2>2. (active.seg # NoSegment) \in BOOLEAN /\ calls[e][s].kind # "none"
    BY <1>2
  <2>3. WorkersOK'
    BY <2>1, <2>2, <1>0, <1>3, <1>6, RequireKeeps
  <2>4. active' \in Buffer /\ reaping' \in BOOLEAN
    BY <1>0, <1>1 DEF EvidenceTypeOK
  <2> QED BY <1>1, <2>3, <2>4, BufferOnly
<1> QED BY <1>4, <1>5, <1>6

LEMMA CommitChunkKeeps ==
    ASSUME EvidenceInv, NEW e \in Segment, NEW s \in Slot, CommitChunk(e, s)
    PROVE  EvidenceInv'
<1>0. /\ WorkersOK /\ EvidenceTypeOK /\ active \in Buffer
      /\ CallOK(calls[e][s], Committed, Sealed, Opened(e)) /\ calls[e][s] \in Call
  BY AtWorkers
<1> PICK c : c = calls[e][s]
  OBVIOUS
<1> PICK prefix \in BOOLEAN : prefix = (active.seg # NoSegment /\ IsPrefix(c.recs, active.pending))
  OBVIOUS
<1>1. /\ c.pc = "appended" /\ UNCHANGED <<durable, reaping, mishaps>>
      /\ Require(prefix, e, s, "flushing")
  BY DEF CommitChunk
<1>2. c.by # NoSegment /\ c.kind \in {"ingest", "flush", "retain"}
  BY <1>0, <1>1 DEF CallOK
<1>3. Grows
  BY <1>1, GrowsSame DEF durable
<1>4. StepOK(calls[e][s], "flushing", Sealed', Opened(e)') /\ calls[e][s].kind # "none"
  BY <1>2 DEF StepOK
<1>5. WorkersOK'
  BY <1>0, <1>1, <1>3, <1>4, RequireKeeps
<1>6. active' \in Buffer
  <2>1. CASE prefix
    <3>1. active' = [active EXCEPT !.durable = @ + Len(c.recs),
                           !.pending = SubSeq(@, Len(c.recs) + 1, Len(@))]
      BY <2>1 DEF CommitChunk
    <3>2. c.recs \in Seq(Record) /\ active.pending \in Seq(Record) /\ active.durable \in Nat
      BY <1>0 DEF Buffer, Call
    <3>3. Len(c.recs) \in Nat /\ Len(active.pending) \in Nat
      BY <3>2
    <3>4. SubSeq(active.pending, Len(c.recs) + 1, Len(active.pending)) \in Seq(Record)
      <4>1. \A i \in (Len(c.recs) + 1)..Len(active.pending) : active.pending[i] \in Record
        BY <3>2, <3>3
      <4>2. Len(c.recs) + 1 \in Int /\ Len(active.pending) \in Int
        BY <3>3
      <4> QED BY <4>1, <4>2, SubSeqProperties
    <3>5. active.durable + Len(c.recs) \in Nat
      BY <3>2, <3>3
    <3> QED BY <3>1, <3>4, <3>5, <1>0 DEF Buffer
  <2>2. CASE ~ prefix
    BY <2>2, <1>0 DEF CommitChunk
  <2> QED BY <2>1, <2>2
<1>7. reaping' \in BOOLEAN
  BY <1>0, <1>1 DEF EvidenceTypeOK
<1> QED BY <1>1, <1>5, <1>6, <1>7, BufferOnly

LEMMA CheckFlushedKeeps ==
    ASSUME EvidenceInv, NEW e \in Segment, NEW s \in Slot, CheckFlushed(e, s)
    PROVE  EvidenceInv'
<1>0. /\ WorkersOK /\ EvidenceTypeOK /\ active \in Buffer
      /\ CallOK(calls[e][s], Committed, Sealed, Opened(e)) /\ calls[e][s] \in Call
  BY AtWorkers
<1> PICK c : c = calls[e][s]
  OBVIOUS
<1>1. c.kind = "seal" /\ c.pc = "sent" /\ UNCHANGED <<durable, active, reaping, mishaps>>
  BY DEF CheckFlushed, At
<1>2. Grows
  BY <1>1, GrowsSame DEF durable
<1>3. active' \in Buffer /\ reaping' \in BOOLEAN
  BY <1>0, <1>1 DEF EvidenceTypeOK
<1>4. CASE active.seg # NoSegment /\ active.received = active.durable
  <2> PICK d : d = [c EXCEPT !.pc = "checked", !.by = active.seg]
    OBVIOUS
  <2>1. Proceed(e, s, d)
    BY <1>4 DEF CheckFlushed
  <2>2. active.seg \in Segment /\ active.seg \in Nat
    BY <1>4, <1>0 DEF Buffer, Segment, NoSegment
  <2>3. /\ d \in Call /\ d.pc = "checked" /\ d.by = active.seg /\ d.kind = c.kind
        /\ d.set = c.set /\ d.count = c.count
    BY <1>0, <2>2 DEF Call
  <2>4. CallOK(d, Committed, Sealed, Opened(e))
    BY <2>2, <2>3, <1>0, <1>1, <1>4 DEF CallOK
  <2>5. CallOK(d, Committed', Sealed', Opened(e)')
    BY <2>4, <1>2, CallStays DEF Grows
  <2>6. /\ d.pc \notin {"ok", "failed"} => CallOK(d, Committed', Sealed', Opened(e)')
        /\ d.pc = "ok" => Fulfilled(d, Committed', Sealed')
    BY <2>3, <2>5
  <2>7. calls[e][s].kind # "none"
    BY <1>1
  <2>8. WorkersOK'
    BY <2>1, <2>3, <2>6, <2>7, <1>0, <1>2, ProceedKeeps
  <2> QED BY <1>1, <1>3, <2>8, BufferOnly
<1>5. CASE ~ (active.seg # NoSegment /\ active.received = active.durable)
  <2>1. Goto(e, s, "failed") /\ calls[e][s].kind # "none"
    BY <1>1, <1>5 DEF CheckFlushed
  <2>2. WorkersOK'
    BY <2>1, <1>0, <1>2, GotoKeeps
  <2> QED BY <1>1, <1>3, <2>2, BufferOnly
<1> QED BY <1>4, <1>5

LEMMA ClearBufferKeeps ==
    ASSUME EvidenceInv, NEW e \in Segment, NEW s \in Slot, ClearBuffer(e, s)
    PROVE  EvidenceInv'
<1>0. /\ WorkersOK /\ EvidenceTypeOK
      /\ CallOK(calls[e][s], Committed, Sealed, Opened(e))
  BY AtWorkers
<1>1. /\ calls[e][s].kind \in {"seal", "success", "failure"} /\ calls[e][s].pc = "stored"
      /\ active' = NoBuffer /\ Goto(e, s, "ok") /\ UNCHANGED <<durable, reaping, mishaps>>
  BY DEF ClearBuffer, At
<1>2. Grows
  BY <1>1, GrowsSame DEF durable
<1>3. Fulfilled(calls[e][s], Committed', Sealed')
  BY <1>0, <1>1, <1>2 DEF Fulfilled, CallOK, Grows
<1>4. WorkersOK'
  BY <1>0, <1>1, <1>2, <1>3, GotoKeeps
<1>5. active' \in Buffer /\ reaping' \in BOOLEAN
  BY <1>0, <1>1, NoBufferTyped DEF EvidenceTypeOK
<1> QED BY <1>1, <1>4, <1>5, BufferOnly

-----------------------------------------------------------------------------
(* The steps of the daemon that write a table. *)

LEMMA HeaderKeeps ==
    ASSUME EvidenceInv, NEW e \in Segment, NEW s \in Slot, Header(e, s)
    PROVE  EvidenceInv'
<1>0. /\ WorkersOK /\ EvidenceTypeOK /\ DurableOK
      /\ CallOK(calls[e][s], Committed, Sealed, Opened(e)) /\ calls[e][s] \in Call
  BY AtWorkers
<1> PICK c : c = calls[e][s]
  OBVIOUS
<1>1. /\ c.kind = "header" /\ c.pc = "sent"
      /\ UNCHANGED <<run, log, groups, selected, covered, sealed, active, reaping, mishaps>>
  BY DEF Header, At
<1>2. Len(log) \in Nat
  BY <1>0 DEF EvidenceTypeOK
<1>3. /\ fragments' \in [Segment -> Nat \cup {-1}]
      /\ \A f \in Segment : fragments[f] # -1 => fragments'[f] # -1
      /\ Live(e) => fragments'[e] # -1
  <2>1. CASE Live(e)
    <3>1. fragments' = [fragments EXCEPT ![e] = IF @ = -1 THEN Len(log) ELSE @]
      BY <2>1 DEF Header
    <3> QED BY <3>1, <1>0, <1>2 DEF EvidenceTypeOK
  <2>2. CASE ~ Live(e)
    BY <2>2, <1>0 DEF Header, EvidenceTypeOK
  <2> QED BY <2>1, <2>2
<1>4. Grows
  <2>1. covered \in 0..PointCount /\ CommittedTo(covered, Committed)
    BY <1>0 DEF EvidenceTypeOK, DurableOK
  <2>2. Committed' = Committed /\ Sealed' = Sealed
    BY <1>1 DEF Committed, Sealed
  <2>3. covered <= covered'
    BY <1>1, <2>1, ScheduleFacts
  <2> QED BY <1>1, <1>3, <2>1, <2>2, <2>3 DEF Grows, Opened
<1>5. WorkersOK'
  <2>1. CASE Live(e)
    <3> PICK d : d = [c EXCEPT !.pc = "stored", !.count = Len(log)]
      OBVIOUS
    <3>1. Proceed(e, s, d)
      BY <2>1 DEF Header
    <3>2. /\ d \in Call /\ d.pc = "stored" /\ d.kind = "header" /\ d.by = c.by /\ d.set = c.set
      BY <1>0, <1>1, <1>2 DEF Call
    <3>3. Opened(e)'
      BY <1>3, <2>1 DEF Opened
    <3>4. CallOK(d, Committed', Sealed', Opened(e)')
      BY <3>2, <3>3, <1>0 DEF CallOK
    <3>5. /\ d.pc \notin {"ok", "failed"} => CallOK(d, Committed', Sealed', Opened(e)')
          /\ d.pc = "ok" => Fulfilled(d, Committed', Sealed')
      BY <3>2, <3>4
    <3>6. calls[e][s].kind # "none" /\ d.kind = calls[e][s].kind /\ d.set = calls[e][s].set
      BY <1>1, <3>2
    <3> QED BY <3>1, <3>2, <3>5, <3>6, <1>0, <1>4, ProceedKeeps
  <2>2. CASE ~ Live(e)
    <3>1. Goto(e, s, "failed") /\ calls[e][s].kind # "none"
      BY <2>2, <1>1 DEF Header
    <3> QED BY <3>1, <1>0, <1>4, GotoKeeps
  <2> QED BY <2>1, <2>2
<1>6. DurableOK'
  BY <1>0, <1>1, SameNamed DEF DurableOK, Committed, Sealed, GroupFromOneExecution, Projected, IndicesOf
<1>7. EvidenceTypeOK'
  BY <1>0, <1>1, <1>3, <1>5 DEF EvidenceTypeOK, WorkersOK
<1> QED BY <1>5, <1>6, <1>7 DEF EvidenceInv

LEMMA TerminalKeeps ==
    ASSUME EvidenceInv, NEW e \in Segment, NEW s \in Slot, Terminal(e, s)
    PROVE  EvidenceInv'
<1>0. /\ WorkersOK /\ EvidenceTypeOK /\ DurableOK
      /\ CallOK(calls[e][s], Committed, Sealed, Opened(e)) /\ calls[e][s] \in Call
  BY AtWorkers
<1> PICK c : c = calls[e][s]
  OBVIOUS
<1>1. PICK outcome \in {"success", "failure"} :
        /\ c.kind = outcome
        /\ run' = IF Live(e) /\ (outcome = "success" => covered = PointCount)
                  THEN [run EXCEPT !.state = IF outcome = "success" THEN "succeeded" ELSE "closed"]
                  ELSE run
        /\ Require(Live(e) /\ (outcome = "success" => covered = PointCount), e, s, "stored")
        /\ UNCHANGED <<log, fragments, groups, selected, covered, sealed, active, reaping, mishaps>>
  BY DEF Terminal, At
<1> PICK valid \in BOOLEAN : valid = (Live(e) /\ (outcome = "success" => covered = PointCount))
  OBVIOUS
<1>2. Grows
  BY <1>1, GrowsSame
<1>3. StepOK(calls[e][s], "stored", Sealed', Opened(e)') /\ calls[e][s].kind # "none"
  BY <1>1 DEF StepOK
<1>4. WorkersOK'
  BY <1>0, <1>1, <1>2, <1>3, RequireKeeps
<1>5. /\ run' \in [state : {"queued", "leased", "attention", "closed", "succeeded"},
                   seg : Segment \cup {NoSegment}]
      /\ run'.state = "succeeded" => (outcome = "success" /\ covered = PointCount) \/ run' = run
  BY <1>0, <1>1 DEF EvidenceTypeOK
<1>6. c.kind = "success" => Sealed
  BY <1>0 DEF CallOK
<1>7. run'.state = "succeeded" => Sealed /\ covered = PointCount
  BY <1>0, <1>1, <1>5, <1>6 DEF DurableOK
<1>8. DurableOK'
  BY <1>0, <1>1, <1>7, SameNamed DEF DurableOK, Committed, Sealed, GroupFromOneExecution, Projected, IndicesOf
<1>9. EvidenceTypeOK'
  BY <1>0, <1>1, <1>4, <1>5 DEF EvidenceTypeOK, WorkersOK
<1> QED BY <1>4, <1>8, <1>9 DEF EvidenceInv

\* An append leaves the rows that are there, and what has been selected of them.
LEMMA LogGrows ==
    ASSUME EvidenceTypeOK, NEW rows \in Seq(Row), log' = log \o rows, selected' = selected
    PROVE  /\ log' \in Seq(Row) /\ selected' \in [Point -> 0..Len(log')]
           /\ \A p \in Point : selected[p] # 0 => log'[selected[p]] = log[selected[p]]
<1>1. log \in Seq(Row) /\ selected \in [Point -> 0..Len(log)] /\ Len(log) \in Nat /\ Len(rows) \in Nat
  BY DEF EvidenceTypeOK
<1>2. /\ log \o rows \in Seq(Row) /\ Len(log \o rows) = Len(log) + Len(rows)
      /\ \A i \in 1..Len(log) : (log \o rows)[i] = log[i]
  BY <1>1, Appended
<1> PICK new : new = log \o rows
  OBVIOUS
<1>3. /\ log' = new /\ new \in Seq(Row) /\ Len(new) = Len(log) + Len(rows)
      /\ \A i \in 1..Len(log) : new[i] = log[i]
  BY <1>2
<1>4. \A p \in Point : selected[p] \in 0..Len(log)
  BY <1>1
<1>5. \A p \in Point : selected[p] \in 0..Len(new) /\ (selected[p] # 0 => selected[p] \in 1..Len(log))
  BY <1>1, <1>3, <1>4
<1>6. selected \in [Point -> 0..Len(new)]
  BY <1>1, <1>5
<1> QED BY <1>3, <1>5, <1>6

LEMMA AppendChunkKeeps ==
    ASSUME EvidenceInv, NEW e \in Segment, NEW s \in Slot, AppendChunk(e, s)
    PROVE  EvidenceInv'
<1>0. /\ WorkersOK /\ EvidenceTypeOK /\ DurableOK /\ active \in Buffer
      /\ CallOK(calls[e][s], Committed, Sealed, Opened(e)) /\ calls[e][s] \in Call
  BY AtWorkers
<1> PICK c : c = calls[e][s]
  OBVIOUS
<1> PICK rows : rows = [i \in 1..Len(c.recs) |->
                           [rec |-> c.recs[i], by |-> c.by, start |-> active.durable]]
  OBVIOUS
<1>1. /\ c.pc = "taken"
      /\ UNCHANGED <<run, fragments, groups, selected, covered, sealed, active, reaping, mishaps>>
      /\ \/ log' = log
         \/ log' = log \o rows /\ sealed = NotSealed
      /\ \E guard \in BOOLEAN : Require(guard, e, s, "appended")
  <2> DEFINE existing == RowsFrom(active.durable)
             known == existing # <<>> /\ Recs(existing) = c.recs /\ existing[1].by = c.by
             next == /\ existing = <<>> /\ sealed = NotSealed
                     /\ fragments[c.by] # -1 /\ active.durable = Len(log)
             ok == active.seg # NoSegment /\ Live(e)
  <2>1. /\ c.pc = "taken"
        /\ UNCHANGED <<run, fragments, groups, selected, covered, sealed, active, reaping, mishaps>>
        /\ log' = IF ok /\ next THEN log \o rows ELSE log
        /\ Require(ok /\ (known \/ next), e, s, "appended")
    BY DEF AppendChunk
  <2>2. (ok /\ (known \/ next)) \in BOOLEAN
    OBVIOUS
  <2>3. ok /\ next => sealed = NotSealed
    OBVIOUS
  <2> HIDE DEF ok, next, known
  <2> QED BY <2>1, <2>2, <2>3
<1>2. c.by # NoSegment /\ c.by \in Segment /\ c.kind \in {"ingest", "flush", "retain"}
  BY <1>0, <1>1 DEF CallOK
<1>3. Grows
  BY <1>1, GrowsSame
<1>4. StepOK(calls[e][s], "appended", Sealed', Opened(e)') /\ calls[e][s].kind # "none"
  BY <1>2 DEF StepOK
<1>5. WorkersOK'
  BY <1>0, <1>1, <1>3, <1>4, RequireKeeps
<1>6. CASE log' = log
  <2>1. DurableOK'
    BY <1>0, <1>1, <1>6, DurableSame DEF durable
  <2>2. EvidenceTypeOK'
    BY <1>0, <1>1, <1>5, <1>6 DEF EvidenceTypeOK, WorkersOK
  <2> QED BY <1>5, <2>1, <2>2 DEF EvidenceInv
<1>7. CASE log' = log \o rows /\ sealed = NotSealed
  <2>1. rows \in Seq(Row)
    <3>1. c.recs \in Seq(Record) /\ Len(c.recs) \in Nat /\ active.durable \in Nat
      BY <1>0 DEF Call, Buffer
    <3>2. \A i \in 1..Len(c.recs) : [rec |-> c.recs[i], by |-> c.by, start |-> active.durable] \in Row
      BY <3>1, <1>2 DEF Row
    <3>3. rows \in [1..Len(c.recs) -> Row]
      BY <3>2
    <3> QED BY <3>1, <3>3, FunctionIsSeq
  <2>2. /\ log' \in Seq(Row) /\ selected' \in [Point -> 0..Len(log')]
        /\ \A p \in Point : selected[p] # 0 => log'[selected[p]] = log[selected[p]]
    BY <2>1, <1>0, <1>1, <1>7, LogGrows
  <2>3. EvidenceTypeOK'
    BY <1>0, <1>1, <1>5, <2>2 DEF EvidenceTypeOK, WorkersOK
  <2>4. ~ Sealed /\ ~ Sealed'
    BY <1>1, <1>7 DEF Sealed
  <2>5. GroupFromOneExecution'
    BY <2>2, <1>0, <1>1 DEF GroupFromOneExecution, DurableOK
  <2>6. DurableOK'
    BY <2>4, <2>5, <1>0, <1>1 DEF DurableOK, Committed
  <2> QED BY <1>5, <2>3, <2>6 DEF EvidenceInv
<1> QED BY <1>1, <1>6, <1>7

\* The latest of some records of a point.
LEMMA LatestRecord ==
    ASSUME EvidenceTypeOK, NEW p \in Point, NEW I \in SUBSET IndicesOf(p), I # {}
    PROVE  /\ Max(I) \in I /\ Max(I) \in 1..Len(log) /\ Max(I) # 0
           /\ log[Max(I)] \in Row /\ log[Max(I)].rec.point = p
<1>1. log \in Seq(Row) /\ Len(log) \in Nat
  BY DEF EvidenceTypeOK
<1>2. I \subseteq 1..Len(log) /\ \A i \in I : log[i].rec.point = p
  BY DEF IndicesOf
<1>3. Max(I) \in I
  <2>1. I \subseteq 0..Len(log)
    BY <1>1, <1>2
  <2> QED BY <2>1, <1>1, MaxNat
<1>4. Max(I) \in 1..Len(log) /\ log[Max(I)].rec.point = p
  BY <1>2, <1>3
<1>5. log[Max(I)] \in Row
  BY <1>1, <1>4
<1> QED BY <1>1, <1>3, <1>4, <1>5

LEMMA CommitGroupsKeeps ==
    ASSUME EvidenceInv, NEW e \in Segment, NEW s \in Slot, CommitGroups(e, s)
    PROVE  EvidenceInv' /\ \A p \in Point : selected[p] # 0 => selected'[p] = selected[p]
<1>0. /\ WorkersOK /\ EvidenceTypeOK /\ DurableOK /\ active \in Buffer
      /\ CallOK(calls[e][s], Committed, Sealed, Opened(e)) /\ calls[e][s] \in Call
  BY AtWorkers
<1> PICK c : c = calls[e][s]
  OBVIOUS
<1> PICK new : new = {g \in c.set : groups[g] = NoSegment}
  OBVIOUS
<1> PICK valid \in BOOLEAN :
       valid = /\ Live(e)
               /\ \A g \in c.set \ new : groups[g] = e
               /\ \A p \in Union(new) : selected[p] = 0 /\ OwnRecords(e, p) # {}
  OBVIOUS
<1>1. /\ c.kind = "groups" /\ c.pc = "sent"
      /\ UNCHANGED <<run, log, fragments, covered, sealed, active, reaping, mishaps>>
      /\ Require(valid, e, s, "ok")
      /\ IF valid
         THEN /\ groups' = [g \in GroupIndex |-> IF g \in new THEN e ELSE groups[g]]
              /\ selected' = [p \in Point |-> IF p \in Union(new) THEN Max(OwnRecords(e, p))
                                              ELSE selected[p]]
         ELSE UNCHANGED <<groups, selected>>
  BY DEF CommitGroups, At
<1>2. CASE ~ valid
  <2>1. UNCHANGED durable
    BY <1>1, <1>2 DEF durable
  <2>2. Grows
    BY <2>1, GrowsSame DEF durable
  <2>3. WorkersOK'
    BY <2>2, <1>0, <1>1, <1>2, RequireKeeps
  <2>4. active' \in Buffer /\ reaping' \in BOOLEAN
    BY <1>0, <1>1 DEF EvidenceTypeOK
  <2>5. EvidenceInv'
    BY <2>1, <2>3, <2>4, <1>1, BufferOnly
  <2> QED BY <2>1, <2>5 DEF durable
<1>3. CASE valid
  <2>1. /\ groups' = [g \in GroupIndex |-> IF g \in new THEN e ELSE groups[g]]
        /\ selected' = [p \in Point |-> IF p \in Union(new) THEN Max(OwnRecords(e, p))
                                        ELSE selected[p]]
        /\ \A p \in Union(new) : selected[p] = 0 /\ OwnRecords(e, p) # {}
    BY <1>1, <1>3
  <2>2. new \in SUBSET GroupIndex /\ c.set \in SUBSET GroupIndex
    BY <1>0 DEF Call
  <2>3. e # NoSegment /\ groups \in [GroupIndex -> Segment \cup {NoSegment}]
        /\ selected \in [Point -> 0..Len(log)] /\ Len(log) \in Nat
    BY <1>0 DEF EvidenceTypeOK, Segment, NoSegment
  <2>4. groups' \in [GroupIndex -> Segment \cup {NoSegment}]
    BY <2>1, <2>3
  <2>5. \A g \in GroupIndex : groups'[g] = IF g \in new THEN e ELSE groups[g]
    BY <2>1
  <2>6. ASSUME NEW p \in Point
        PROVE  IF GroupOf(p) \in new
               THEN /\ selected[p] = 0 /\ IndicesOf(p) # {} /\ selected'[p] \in 1..Len(log) /\ selected'[p] # 0
                    /\ log[selected'[p]].rec = [point |-> p, seg |-> e]
               ELSE selected'[p] = selected[p]
    <3>1. p \in Union(new) <=> GroupOf(p) \in new
      BY <2>2, InUnion
    <3>2. CASE p \in Union(new)
      <4>1. selected[p] = 0 /\ OwnRecords(e, p) # {} /\ selected'[p] = Max(OwnRecords(e, p))
        BY <2>1, <3>2
      <4> PICK m : m = Max(OwnRecords(e, p))
        OBVIOUS
      <4>2. OwnRecords(e, p) \in SUBSET IndicesOf(p) /\ \A i \in OwnRecords(e, p) : log[i].rec.seg = e
        BY DEF OwnRecords
      <4>3. m \in OwnRecords(e, p) /\ m \in 1..Len(log) /\ m # 0 /\ log[m] \in Row /\ log[m].rec.point = p
        BY <4>1, <4>2, <1>0, LatestRecord
      <4>4. log[m].rec = [point |-> p, seg |-> e]
        BY <4>2, <4>3 DEF Row, Record
      <4>5. IndicesOf(p) # {}
        BY <4>1, <4>2
      <4> QED BY <3>1, <3>2, <4>1, <4>3, <4>4, <4>5
    <3>3. CASE p \notin Union(new)
      <4>1. selected'[p] = selected[p]
        BY <2>1, <3>3
      <4> QED BY <3>1, <3>3, <4>1
    <3> QED BY <3>2, <3>3
  <2>7. \A p \in Point : selected'[p] \in 0..Len(log) /\ (selected[p] # 0 => selected'[p] = selected[p])
    <3> TAKE p \in Point
    <3>1. selected[p] \in 0..Len(log) /\ 1..Len(log) \subseteq 0..Len(log)
      BY <2>3
    <3>2. CASE GroupOf(p) \in new
      BY <2>6, <3>1, <3>2
    <3>3. CASE GroupOf(p) \notin new
      BY <2>6, <3>1, <3>3
    <3> QED BY <3>2, <3>3
  <2>8. selected' \in [Point -> 0..Len(log)]
    <3>1. selected' = [p \in Point |-> selected'[p]]
      BY <2>1
    <3> QED BY <3>1, <2>7
  <2>9. \A g \in GroupIndex : groups[g] # NoSegment => groups'[g] # NoSegment
    BY <2>3, <2>5
  <2>10. Committed \subseteq Committed' /\ c.set \subseteq Committed'
    <3>1. \A g \in c.set : groups'[g] # NoSegment
      <4> TAKE g \in c.set
      <4>1. g \in GroupIndex
        BY <2>2
      <4> QED BY <4>1, <2>3, <2>5, <2>9
    <3> QED BY <2>2, <2>9, <3>1 DEF Committed
  <2>11. CommittedTo(covered, Committed')
    BY <2>10, <1>0 DEF DurableOK, CommittedTo
  <2>12. Grows
    <3>1. covered \in 0..PointCount /\ covered <= covered' /\ covered' = covered
      BY <1>0, <1>1, ScheduleFacts DEF EvidenceTypeOK
    <3>2. Sealed' = Sealed /\ \A f \in Segment : Opened(f)' = Opened(f)
      BY <1>1 DEF Sealed, Opened
    <3> QED BY <2>10, <2>11, <3>1, <3>2 DEF Grows
  <2>13. Fulfilled(calls[e][s], Committed', Sealed') /\ calls[e][s].kind # "none"
    BY <1>1, <2>10 DEF Fulfilled
  <2>14. WorkersOK'
    BY <2>12, <2>13, <1>0, <1>1, RequireKeeps
  <2>15. GroupFromOneExecution'
    <3> SUFFICES ASSUME NEW p \in Point
                 PROVE  IF groups'[GroupOf(p)] = NoSegment THEN selected'[p] = 0
                        ELSE /\ selected'[p] # 0
                             /\ log'[selected'[p]].rec = [point |-> p, seg |-> groups'[GroupOf(p)]]
      BY DEF GroupFromOneExecution
    <3>1. GroupOf(p) \in GroupIndex
      BY GroupOfPoint
    <3>2. IF groups[GroupOf(p)] = NoSegment THEN selected[p] = 0
          ELSE selected[p] # 0 /\ log[selected[p]].rec = [point |-> p, seg |-> groups[GroupOf(p)]]
      BY <1>0 DEF DurableOK, GroupFromOneExecution
    <3> QED BY <3>1, <3>2, <2>3, <2>5, <2>6, <1>1
  <2>16. Sealed => selected' = selected
    <3> SUFFICES ASSUME Sealed PROVE selected' = selected
      OBVIOUS
    <3>1. ASSUME NEW p \in Point PROVE selected'[p] = selected[p]
      <4>1. IndicesOf(p) # {} => selected[p] # 0
        BY <1>0 DEF DurableOK
      <4> QED BY <4>1, <2>6
    <3>2. selected' = [p \in Point |-> selected'[p]]
      BY <2>1
    <3> QED BY <3>1, <3>2, <2>3
  <2>17. DurableOK'
    <3>1. /\ IsDurableCut(covered') /\ CommittedTo(covered', Committed')
      BY <1>0, <1>1, <2>11 DEF DurableOK
    <3>2. ASSUME Sealed'
          PROVE  /\ Recs(RowsOf(sealed.seg))' = sealed.recs'
                 /\ Projected' = Prefix(sealed.count)'
                 /\ \A p \in Point : IndicesOf(p)' # {} => selected'[p] # 0
      <4>1. Sealed /\ selected' = selected
        BY <3>2, <1>1, <2>16 DEF Sealed
      <4>2. Recs(RowsOf(sealed.seg))' = Recs(RowsOf(sealed.seg))
        BY <1>1, SameNamed
      <4> QED BY <4>1, <4>2, <1>0, <1>1 DEF DurableOK, Projected, IndicesOf
    <3>3. run'.state = "succeeded" => Sealed' /\ covered' = PointCount
      BY <1>0, <1>1 DEF DurableOK, Sealed
    <3> QED BY <3>1, <3>2, <3>3, <2>15 DEF DurableOK
  <2>18. EvidenceTypeOK'
    BY <1>0, <1>1, <2>4, <2>8, <2>14 DEF EvidenceTypeOK, WorkersOK
  <2> QED BY <2>7, <2>14, <2>17, <2>18 DEF EvidenceInv
<1> QED BY <1>2, <1>3

LEMMA FinalizedFacts ==
    ASSUME EvidenceTypeOK, NEW points
    PROVE  /\ Finalized(points) = [p \in Point |-> Finalized(points)[p]]
           /\ \A p \in Point : /\ Finalized(points)[p] \in 0..Len(log)
                               /\ selected[p] # 0 => Finalized(points)[p] = selected[p]
                               /\ p \notin points => Finalized(points)[p] = selected[p]
                               /\ p \in points /\ IndicesOf(p) # {} => Finalized(points)[p] # 0
<1>0. selected \in [Point -> 0..Len(log)] /\ Len(log) \in Nat
  BY DEF EvidenceTypeOK
<1> PICK f : f = Finalized(points)
  OBVIOUS
<1>1. f = [p \in Point |-> IF p \in points /\ selected[p] = 0 /\ IndicesOf(p) # {}
                           THEN Max(IndicesOf(p)) ELSE selected[p]]
  BY DEF Finalized
<1>2. ASSUME NEW p \in Point
      PROVE  /\ f[p] \in 0..Len(log)
             /\ selected[p] # 0 => f[p] = selected[p]
             /\ p \notin points => f[p] = selected[p]
             /\ p \in points /\ IndicesOf(p) # {} => f[p] # 0
  <2>1. selected[p] \in 0..Len(log) /\ 1..Len(log) \subseteq 0..Len(log)
    BY <1>0
  <2>2. CASE p \in points /\ selected[p] = 0 /\ IndicesOf(p) # {}
    <3>1. f[p] = Max(IndicesOf(p))
      BY <1>1, <2>2
    <3> PICK m : m = Max(IndicesOf(p))
      OBVIOUS
    <3>2. m \in 1..Len(log) /\ m # 0
      <4>1. IndicesOf(p) \in SUBSET IndicesOf(p) /\ IndicesOf(p) # {}
        BY <2>2
      <4> QED BY <4>1, LatestRecord
    <3> QED BY <3>1, <3>2, <2>1, <2>2
  <2>3. CASE ~ (p \in points /\ selected[p] = 0 /\ IndicesOf(p) # {})
    <3>1. f[p] = selected[p]
      BY <1>1, <2>3
    <3> QED BY <3>1, <2>1, <2>3
  <2> QED BY <2>2, <2>3
<1>3. f = [p \in Point |-> f[p]]
  BY <1>1
<1> QED BY <1>2, <1>3

\* The points of the completed groups are those with a selected record.
LEMMA SelectedPoints ==
    ASSUME DurableOK, NEW p \in Point
    PROVE  GroupOf(p) \in Committed <=> selected[p] # 0
<1>1. GroupOf(p) \in GroupIndex
  BY GroupOfPoint
<1> QED BY <1>1 DEF DurableOK, GroupFromOneExecution, Committed

LEMMA AdvanceCoverageKeeps ==
    ASSUME EvidenceInv, NEW e \in Segment, NEW s \in Slot, AdvanceCoverage(e, s)
    PROVE  EvidenceInv' /\ selected' = selected
<1>0. /\ WorkersOK /\ EvidenceTypeOK /\ DurableOK
      /\ CallOK(calls[e][s], Committed, Sealed, Opened(e)) /\ calls[e][s] \in Call
  BY AtWorkers
<1> PICK c : c = calls[e][s]
  OBVIOUS
<1> PICK range : range = {p \in Point : c.start <= p /\ p < c.count}
  OBVIOUS
<1> PICK next \in BOOLEAN :
       next = (covered < c.count /\ c.start = covered /\ \A p \in range : IndicesOf(p) # {})
  OBVIOUS
<1>1. /\ c.kind = "cover" /\ c.pc = "sent"
      /\ UNCHANGED <<run, log, fragments, groups, sealed, active, reaping, mishaps>>
      /\ Require(Live(e) /\ (next \/ covered = c.count), e, s, "ok")
      /\ IF Live(e) /\ next THEN covered' = c.count /\ selected' = Finalized(range)
                            ELSE UNCHANGED <<covered, selected>>
  BY DEF AdvanceCoverage, At
<1>2. c.count \in 0..PointCount /\ IsDurableCut(c.count) /\ CommittedTo(c.count, Committed)
  BY <1>0, <1>1 DEF CallOK
<1>3. covered \in 0..PointCount /\ IsDurableCut(covered) /\ CommittedTo(covered, Committed)
  BY <1>0 DEF EvidenceTypeOK, DurableOK
<1>4. Finalized(range) = selected
  <2> PICK f : f = Finalized(range)
    OBVIOUS
  <2>1. /\ f = [p \in Point |-> f[p]]
        /\ \A p \in Point : /\ selected[p] # 0 => f[p] = selected[p]
                            /\ p \notin range => f[p] = selected[p]
    BY <1>0, FinalizedFacts
  <2>2. ASSUME NEW p \in Point PROVE f[p] = selected[p]
    <3>1. CASE p \in range
      <4>1. p \in Prefix(c.count)
        BY <3>1 DEF Prefix
      <4>2. GroupOf(p) \in Committed
        BY <4>1, <1>2 DEF CommittedTo
      <4>3. selected[p] # 0
        BY <4>2, <1>0, SelectedPoints
      <4> QED BY <4>3, <2>1
    <3>2. CASE p \notin range
      BY <3>2, <2>1
    <3> QED BY <3>1, <3>2
  <2>3. selected = [p \in Point |-> selected[p]]
    BY <1>0 DEF EvidenceTypeOK
  <2> QED BY <2>1, <2>2, <2>3
<1>5. selected' = selected
  BY <1>1, <1>4
<1>6. /\ covered' \in 0..PointCount /\ covered <= covered' /\ IsDurableCut(covered')
      /\ CommittedTo(covered', Committed)
      /\ covered' # covered => Live(e)
  <2>1. CASE Live(e) /\ next
    <3>1. covered' = c.count /\ covered < c.count
      BY <2>1, <1>1
    <3>2. covered <= covered'
      BY <3>1, <1>2, <1>3, ScheduleFacts
    <3> QED BY <2>1, <3>1, <3>2, <1>2
  <2>2. CASE ~ (Live(e) /\ next)
    <3>1. covered' = covered /\ covered <= covered
      BY <2>2, <1>1, <1>3, ScheduleFacts
    <3> QED BY <3>1, <1>3
  <2> QED BY <2>1, <2>2
<1>7. Committed' = Committed /\ Sealed' = Sealed /\ \A f \in Segment : Opened(f)' = Opened(f)
  BY <1>1 DEF Committed, Sealed, Opened
<1>8. Grows
  BY <1>3, <1>6, <1>7 DEF Grows
<1>9. Fulfilled(calls[e][s], Committed', Sealed') /\ calls[e][s].kind # "none"
  BY <1>1 DEF Fulfilled
<1>10. (Live(e) /\ (next \/ covered = c.count)) \in BOOLEAN
  OBVIOUS
<1>11. WorkersOK'
  BY <1>0, <1>1, <1>8, <1>9, <1>10, RequireKeeps
<1>12. DurableOK'
  <2>1. IsDurableCut(covered') /\ CommittedTo(covered', Committed')
    BY <1>6, <1>7
  <2>2. GroupFromOneExecution'
    BY <1>0, <1>1, <1>5 DEF DurableOK, GroupFromOneExecution
  <2>3. ASSUME Sealed'
        PROVE  /\ Recs(RowsOf(sealed.seg))' = sealed.recs'
               /\ Projected' = Prefix(sealed.count)'
               /\ \A p \in Point : IndicesOf(p)' # {} => selected'[p] # 0
    <3>1. Recs(RowsOf(sealed.seg))' = Recs(RowsOf(sealed.seg))
      BY <1>1, SameNamed
    <3> QED BY <2>3, <3>1, <1>0, <1>1, <1>5, <1>7 DEF DurableOK, Projected, IndicesOf
  <2>4. run'.state = "succeeded" => Sealed' /\ covered' = PointCount
    BY <1>0, <1>1, <1>6, <1>7 DEF DurableOK, Live
  <2> QED BY <2>1, <2>2, <2>3, <2>4 DEF DurableOK
<1>13. EvidenceTypeOK'
  BY <1>0, <1>1, <1>5, <1>6, <1>11 DEF EvidenceTypeOK, WorkersOK
<1> QED BY <1>5, <1>11, <1>12, <1>13 DEF EvidenceInv

\* A seal counts the points of completed groups, so it selects nothing: where its
\* count is right every record of the dataset has been selected before.
LEMMA SealSelectsNothing ==
    ASSUME EvidenceTypeOK, DurableOK, NEW n \in Nat, NEW A \in SUBSET Point,
           \A p \in A : GroupOf(p) \in Committed, Cardinality(A) = n,
           {p \in Point : Finalized(Point)[p] # 0} = Prefix(n)
    PROVE  Finalized(Point) = selected
<1> PICK f : f = Finalized(Point)
  OBVIOUS
<1>1. /\ f = [p \in Point |-> f[p]]
      /\ \A p \in Point : selected[p] # 0 => f[p] = selected[p]
  BY FinalizedFacts
<1>2. A \subseteq Prefix(n)
  <2> SUFFICES ASSUME NEW p \in A PROVE p \in Prefix(n)
    OBVIOUS
  <2>1. selected[p] # 0
    BY SelectedPoints
  <2> QED BY <2>1, <1>1
<1>3. IsFiniteSet(Point) /\ Cardinality(Point) = PointCount /\ PointCount \in Nat
  <2>1. PointCount \in 0..PointCount /\ PointCount \in Nat
    BY ScheduleFacts
  <2>2. Prefix(PointCount) = Point
    BY <2>1, InPrefix DEF Point
  <2> QED BY <2>1, <2>2, InPrefix
<1>4. n \in 0..PointCount
  <2>1. Cardinality(A) <= Cardinality(Point)
    BY <1>3, FS_Subset
  <2> QED BY <2>1, <1>3
<1>5. IsFiniteSet(Prefix(n)) /\ Cardinality(Prefix(n)) = n
  BY <1>4, InPrefix
<1>6. A = Prefix(n)
  BY <1>2, <1>5, FS_Subset
<1>7. ASSUME NEW p \in Point PROVE f[p] = selected[p]
  <2>1. CASE p \in A
    <3>1. selected[p] # 0
      BY <2>1, SelectedPoints
    <3> QED BY <3>1, <1>1
  <2>2. CASE p \notin A
    <3>1. f[p] = 0
      BY <2>2, <1>6
    <3> QED BY <3>1, <1>1
  <2> QED BY <2>1, <2>2
<1>8. selected = [p \in Point |-> selected[p]]
  BY DEF EvidenceTypeOK
<1> QED BY <1>1, <1>7, <1>8

LEMMA SealKeeps ==
    ASSUME EvidenceInv, NEW e \in Segment, NEW s \in Slot, Seal(e, s)
    PROVE  EvidenceInv' /\ selected' = selected
<1>0. /\ WorkersOK /\ EvidenceTypeOK /\ DurableOK
      /\ CallOK(calls[e][s], Committed, Sealed, Opened(e)) /\ calls[e][s] \in Call
  BY AtWorkers
<1> PICK c : c = calls[e][s]
  OBVIOUS
<1> PICK seal : seal = [seg |-> c.by, recs |-> c.recs, count |-> c.count]
  OBVIOUS
<1> PICK valid \in BOOLEAN :
       valid = /\ sealed = NotSealed /\ fragments[c.by] # -1
               /\ {p \in Point : Finalized(Point)[p] # 0} = Prefix(c.count)
               /\ NamesFragment(c)
  OBVIOUS
<1>1. /\ c.kind = "seal" /\ c.pc = "checked"
      /\ UNCHANGED <<run, log, fragments, groups, covered, active, reaping, mishaps>>
      /\ Require(Live(e) /\ (valid \/ sealed = seal), e, s, "stored")
      /\ IF Live(e) /\ valid THEN sealed' = seal /\ selected' = Finalized(Point)
                             ELSE UNCHANGED <<sealed, selected>>
  BY DEF Seal, At
<1>2. /\ c.by # NoSegment /\ c.by \in Segment \cup {NoSegment} /\ c.count \in Nat /\ c.recs \in Seq(Record)
      /\ seal \in Sealing /\ seal # NotSealed
      /\ seal.seg = c.by /\ seal.recs = c.recs /\ seal.count = c.count
  <2>1. c.by # NoSegment /\ c.by \in Segment \cup {NoSegment}
    BY <1>0, <1>1 DEF CallOK
  <2>2. c.count \in Nat /\ c.recs \in Seq(Record)
    BY <1>0 DEF Call
  <2>3. seal.seg # NoSegment /\ NotSealed.seg = NoSegment
    BY <2>1 DEF NotSealed
  <2> QED BY <2>1, <2>2, <2>3 DEF Sealing
<1>3. ASSUME valid
      PROVE  Finalized(Point) = selected /\ Projected = Prefix(c.count)
             /\ \A p \in Point : IndicesOf(p) # {} => selected[p] # 0
  <2>1. {p \in Point : Finalized(Point)[p] # 0} = Prefix(c.count)
    BY <1>3
  <2>2. PICK A \in SUBSET Point : (\A p \in A : GroupOf(p) \in Committed) /\ Cardinality(A) = c.count
    BY <1>0, <1>1 DEF CallOK
  <2>3. Finalized(Point) = selected
    BY <2>1, <2>2, <1>0, <1>2, SealSelectsNothing
  <2>4. \A p \in Point : IndicesOf(p) # {} => Finalized(Point)[p] # 0
    BY <1>0, FinalizedFacts
  <2> QED BY <2>1, <2>3, <2>4 DEF Projected
<1>4. selected' = selected
  BY <1>1, <1>3
<1>5. Sealed => Sealed' /\ sealed' = sealed
  BY <1>1 DEF Sealed
<1>6. Live(e) /\ (valid \/ sealed = seal) => Sealed'
  BY <1>1, <1>2 DEF Sealed
<1>7. Grows
  <2>1. covered \in 0..PointCount /\ CommittedTo(covered, Committed)
    BY <1>0 DEF EvidenceTypeOK, DurableOK
  <2>2. Committed' = Committed /\ \A f \in Segment : Opened(f)' = Opened(f)
    BY <1>1 DEF Committed, Opened
  <2>3. covered <= covered'
    BY <1>1, <2>1, ScheduleFacts
  <2> QED BY <1>1, <1>5, <2>1, <2>2, <2>3 DEF Grows
<1>8. WorkersOK'
  <2> PICK guard \in BOOLEAN : guard = (Live(e) /\ (valid \/ sealed = seal))
    OBVIOUS
  <2>1. Require(guard, e, s, "stored") /\ calls[e][s].kind # "none"
    BY <1>1
  <2>2. guard => StepOK(calls[e][s], "stored", Sealed', Opened(e)')
    BY <1>1, <1>2, <1>6 DEF StepOK
  <2> QED BY <2>1, <2>2, <1>0, <1>7, RequireKeeps
<1>9. sealed' \in Sealing
  BY <1>0, <1>1, <1>2 DEF EvidenceTypeOK
<1>10. EvidenceTypeOK'
  BY <1>0, <1>1, <1>4, <1>8, <1>9 DEF EvidenceTypeOK, WorkersOK
<1>11. DurableOK'
  <2>1. IsDurableCut(covered') /\ CommittedTo(covered', Committed')
    BY <1>0, <1>1 DEF DurableOK, Committed
  <2>2. GroupFromOneExecution'
    BY <1>0, <1>1, <1>4 DEF DurableOK, GroupFromOneExecution
  <2>3. ASSUME Sealed'
        PROVE  /\ Recs(RowsOf(sealed.seg))' = sealed.recs'
               /\ Projected' = Prefix(sealed.count)'
               /\ \A p \in Point : IndicesOf(p)' # {} => selected'[p] # 0
    <3>1. CASE Sealed
      <4>1. sealed' = sealed
        BY <3>1, <1>5
      <4>2. Recs(RowsOf(sealed.seg))' = Recs(RowsOf(sealed.seg))
        BY <4>1, <1>1, SameNamed
      <4> QED BY <3>1, <4>1, <4>2, <1>0, <1>1, <1>4 DEF DurableOK, Projected, IndicesOf
    <3>2. CASE ~ Sealed
      <4>1. Live(e) /\ valid /\ sealed' = seal
        BY <2>3, <3>2, <1>1 DEF Sealed
      <4>2. Recs(RowsOf(c.by)) = c.recs
        BY <4>1 DEF NamesFragment
      <4>3. Recs(RowsOf(sealed.seg))' = Recs(RowsOf(c.by))
        BY <4>1, <1>1, <1>2 DEF RowsOf, Recs
      <4>4. Projected' = Prefix(c.count)
        BY <4>1, <1>3, <1>4 DEF Projected
      <4>5. \A p \in Point : IndicesOf(p)' # {} => selected'[p] # 0
        BY <4>1, <1>1, <1>3, <1>4 DEF IndicesOf
      <4> QED BY <4>1, <4>2, <4>3, <4>4, <4>5, <1>2
    <3> QED BY <3>1, <3>2
  <2>4. run'.state = "succeeded" => Sealed' /\ covered' = PointCount
    BY <1>0, <1>1, <1>5 DEF DurableOK
  <2> QED BY <2>1, <2>2, <2>3, <2>4 DEF DurableOK
<1> QED BY <1>4, <1>8, <1>10, <1>11 DEF EvidenceInv

-----------------------------------------------------------------------------
(* The steps of the daemon on its own. *)

\* A step that leaves the tables to themselves, apart from the state of the run.
LEMMA RunOnly ==
    ASSUME EvidenceInv, UNCHANGED <<log, fragments, groups, selected, covered, sealed>>,
           run' \in [state : {"queued", "leased", "attention", "closed", "succeeded"},
                     seg : Segment \cup {NoSegment}],
           run'.state = "succeeded" => run.state = "succeeded",
           active' \in Buffer, reaping' \in BOOLEAN, mishaps' \in 0..MaxMishaps, WorkersOK'
    PROVE  EvidenceInv'
<1>1. DurableOK'
  BY SameNamed DEF EvidenceInv, DurableOK, Committed, Sealed, GroupFromOneExecution, Projected, IndicesOf
<1>2. EvidenceTypeOK'
  BY DEF EvidenceInv, EvidenceTypeOK, WorkersOK, Buffer
<1> QED BY <1>1, <1>2 DEF EvidenceInv

\* A step that leaves the executors and the requests to themselves.
LEMMA DaemonOnly ==
    ASSUME EvidenceInv, UNCHANGED <<log, fragments, groups, selected, covered, sealed, ex, calls>>,
           run' = run \/ run' = [run EXCEPT !.state = "queued"],
           active' \in Buffer, reaping' \in BOOLEAN, mishaps' \in 0..MaxMishaps
    PROVE  EvidenceInv'
<1>1. Grows
  BY GrowsSame
<1>2. WorkersOK'
  BY <1>1, WorkersStay DEF EvidenceInv
<1>3. /\ run' \in [state : {"queued", "leased", "attention", "closed", "succeeded"},
                   seg : Segment \cup {NoSegment}]
      /\ run'.state = "succeeded" => run.state = "succeeded"
  BY DEF EvidenceInv, EvidenceTypeOK
<1> QED BY <1>2, <1>3, RunOnly

LEMMA StartRetainKeeps ==
    ASSUME EvidenceInv, NEW e \in Segment, StartRetain(e)
    PROVE  EvidenceInv'
<1>0. WorkersOK /\ EvidenceTypeOK
  BY DEF EvidenceInv
<1> PICK c : c = [NoCall EXCEPT !.kind = "retain"]
  OBVIOUS
<1>1. /\ calls' = [calls EXCEPT ![e]["daemon"] = c] /\ ex' = ex
      /\ UNCHANGED <<durable, active, reaping>> /\ Mishap
  BY DEF StartRetain
<1>2. Grows
  BY <1>1, GrowsSame DEF durable
<1>3. c \in Call /\ c.kind = "retain" /\ c.pc = "sent" /\ c.by = NoSegment
  <2>1. NoCall \in Call
    BY NoCallOK DEF CallOK
  <2>2. NoCall.pc = "sent" /\ NoCall.by = NoSegment
    BY DEF NoCall
  <2> QED BY <2>1, <2>2 DEF Call
<1>4. CallOK(c, Committed', Sealed', Opened(e)')
  BY <1>3 DEF CallOK
<1>5. "daemon" \in Slot
  BY DEF Slot
<1>6. WorkersOK'
  BY <1>0, <1>1, <1>2, <1>4, <1>5, SetCallKeeps
<1>7. mishaps' \in 0..MaxMishaps
  BY <1>1, MishapCounts
<1> QED BY <1>1, <1>6, <1>7, WorkersOnly

LEMMA FenceKeeps ==
    ASSUME EvidenceInv, NEW e \in Segment, Fence(e)
    PROVE  EvidenceInv'
<1>0. WorkersOK /\ EvidenceTypeOK /\ active \in Buffer
  BY DEF EvidenceInv, EvidenceTypeOK, Buffer
<1>1. /\ run' = [run EXCEPT !.state = "attention"]
      /\ ex' = [ex EXCEPT ![e] = IF calls[e]["awaited"] = NoCall THEN Gone ELSE @]
      /\ UNCHANGED <<log, fragments, groups, selected, covered, sealed, active, calls, reaping, mishaps>>
  BY DEF Fence
<1>2. Grows
  BY <1>1, GrowsSame
<1>3. /\ covered \in Nat /\ covered' = covered /\ Committed' = Committed /\ Sealed' = Sealed
      /\ \A f \in Segment : Opened(f)' = Opened(f)
  BY <1>0, <1>1, ScheduleFacts DEF EvidenceTypeOK, Committed, Sealed, Opened
<1>4. ASSUME NEW f \in Segment PROVE ex'[f] = ex[f] \/ (ex'[f] = Gone /\ calls[f]["awaited"] = NoCall)
  <2>1. ex \in [Segment -> Executor]
    BY <1>0 DEF WorkersOK
  <2>2. ex'[f] = IF f = e /\ calls[e]["awaited"] = NoCall THEN Gone ELSE ex[f]
    BY <2>1, <1>1
  <2> QED BY <2>2
<1>5. ASSUME NEW f \in Segment
      PROVE  ExecutorOK(ex'[f], covered, Committed, Sealed) /\ WaitOK(ex'[f], calls[f]["awaited"])
  <2>1. CASE ex'[f] = ex[f]
    BY <2>1, <1>0 DEF WorkersOK
  <2>2. CASE ex'[f] = Gone /\ calls[f]["awaited"] = NoCall
    <3>1. ExecutorOK(Gone, covered, Committed, Sealed)
      BY <1>3, NewKeeps DEF Sealed
    <3>2. WaitOK(Gone, NoCall)
      BY NoCallOK DEF WaitOK
    <3> QED BY <2>2, <3>1, <3>2
  <2> QED BY <1>4, <2>1, <2>2
<1>6. ex' \in [Segment -> Executor]
  <2>1. \A f \in Segment : ex'[f] \in Executor
    BY <1>5 DEF ExecutorOK
  <2>2. ex' = [f \in Segment |-> ex'[f]]
    BY <1>0, <1>1 DEF WorkersOK
  <2> QED BY <2>1, <2>2
<1>7. WorkersOK'
  BY <1>0, <1>1, <1>3, <1>5, <1>6 DEF WorkersOK
<1>8. /\ run' \in [state : {"queued", "leased", "attention", "closed", "succeeded"},
                   seg : Segment \cup {NoSegment}]
      /\ run'.state # "succeeded"
  BY <1>0, <1>1 DEF EvidenceTypeOK
<1>9. active' \in Buffer /\ reaping' \in BOOLEAN /\ mishaps' \in 0..MaxMishaps
  BY <1>0, <1>1 DEF EvidenceTypeOK
<1> QED BY <1>1, <1>7, <1>8, <1>9, RunOnly

LEMMA RestartKeeps ==
    ASSUME EvidenceInv, Restart
    PROVE  EvidenceInv'
<1>0. WorkersOK /\ EvidenceTypeOK
  BY DEF EvidenceInv
<1>1. /\ run' = IF run.state = "leased" THEN [run EXCEPT !.state = "attention"] ELSE run
      /\ active' = NoBuffer /\ reaping' = FALSE /\ Mishap
      /\ calls' = [e \in Segment |-> [s \in Slot |-> NoCall]]
      /\ ex' = [e \in Segment |-> IF e <= run.seg THEN Gone ELSE ex[e]]
      /\ UNCHANGED <<log, fragments, groups, selected, covered, sealed>>
  BY DEF Restart
<1>2. /\ covered \in Nat /\ covered' = covered /\ Committed' = Committed /\ Sealed' = Sealed
      /\ \A f \in Segment : Opened(f)' = Opened(f)
  BY <1>0, <1>1, ScheduleFacts DEF EvidenceTypeOK, Committed, Sealed, Opened
<1>3. ASSUME NEW f \in Segment PROVE ExecutorOK(ex'[f], covered, Committed, Sealed)
  <2>1. ex'[f] = IF f <= run.seg THEN Gone ELSE ex[f]
    BY <1>1
  <2>2. ExecutorOK(Gone, covered, Committed, Sealed)
    BY <1>2, NewKeeps DEF Sealed
  <2>3. ExecutorOK(ex[f], covered, Committed, Sealed)
    BY <1>0 DEF WorkersOK
  <2> QED BY <2>1, <2>2, <2>3
<1>4. ex' \in [Segment -> Executor]
  <2>1. \A f \in Segment : ex'[f] \in Executor
    BY <1>3 DEF ExecutorOK
  <2>2. ex' = [f \in Segment |-> ex'[f]]
    BY <1>1
  <2> QED BY <2>1, <2>2
<1>5. \A f \in Segment, s \in Slot : calls'[f][s] = NoCall
  BY <1>1
<1>6. \A f \in Segment, s \in Slot : CallOK(calls'[f][s], Committed, Sealed, Opened(f))
  BY <1>5, NoCallOK
<1>7. \A f \in Segment : WaitOK(ex'[f], calls'[f]["awaited"])
  BY <1>5, NoCallOK DEF WaitOK, Slot
<1>8. calls' \in [Segment -> [Slot -> Call]]
  BY <1>1, NoCallOK DEF CallOK
<1>9. WorkersOK'
  BY <1>2, <1>3, <1>4, <1>6, <1>7, <1>8 DEF WorkersOK
<1>10. /\ run' \in [state : {"queued", "leased", "attention", "closed", "succeeded"},
                    seg : Segment \cup {NoSegment}]
       /\ run'.state = "succeeded" => run.state = "succeeded"
  BY <1>0, <1>1 DEF EvidenceTypeOK
<1>11. active' \in Buffer /\ reaping' \in BOOLEAN /\ mishaps' \in 0..MaxMishaps
  BY <1>1, NoBufferTyped, MishapCounts
<1> QED BY <1>1, <1>9, <1>10, <1>11, RunOnly

LEMMA DaemonStepKeeps ==
    ASSUME EvidenceInv, DaemonStep
    PROVE  EvidenceInv' /\ selected' = selected
<1>0. EvidenceTypeOK /\ active \in Buffer /\ reaping \in BOOLEAN /\ mishaps \in 0..MaxMishaps
  BY DEF EvidenceInv, EvidenceTypeOK, Buffer
<1>1. ASSUME NEW e \in Segment, StartRetain(e) PROVE EvidenceInv' /\ selected' = selected
  BY <1>1, StartRetainKeeps DEF StartRetain, durable
<1>2. ASSUME NEW e \in Segment, Fence(e) PROVE EvidenceInv' /\ selected' = selected
  BY <1>2, FenceKeeps DEF Fence
<1>3. CASE Reconcile
  <2>1. active' = NoBuffer /\ UNCHANGED <<durable, ex, calls, reaping, mishaps>>
    BY <1>3 DEF Reconcile
  <2> QED BY <2>1, <1>0, NoBufferTyped, DaemonOnly DEF durable
<1>4. CASE FindFenced
  <2>1. reaping' = TRUE /\ UNCHANGED <<durable, active, ex, calls>> /\ mishaps' \in 0..MaxMishaps
    BY <1>4, MishapCounts DEF FindFenced
  <2> QED BY <2>1, <1>0, DaemonOnly DEF durable
<1>5. CASE DropBuffer
  <2>1. reaping' = FALSE /\ active' = NoBuffer /\ UNCHANGED <<durable, ex, calls, mishaps>>
    BY <1>5 DEF DropBuffer
  <2> QED BY <2>1, <1>0, NoBufferTyped, DaemonOnly DEF durable
<1>6. CASE Continue
  <2>1. /\ run' = [run EXCEPT !.state = "queued"]
        /\ UNCHANGED <<log, fragments, groups, selected, covered, sealed, active, ex, calls, reaping, mishaps>>
    BY <1>6 DEF Continue
  <2> QED BY <2>1, <1>0, DaemonOnly
<1>7. CASE Restart
  BY <1>7, RestartKeeps DEF Restart
<1> QED BY <1>1, <1>2, <1>3, <1>4, <1>5, <1>6, <1>7 DEF DaemonStep

-----------------------------------------------------------------------------
(* The theorems. *)

LEMMA HandlerStepKeeps ==
    ASSUME EvidenceInv, NEW e \in Segment, NEW s \in Slot, HandlerStep(e, s)
    PROVE  EvidenceInv' /\ \A p \in Point : selected[p] # 0 => selected'[p] = selected[p]
<1>1. CASE CommitGroups(e, s)
  BY <1>1, CommitGroupsKeeps
<1>2. CASE AdvanceCoverage(e, s) \/ Seal(e, s)
  BY <1>2, AdvanceCoverageKeeps, SealKeeps
<1>3. CASE \/ Header(e, s) \/ Initialize(e, s) \/ CheckSegment(e, s) \/ Receive(e, s)
           \/ StartFlush(e, s) \/ TakeChunk(e, s) \/ AppendChunk(e, s) \/ CommitChunk(e, s)
           \/ CheckFlushed(e, s) \/ Terminal(e, s) \/ ClearBuffer(e, s)
  <2>1. EvidenceInv'
    BY <1>3, HeaderKeeps, InitializeKeeps, CheckSegmentKeeps, ReceiveKeeps, StartFlushKeeps,
       TakeChunkKeeps, AppendChunkKeeps, CommitChunkKeeps, CheckFlushedKeeps, TerminalKeeps,
       ClearBufferKeeps
  <2>2. selected' = selected
    BY <1>3 DEF Header, Initialize, CheckSegment, Receive, StartFlush, TakeChunk, AppendChunk,
       CommitChunk, CheckFlushed, Terminal, ClearBuffer, durable
  <2> QED BY <2>1, <2>2
<1> QED BY <1>1, <1>2, <1>3 DEF HandlerStep

LEMMA ExecutorSelectsNothing ==
    ASSUME NEW e \in Segment, ExecutorStep(e)
    PROVE  selected' = selected
BY DEF ExecutorStep, ReadCoverage, ReadGroups, Begin, Measure, Transfer, Stop, Lose, durable

LEMMA NextKeeps ==
    ASSUME EvidenceInv, [Next]_vars
    PROVE  EvidenceInv' /\ \A p \in Point : selected[p] # 0 => selected'[p] = selected[p]
<1>1. ASSUME NEW e \in Segment, ExecutorStep(e)
      PROVE  EvidenceInv' /\ \A p \in Point : selected[p] # 0 => selected'[p] = selected[p]
  BY <1>1, ExecutorStepKeeps, ExecutorSelectsNothing
<1>2. ASSUME NEW e \in Segment, NEW s \in Slot, HandlerStep(e, s)
      PROVE  EvidenceInv' /\ \A p \in Point : selected[p] # 0 => selected'[p] = selected[p]
  BY <1>2, HandlerStepKeeps
<1>3. CASE DaemonStep
  BY <1>3, DaemonStepKeeps
<1>4. CASE UNCHANGED vars
  <2>1. UNCHANGED <<run, log, fragments, groups, selected, covered, sealed, ex, calls, active, reaping, mishaps>>
    BY <1>4 DEF vars, durable
  <2>2. active' \in Buffer /\ reaping' \in BOOLEAN /\ mishaps' \in 0..MaxMishaps
    BY <2>1 DEF EvidenceInv, EvidenceTypeOK, Buffer
  <2>3. EvidenceInv'
    BY <2>1, <2>2, DaemonOnly
  <2> QED BY <2>1, <2>3
<1> QED BY <1>1, <1>2, <1>3, <1>4 DEF Next

LEMMA EvidenceInit == Init => EvidenceInv
<1> SUFFICES ASSUME Init PROVE EvidenceInv
  OBVIOUS
<1>1. /\ run = [state |-> "queued", seg |-> NoSegment] /\ log = <<>>
      /\ fragments = [e \in Segment |-> -1] /\ groups = [g \in GroupIndex |-> NoSegment]
      /\ selected = [p \in Point |-> 0] /\ covered = 0 /\ sealed = NotSealed /\ active = NoBuffer
      /\ ex = [e \in Segment |-> NewExecutor] /\ calls = [e \in Segment |-> [s \in Slot |-> NoCall]]
      /\ reaping = FALSE /\ mishaps = 0
  BY DEF Init
<1>2. \A e \in Segment : ExecutorOK(NewExecutor, covered, Committed, Sealed)
  BY <1>1, NewKeeps DEF Sealed
<1>3. WorkersOK
  <2>1. NewExecutor \in Executor
    BY <1>1, NewKeeps DEF ExecutorOK, Sealed
  <2>2. \A e \in Segment : CallOK(NoCall, Committed, Sealed, Opened(e))
    BY NoCallOK
  <2>3. NoCall \in Call
    BY NoCallOK DEF CallOK
  <2>4. WaitOK(NewExecutor, NoCall)
    BY NoCallOK DEF WaitOK
  <2>5. \A e \in Segment : ex[e] = NewExecutor /\ \A s \in Slot : calls[e][s] = NoCall
    BY <1>1
  <2>6. "awaited" \in Slot
    BY DEF Slot
  <2> QED BY <2>1, <2>2, <2>3, <2>4, <2>5, <2>6, <1>1, <1>2 DEF WorkersOK
<1>4. EvidenceTypeOK
  <2>1. log \in Seq(Row) /\ Len(log) = 0
    BY <1>1
  <2>2. selected \in [Point -> 0..Len(log)]
    BY <1>1, <2>1
  <2>3. covered \in 0..PointCount /\ mishaps \in 0..MaxMishaps
    BY <1>1, EvidenceAssumption
  <2>4. sealed \in Sealing
    BY <1>1 DEF Sealing, NotSealed
  <2>5. fragments \in [Segment -> Nat \cup {-1}]
    BY <1>1
  <2>6. active \in Buffer
    BY <1>1, NoBufferTyped
  <2> QED BY <1>1, <1>3, <2>1, <2>2, <2>3, <2>4, <2>5, <2>6 DEF EvidenceTypeOK, WorkersOK, Buffer
<1>5. DurableOK
  <2>1. IsDurableCut(covered) /\ CommittedTo(covered, Committed)
    BY <1>1, ZeroIsCut, NothingBeforeZero DEF CommittedTo
  <2>2. GroupFromOneExecution
    BY <1>1, GroupOfPoint DEF GroupFromOneExecution
  <2>3. ~ Sealed /\ run.state # "succeeded"
    BY <1>1 DEF Sealed
  <2> QED BY <2>1, <2>2, <2>3 DEF DurableOK
<1> QED BY <1>3, <1>4, <1>5 DEF EvidenceInv

\* What the tables, the executors and the requests say of one another, in every state:
\* an executor leaves out only points of completed groups, has handed over whatever it
\* counts as done, and makes no request that its own progress does not justify.
THEOREM EvidenceInvariant == Spec => []EvidenceInv
<1>1. EvidenceInv /\ [Next]_vars => EvidenceInv'
  BY NextKeeps
<1> QED BY <1>1, EvidenceInit, PTL DEF Spec

\* The tables, the buffer, the executors and their requests keep their types.
THEOREM EvidenceTypeCorrect == Spec => []EvidenceTypeOK
<1>1. EvidenceInv => EvidenceTypeOK
  BY DEF EvidenceInv
<1> QED BY <1>1, EvidenceInvariant, PTL

\* What a continued execution leaves out is in the log, in a completed group: the
\* coverage is advanced only over groups whose commit has been acknowledged, whatever
\* was lost, retried or taken over in between (advance_in_transaction).
THEOREM CoverageIsDurableHolds == Spec => []CoverageIsDurable
<1>1. EvidenceInv => CoverageIsDurable
  <2> SUFFICES ASSUME EvidenceInv, NEW p \in Prefix(covered)
               PROVE  /\ groups[GroupOf(p)] # NoSegment
                      /\ selected[p] # 0 /\ log[selected[p]].rec.point = p
    BY DEF CoverageIsDurable
  <2>1. p \in Point /\ GroupOf(p) \in Committed
    BY DEF EvidenceInv, DurableOK, CommittedTo, Prefix
  <2>2. groups[GroupOf(p)] # NoSegment
    BY <2>1 DEF Committed
  <2>3. selected[p] # 0 /\ log[selected[p]].rec = [point |-> p, seg |-> groups[GroupOf(p)]]
    BY <2>1, <2>2 DEF EvidenceInv, DurableOK, GroupFromOneExecution
  <2> QED BY <2>2, <2>3
<1> QED BY <1>1, EvidenceInvariant, PTL

\* A group is in the dataset as a whole and with the records of the execution that
\* completed it: coverage and seal select nothing that commit_recovery_groups has not.
THEOREM GroupFromOneExecutionHolds == Spec => []GroupFromOneExecution
<1>1. EvidenceInv => GroupFromOneExecution
  BY DEF EvidenceInv, DurableOK
<1> QED BY <1>1, EvidenceInvariant, PTL

\* No crash, lost answer or takeover leaves a coverage that cuts a completed group: the
\* executor that continues the run is never refused.
THEOREM ContinuationIsAcceptedHolds == Spec => []ContinuationIsAccepted
<1>1. EvidenceInv => ContinuationIsAccepted
  BY DEF EvidenceInv, WorkersOK, ExecutorOK, StageOK, ContinuationIsAccepted
<1> QED BY <1>1, EvidenceInvariant, PTL

\* A seal names all that was written for its segment and stays right; a run succeeds only
\* with a sealed dataset of every point (seal_measurements, commit_terminal).
THEOREM SealedIsCompleteHolds == Spec => []SealedIsComplete
<1>1. EvidenceInv => SealedIsComplete
  <2> SUFFICES ASSUME EvidenceInv PROVE SealedIsComplete
    OBVIOUS
  <2>1. DurableOK /\ PointCount \in 0..PointCount
    BY ScheduleFacts DEF EvidenceInv
  <2>2. ASSUME run.state = "succeeded" PROVE sealed # NotSealed /\ Projected = Point
    <3>1. Sealed /\ covered = PointCount
      BY <2>1, <2>2 DEF DurableOK
    <3>2. Prefix(PointCount) = Point
      BY <2>1, InPrefix DEF Point
    <3>3. \A p \in Point : GroupOf(p) \in Committed
      BY <2>1, <3>1, <3>2 DEF DurableOK, CommittedTo
    <3>4. \A p \in Point : selected[p] # 0
      BY <2>1, <3>3, SelectedPoints
    <3> QED BY <3>1, <3>4 DEF Sealed, Projected
  <2> QED BY <2>1, <2>2 DEF SealedIsComplete, DurableOK, Sealed
<1> QED BY <1>1, EvidenceInvariant, PTL

\* The record of a point is chosen once: no retry, later execution, coverage or seal
\* replaces it (_finalize_measurement_projection, commit_recovery_groups).
THEOREM SelectionIsFinalHolds == Spec => SelectionIsFinal
<1>1. EvidenceInv /\ [Next]_vars => [\A p \in Point : selected[p] # 0 => selected'[p] = selected[p]]_vars
  BY NextKeeps
<1> QED BY <1>1, EvidenceInvariant, PTL DEF Spec, SelectionIsFinal
=============================================================================

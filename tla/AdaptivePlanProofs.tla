------------------------- MODULE AdaptivePlanProofs -------------------------
(***************************************************************************)
(* Adaptive runs for every plan, budget and number of executors, operator  *)
(* requests and lost answers: what is measured was accepted first, an      *)
(* operator is told the truth, and success means the whole plan.           *)
(*                                                                         *)
(* The daemon has the ledger and an executor its own view of it, and no    *)
(* table relates the two.  The invariant does: LedgerOK is what the tables *)
(* of the daemon keep among themselves, QueueOK how requests and decisions *)
(* correspond, ExecutorOK how far an executor may be, and CallOK what      *)
(* stays true of a request while it waits, possibly for ever, to be        *)
(* served.                                                                 *)
(***************************************************************************)
EXTENDS AdaptivePlan, FiniteSetTheorems, TLAPS

Results == {"succeeded", "failed", "cancelled"}

AppendCall == [kind : {"append"}, from : Executor, op : Operation, start : Nat]
CloseCall == [kind : {"close"}, from : Executor, completed : Nat, reason : Reason]
CoverCall == [kind : {"cover"}, from : Executor, start : Nat, end : Nat]
CommitCall == [kind : {"commit"}, from : Executor, result : Results]
Call == AppendCall \cup CloseCall \cup CoverCall \cup CommitCall

PlanClosed == plan.stop \notin {NotClosed, Abandoned}

\* Fragments F that take up the points of a plan from InitialCount to n.
Tiled(F, n) ==
    /\ \A f \in F : InitialCount =< f.start /\ End(f) =< n
    /\ \A f, g \in F : f # g => End(f) =< g.start \/ End(g) =< f.start
    /\ \A k \in InitialCount..(n - 1) : \E f \in F : f.start =< k /\ k < End(f)
\* Those of them that are in P are the first ones.
Leading(P, F) == P = {f \in F : f.start < Extent(P)}

LedgerOK ==
    /\ Tiled(Fragments, plan.accepted)
    /\ covered =< plan.accepted
    /\ PlanClosed => plan.stop[1] = plan.accepted /\ covered = plan.accepted
    /\ run.state = "closed" => plan.stop # NotClosed
    /\ run.result = "succeeded" => run.state = "closed" /\ PlanClosed

\* A decision answers the request that says so.
Answers(d, q) ==
    /\ d.op.request = q.id /\ d.op.outcome = q.status
    /\ d.op.proposal.size = q.size
\* The requests Q and the decisions D: each request has an id of its own, and at
\* most one decision, which its status tells.
Matched(Q, D) ==
    /\ \A i, j \in DOMAIN Q : Q[i].id = Q[j].id => i = j
    /\ \A j \in DOMAIN Q : Q[j].scope = "selected" => Q[j].regions # {}
    /\ \A i \in DOMAIN D : D[i].op.request # None =>
           \E j \in DOMAIN Q : Answers(D[i], Q[j])
    /\ \A i, j \in DOMAIN D :
           D[i].op.request = D[j].op.request /\ D[i].op.request # None => i = j
    /\ \A j \in DOMAIN Q : Q[j].status \in {"accepted", "rejected"} =>
           \E i \in DOMAIN D : Answers(D[i], Q[j])
NonePending(Q) == \A j \in DOMAIN Q : Q[j].status # "pending"
QueueOK ==
    /\ Matched(queue, decisions)
    /\ plan.stop # NotClosed => NonePending(queue)

Whole(e) == PlanClosed /\ ex[e].done = plan.accepted

\* An executor that will end its run with success, unless something fails.
Succeeding(x) ==
    \/ x.pc = "closed"
    \/ x.pc \in {"finishing", "flushing", "committing"} /\ x.result = "succeeded"

\* Where an executor is when it waits for the answer to a request.
Awaits(x, c) ==
    CASE c.kind = "cover" -> x.pc \in {"covering", "flushing"}
      [] c.kind = "append" -> x.pc = "appending"
      [] c.kind = "close" -> x.pc = "closing" /\ c.completed = x.done
      [] c.kind = "commit" -> x.pc = "committing"
Waiting(e, x, c) ==
    c # NoCall =>
        /\ c.from = e /\ Awaits(x, c)
        /\ c.kind = "append" /\ c.op.outcome = "accepted" => c.start = Extent(x.points)
\* An executor goes by the first of the fragments, of a plan of n points, and decides
\* a request that exists.
Viewing(x, F, n, Q) ==
    /\ Leading(x.points, F)
    /\ x.done =< Extent(x.points) /\ Extent(x.points) =< n
    /\ x.request # None => \E j \in DOMAIN Q : Q[j].id = x.request
ExecutorOK(e) ==
    /\ Viewing(ex[e], Fragments, plan.accepted, queue)
    /\ Succeeding(ex[e]) => Whole(e)
    /\ Waiting(e, ex[e], calls[e])

CallOK(c) ==
    /\ c.kind = "append" /\ c.op.request # None =>
           \E j \in DOMAIN queue : /\ queue[j].id = c.op.request
                                   /\ queue[j].size = c.op.proposal.size
    /\ c.kind = "cover" => c.end =< plan.accepted
    /\ c.kind = "commit" /\ c.result = "succeeded" => Whole(c.from)

\* The tables of the daemon.
TablesTypeOK ==
    /\ run \in [state : {"queued", "leased", "attention", "closed"},
                holder : Executor \cup {None}, started : BOOLEAN, cancelled : BOOLEAN,
                result : {None, "succeeded", "failed", "cancelled"}]
    /\ plan \in [accepted : InitialCount..PointLimit,
                 stop : {NotClosed, Abandoned} \cup (Nat \X Reason)]
    /\ decisions \in Seq(Decision)
    /\ queue \in Seq(Entry)
    /\ covered \in 0..PointLimit
TablesOK == TablesTypeOK /\ LedgerOK /\ QueueOK

PlanInv ==
    /\ scope \in Scope /\ mishaps \in 0..MaxMishaps
    /\ TablesOK
    /\ ex \in [Executor -> Process]
    /\ calls \in [Executor -> Call \cup {NoCall}]
    /\ \A e \in Executor : ExecutorOK(e)
    /\ late \subseteq Call
    /\ \A c \in late : CallOK(c)
    /\ \A e \in Executor : calls[e] # NoCall => CallOK(calls[e])
    /\ run.result = "succeeded" => run.holder \in Executor /\ Whole(run.holder)

-----------------------------------------------------------------------------
(* Regions, sizes and how far fragments reach. *)

LEMMA RegionsFinite == IsFiniteSet(Region) /\ Region # {}
<1>1. Len(Regions) \in Nat /\ Len(Regions) # 0 /\ DOMAIN Regions = 1..Len(Regions)
  BY AdaptiveAssumption
<1>2. IsFiniteSet(1..Len(Regions))
  BY <1>1, FS_Interval
<1>3. Region = {Regions[i] : i \in 1..Len(Regions)}
  BY <1>1 DEF Region, Range
<1>4. [i \in 1..Len(Regions) |-> Regions[i]] \in Surjection(1..Len(Regions), Region)
  BY <1>3 DEF Surjection
<1>5. IsFiniteSet(Region)
  BY <1>2, <1>4, FS_Surjection
<1>6. Regions[1] \in Region
  BY <1>1, <1>3
<1> QED BY <1>5, <1>6

LEMMA Positive == \A a, b \in Nat \ {0} : a * b \in Nat \ {0}
OBVIOUS

LEMMA TotalPositive ==
    ASSUME NEW p \in Proposal
    PROVE  Total(p) \in Nat \ {0}
<1>0. MaxSize \in Nat
  BY AdaptiveAssumption
<1>1. p.regions \in SUBSET Region /\ p.regions # {} /\ p.size \in Nat \ {0}
  BY <1>0 DEF Proposal
<1>2. IsFiniteSet(p.regions)
  BY <1>1, RegionsFinite, FS_Subset
<1>3. Cardinality(p.regions) \in Nat /\ Cardinality(p.regions) # 0
  BY <1>1, <1>2, FS_CardinalityType, FS_EmptySet
<1> QED BY <1>1, <1>3, Positive DEF Total

LEMMA FragmentEnds ==
    ASSUME NEW f \in Fragment
    PROVE  f.start \in Nat /\ End(f) \in Nat /\ f.start < End(f)
<1>1. f.start \in Nat /\ Total(f.proposal) \in Nat \ {0}
  BY TotalPositive DEF Fragment
<1> QED BY <1>1 DEF End

\* A set of naturals that is not empty has a least member, which Min returns.
LEMMA MinNat ==
    ASSUME NEW S, S \subseteq Nat, S # {}
    PROVE  Min(S) \in S /\ \A y \in S : Min(S) <= y
<1> DEFINE less == {ss \in Nat \X Nat : ss[1] < ss[2]}
<1>1. IsWellFoundedOn(less, Nat)
  BY NatLessThanWellFounded DEF OpToRel
<1>2. \A a, b \in Nat : a < b => <<a, b>> \in less
  OBVIOUS
<1> HIDE DEF less
<1>3. PICK x \in S : \A y \in S : ~ (<<y, x>> \in less)
  BY <1>1, WFMin
<1>4. \A y \in S : x =< y
  <2> TAKE y \in S
  <2>1. ~ (y < x)
    BY <1>2, <1>3
  <2> QED BY <2>1
<1>5. Min(S) \in S /\ \A y \in S : Min(S) =< y
  BY <1>4 DEF Min
<1> QED BY <1>5

\* A bounded set of naturals that is not empty has a largest member, which Max returns.
LEMMA MaxNat ==
    ASSUME NEW n \in Nat, NEW S, S \subseteq 0..n, S # {}
    PROVE  Max(S) \in S /\ \A y \in S : y <= Max(S)
<1> DEFINE less == {ss \in Nat \X Nat : ss[1] < ss[2]}
           gaps == {n - y : y \in S}
<1>1. IsWellFoundedOn(less, Nat)
  BY NatLessThanWellFounded DEF OpToRel
<1>2. \A a, b \in Nat : a < b => <<a, b>> \in less
  OBVIOUS
<1>3. gaps \subseteq Nat /\ gaps # {}
  <2>1. \A y \in S : n - y \in Nat
    OBVIOUS
  <2>2. PICK y \in S : TRUE
    OBVIOUS
  <2>3. n - y \in gaps
    OBVIOUS
  <2> QED BY <2>1, <2>3
<1> HIDE DEF less
<1>4. PICK x \in gaps : \A y \in gaps : ~ (<<y, x>> \in less)
  BY <1>1, <1>3, WFMin
<1>5. PICK m \in S : x = n - m
  BY <1>4
<1>6. \A y \in S : m >= y
  <2> TAKE y \in S
  <2>1. n - y \in gaps /\ n - y \in Nat /\ n - m \in Nat
    OBVIOUS
  <2>2. ~ (n - y < n - m)
    BY <1>2, <1>4, <1>5, <2>1
  <2> QED BY <2>2
<1> HIDE DEF gaps
<1>7. Max(S) \in S /\ \A y \in S : Max(S) >= y
  BY <1>6 DEF Max
<1> QED BY <1>7

LEMMA InitialCountNat == InitialCount \in Nat /\ PointLimit \in Nat /\ InitialCount <= PointLimit
BY AdaptiveAssumption

\* How far fragments reach that end somewhere.
LEMMA ExtentReached ==
    ASSUME NEW F, F \subseteq Fragment, NEW n \in Nat, InitialCount <= n,
           \A f \in F : End(f) <= n
    PROVE  /\ Extent(F) \in Nat /\ InitialCount <= Extent(F) /\ Extent(F) <= n
           /\ \A f \in F : End(f) <= Extent(F)
           /\ Extent(F) = InitialCount \/ \E f \in F : Extent(F) = End(f)
<1> DEFINE S == {InitialCount} \cup {End(f) : f \in F}
<1>1. S \subseteq 0..n
  BY FragmentEnds, InitialCountNat
<1>2. S # {}
  OBVIOUS
<1>3. Extent(F) = Max(S)
  BY DEF Extent
<1>4. InitialCount \in S /\ \A f \in F : End(f) \in S
  OBVIOUS
<1> HIDE DEF S
<1>5. Max(S) \in S /\ \A y \in S : y <= Max(S)
  BY <1>1, <1>2, MaxNat
<1>6. Max(S) \in Nat /\ Max(S) <= n
  <2> DEFINE m == Max(S)
  <2>1. m \in 0..n
    BY <1>1, <1>5
  <2> HIDE DEF m
  <2>2. m \in Nat /\ m <= n
    BY <2>1
  <2> QED BY <2>2 DEF m
<1>7. Max(S) = InitialCount \/ \E f \in F : Max(S) = End(f)
  BY <1>5 DEF S
<1> QED BY <1>3, <1>4, <1>5, <1>6, <1>7

\* A fragment that starts where the others end moves the end to its own.
LEMMA ExtentMoves ==
    ASSUME NEW F, F \subseteq Fragment, NEW n \in Nat, InitialCount <= n,
           \A f \in F : End(f) <= n, NEW g \in Fragment, g.start = Extent(F)
    PROVE  Extent(F \cup {g}) = End(g)
<1> DEFINE G == F \cup {g}
<1>1. /\ Extent(F) \in Nat /\ InitialCount <= Extent(F)
      /\ \A f \in F : End(f) <= Extent(F)
  BY ExtentReached
<1>2. g.start \in Nat /\ End(g) \in Nat /\ g.start < End(g)
  BY FragmentEnds
<1>3. G \subseteq Fragment /\ InitialCount <= End(g) /\ \A f \in G : End(f) <= End(g)
  <2>1. \A f \in F : End(f) \in Nat
    BY FragmentEnds
  <2> QED BY <1>1, <1>2, <2>1, InitialCountNat
<1>4. g \in G
  OBVIOUS
<1> HIDE DEF G
<1>5. Extent(G) \in Nat /\ Extent(G) <= End(g) /\ \A f \in G : End(f) <= Extent(G)
  BY <1>2, <1>3, ExtentReached
<1>6. Extent(G) = End(g)
  BY <1>2, <1>4, <1>5
<1> QED BY <1>6 DEF G

-----------------------------------------------------------------------------
(* Fragments that take up a plan. *)

LEMMA TiledAdd ==
    ASSUME NEW F, F \subseteq Fragment, NEW n \in Nat, InitialCount <= n, Tiled(F, n),
           NEW g \in Fragment, g.start = n
    PROVE  Tiled(F \cup {g}, End(g))
<1>1. g.start \in Nat /\ End(g) \in Nat /\ n < End(g)
  BY FragmentEnds
<1>2. \A f \in F : f.start \in Nat /\ End(f) \in Nat
  BY FragmentEnds
<1>3. \A f \in F : InitialCount =< f.start /\ End(f) =< n
  BY DEF Tiled
<1>4. \A f \in F \cup {g} : InitialCount =< f.start /\ End(f) =< End(g)
  BY <1>1, <1>2, <1>3
<1>5. \A f, h \in F \cup {g} : f # h => End(f) =< h.start \/ End(h) =< f.start
  <2>1. \A f, h \in F : f # h => End(f) =< h.start \/ End(h) =< f.start
    BY DEF Tiled
  <2>2. \A f \in F : End(f) =< g.start
    BY <1>3
  <2> QED BY <2>1, <2>2
<1>6. \A k \in InitialCount..(End(g) - 1) :
          \E f \in F \cup {g} : f.start =< k /\ k < End(f)
  <2> TAKE k \in InitialCount..(End(g) - 1)
  <2>1. CASE k < n
    <3>1. k \in InitialCount..(n - 1)
      BY <2>1, InitialCountNat
    <3> QED BY <3>1 DEF Tiled
  <2>2. CASE ~ (k < n)
    <3>1. g.start =< k /\ k < End(g)
      BY <2>2, <1>1, InitialCountNat
    <3> QED BY <3>1
  <2> QED BY <2>1, <2>2
<1> QED BY <1>4, <1>5, <1>6 DEF Tiled

\* What is added behind what an executor has is none of its business.
LEMMA LeadingStays ==
    ASSUME NEW F, NEW G, NEW P, Leading(P, F), F \subseteq G, G \subseteq Fragment,
           Extent(P) \in Nat, \A f \in G \ F : Extent(P) <= f.start
    PROVE  Leading(P, G)
<1>1. P = {f \in F : f.start < Extent(P)}
  BY DEF Leading
<1>2. \A f \in G : f.start \in Nat
  BY FragmentEnds
<1>3. \A f \in G : f.start < Extent(P) => f \in F
  BY <1>2
<1>4. P = {f \in G : f.start < Extent(P)}
  BY <1>1, <1>3
<1> QED BY <1>4 DEF Leading

\* An executor may go on to the fragment that starts where it is.
LEMMA LeadingMoves ==
    ASSUME NEW F, F \subseteq Fragment, NEW n \in Nat, InitialCount <= n, Tiled(F, n),
           NEW P, Leading(P, F), NEW g \in F, g.start = Extent(P)
    PROVE  /\ Leading(P \cup {g}, F)
           /\ Extent(P) < Extent(P \cup {g}) /\ Extent(P \cup {g}) <= n
<1>1. P = {f \in F : f.start < Extent(P)}
  BY DEF Leading
<1>2. P \subseteq F /\ P \subseteq Fragment /\ \A f \in P : End(f) <= n
  BY <1>1 DEF Tiled
<1>3. Extent(P \cup {g}) = End(g)
  BY <1>2, ExtentMoves
<1>4. \A f \in F : f.start \in Nat /\ End(f) \in Nat /\ f.start < End(f)
  BY FragmentEnds
<1>5. \A f, h \in F : f # h => End(f) =< h.start \/ End(h) =< f.start
  BY DEF Tiled
<1>6. Extent(P) \in Nat
  BY <1>2, ExtentReached
<1>7. P \cup {g} = {f \in F : f.start < End(g)}
  <2>0. g.start < End(g) /\ End(g) \in Nat /\ g.start = Extent(P)
    BY <1>4
  <2>1. ASSUME NEW f \in P \cup {g} PROVE f \in F /\ f.start < End(g)
    <3>1. f \in F /\ f.start \in Nat /\ (f = g \/ f.start < Extent(P))
      BY <1>1, <1>4
    <3>2. f = g => f.start < End(g)
      BY <2>0
    <3>3. f.start < Extent(P) => f.start < End(g)
      BY <1>6, <2>0, <3>1
    <3> QED BY <3>1, <3>2, <3>3
  <2>2. ASSUME NEW f \in F, f.start < End(g) PROVE f \in P \cup {g}
    <3>1. CASE f = g
      BY <3>1
    <3>2. CASE f # g
      <4>1. End(f) =< g.start
        BY <3>2, <2>2, <1>4, <1>5
      <4>2. f.start < Extent(P)
        BY <4>1, <1>4
      <4> QED BY <4>2, <1>1
    <3> QED BY <3>1, <3>2
  <2> QED BY <2>1, <2>2
<1>8. End(g) <= n
  BY DEF Tiled
<1> QED BY <1>3, <1>4, <1>6, <1>7, <1>8 DEF Leading

LEMMA FragmentsAreFragments ==
    ASSUME decisions \in Seq(Decision)
    PROVE  Fragments \subseteq Fragment
<1>1. \A d \in Range(decisions) : d \in Decision
  BY DEF Range
<1>2. \A d \in Decision : [start |-> d.start, proposal |-> d.op.proposal] \in Fragment
  BY DEF Decision, Operation, Fragment
<1> QED BY <1>1, <1>2 DEF Fragments

FragmentOf(d) == [start |-> d.start, proposal |-> d.op.proposal]

LEMMA FragmentsAppended ==
    ASSUME decisions \in Seq(Decision), NEW d \in Decision,
           decisions' = Append(decisions, d)
    PROVE  /\ Fragments' = IF d.op.outcome = "accepted"
                           THEN Fragments \cup {FragmentOf(d)} ELSE Fragments
           /\ FragmentOf(d) \in Fragment
<1>1. Range(decisions') = Range(decisions) \cup {d}
  <2>1. DOMAIN decisions' = DOMAIN decisions \cup {Len(decisions) + 1}
    OBVIOUS
  <2>2. \A i \in DOMAIN decisions : decisions'[i] = decisions[i]
    OBVIOUS
  <2>3. decisions'[Len(decisions) + 1] = d
    OBVIOUS
  <2> QED BY <2>1, <2>2, <2>3 DEF Range
<1>2. Fragments' = {[start |-> x.start, proposal |-> x.op.proposal] :
                        x \in {e \in Range(decisions) \cup {d} : e.op.outcome = "accepted"}}
  BY <1>1 DEF Fragments
<1>3. Fragments' = IF d.op.outcome = "accepted"
                   THEN Fragments \cup {FragmentOf(d)} ELSE Fragments
  BY <1>2 DEF Fragments, FragmentOf
<1>4. FragmentOf(d) \in Fragment
  BY DEF FragmentOf, Decision, Operation, Fragment
<1> QED BY <1>3, <1>4

-----------------------------------------------------------------------------
(* Requests and decisions. *)

\* The requests of Q are in R, in their places.
SameRequests(Q, R) ==
    \A j \in DOMAIN Q : j \in DOMAIN R /\ R[j].id = Q[j].id /\ R[j].size = Q[j].size

LEMMA MappedSequence ==
    ASSUME NEW S, NEW Q \in Seq(S), NEW R, DOMAIN R = DOMAIN Q,
           R = [i \in DOMAIN Q |-> R[i]], \A i \in DOMAIN Q : R[i] \in S
    PROVE  R \in Seq(S)
<1>1. DOMAIN Q = 1..Len(Q) /\ Len(Q) \in Nat
  OBVIOUS
<1>2. R \in [1..Len(Q) -> S]
  BY <1>1
<1> QED BY <1>1, <1>2

LEMMA CancelledEntry ==
    ASSUME NEW q \in Entry
    PROVE  LET r == IF q.status = "pending" THEN [q EXCEPT !.status = "cancelled"] ELSE q
           IN /\ r \in Entry /\ r.id = q.id /\ r.size = q.size /\ r.scope = q.scope
              /\ r.regions = q.regions /\ r.status # "pending"
              /\ q.status \in {"accepted", "rejected"} => r = q
              /\ r.status \in {"accepted", "rejected"} => r = q
BY DEF Entry

LEMMA CancelMatched ==
    ASSUME NEW Q \in Seq(Entry), NEW D \in Seq(Decision), Matched(Q, D)
    PROVE  /\ CancelPending(Q) \in Seq(Entry) /\ Matched(CancelPending(Q), D)
           /\ NonePending(CancelPending(Q)) /\ SameRequests(Q, CancelPending(Q))
<1> DEFINE R == CancelPending(Q)
<1>1. DOMAIN R = DOMAIN Q /\ R = [i \in DOMAIN Q |-> R[i]]
  BY DEF CancelPending
<1>2. \A i \in DOMAIN Q :
          R[i] = IF Q[i].status = "pending" THEN [Q[i] EXCEPT !.status = "cancelled"] ELSE Q[i]
  BY DEF CancelPending
<1>3. \A i \in DOMAIN Q : Q[i] \in Entry
  OBVIOUS
<1> HIDE DEF R
<1>4. \A i \in DOMAIN Q :
          /\ R[i] \in Entry /\ R[i].id = Q[i].id /\ R[i].size = Q[i].size
          /\ R[i].scope = Q[i].scope /\ R[i].regions = Q[i].regions
          /\ R[i].status # "pending"
          /\ Q[i].status \in {"accepted", "rejected"} => R[i] = Q[i]
          /\ R[i].status \in {"accepted", "rejected"} => R[i] = Q[i]
  BY <1>2, <1>3, CancelledEntry
<1>5. R \in Seq(Entry)
  BY <1>1, <1>4, MappedSequence
<1>6. \A i \in DOMAIN D : D[i].op.outcome \in {"accepted", "rejected"}
  <2>1. \A i \in DOMAIN D : D[i] \in Decision
    OBVIOUS
  <2> QED BY <2>1 DEF Decision, Operation
<1>7. \A i, j \in DOMAIN R : R[i].id = R[j].id => i = j
  BY <1>1, <1>4 DEF Matched
<1>8. \A j \in DOMAIN R : R[j].scope = "selected" => R[j].regions # {}
  BY <1>1, <1>4 DEF Matched
<1>9. \A i \in DOMAIN D : D[i].op.request # None => \E j \in DOMAIN R : Answers(D[i], R[j])
  <2> TAKE i \in DOMAIN D
  <2> HAVE D[i].op.request # None
  <2>1. PICK j \in DOMAIN Q : Answers(D[i], Q[j])
    BY DEF Matched
  <2>2. Q[j].status \in {"accepted", "rejected"}
    BY <1>6, <2>1 DEF Answers
  <2>3. R[j] = Q[j]
    BY <1>4, <2>2
  <2> QED BY <1>1, <2>1, <2>3
<1>10. \A i, j \in DOMAIN D :
          D[i].op.request = D[j].op.request /\ D[i].op.request # None => i = j
  BY DEF Matched
<1>11. \A j \in DOMAIN R : R[j].status \in {"accepted", "rejected"} =>
           \E i \in DOMAIN D : Answers(D[i], R[j])
  <2> TAKE j \in DOMAIN R
  <2> HAVE R[j].status \in {"accepted", "rejected"}
  <2>1. R[j] = Q[j]
    BY <1>1, <1>4
  <2> QED BY <1>1, <2>1 DEF Matched
<1>12. Matched(R, D)
  BY <1>7, <1>8, <1>9, <1>10, <1>11 DEF Matched
<1>13. NonePending(R) /\ SameRequests(Q, R)
  BY <1>1, <1>4 DEF NonePending, SameRequests
<1> QED BY <1>5, <1>12, <1>13 DEF R

\* A decision about nobody's request.
LEMMA UnaskedMatched ==
    ASSUME NEW Q \in Seq(Entry), NEW D \in Seq(Decision), Matched(Q, D),
           NEW d \in Decision, d.op.request = None, NEW E, E = Append(D, d)
    PROVE  Resolved(Q, d.op) = Q /\ Matched(Q, E)
<1>1. Resolved(Q, d.op) = Q
  <2>1. Q = [i \in DOMAIN Q |-> Q[i]]
    OBVIOUS
  <2>2. Resolved(Q, d.op) = [i \in DOMAIN Q |-> Q[i]]
    BY DEF Resolved
  <2> QED BY <2>1, <2>2
<1>2. DOMAIN E = DOMAIN D \cup {Len(D) + 1} /\ E[Len(D) + 1] = d
  OBVIOUS
<1>3. \A i \in DOMAIN D : E[i] = D[i]
  OBVIOUS
<1> HIDE DEF Decision
<1>4. \A i \in DOMAIN E : E[i].op.request # None => i \in DOMAIN D
  BY <1>2
<1>5. \A i \in DOMAIN E : E[i].op.request # None => \E j \in DOMAIN Q : Answers(E[i], Q[j])
  BY <1>3, <1>4 DEF Matched
<1>6. \A i, j \in DOMAIN E :
          E[i].op.request = E[j].op.request /\ E[i].op.request # None => i = j
  BY <1>3, <1>4 DEF Matched
<1>7. \A j \in DOMAIN Q : Q[j].status \in {"accepted", "rejected"} =>
          \E i \in DOMAIN E : Answers(E[i], Q[j])
  <2> TAKE j \in DOMAIN Q
  <2> HAVE Q[j].status \in {"accepted", "rejected"}
  <2>1. PICK i \in DOMAIN D : Answers(D[i], Q[j])
    BY DEF Matched
  <2>2. i \in DOMAIN E /\ E[i] = D[i]
    BY <1>2, <1>3
  <2> QED BY <2>1, <2>2
<1>8. Matched(Q, E)
  BY <1>5, <1>6, <1>7 DEF Matched
<1> QED BY <1>1, <1>8

LEMMA DecidedEntry ==
    ASSUME NEW q \in Entry, NEW s \in {"accepted", "rejected"},
           NEW r, r = [q EXCEPT !.status = s]
    PROVE  /\ r \in Entry /\ r.id = q.id /\ r.size = q.size /\ r.scope = q.scope
           /\ r.regions = q.regions /\ r.status = s
BY DEF Entry

\* A decision about a request that is pending.
LEMMA DecidedMatched ==
    ASSUME NEW Q \in Seq(Entry), NEW D \in Seq(Decision), Matched(Q, D),
           NEW d \in Decision, d.op.request # None,
           NEW p \in DOMAIN Q, Q[p].id = d.op.request, Q[p].status = "pending",
           Q[p].size = d.op.proposal.size, NEW E, E = Append(D, d)
    PROVE  /\ Resolved(Q, d.op) \in Seq(Entry)
           /\ SameRequests(Q, Resolved(Q, d.op))
           /\ Matched(Resolved(Q, d.op), E)
<1> DEFINE R == Resolved(Q, d.op)
<1>1. DOMAIN R = DOMAIN Q /\ R = [i \in DOMAIN Q |-> R[i]]
  BY DEF Resolved
<1>2. \A i \in DOMAIN Q : Q[i].id = d.op.request => i = p
  BY DEF Matched
<1>3. /\ R[p] = [Q[p] EXCEPT !.status = d.op.outcome]
      /\ \A i \in DOMAIN Q : i # p => R[i] = Q[i]
  BY <1>2 DEF Resolved
<1>4. \A i \in DOMAIN Q : Q[i] \in Entry
  OBVIOUS
<1>5. d.op.outcome \in {"accepted", "rejected"}
  BY DEF Decision, Operation
<1> HIDE DEF R
<1>6. /\ R[p] \in Entry /\ R[p].id = Q[p].id /\ R[p].size = Q[p].size
      /\ R[p].scope = Q[p].scope /\ R[p].regions = Q[p].regions
      /\ R[p].status = d.op.outcome
  <2>1. Q[p] \in Entry
    BY <1>4
  <2>2. R[p] = [Q[p] EXCEPT !.status = d.op.outcome]
    BY <1>3
  <2> QED BY <1>5, <2>1, <2>2, DecidedEntry
<1>7. \A i \in DOMAIN Q :
          /\ R[i] \in Entry /\ R[i].id = Q[i].id /\ R[i].size = Q[i].size
          /\ R[i].scope = Q[i].scope /\ R[i].regions = Q[i].regions
  BY <1>3, <1>4, <1>6
<1>8. R \in Seq(Entry)
  BY <1>1, <1>7, MappedSequence
<1>9. DOMAIN E = DOMAIN D \cup {Len(D) + 1} /\ E[Len(D) + 1] = d
  OBVIOUS
<1>10. \A i \in DOMAIN D : E[i] = D[i] /\ i # Len(D) + 1
  OBVIOUS
<1>11. \A i \in DOMAIN D : D[i].op.request # d.op.request
  <2> SUFFICES ASSUME NEW i \in DOMAIN D, D[i].op.request = d.op.request PROVE FALSE
    OBVIOUS
  <2>1. PICK j \in DOMAIN Q : Answers(D[i], Q[j])
    BY DEF Matched
  <2>2. j = p
    BY <1>2, <2>1 DEF Answers
  <2>3. D[i] \in Decision
    OBVIOUS
  <2>4. D[i].op.outcome # "pending"
    BY <2>3 DEF Decision, Operation
  <2> QED BY <2>1, <2>2, <2>4 DEF Answers
<1>12. Answers(d, R[p])
  BY <1>6 DEF Answers
<1>13. \A i, j \in DOMAIN R : R[i].id = R[j].id => i = j
  BY <1>1, <1>7 DEF Matched
<1>14. \A j \in DOMAIN R : R[j].scope = "selected" => R[j].regions # {}
  BY <1>1, <1>7 DEF Matched
<1>15. \A i \in DOMAIN E : E[i].op.request # None => \E j \in DOMAIN R : Answers(E[i], R[j])
  <2> TAKE i \in DOMAIN E
  <2> HAVE E[i].op.request # None
  <2>1. CASE i = Len(D) + 1
    BY <2>1, <1>1, <1>9, <1>12
  <2>2. CASE i \in DOMAIN D
    <3>1. PICK j \in DOMAIN Q : Answers(D[i], Q[j])
      BY <2>2, <1>10 DEF Matched
    <3>2. j # p
      BY <2>2, <1>11, <3>1 DEF Answers
    <3> QED BY <1>1, <1>3, <1>10, <2>2, <3>1, <3>2
  <2> QED BY <1>9, <2>1, <2>2
<1>16. \A i, j \in DOMAIN E :
          E[i].op.request = E[j].op.request /\ E[i].op.request # None => i = j
  <2>1. \A i, j \in DOMAIN D :
            D[i].op.request = D[j].op.request /\ D[i].op.request # None => i = j
    BY DEF Matched
  <2> QED BY <2>1, <1>9, <1>10, <1>11
<1>17. \A j \in DOMAIN R : R[j].status \in {"accepted", "rejected"} =>
           \E i \in DOMAIN E : Answers(E[i], R[j])
  <2> TAKE j \in DOMAIN R
  <2> HAVE R[j].status \in {"accepted", "rejected"}
  <2>1. CASE j = p
    BY <2>1, <1>9, <1>12
  <2>2. CASE j # p
    <3>1. j \in DOMAIN Q /\ R[j] = Q[j]
      BY <2>2, <1>1, <1>3
    <3>2. PICK i \in DOMAIN D : Answers(D[i], Q[j])
      BY <3>1 DEF Matched
    <3> QED BY <1>9, <1>10, <3>1, <3>2
  <2> QED BY <2>1, <2>2
<1>18. Matched(R, E)
  BY <1>13, <1>14, <1>15, <1>16, <1>17 DEF Matched
<1>19. SameRequests(Q, R)
  BY <1>1, <1>7 DEF SameRequests
<1> QED BY <1>8, <1>18, <1>19 DEF R

\* A request that is new.
LEMMA EnqueuedMatched ==
    ASSUME NEW Q \in Seq(Entry), NEW D \in Seq(Decision), Matched(Q, D),
           NEW q \in Request, q.id \notin {r.id : r \in Range(Q)}
    PROVE  /\ Append(Q, q) \in Seq(Entry) /\ Matched(Append(Q, q), D)
           /\ SameRequests(Q, Append(Q, q))
<1> DEFINE R == Append(Q, q)
<1>0. q \in Entry /\ q.status = "pending" /\ (q.scope = "selected" => q.regions # {})
  BY DEF Request
<1>1. R \in Seq(Entry)
  BY <1>0
<1>2. DOMAIN R = DOMAIN Q \cup {Len(Q) + 1} /\ R[Len(Q) + 1] = q
  OBVIOUS
<1>3. \A i \in DOMAIN Q : R[i] = Q[i]
  OBVIOUS
<1>4. \A i \in DOMAIN Q : Q[i].id # q.id
  BY DEF Range
<1> HIDE DEF R
<1>5. \A i, j \in DOMAIN R : R[i].id = R[j].id => i = j
  BY <1>2, <1>3, <1>4 DEF Matched
<1>6. \A j \in DOMAIN R : R[j].scope = "selected" => R[j].regions # {}
  BY <1>0, <1>2, <1>3 DEF Matched
<1>7. \A i \in DOMAIN D : D[i].op.request # None => \E j \in DOMAIN R : Answers(D[i], R[j])
  BY <1>2, <1>3 DEF Matched
<1>8. \A i, j \in DOMAIN D :
          D[i].op.request = D[j].op.request /\ D[i].op.request # None => i = j
  BY DEF Matched
<1>9. \A j \in DOMAIN R : R[j].status \in {"accepted", "rejected"} =>
          \E i \in DOMAIN D : Answers(D[i], R[j])
  BY <1>0, <1>2, <1>3 DEF Matched
<1>10. Matched(R, D)
  BY <1>5, <1>6, <1>7, <1>8, <1>9 DEF Matched
<1>11. SameRequests(Q, R)
  BY <1>2, <1>3 DEF SameRequests
<1> QED BY <1>1, <1>10, <1>11 DEF R

-----------------------------------------------------------------------------
(* What the daemon does keeps its tables in order, and what an executor knows *)
(* of them true.                                                              *)

Grows ==
    /\ plan.accepted =< plan'.accepted
    /\ PlanClosed => PlanClosed' /\ plan'.accepted = plan.accepted
    /\ Fragments \subseteq Fragments'
    /\ \A f \in Fragments' \ Fragments : plan.accepted =< f.start
    /\ SameRequests(queue, queue')

LEMMA TablesTypes ==
    ASSUME TablesTypeOK
    PROVE  /\ plan.accepted \in Nat /\ InitialCount <= plan.accepted
           /\ plan.accepted <= PointLimit
           /\ plan.stop \in {NotClosed, Abandoned} \cup (Nat \X Reason)
           /\ covered \in Nat /\ Fragments \subseteq Fragment
<1>1. plan.accepted \in InitialCount..PointLimit /\ covered \in 0..PointLimit
  BY DEF TablesTypeOK
<1>2. plan.stop \in {NotClosed, Abandoned} \cup (Nat \X Reason)
  BY DEF TablesTypeOK
<1>3. Fragments \subseteq Fragment
  BY FragmentsAreFragments DEF TablesTypeOK
<1> QED BY <1>1, <1>2, <1>3, InitialCountNat

LEMMA SameTables ==
    ASSUME TablesOK, UNCHANGED <<plan, decisions, queue, covered>>, run' = run
    PROVE  TablesOK' /\ Grows
<1>1. plan.accepted \in Nat
  BY TablesTypes DEF TablesOK
<1>2. Fragments' = Fragments /\ PlanClosed' = PlanClosed
  BY DEF Fragments, PlanClosed
<1>3. TablesTypeOK' /\ LedgerOK' /\ QueueOK'
  BY <1>2 DEF TablesOK, TablesTypeOK, LedgerOK, QueueOK
<1>4. Grows
  BY <1>1, <1>2 DEF Grows, SameRequests
<1> QED BY <1>3, <1>4 DEF TablesOK

\* Only the lease changes.
LEMMA LeaseKeeps ==
    ASSUME TablesOK, UNCHANGED <<plan, decisions, queue, covered>>,
           run' \in [state : {"queued", "leased", "attention"},
                     holder : Executor \cup {None}, started : BOOLEAN, cancelled : BOOLEAN,
                     result : {None, "succeeded", "failed", "cancelled"}],
           run'.result = run.result, run.state # "closed"
    PROVE  TablesOK' /\ Grows
<1>1. plan.accepted \in Nat
  BY TablesTypes DEF TablesOK
<1>2. Fragments' = Fragments /\ PlanClosed' = PlanClosed
  BY DEF Fragments, PlanClosed
<1>3. run'.state # "closed" /\ run'.result # "succeeded"
  BY DEF TablesOK, LedgerOK
<1>4. TablesTypeOK'
  BY DEF TablesOK, TablesTypeOK
<1>5. LedgerOK' /\ QueueOK'
  BY <1>2, <1>3 DEF TablesOK, LedgerOK, QueueOK
<1>6. Grows
  BY <1>1, <1>2 DEF Grows, SameRequests
<1> QED BY <1>4, <1>5, <1>6 DEF TablesOK

LEMMA AbandonKeeps ==
    ASSUME TablesOK, AbandonPlan, UNCHANGED <<decisions, covered>>,
           run' \in [state : {"queued", "leased", "attention", "closed"},
                     holder : Executor \cup {None}, started : BOOLEAN, cancelled : BOOLEAN,
                     result : {None, "succeeded", "failed", "cancelled"}],
           run'.result # "succeeded"
    PROVE  TablesOK' /\ Grows
<1>1. /\ plan.accepted \in Nat /\ InitialCount <= plan.accepted
      /\ plan \in [accepted : InitialCount..PointLimit,
                   stop : {NotClosed, Abandoned} \cup (Nat \X Reason)]
  BY TablesTypes DEF TablesOK, TablesTypeOK
<1>2. queue \in Seq(Entry) /\ decisions \in Seq(Decision) /\ Matched(queue, decisions)
  BY DEF TablesOK, TablesTypeOK, QueueOK
<1>3. Fragments' = Fragments
  BY DEF Fragments
<1>4. CASE plan.stop = NotClosed
  <2>1. plan' = [plan EXCEPT !.stop = Abandoned] /\ queue' = CancelPending(queue)
    BY <1>4 DEF AbandonPlan
  <2>2. /\ plan'.accepted = plan.accepted /\ plan'.stop = Abandoned
        /\ plan' \in [accepted : InitialCount..PointLimit,
                      stop : {NotClosed, Abandoned} \cup (Nat \X Reason)]
    BY <1>1, <2>1
  <2>3. /\ queue' \in Seq(Entry) /\ Matched(queue', decisions) /\ NonePending(queue')
        /\ SameRequests(queue, queue')
    BY <1>2, <2>1, CancelMatched
  <2>4. TablesTypeOK'
    BY <2>2, <2>3 DEF TablesOK, TablesTypeOK
  <2>5. ~PlanClosed /\ ~PlanClosed' /\ plan'.stop # NotClosed
    BY <1>4, <2>2 DEF PlanClosed, NotClosed, Abandoned
  <2>6. LedgerOK'
    BY <1>3, <2>2, <2>5 DEF TablesOK, LedgerOK
  <2>7. QueueOK'
    BY <2>3 DEF QueueOK
  <2>8. Grows
    BY <1>1, <1>3, <2>2, <2>3, <2>5 DEF Grows
  <2> QED BY <2>4, <2>6, <2>7, <2>8 DEF TablesOK
<1>5. CASE plan.stop # NotClosed
  <2>1. UNCHANGED <<plan, queue>>
    BY <1>5 DEF AbandonPlan
  <2>2. PlanClosed' = PlanClosed
    BY <2>1 DEF PlanClosed
  <2>3. TablesTypeOK' /\ QueueOK'
    BY <2>1 DEF TablesOK, TablesTypeOK, QueueOK
  <2>4. LedgerOK'
    BY <1>3, <1>5, <2>1, <2>2 DEF TablesOK, LedgerOK
  <2>5. Grows
    BY <1>1, <1>3, <2>1, <2>2 DEF Grows, SameRequests
  <2> QED BY <2>3, <2>4, <2>5 DEF TablesOK
<1> QED BY <1>4, <1>5

LEMMA EnqueueKeeps ==
    ASSUME TablesOK, NEW q \in Request, Enqueue(q)
    PROVE  TablesOK' /\ Grows
<1>1. plan.accepted \in Nat
  BY TablesTypes DEF TablesOK
<1>2. /\ plan.stop = NotClosed /\ queue' = Append(queue, q)
      /\ q.id \notin {r.id : r \in Range(queue)}
      /\ UNCHANGED <<run, plan, decisions, covered>>
  BY DEF Enqueue, Requested
<1>3. queue \in Seq(Entry) /\ decisions \in Seq(Decision) /\ Matched(queue, decisions)
  BY DEF TablesOK, TablesTypeOK, QueueOK
<1>4. queue' \in Seq(Entry) /\ Matched(queue', decisions) /\ SameRequests(queue, queue')
  BY <1>2, <1>3, EnqueuedMatched
<1>5. Fragments' = Fragments /\ PlanClosed' = PlanClosed
  BY <1>2 DEF Fragments, PlanClosed
<1>6. TablesTypeOK'
  BY <1>2, <1>4 DEF TablesOK, TablesTypeOK
<1>7. LedgerOK'
  BY <1>2, <1>5 DEF TablesOK, LedgerOK
<1>8. QueueOK'
  BY <1>2, <1>4 DEF QueueOK
<1>9. Grows
  BY <1>1, <1>2, <1>4, <1>5 DEF Grows
<1> QED BY <1>6, <1>7, <1>8, <1>9 DEF TablesOK

LEMMA AppendCallTypes ==
    ASSUME NEW c \in AppendCall
    PROVE  /\ c.kind = "append" /\ c.from \in Executor /\ c.op \in Operation /\ c.start \in Nat
           /\ c.op.outcome \in {"accepted", "rejected"} /\ c.op.proposal \in Proposal
           /\ [op |-> c.op, start |-> c.start] \in Decision
BY DEF AppendCall, Operation, Decision

LEMMA RecordKeeps ==
    ASSUME TablesOK, NEW c \in AppendCall, CallOK(c), Decidable(c), RecordDecision(c)
    PROVE  /\ TablesOK' /\ Grows
           /\ c.op.outcome = "accepted" =>
                  [start |-> c.start, proposal |-> c.op.proposal] \in Fragments'
<1>1. /\ plan.accepted \in Nat /\ InitialCount <= plan.accepted
      /\ plan \in [accepted : InitialCount..PointLimit,
                   stop : {NotClosed, Abandoned} \cup (Nat \X Reason)]
      /\ Fragments \subseteq Fragment
  BY TablesTypes DEF TablesOK, TablesTypeOK
<1>2. queue \in Seq(Entry) /\ decisions \in Seq(Decision) /\ Matched(queue, decisions)
  BY DEF TablesOK, TablesTypeOK, QueueOK
<1>3. /\ c.kind = "append" /\ c.op.outcome \in {"accepted", "rejected"}
      /\ c.op.proposal \in Proposal /\ c.start \in Nat
      /\ [op |-> c.op, start |-> c.start] \in Decision
  BY AppendCallTypes
<1>4. CASE Recorded(c) # {}
  <2>1. UNCHANGED <<plan, decisions, queue, covered>> /\ run' = run
    BY <1>4 DEF RecordDecision
  <2>2. PICK i \in DOMAIN decisions : decisions[i].op = c.op
    BY <1>4 DEF Recorded
  <2>3. decisions[i].start = c.start
    BY <1>4, <2>2 DEF Decidable, Recorded
  <2>4. decisions[i] \in Range(decisions)
    BY DEF Range
  <2>5. c.op.outcome = "accepted" =>
            [start |-> c.start, proposal |-> c.op.proposal] \in Fragments
    BY <2>2, <2>3, <2>4 DEF Fragments
  <2>6. Fragments' = Fragments
    BY <2>1 DEF Fragments
  <2> QED BY <2>1, <2>5, <2>6, SameTables
<1>5. CASE Recorded(c) = {}
  <2>1. PICK d : d = [op |-> c.op, start |-> c.start]
    OBVIOUS
  <2>2. d \in Decision /\ d.op = c.op /\ d.start = c.start
    BY <1>3, <2>1
  <2>3. /\ plan.stop = NotClosed
        /\ c.op.request # None => Pending(c.op.request) # {}
        /\ c.op.outcome = "accepted" => /\ plan.accepted + Added(c.op) =< PointLimit
                                        /\ c.start = plan.accepted
    BY <1>5 DEF Decidable
  <2>4. /\ decisions' = Append(decisions, d) /\ queue' = Resolved(queue, c.op)
        /\ plan' = [plan EXCEPT !.accepted = plan.accepted + Added(c.op)]
        /\ UNCHANGED <<run, covered>>
    BY <1>5, <2>1 DEF RecordDecision
  <2>5. /\ Fragments' = IF c.op.outcome = "accepted"
                        THEN Fragments \cup {FragmentOf(d)} ELSE Fragments
        /\ FragmentOf(d) \in Fragment
    BY <1>2, <2>2, <2>4, FragmentsAppended
  <2>6. Total(c.op.proposal) \in Nat \ {0}
    BY <1>3, TotalPositive
  <2>7. /\ plan'.stop = NotClosed /\ plan'.accepted = plan.accepted + Added(c.op)
        /\ Added(c.op) \in Nat
        /\ c.op.outcome = "accepted" => Added(c.op) = Total(c.op.proposal)
        /\ c.op.outcome # "accepted" => Added(c.op) = 0
        /\ plan.accepted + Added(c.op) <= PointLimit
    BY <1>1, <2>3, <2>4, <2>6 DEF Added
  <2>8. plan' \in [accepted : InitialCount..PointLimit,
                   stop : {NotClosed, Abandoned} \cup (Nat \X Reason)]
    <3>1. plan.accepted + Added(c.op) \in InitialCount..PointLimit
      BY <1>1, <2>7, InitialCountNat
    <3> QED BY <1>1, <2>4, <3>1
  <2>9. Tiled(Fragments', plan'.accepted)
    <3>1. Tiled(Fragments, plan.accepted)
      BY DEF TablesOK, LedgerOK
    <3>2. CASE c.op.outcome = "accepted"
      <4>1. FragmentOf(d).start = plan.accepted
        BY <2>2, <2>3, <3>2 DEF FragmentOf
      <4>2. End(FragmentOf(d)) = plan'.accepted
        BY <2>2, <2>3, <2>7, <3>2 DEF End, FragmentOf
      <4>3. Tiled(Fragments \cup {FragmentOf(d)}, End(FragmentOf(d)))
        BY <1>1, <2>5, <3>1, <4>1, TiledAdd
      <4> QED BY <2>5, <3>2, <4>2, <4>3
    <3>3. CASE c.op.outcome # "accepted"
      BY <1>1, <2>5, <2>7, <3>1, <3>3
    <3> QED BY <3>2, <3>3
  <2>10. queue' \in Seq(Entry) /\ Matched(queue', decisions') /\ SameRequests(queue, queue')
    <3>1. CASE c.op.request = None
      <4>1. queue' = queue /\ Matched(queue, decisions')
        BY <1>2, <2>2, <2>4, <3>1, UnaskedMatched
      <4> QED BY <1>2, <4>1 DEF SameRequests
    <3>2. CASE c.op.request # None
      <4>1. PICK p \in DOMAIN queue : queue[p].id = c.op.request /\ queue[p].status = "pending"
        BY <2>3, <3>2 DEF Pending
      <4>2. PICK j \in DOMAIN queue : /\ queue[j].id = c.op.request
                                      /\ queue[j].size = c.op.proposal.size
        BY <1>3, <3>2 DEF CallOK
      <4>3. j = p
        BY <1>2, <4>1, <4>2 DEF Matched
      <4>4. queue[p].size = d.op.proposal.size
        BY <2>2, <4>2, <4>3
      <4>5. queue[p].id = d.op.request /\ d.op.request # None
        BY <2>2, <3>2, <4>1
      <4>6. queue' = Resolved(queue, d.op)
        BY <2>2, <2>4
      <4> QED BY <1>2, <2>2, <2>4, <4>1, <4>4, <4>5, <4>6, DecidedMatched
    <3> QED BY <3>1, <3>2
  <2>11. ~PlanClosed /\ ~PlanClosed'
    BY <2>3, <2>7 DEF PlanClosed
  <2>12. TablesTypeOK'
    <3>1. decisions' \in Seq(Decision)
      BY <1>2, <2>2, <2>4
    <3> QED BY <2>4, <2>8, <2>10, <3>1 DEF TablesOK, TablesTypeOK
  <2>13. LedgerOK'
    <3>1. covered \in Nat /\ covered <= plan.accepted
      BY TablesTypes DEF TablesOK, LedgerOK
    <3>2. covered' =< plan'.accepted
      BY <1>1, <2>4, <2>7, <3>1
    <3>3. run'.state # "closed" /\ run'.result # "succeeded"
      BY <2>3, <2>4, <2>11 DEF TablesOK, LedgerOK
    <3> QED BY <2>9, <2>11, <3>2, <3>3 DEF LedgerOK
  <2>14. QueueOK'
    BY <2>7, <2>10 DEF QueueOK
  <2>15. Grows
    <3>1. \A f \in Fragments' \ Fragments : plan.accepted =< f.start
      BY <1>1, <2>2, <2>3, <2>5 DEF FragmentOf
    <3> QED BY <1>1, <2>5, <2>7, <2>10, <2>11, <3>1 DEF Grows
  <2>16. c.op.outcome = "accepted" =>
             [start |-> c.start, proposal |-> c.op.proposal] \in Fragments'
    BY <2>2, <2>5 DEF FragmentOf
  <2> QED BY <2>12, <2>13, <2>14, <2>15, <2>16 DEF TablesOK
<1> QED BY <1>4, <1>5

LEMMA CloseKeeps ==
    ASSUME TablesOK, NEW c \in CloseCall, run.state # "closed", Closable(c), ClosePlan(c)
    PROVE  TablesOK' /\ Grows /\ PlanClosed' /\ plan'.accepted = c.completed
<1>1. /\ plan.accepted \in Nat /\ covered \in Nat
      /\ plan \in [accepted : InitialCount..PointLimit,
                   stop : {NotClosed, Abandoned} \cup (Nat \X Reason)]
  BY TablesTypes DEF TablesOK, TablesTypeOK
<1>2. queue \in Seq(Entry) /\ decisions \in Seq(Decision) /\ Matched(queue, decisions)
  BY DEF TablesOK, TablesTypeOK, QueueOK
<1>3. PICK s : s = ClosedAt(c.completed, c.reason)
  OBVIOUS
<1>4. s \in Nat \X Reason /\ s # NotClosed /\ s # Abandoned /\ s[1] = c.completed
  BY <1>3 DEF ClosedAt, CloseCall, Reason, NotClosed, Abandoned
<1>5. /\ plan' = [plan EXCEPT !.stop = s]
      /\ queue' = IF plan.stop = NotClosed THEN CancelPending(queue) ELSE queue
      /\ UNCHANGED <<run, decisions, covered>>
  BY <1>3 DEF ClosePlan
<1>6. plan'.stop = s /\ plan'.accepted = plan.accepted
  BY <1>1, <1>5
<1>7. plan' \in [accepted : InitialCount..PointLimit,
                 stop : {NotClosed, Abandoned} \cup (Nat \X Reason)]
  BY <1>1, <1>4, <1>5
<1>8. PlanClosed'
  BY <1>4, <1>6 DEF PlanClosed
<1>9. c.completed = plan.accepted /\ covered = plan.accepted
  <2>1. CASE plan.stop = NotClosed
    BY <2>1 DEF Closable, AtAcceptedPrefix
  <2>2. CASE plan.stop # NotClosed
    <3>1. plan.stop = s
      BY <1>3, <2>2 DEF Closable
    <3>2. PlanClosed
      BY <1>4, <3>1 DEF PlanClosed
    <3>3. plan.stop[1] = plan.accepted /\ covered = plan.accepted
      BY <3>2 DEF TablesOK, LedgerOK
    <3> QED BY <1>4, <3>1, <3>3
  <2> QED BY <2>1, <2>2
<1>10. /\ queue' \in Seq(Entry) /\ Matched(queue', decisions) /\ NonePending(queue')
       /\ SameRequests(queue, queue')
  <2>1. CASE plan.stop = NotClosed
    <3>1. queue' = CancelPending(queue)
      BY <1>5, <2>1
    <3> QED BY <1>2, <3>1, CancelMatched
  <2>2. CASE plan.stop # NotClosed
    <3>1. queue' = queue /\ NonePending(queue)
      BY <1>5, <2>2 DEF TablesOK, QueueOK
    <3> QED BY <1>2, <3>1 DEF SameRequests
  <2> QED BY <2>1, <2>2
<1>11. Fragments' = Fragments
  BY <1>5 DEF Fragments
<1>12. TablesTypeOK'
  BY <1>5, <1>7, <1>10 DEF TablesOK, TablesTypeOK
<1>13. LedgerOK'
  <2>1. run'.state # "closed" /\ run'.result # "succeeded"
    BY <1>5 DEF TablesOK, LedgerOK
  <2> QED BY <1>1, <1>4, <1>5, <1>6, <1>9, <1>11, <2>1 DEF TablesOK, LedgerOK
<1>14. QueueOK'
  BY <1>5, <1>10 DEF QueueOK
<1>15. Grows
  BY <1>1, <1>6, <1>8, <1>10, <1>11 DEF Grows
<1> QED BY <1>6, <1>8, <1>9, <1>12, <1>13, <1>14, <1>15 DEF TablesOK

LEMMA CoverKeeps ==
    ASSUME TablesOK, NEW c \in CoverCall, CallOK(c), Cover(c)
    PROVE  TablesOK' /\ Grows
<1>1. plan.accepted \in Nat /\ covered \in Nat /\ plan.accepted <= PointLimit
      /\ covered <= plan.accepted
  BY TablesTypes DEF TablesOK, LedgerOK
<1>2. c.end \in Nat /\ c.end <= plan.accepted
  BY DEF CoverCall, CallOK
<1>3. covered' \in Nat /\ covered <= covered' /\ covered' <= plan.accepted
  <2>1. {covered, c.end} \subseteq 0..plan.accepted /\ {covered, c.end} # {}
    BY <1>1, <1>2
  <2>2. Max({covered, c.end}) \in {covered, c.end} /\ \A y \in {covered, c.end} :
            y <= Max({covered, c.end})
    BY <1>1, <2>1, MaxNat
  <2>3. covered' = Max({covered, c.end})
    BY DEF Cover
  <2> QED BY <1>1, <1>2, <2>2, <2>3
<1>4. UNCHANGED <<run, plan, decisions, queue>>
  BY DEF Cover
<1>5. Fragments' = Fragments /\ PlanClosed' = PlanClosed
  BY <1>4 DEF Fragments, PlanClosed
<1>6. TablesTypeOK'
  <2>1. covered' \in 0..PointLimit
    BY <1>1, <1>3, InitialCountNat
  <2> QED BY <1>4, <2>1 DEF TablesOK, TablesTypeOK
<1>7. LedgerOK'
  <2>1. PlanClosed => covered' = plan.accepted
    BY <1>1, <1>3 DEF TablesOK, LedgerOK
  <2> QED BY <1>3, <1>4, <1>5, <2>1 DEF TablesOK, LedgerOK
<1>8. QueueOK'
  BY <1>4 DEF TablesOK, QueueOK
<1>9. Grows
  BY <1>1, <1>4, <1>5 DEF Grows, SameRequests
<1> QED BY <1>6, <1>7, <1>8, <1>9 DEF TablesOK

LEMMA CommitKeeps ==
    ASSUME TablesOK, NEW c \in CommitCall, CallOK(c), Fenced(c.from),
           Committable(c), CommitTerminal(c)
    PROVE  /\ TablesOK' /\ Grows
           /\ run'.result = "succeeded" => run'.holder = c.from /\ Whole(c.from)
<1>1. /\ run \in [state : {"queued", "leased", "attention", "closed"},
                  holder : Executor \cup {None}, started : BOOLEAN, cancelled : BOOLEAN,
                  result : {None, "succeeded", "failed", "cancelled"}]
      /\ plan.accepted \in Nat /\ InitialCount <= plan.accepted
  BY TablesTypes DEF TablesOK, TablesTypeOK
<1>2. c.kind = "commit" /\ c.result \in Results
  BY DEF CommitCall
<1>3. PICK r : r = FinalResult(c)
  OBVIOUS
<1>4. r \in Results /\ (r = "succeeded" => c.result = "succeeded")
  BY <1>2, <1>3 DEF FinalResult, Results
<1>5. run' = [run EXCEPT !.state = "closed", !.result = r]
  BY <1>3 DEF CommitTerminal, Closed
<1>6. /\ run' \in [state : {"queued", "leased", "attention", "closed"},
                   holder : Executor \cup {None}, started : BOOLEAN, cancelled : BOOLEAN,
                   result : {None, "succeeded", "failed", "cancelled"}]
      /\ run'.state = "closed" /\ run'.result = r /\ run'.holder = c.from
  BY <1>1, <1>4, <1>5 DEF Results, Fenced
<1>7. UNCHANGED <<decisions, covered>>
  BY DEF CommitTerminal
<1>8. CASE r = "succeeded"
  <2>1. UNCHANGED <<plan, queue>>
    BY <1>3, <1>8 DEF CommitTerminal
  <2>2. Whole(c.from)
    BY <1>2, <1>4, <1>8 DEF CallOK
  <2>3. Fragments' = Fragments /\ PlanClosed' = PlanClosed /\ PlanClosed
    BY <1>7, <2>1, <2>2 DEF Fragments, PlanClosed, Whole
  <2>4. plan.stop # NotClosed
    BY <2>3 DEF PlanClosed
  <2>5. TablesTypeOK'
    BY <1>6, <1>7, <2>1 DEF TablesOK, TablesTypeOK
  <2>6. LedgerOK'
    BY <1>6, <1>7, <2>1, <2>3, <2>4 DEF TablesOK, LedgerOK
  <2>7. QueueOK'
    BY <1>7, <2>1 DEF TablesOK, QueueOK
  <2>8. Grows
    BY <1>1, <2>1, <2>3 DEF Grows, SameRequests
  <2> QED BY <1>6, <2>2, <2>5, <2>6, <2>7, <2>8 DEF TablesOK
<1>9. CASE r # "succeeded"
  <2>1. AbandonPlan
    BY <1>3, <1>9 DEF CommitTerminal
  <2>2. run'.result # "succeeded"
    BY <1>6, <1>9
  <2> QED BY <1>6, <1>7, <2>1, <2>2, AbandonKeeps
<1> QED BY <1>8, <1>9

\* Whatever the daemon serves, whenever it does.
LEMMA ServeKeeps ==
    ASSUME TablesOK, NEW c \in Call, CallOK(c), Served(c), Serve(c)
    PROVE  /\ TablesOK' /\ Grows
           /\ run'.result = "succeeded" => run'.holder = c.from /\ Whole(c.from)
           /\ c.kind = "append" /\ c.op.outcome = "accepted" =>
                  [start |-> c.start, proposal |-> c.op.proposal] \in Fragments'
           /\ c.kind = "close" => PlanClosed' /\ plan'.accepted = c.completed
           /\ c.kind # "commit" => run' = run
<1>1. Fenced(c.from) /\ run.state # "closed" /\ run.result # "succeeded"
  BY DEF Served, Fenced, TablesOK, LedgerOK
<1>2. CASE c \in AppendCall
  <2>1. c.kind = "append"
    BY <1>2 DEF AppendCall
  <2>2. Decidable(c) /\ RecordDecision(c)
    BY <2>1 DEF Served, Serve
  <2>3. run' = run
    BY <2>2 DEF RecordDecision
  <2> QED BY <1>1, <1>2, <2>1, <2>2, <2>3, RecordKeeps
<1>3. CASE c \in CloseCall
  <2>1. c.kind = "close"
    BY <1>3 DEF CloseCall
  <2>2. Closable(c) /\ ClosePlan(c)
    BY <2>1 DEF Served, Serve
  <2>3. run' = run
    BY <2>2 DEF ClosePlan
  <2> QED BY <1>1, <1>3, <2>1, <2>2, <2>3, CloseKeeps
<1>4. CASE c \in CoverCall
  <2>1. c.kind = "cover"
    BY <1>4 DEF CoverCall
  <2>2. Cover(c)
    BY <2>1 DEF Serve
  <2>3. run' = run
    BY <2>2 DEF Cover
  <2> QED BY <1>1, <1>4, <2>1, <2>2, <2>3, CoverKeeps
<1>5. CASE c \in CommitCall
  <2>1. c.kind = "commit"
    BY <1>5 DEF CommitCall
  <2>2. Committable(c) /\ CommitTerminal(c)
    BY <2>1 DEF Served, Serve
  <2> QED BY <1>1, <1>5, <2>1, <2>2, CommitKeeps
<1> QED BY <1>2, <1>3, <1>4, <1>5 DEF Call

-----------------------------------------------------------------------------
(* What an executor has and what it asked for stay good while others go on. *)

LEMMA ViewReaches ==
    ASSUME TablesOK, NEW x \in Process, Viewing(x, Fragments, plan.accepted, queue)
    PROVE  /\ Extent(x.points) \in Nat /\ plan.accepted \in Nat /\ x.done \in Nat
           /\ x.done <= Extent(x.points) /\ Extent(x.points) <= plan.accepted
           /\ x.points \subseteq Fragments /\ Fragments \subseteq Fragment
<1>1. /\ plan.accepted \in Nat /\ InitialCount <= plan.accepted
      /\ Fragments \subseteq Fragment
  BY TablesTypes DEF TablesOK
<1>2. x.points \subseteq Fragment /\ x.points \subseteq Fragments
  BY <1>1 DEF Viewing, Leading, Process
<1>3. \A f \in x.points : End(f) <= plan.accepted
  BY <1>2 DEF TablesOK, LedgerOK, Tiled
<1>4. Extent(x.points) \in Nat
  BY <1>1, <1>2, <1>3, ExtentReached
<1> QED BY <1>1, <1>2, <1>4 DEF Viewing, Process

LEMMA ViewingStays ==
    ASSUME TablesOK, TablesOK', Grows, NEW x \in Process,
           Viewing(x, Fragments, plan.accepted, queue)
    PROVE  Viewing(x, Fragments', plan'.accepted, queue')
<1>1. /\ plan.accepted \in Nat /\ InitialCount <= plan.accepted
      /\ Fragments \subseteq Fragment
  BY TablesTypes DEF TablesOK
<1>2. decisions' \in Seq(Decision) /\ plan'.accepted \in InitialCount..PointLimit
  BY DEF TablesOK, TablesTypeOK
<1>3. Fragments' \subseteq Fragment
  <2>1. \A d \in Range(decisions') : d \in Decision
    BY <1>2 DEF Range
  <2>2. \A d \in Decision : [start |-> d.start, proposal |-> d.op.proposal] \in Fragment
    BY DEF Decision, Operation, Fragment
  <2> QED BY <2>1, <2>2 DEF Fragments
<1>6. Extent(x.points) \in Nat /\ Extent(x.points) <= plan.accepted
  BY ViewReaches
<1>7. \A f \in Fragments' \ Fragments : Extent(x.points) <= f.start
  <2>1. \A f \in Fragments' : f.start \in Nat
    BY <1>3, FragmentEnds
  <2>2. \A f \in Fragments' \ Fragments : plan.accepted =< f.start
    BY DEF Grows
  <2> QED BY <1>1, <1>6, <2>1, <2>2
<1>8. Leading(x.points, Fragments) /\ Fragments \subseteq Fragments'
  BY DEF Viewing, Grows
<1>9. Leading(x.points, Fragments')
  BY <1>3, <1>6, <1>7, <1>8, LeadingStays
<1>10. Extent(x.points) <= plan'.accepted
  <2>1. plan'.accepted \in Nat /\ plan.accepted <= plan'.accepted
    BY <1>2, InitialCountNat DEF Grows
  <2> QED BY <1>1, <1>6, <2>1
<1>11. x.request # None => \E j \in DOMAIN queue' : queue'[j].id = x.request
  BY DEF Viewing, Grows, SameRequests
<1> QED BY <1>9, <1>10, <1>11 DEF Viewing

LEMMA CallStays ==
    ASSUME TablesOK, TablesOK', Grows, NEW c \in Call, CallOK(c),
           \A e \in Executor : Whole(e) => Whole(e)'
    PROVE  CallOK(c)'
<1>1. plan.accepted \in Nat /\ plan'.accepted \in Nat /\ plan.accepted <= plan'.accepted
  <2>1. plan.accepted \in InitialCount..PointLimit /\ plan'.accepted \in InitialCount..PointLimit
    BY DEF TablesOK, TablesTypeOK
  <2> QED BY <2>1, InitialCountNat DEF Grows
<1>2. c.kind = "append" /\ c.op.request # None =>
          \E j \in DOMAIN queue' : /\ queue'[j].id = c.op.request
                                   /\ queue'[j].size = c.op.proposal.size
  BY DEF CallOK, Grows, SameRequests
<1>3. c.kind = "cover" => c.end =< plan'.accepted
  <2>1. c.kind = "cover" => c.end \in Nat
    BY DEF Call, AppendCall, CloseCall, CoverCall, CommitCall
  <2> QED BY <1>1, <2>1 DEF CallOK
<1>4. c.from \in Executor
  BY DEF Call, AppendCall, CloseCall, CoverCall, CommitCall
<1>5. c.kind = "commit" /\ c.result = "succeeded" => Whole(c.from)'
  BY <1>4 DEF CallOK
<1> QED BY <1>2, <1>3, <1>5 DEF CallOK

LEMMA WholeStays ==
    ASSUME TablesOK, TablesOK', Grows, NEW e \in Executor,
           ex[e].done \in Nat, ex'[e].done \in Nat, ex[e].done <= ex'[e].done,
           ex'[e].done <= plan'.accepted, Whole(e)
    PROVE  Whole(e)'
<1>1. plan.accepted \in Nat /\ plan'.accepted = plan.accepted /\ PlanClosed'
  BY TablesTypes DEF TablesOK, Grows, Whole
<1> QED BY <1>1 DEF Whole

\* A step of one executor, and of the daemon with it.
LEMMA ExecutorMoves ==
    ASSUME PlanInv, TablesOK', Grows, scope' = scope, mishaps' \in 0..MaxMishaps,
           NEW e \in Executor, NEW y \in Process, NEW k \in Call \cup {NoCall},
           ex' = [ex EXCEPT ![e] = y], calls' = [calls EXCEPT ![e] = k],
           ex[e].done <= y.done,
           Viewing(y, Fragments', plan'.accepted, queue'),
           Succeeding(y) => PlanClosed' /\ y.done = plan'.accepted,
           Waiting(e, y, k), k # NoCall => CallOK(k),
           late' \subseteq late \cup ({calls[e]} \ {NoCall}),
           run'.result = "succeeded" => run'.holder \in Executor /\ Whole(run'.holder)
    PROVE  PlanInv'
<1>1. /\ TablesOK /\ scope \in Scope /\ ex \in [Executor -> Process]
      /\ calls \in [Executor -> Call \cup {NoCall}]
      /\ late \subseteq Call /\ \A c \in late : CallOK(c)
      /\ \A d \in Executor : calls[d] # NoCall => CallOK(calls[d])
  BY DEF PlanInv
<1>2. \A d \in Executor : /\ Viewing(ex[d], Fragments, plan.accepted, queue)
                          /\ Succeeding(ex[d]) => Whole(d)
                          /\ Waiting(d, ex[d], calls[d])
  BY DEF PlanInv, ExecutorOK
<1>3. ex' \in [Executor -> Process] /\ ex'[e] = y /\ \A d \in Executor \ {e} : ex'[d] = ex[d]
  BY <1>1
<1>4. /\ calls' \in [Executor -> Call \cup {NoCall}] /\ calls'[e] = k
      /\ \A d \in Executor \ {e} : calls'[d] = calls[d]
  BY <1>1
<1>5. \A d \in Executor : Viewing(ex'[d], Fragments', plan'.accepted, queue')
  <2> TAKE d \in Executor
  <2>1. CASE d = e
    BY <1>3, <2>1
  <2>2. CASE d # e
    <3>1. PICK x : x = ex[d]
      OBVIOUS
    <3>2. x \in Process /\ Viewing(x, Fragments, plan.accepted, queue)
      BY <1>1, <1>2, <3>1
    <3>3. Viewing(x, Fragments', plan'.accepted, queue')
      BY <1>1, <3>2, ViewingStays
    <3> QED BY <1>3, <2>2, <3>1, <3>3
  <2> QED BY <2>1, <2>2
<1>6. \A d \in Executor : Whole(d) => Whole(d)'
  <2> TAKE d \in Executor
  <2> HAVE Whole(d)
  <2>1. ex[d].done \in Nat /\ ex'[d].done \in Nat
    BY <1>1, <1>3 DEF Process
  <2>2. ex[d].done <= ex'[d].done
    BY <1>3, <2>1
  <2>3. ex'[d].done <= plan'.accepted
    <3>1. ex'[d].done <= Extent(ex'[d].points) /\ Extent(ex'[d].points) <= plan'.accepted
      BY <1>5 DEF Viewing
    <3>2. ex'[d].points \subseteq Fragment /\ ex'[d].points \subseteq Fragments'
      BY <1>3, <1>5 DEF Viewing, Leading, Process
    <3>3. plan'.accepted \in InitialCount..PointLimit /\ Tiled(Fragments', plan'.accepted)
      BY DEF TablesOK, TablesTypeOK, LedgerOK
    <3>4. \A f \in ex'[d].points : End(f) <= plan'.accepted
      BY <3>2, <3>3 DEF Tiled
    <3>5. plan'.accepted \in Nat /\ InitialCount <= plan'.accepted
      BY <3>3, InitialCountNat
    <3>6. Extent(ex'[d].points) \in Nat
      BY <3>2, <3>4, <3>5, ExtentReached
    <3> QED BY <2>1, <3>1, <3>5, <3>6
  <2> QED BY <1>1, <2>1, <2>2, <2>3, WholeStays
<1>7. \A d \in Executor : Succeeding(ex'[d]) => Whole(d)'
  <2> TAKE d \in Executor
  <2> HAVE Succeeding(ex'[d])
  <2>1. CASE d = e
    BY <1>3, <2>1 DEF Whole
  <2>2. CASE d # e
    BY <1>2, <1>3, <1>6, <2>2
  <2> QED BY <2>1, <2>2
<1>8. \A d \in Executor : Waiting(d, ex'[d], calls'[d])
  BY <1>2, <1>3, <1>4
<1>9. \A d \in Executor : ExecutorOK(d)'
  BY <1>5, <1>7, <1>8 DEF ExecutorOK
<1>10. \A c \in Call : CallOK(c) => CallOK(c)'
  BY <1>1, <1>6, CallStays
<1>11. \A d \in Executor : calls'[d] # NoCall => CallOK(calls'[d])
  BY <1>1, <1>4
<1>12. \A d \in Executor : calls'[d] # NoCall => CallOK(calls[d])'
  <2> TAKE d \in Executor
  <2> HAVE calls'[d] # NoCall
  <2>1. PICK c : c = calls'[d]
    OBVIOUS
  <2>2. c \in Call /\ CallOK(c)
    BY <1>4, <1>11, <2>1
  <2>3. CallOK(c)'
    BY <1>10, <2>2
  <2> QED BY <2>1, <2>3 DEF CallOK
<1>13. late' \subseteq Call /\ \A c \in late' : CallOK(c)
  BY <1>1
<1>14. \A c \in late' : CallOK(c)'
  BY <1>10, <1>13
<1>15. run'.result = "succeeded" => run'.holder \in Executor /\ Whole(run.holder)'
  <2> HAVE run'.result = "succeeded"
  <2>1. PICK h : h = run'.holder
    OBVIOUS
  <2>2. h \in Executor /\ Whole(h)
    BY <2>1
  <2>3. Whole(h)'
    BY <1>6, <2>2
  <2> QED BY <2>1, <2>2, <2>3 DEF Whole
<1> QED BY <1>1, <1>3, <1>4, <1>9, <1>12, <1>13, <1>14, <1>15 DEF PlanInv

\* A step of the daemon or of an operator.
LEMMA TablesMove ==
    ASSUME PlanInv, TablesOK', Grows, UNCHANGED <<scope, ex, calls>>,
           mishaps' \in 0..MaxMishaps, late' \subseteq late,
           run'.result = "succeeded" => run'.holder \in Executor /\ Whole(run'.holder)
    PROVE  PlanInv'
<1>1. CASE Executor = {}
  <2>1. \A d \in Executor : FALSE
    BY <1>1
  <2>2. late \subseteq Call
    BY DEF PlanInv
  <2>3. Call = {}
    BY <2>1 DEF Call, AppendCall, CloseCall, CoverCall, CommitCall
  <2>4. late' = {}
    BY <2>2, <2>3
  <2> QED BY <2>1, <2>4 DEF PlanInv
<1>2. CASE Executor # {}
  <2>1. PICK e \in Executor : TRUE
    BY <1>2
  <2>2. PICK y, k : y = ex[e] /\ k = calls[e]
    OBVIOUS
  <2>3. /\ TablesOK /\ scope \in Scope /\ ex \in [Executor -> Process]
        /\ calls \in [Executor -> Call \cup {NoCall}]
        /\ calls[e] # NoCall => CallOK(calls[e])
        /\ ExecutorOK(e)
    BY DEF PlanInv
  <2>4. y \in Process /\ k \in Call \cup {NoCall} /\ (k # NoCall => CallOK(k))
    BY <2>2, <2>3
  <2>5. ex' = [ex EXCEPT ![e] = y] /\ calls' = [calls EXCEPT ![e] = k] /\ scope' = scope
    BY <2>2, <2>3
  <2>6. Viewing(y, Fragments, plan.accepted, queue) /\ Waiting(e, y, k)
    BY <2>2, <2>3 DEF ExecutorOK
  <2>7. Viewing(y, Fragments', plan'.accepted, queue')
    BY <2>3, <2>4, <2>6, ViewingStays
  <2>8. ex[e].done <= y.done
    BY <2>2, <2>3 DEF Process
  <2>9. Succeeding(y) => PlanClosed' /\ y.done = plan'.accepted
    BY <2>2, <2>3 DEF ExecutorOK, Whole, Grows
  <2>10. late' \subseteq late \cup ({calls[e]} \ {NoCall})
    OBVIOUS
  <2> QED BY <2>4, <2>5, <2>6, <2>7, <2>8, <2>9, <2>10, ExecutorMoves
<1> QED BY <1>1, <1>2

-----------------------------------------------------------------------------
(* The steps of an executor. *)

AwaitPc == {"covering", "appending", "closing", "flushing", "committing"}

LEMMA AwaitedPc ==
    ASSUME NEW e, NEW x, NEW c \in Call, Waiting(e, x, c)
    PROVE  /\ x.pc \in AwaitPc /\ c.from = e
           /\ c.kind = "cover" => x.pc \in {"covering", "flushing"}
           /\ c.kind = "append" => x.pc = "appending"
           /\ c.kind = "close" => x.pc = "closing" /\ c.completed = x.done
           /\ c.kind = "commit" => x.pc = "committing"
           /\ c.kind \in {"cover", "append", "close", "commit"}
<1>1. c.kind \in {"cover", "append", "close", "commit"} /\ c # NoCall
  BY DEF Call, AppendCall, CloseCall, CoverCall, CommitCall, NoCall
<1>2. c.from = e /\ Awaits(x, c)
  BY <1>1 DEF Waiting
<1> QED BY <1>1, <1>2 DEF Awaits, AwaitPc

\* What an executor is, in a state of the invariant.
LEMMA TheExecutor ==
    ASSUME PlanInv, NEW e \in Executor
    PROVE  /\ TablesOK /\ ex[e] \in Process
           /\ calls[e] \in Call \cup {NoCall}
           /\ Viewing(ex[e], Fragments, plan.accepted, queue)
           /\ Succeeding(ex[e]) => Whole(e)
           /\ Waiting(e, ex[e], calls[e])
           /\ ex[e].pc \notin AwaitPc => calls[e] = NoCall
           /\ calls[e] # NoCall => CallOK(calls[e])
<1>1. /\ TablesOK /\ ex[e] \in Process /\ calls[e] \in Call \cup {NoCall}
      /\ calls[e] # NoCall => CallOK(calls[e])
      /\ Viewing(ex[e], Fragments, plan.accepted, queue)
      /\ Succeeding(ex[e]) => Whole(e)
      /\ Waiting(e, ex[e], calls[e])
  BY DEF PlanInv, ExecutorOK
<1>2. ex[e].pc \notin AwaitPc => calls[e] = NoCall
  BY <1>1, AwaitedPc
<1> QED BY <1>1, <1>2

LEMMA LocalMove ==
    ASSUME PlanInv, Local, NEW e \in Executor, NEW y \in Process,
           NEW k \in Call \cup {NoCall},
           ex' = [ex EXCEPT ![e] = y], calls' = [calls EXCEPT ![e] = k],
           ex[e].done <= y.done,
           Viewing(y, Fragments, plan.accepted, queue),
           Succeeding(y) => PlanClosed /\ y.done = plan.accepted,
           Waiting(e, y, k), k # NoCall => CallOK(k)
    PROVE  PlanInv'
<1>1. /\ TablesOK /\ mishaps \in 0..MaxMishaps
      /\ run.result = "succeeded" => run.holder \in Executor /\ Whole(run.holder)
  BY DEF PlanInv
<1>2. /\ UNCHANGED <<plan, decisions, queue, covered>> /\ run' = run
      /\ scope' = scope /\ late' = late /\ mishaps' = mishaps
  BY DEF Local, durable
<1>3. TablesOK' /\ Grows
  BY <1>1, <1>2, SameTables
<1>4. Fragments' = Fragments /\ PlanClosed' = PlanClosed
  BY <1>2 DEF Fragments, PlanClosed
<1>5. Viewing(y, Fragments', plan'.accepted, queue')
  BY <1>2, <1>4
<1>6. Succeeding(y) => PlanClosed' /\ y.done = plan'.accepted
  BY <1>2, <1>4
<1>7. late' \subseteq late \cup ({calls[e]} \ {NoCall})
  BY <1>2
<1>8. run'.result = "succeeded" => run'.holder \in Executor /\ Whole(run'.holder)
  BY <1>1, <1>2
<1>9. mishaps' \in 0..MaxMishaps
  BY <1>1, <1>2
<1> QED BY <1>2, <1>3, <1>5, <1>6, <1>7, <1>8, <1>9, ExecutorMoves

\* Fragments, measurements and requests are as they were, or the request is done with.
SameView(x, y) ==
    /\ y.points = x.points /\ y.done = x.done
    /\ y.request = None \/ y.request = x.request

LEMMA SameViewing ==
    ASSUME NEW x, NEW y, SameView(x, y), NEW F, NEW n, NEW Q, Viewing(x, F, n, Q)
    PROVE  Viewing(y, F, n, Q)
BY DEF SameView, Viewing

LEMMA DoneNat ==
    ASSUME NEW x \in Process, NEW y, SameView(x, y)
    PROVE  x.done <= y.done
BY DEF SameView, Process

\* The executor goes on by itself.
LEMMA QuietMove ==
    ASSUME PlanInv, Local, NEW e \in Executor, NEW y \in Process,
           ex' = [ex EXCEPT ![e] = y], UNCHANGED calls,
           ex[e].pc \notin AwaitPc, SameView(ex[e], y), Succeeding(y) => Whole(e)
    PROVE  PlanInv'
<1>1. PICK x : x = ex[e]
  OBVIOUS
<1>2. /\ x \in Process /\ Viewing(x, Fragments, plan.accepted, queue)
      /\ calls[e] = NoCall /\ SameView(x, y)
  BY <1>1, TheExecutor
<1>3. PICK k : k = NoCall
  OBVIOUS
<1>4. calls' = [calls EXCEPT ![e] = k]
  BY <1>2, <1>3 DEF PlanInv
<1>5. k \in Call \cup {NoCall} /\ Waiting(e, y, k) /\ (k # NoCall => CallOK(k))
  BY <1>3 DEF Waiting
<1>6. Viewing(y, Fragments, plan.accepted, queue)
  BY <1>2, SameViewing
<1>7. ex[e].done <= y.done
  BY <1>1, <1>2, DoneNat
<1>8. Succeeding(y) => PlanClosed /\ y.done = plan.accepted
  BY <1>1, <1>2 DEF Whole, SameView
<1> QED BY <1>4, <1>5, <1>6, <1>7, <1>8, LocalMove

\* The executor makes a request.
LEMMA SendMove ==
    ASSUME PlanInv, Local, NEW e \in Executor, NEW y \in Process, NEW k \in Call,
           ex' = [ex EXCEPT ![e] = y], calls' = [calls EXCEPT ![e] = k],
           SameView(ex[e], y), Succeeding(y) => Whole(e), Waiting(e, y, k), CallOK(k)
    PROVE  PlanInv'
<1>1. PICK x : x = ex[e]
  OBVIOUS
<1>2. x \in Process /\ Viewing(x, Fragments, plan.accepted, queue) /\ SameView(x, y)
  BY <1>1, TheExecutor
<1>3. Viewing(y, Fragments, plan.accepted, queue)
  BY <1>2, SameViewing
<1>4. ex[e].done <= y.done
  BY <1>1, <1>2, DoneNat
<1>5. Succeeding(y) => PlanClosed /\ y.done = plan.accepted
  BY <1>1, <1>2 DEF Whole, SameView
<1>6. k \in Call \cup {NoCall} /\ (k # NoCall => CallOK(k))
  OBVIOUS
<1> QED BY <1>3, <1>4, <1>5, <1>6, LocalMove

LEMMA ReadHistoryMoves ==
    ASSUME PlanInv, NEW e \in Executor, ReadHistory(e)
    PROVE  PlanInv'
<1>1. PICK y : y = [ex[e] EXCEPT !.pc = IF run.started \/ run.state = "closed" THEN "left"
                                                                              ELSE "starting"]
  OBVIOUS
<1>2. ex[e] \in Process /\ ex[e].pc = "new"
  BY TheExecutor DEF ReadHistory
<1>3. /\ y \in Process /\ SameView(ex[e], y) /\ y.pc \in {"left", "starting"}
  BY <1>1, <1>2 DEF Process, SameView
<1>4. ~Succeeding(y) /\ ex[e].pc \notin AwaitPc
  BY <1>2, <1>3 DEF Succeeding, AwaitPc
<1>5. ex' = [ex EXCEPT ![e] = y] /\ UNCHANGED calls /\ Local
  BY <1>1 DEF ReadHistory, Set
<1> QED BY <1>3, <1>4, <1>5, QuietMove

LEMMA MeasureMoves ==
    ASSUME PlanInv, NEW e \in Executor, Measure(e)
    PROVE  PlanInv'
<1>1. PICK x, y, k : x = ex[e] /\ y = [ex[e] EXCEPT !.done = ex[e].done + 1] /\ k = NoCall
  OBVIOUS
<1>2. x \in Process /\ x.pc = "measuring" /\ x.done < Extent(x.points)
  BY <1>1, TheExecutor DEF Measure, PointCount
<1>3. y \in Process /\ y.done = x.done + 1 /\ y.points = x.points /\ y.pc = "measuring"
      /\ y.request = x.request /\ x.done <= y.done
  BY <1>1, <1>2 DEF Process
<1>4. ~Succeeding(y) /\ ex[e].pc \notin AwaitPc
  BY <1>1, <1>2, <1>3 DEF Succeeding, AwaitPc
<1>5. ex' = [ex EXCEPT ![e] = y] /\ UNCHANGED calls /\ Local
  BY <1>1 DEF Measure, Set
<1>6. calls' = [calls EXCEPT ![e] = k]
  <2>1. calls[e] = NoCall
    BY <1>4, TheExecutor
  <2> QED BY <1>1, <1>5, <2>1 DEF PlanInv
<1>7. Viewing(y, Fragments, plan.accepted, queue)
  <2>1. Viewing(x, Fragments, plan.accepted, queue)
    BY <1>1, TheExecutor
  <2>2. Extent(x.points) \in Nat
    BY <1>2, <2>1, TheExecutor, ViewReaches
  <2>3. y.done =< Extent(x.points)
    BY <1>2, <1>3, <2>2 DEF Process
  <2> QED BY <1>3, <2>1, <2>3 DEF Viewing
<1>8. k \in Call \cup {NoCall} /\ Waiting(e, y, k) /\ (k # NoCall => CallOK(k))
  BY <1>1 DEF Waiting
<1>9. ex[e].done <= y.done
  BY <1>1, <1>3
<1> QED BY <1>3, <1>4, <1>5, <1>6, <1>7, <1>8, <1>9, LocalMove

LEMMA CoverageSent ==
    ASSUME PlanInv, Local, NEW e \in Executor, NEW pc,
           \/ pc = "covering"
           \/ pc = "flushing" /\ ex[e].pc = "finishing",
           Send(e, Coverage(e), pc)
    PROVE  PlanInv'
<1>1. PICK y, k : y = [ex[e] EXCEPT !.pc = pc] /\ k = Coverage(e)
  OBVIOUS
<1>2. /\ ex[e] \in Process /\ TablesOK /\ Viewing(ex[e], Fragments, plan.accepted, queue)
      /\ Succeeding(ex[e]) => Whole(e)
  BY TheExecutor
<1>3. y \in Process /\ SameView(ex[e], y) /\ y.pc = pc /\ y.result = ex[e].result
  BY <1>1, <1>2 DEF Process, SameView
<1>4. /\ k = [kind |-> "cover", from |-> e, start |-> ex[e].told, end |-> ex[e].done]
      /\ k.kind = "cover" /\ k.from = e /\ k.end = ex[e].done
  BY <1>1 DEF Coverage
<1>5. k \in CoverCall /\ k \in Call
  BY <1>2, <1>4 DEF CoverCall, Call, Process
<1>6. Succeeding(y) => Whole(e)
  BY <1>2, <1>3 DEF Succeeding
<1>7. Waiting(e, y, k)
  BY <1>3, <1>4 DEF Waiting, Awaits
<1>8. CallOK(k)
  <2>1. PICK x : x = ex[e]
    OBVIOUS
  <2>2. x \in Process /\ Viewing(x, Fragments, plan.accepted, queue)
    BY <1>2, <2>1
  <2>3. /\ x.done \in Nat /\ plan.accepted \in Nat /\ Extent(x.points) \in Nat
        /\ x.done <= Extent(x.points) /\ Extent(x.points) <= plan.accepted
    BY <1>2, <2>2, ViewReaches
  <2>7. k.end <= plan.accepted
    BY <1>4, <2>1, <2>3
  <2> QED BY <1>4, <2>7 DEF CallOK
<1>9. ex' = [ex EXCEPT ![e] = y] /\ calls' = [calls EXCEPT ![e] = k]
  BY <1>1 DEF Send, Set
<1> QED BY <1>3, <1>5, <1>6, <1>7, <1>8, <1>9, SendMove

LEMMA FlushMoves ==
    ASSUME PlanInv, NEW e \in Executor, Flush(e)
    PROVE  PlanInv'
<1>1. ex[e].pc = "measuring" /\ Local
  BY DEF Flush
<1>2. CASE ex[e].told < ex[e].done
  BY <1>1, <1>2, CoverageSent DEF Flush
<1>3. CASE ~(ex[e].told < ex[e].done)
  <2>1. PICK y : y = [ex[e] EXCEPT !.pc = "choosing"]
    OBVIOUS
  <2>2. ex' = [ex EXCEPT ![e] = y] /\ UNCHANGED calls
    BY <1>3, <2>1 DEF Flush, Set
  <2>3. ex[e] \in Process
    BY TheExecutor
  <2>4. y \in Process /\ SameView(ex[e], y) /\ y.pc = "choosing"
    BY <2>1, <2>3 DEF Process, SameView
  <2>5. ~Succeeding(y) /\ ex[e].pc \notin AwaitPc
    BY <1>1, <2>4 DEF Succeeding, AwaitPc
  <2> QED BY <1>1, <2>2, <2>4, <2>5, QuietMove
<1> QED BY <1>2, <1>3

LEMMA ReadQueueMoves ==
    ASSUME PlanInv, NEW e \in Executor, ReadQueue(e)
    PROVE  PlanInv'
<1> DEFINE waiting == {i \in DOMAIN queue : queue[i].status = "pending"}
<1>1. PICK x, r, y, k : /\ x = ex[e]
                        /\ r = IF waiting = {} THEN None ELSE queue[Min(waiting)].id
                        /\ y = [ex[e] EXCEPT !.pc = "proposing", !.request = r]
                        /\ k = NoCall
  OBVIOUS
<1>2. x \in Process /\ x.pc = "choosing" /\ TablesOK /\ queue \in Seq(Entry)
  BY <1>1, TheExecutor DEF ReadQueue, TablesOK, TablesTypeOK
<1>3. r = None \/ \E j \in DOMAIN queue : queue[j].id = r
  <2>1. CASE waiting = {}
    BY <1>1, <2>1
  <2>2. CASE waiting # {}
    <3>1. waiting \subseteq 0..Len(queue) /\ waiting \subseteq DOMAIN queue /\ Len(queue) \in Nat
      BY <1>2
    <3> HIDE DEF waiting
    <3>2. Min(waiting) \in waiting
      <4>1. waiting \subseteq Nat
        BY <3>1
      <4> QED BY <2>2, <4>1, MinNat
    <3> QED BY <1>1, <2>2, <3>1, <3>2
  <2> QED BY <2>1, <2>2
<1> HIDE DEF waiting
<1>4. r \in RequestId \cup {None}
  <2>1. \A j \in DOMAIN queue : queue[j] \in Entry
    BY <1>2
  <2>2. \A j \in DOMAIN queue : queue[j].id \in RequestId
    BY <2>1 DEF Entry
  <2> QED BY <1>3, <2>2
<1>5. /\ y \in Process /\ y.pc = "proposing" /\ y.points = x.points /\ y.done = x.done
      /\ y.request = r
  BY <1>1, <1>2, <1>4 DEF Process
<1>6. ~Succeeding(y) /\ ex[e].pc \notin AwaitPc
  BY <1>1, <1>2, <1>5 DEF Succeeding, AwaitPc
<1>7. ex' = [ex EXCEPT ![e] = y] /\ UNCHANGED calls /\ Local
  BY <1>1 DEF ReadQueue, Set, waiting
<1>8. calls' = [calls EXCEPT ![e] = k]
  <2>1. calls[e] = NoCall
    BY <1>6, TheExecutor
  <2> QED BY <1>1, <1>7, <2>1 DEF PlanInv
<1>9. Viewing(y, Fragments, plan.accepted, queue)
  <2>1. Viewing(x, Fragments, plan.accepted, queue)
    BY <1>1, TheExecutor
  <2> QED BY <1>3, <1>5, <2>1 DEF Viewing
<1>10. k \in Call \cup {NoCall} /\ Waiting(e, y, k) /\ (k # NoCall => CallOK(k))
  BY <1>1 DEF Waiting
<1>11. ex[e].done <= y.done
  <2>1. x.done \in Nat
    BY <1>2 DEF Process
  <2> QED BY <1>1, <1>5, <2>1
<1> QED BY <1>5, <1>6, <1>7, <1>8, <1>9, <1>10, <1>11, LocalMove

LEMMA DecideMoves ==
    ASSUME PlanInv, Local, NEW e \in Executor, ex[e].pc = "proposing",
           NEW p \in Proposal, NEW outcome \in {"accepted", "rejected"},
           Decide(e, p, outcome),
           ex[e].request # None =>
               \E j \in DOMAIN queue : queue[j].id = ex[e].request /\ queue[j].size = p.size
    PROVE  PlanInv'
<1>1. PICK x, op, k, y :
          /\ x = ex[e]
          /\ op = [index |-> Len(ex[e].ledger), proposal |-> p,
                   request |-> ex[e].request, outcome |-> outcome]
          /\ k = [kind |-> "append", from |-> e, op |-> op,
                  start |-> IF outcome = "accepted" THEN PointCount(e) ELSE 0]
          /\ y = [ex[e] EXCEPT !.pc = "appending", !.ledger = Append(ex[e].ledger, op)]
  OBVIOUS
<1>2. x \in Process /\ TablesOK /\ Viewing(x, Fragments, plan.accepted, queue)
  BY <1>1, TheExecutor
<1>3. Extent(x.points) \in Nat /\ PointCount(e) = Extent(x.points)
  BY <1>1, <1>2, ViewReaches DEF PointCount
<1>4. op \in Operation /\ op.outcome = outcome /\ op.proposal = p /\ op.request = x.request
  <2>1. Len(x.ledger) \in Nat /\ x.request \in RequestId \cup {None}
    BY <1>2 DEF Process
  <2> QED BY <1>1, <2>1 DEF Operation
<1>5. /\ k \in AppendCall /\ k.kind = "append" /\ k.from = e /\ k.op = op
      /\ outcome = "accepted" => k.start = Extent(x.points)
  BY <1>1, <1>3, <1>4 DEF AppendCall
<1>6. y \in Process /\ SameView(x, y) /\ y.pc = "appending" /\ y.points = x.points
  <2>1. Append(x.ledger, op) \in Seq(Operation)
    BY <1>2, <1>4 DEF Process
  <2> QED BY <1>1, <1>2, <2>1 DEF Process, SameView
<1>7. ~Succeeding(y)
  BY <1>6 DEF Succeeding
<1>8. Waiting(e, y, k)
  BY <1>4, <1>5, <1>6 DEF Waiting, Awaits
<1>9. CallOK(k)
  BY <1>1, <1>4, <1>5 DEF CallOK
<1>10. ex' = [ex EXCEPT ![e] = y] /\ calls' = [calls EXCEPT ![e] = k]
  BY <1>1 DEF Decide, Set
<1>11. k \in Call /\ SameView(ex[e], y)
  BY <1>1, <1>5, <1>6 DEF Call
<1> QED BY <1>6, <1>7, <1>8, <1>9, <1>10, <1>11, SendMove

LEMMA CurrentRegion ==
    ASSUME NEW e \in Executor, scope = "per_region", ~NoRegion(e), ex[e] \in Process
    PROVE  Current(e) \in Region
<1> DEFINE S == {i \in DOMAIN Regions : Regions[i] \in Open(e)}
<1>1. Open(e) # {} /\ Open(e) \subseteq Region
  BY DEF NoRegion, Open, Process
<1>2. PICK r \in Open(e) : TRUE
  BY <1>1
<1>3. PICK i \in DOMAIN Regions : Regions[i] = r
  BY <1>1, <1>2 DEF Region, Range
<1>4. DOMAIN Regions = 1..Len(Regions) /\ Len(Regions) \in Nat
  BY AdaptiveAssumption
<1>5. S \subseteq Nat /\ S # {}
  BY <1>2, <1>3, <1>4
<1>6. Min(S) \in S
  <2> HIDE DEF S
  <2> QED BY <1>5, MinNat
<1>7. Regions[Min(S)] \in Open(e)
  BY <1>6
<1> QED BY <1>1, <1>7 DEF Current

LEMMA DecideRequestMoves ==
    ASSUME PlanInv, NEW e \in Executor, DecideRequest(e)
    PROVE  PlanInv'
<1>1. /\ ex[e].pc = "proposing" /\ ex[e].request # None /\ ~NoRegion(e)
      /\ Resolvable(TheRequest(e)) /\ Local
  BY DEF DecideRequest
<1>2. PICK q, p : q = TheRequest(e) /\ p = OperatorProposal(e, TheRequest(e))
  OBVIOUS
<1>3. PICK outcome \in {"accepted", "rejected"} : Decide(e, p, outcome)
  BY <1>2 DEF DecideRequest
<1>4. /\ ex[e] \in Process /\ queue \in Seq(Entry) /\ Matched(queue, decisions)
      /\ Viewing(ex[e], Fragments, plan.accepted, queue)
  BY TheExecutor DEF TablesOK, TablesTypeOK, QueueOK
<1>5. PICK j \in DOMAIN queue : queue[j].id = ex[e].request
  BY <1>1, <1>4 DEF Viewing
<1>6. queue[j] \in Range(queue)
  BY DEF Range
<1>7. q \in Range(queue) /\ q.id = ex[e].request
  BY <1>2, <1>5, <1>6 DEF TheRequest
<1>8. PICK i \in DOMAIN queue : q = queue[i]
  BY <1>7 DEF Range
<1>9. q \in Entry /\ (q.scope = "selected" => q.regions # {})
  BY <1>4, <1>8 DEF Matched
<1>10. Selected(e, q) \in (SUBSET Region) \ {{}}
  <2>1. CASE q.scope = "current"
    <3>1. scope = "per_region"
      BY <1>1, <1>2, <2>1 DEF Resolvable
    <3>2. Current(e) \in Region
      BY <1>1, <1>4, <3>1, CurrentRegion
    <3> QED BY <2>1, <3>2 DEF Selected
  <2>2. CASE q.scope = "all"
    BY <2>2, RegionsFinite DEF Selected
  <2>3. CASE q.scope = "selected"
    BY <1>9, <2>3 DEF Selected, Entry
  <2>4. q.scope \in {"current", "selected", "all"}
    BY <1>9 DEF Entry
  <2> QED BY <2>1, <2>2, <2>3, <2>4
<1>11. p \in Proposal /\ p.size = q.size
  <2>1. p = [source |-> "operator", regions |-> Selected(e, q), size |-> q.size]
    BY <1>2 DEF OperatorProposal
  <2>2. q.size \in 1..MaxSize
    BY <1>9 DEF Entry
  <2> QED BY <1>10, <2>1, <2>2 DEF Proposal
<1>12. \E n \in DOMAIN queue : queue[n].id = ex[e].request /\ queue[n].size = p.size
  BY <1>7, <1>8, <1>11
<1> QED BY <1>1, <1>3, <1>11, <1>12, DecideMoves

LEMMA DecideProposalMoves ==
    ASSUME PlanInv, NEW e \in Executor, DecideProposal(e)
    PROVE  PlanInv'
<1>1. ex[e].pc = "proposing" /\ ex[e].request = None /\ Local
  BY DEF DecideProposal
<1>2. PICK R \in (SUBSET Region) \ {{}}, n \in 1..MaxSize, outcome \in {"accepted", "rejected"} :
          Decide(e, [source |-> "optimizer", regions |-> R, size |-> n], outcome)
  BY DEF DecideProposal
<1>3. PICK p : p = [source |-> "optimizer", regions |-> R, size |-> n]
  OBVIOUS
<1>4. p \in Proposal
  BY <1>3 DEF Proposal
<1>5. Decide(e, p, outcome)
  BY <1>2, <1>3
<1> QED BY <1>1, <1>4, <1>5, DecideMoves

LEMMA CompleteOptimizationMoves ==
    ASSUME PlanInv, NEW e \in Executor, CompleteOptimization(e)
    PROVE  PlanInv'
<1>1. ex[e].pc = "proposing" /\ UNCHANGED calls /\ Local
  BY DEF CompleteOptimization
<1>2. ex[e] \in Process
  BY TheExecutor
<1>3. ex[e].pc \notin AwaitPc
  BY <1>1 DEF AwaitPc
<1>4. CASE Set(e, [ex[e] EXCEPT !.pc = "choosing", !.over = TRUE])
  <2>1. PICK y : y = [ex[e] EXCEPT !.pc = "choosing", !.over = TRUE]
    OBVIOUS
  <2>2. y \in Process /\ SameView(ex[e], y) /\ ~Succeeding(y)
    BY <1>2, <2>1 DEF Process, SameView, Succeeding
  <2>3. ex' = [ex EXCEPT ![e] = y]
    BY <1>4, <2>1 DEF Set
  <2> QED BY <1>1, <1>3, <2>2, <2>3, QuietMove
<1>5. CASE Set(e, [ex[e] EXCEPT !.pc = "choosing", !.open = @ \ {Current(e)}])
  <2>1. PICK y : y = [ex[e] EXCEPT !.pc = "choosing", !.open = ex[e].open \ {Current(e)}]
    OBVIOUS
  <2>2. y \in Process /\ SameView(ex[e], y) /\ ~Succeeding(y)
    BY <1>2, <2>1 DEF Process, SameView, Succeeding
  <2>3. ex' = [ex EXCEPT ![e] = y]
    BY <1>5, <2>1 DEF Set
  <2> QED BY <1>1, <1>3, <2>2, <2>3, QuietMove
<1> QED BY <1>4, <1>5 DEF CompleteOptimization

LEMMA SendCloseMoves ==
    ASSUME PlanInv, NEW e \in Executor, SendClose(e)
    PROVE  PlanInv'
<1>1. PICK y, k : /\ y = [ex[e] EXCEPT !.pc = "closing"]
                  /\ k = [kind |-> "close", from |-> e, completed |-> ex[e].done,
                          reason |-> StopReason(e)]
  OBVIOUS
<1>2. ex[e] \in Process
  BY TheExecutor
<1>3. /\ y \in Process /\ SameView(ex[e], y) /\ y.pc = "closing" /\ y.done = ex[e].done
  BY <1>1, <1>2 DEF Process, SameView
<1>4. k \in CloseCall /\ k.kind = "close" /\ k.from = e /\ k.completed = ex[e].done
  BY <1>1, <1>2 DEF CloseCall, Process, StopReason, Reason
<1>5. Waiting(e, y, k) /\ ~Succeeding(y)
  BY <1>3, <1>4 DEF Waiting, Awaits, Succeeding
<1>6. CallOK(k) /\ k \in Call
  BY <1>4 DEF CallOK, Call
<1>7. ex' = [ex EXCEPT ![e] = y] /\ calls' = [calls EXCEPT ![e] = k] /\ Local
  BY <1>1 DEF SendClose, Send, Set
<1> QED BY <1>3, <1>5, <1>6, <1>7, SendMove

\* The executor ends its run, one way or another.
LEMMA FinishMoves ==
    ASSUME PlanInv, Local, UNCHANGED calls, NEW e \in Executor, NEW result \in Results,
           Finish(e, result), ex[e].pc \notin AwaitPc,
           result = "succeeded" => ex[e].pc = "closed"
    PROVE  PlanInv'
<1>1. PICK y : y = [ex[e] EXCEPT !.pc = "finishing", !.result = result, !.request = None]
  OBVIOUS
<1>2. ex[e] \in Process /\ (Succeeding(ex[e]) => Whole(e))
  BY TheExecutor
<1>3. /\ y \in Process /\ SameView(ex[e], y) /\ y.pc = "finishing" /\ y.result = result
  BY <1>1, <1>2 DEF Process, SameView, Results
<1>4. Succeeding(y) => Whole(e)
  BY <1>2, <1>3 DEF Succeeding
<1>5. ex' = [ex EXCEPT ![e] = y]
  BY <1>1 DEF Finish, Set
<1> QED BY <1>3, <1>4, <1>5, QuietMove

LEMMA FinishingMoves ==
    ASSUME PlanInv, NEW e \in Executor, Fail(e) \/ StopForCancellation(e) \/ EndLoop(e)
    PROVE  PlanInv'
<1>1. "failed" \in Results /\ "cancelled" \in Results /\ "succeeded" \in Results
  BY DEF Results
<1>2. CASE Fail(e)
  <2>1. ex[e].pc \notin AwaitPc
    BY <1>2 DEF Fail, AwaitPc
  <2> QED BY <1>1, <1>2, <2>1, FinishMoves DEF Fail
<1>3. CASE StopForCancellation(e)
  <2>1. ex[e].pc \notin AwaitPc
    BY <1>3 DEF StopForCancellation, AwaitPc
  <2> QED BY <1>1, <1>3, <2>1, FinishMoves DEF StopForCancellation
<1>4. CASE EndLoop(e)
  <2>1. ex[e].pc \notin AwaitPc /\ ex[e].pc = "closed"
    BY <1>4 DEF EndLoop, AwaitPc
  <2> QED BY <1>1, <1>4, <2>1, FinishMoves DEF EndLoop
<1> QED BY <1>2, <1>3, <1>4

LEMMA SendLastCoverageMoves ==
    ASSUME PlanInv, NEW e \in Executor, SendLastCoverage(e)
    PROVE  PlanInv'
BY CoverageSent DEF SendLastCoverage

LEMMA SendCommitMoves ==
    ASSUME PlanInv, NEW e \in Executor, SendCommit(e)
    PROVE  PlanInv'
<1>1. PICK y, k : /\ y = [ex[e] EXCEPT !.pc = "committing"]
                  /\ k = [kind |-> "commit", from |-> e, result |-> ex[e].result]
  OBVIOUS
<1>2. ex[e] \in Process /\ (Succeeding(ex[e]) => Whole(e)) /\ ex[e].pc = "finishing"
  BY TheExecutor DEF SendCommit
<1>3. /\ y \in Process /\ SameView(ex[e], y) /\ y.pc = "committing" /\ y.result = ex[e].result
  BY <1>1, <1>2 DEF Process, SameView
<1>4. k \in CommitCall /\ k.kind = "commit" /\ k.from = e /\ k.result = ex[e].result
  BY <1>1, <1>2 DEF CommitCall, Process, Results
<1>5. Waiting(e, y, k)
  BY <1>3, <1>4 DEF Waiting, Awaits
<1>6. Succeeding(y) => Whole(e)
  BY <1>2, <1>3 DEF Succeeding
<1>7. CallOK(k) /\ k \in Call
  BY <1>2, <1>4 DEF CallOK, Call, Succeeding
<1>8. ex' = [ex EXCEPT ![e] = y] /\ calls' = [calls EXCEPT ![e] = k] /\ Local
  BY <1>1 DEF SendCommit, Send, Set
<1> QED BY <1>3, <1>5, <1>6, <1>7, <1>8, SendMove

LEMMA StartMoves ==
    ASSUME PlanInv, NEW e \in Executor, Start(e)
    PROVE  PlanInv'
<1>1. /\ ex[e].pc = "starting" /\ UNCHANGED <<scope, plan, decisions, queue, covered>>
      /\ UNCHANGED <<calls, late, mishaps>>
  BY DEF Start
<1>2. /\ ex[e] \in Process /\ TablesOK /\ calls[e] = NoCall
      /\ Viewing(ex[e], Fragments, plan.accepted, queue)
      /\ mishaps \in 0..MaxMishaps
      /\ run.result = "succeeded" => run.holder \in Executor /\ Whole(run.holder)
  BY <1>1, TheExecutor DEF AwaitPc, PlanInv
<1>3. PICK k : k = NoCall
  OBVIOUS
<1>4. k \in Call \cup {NoCall} /\ (k # NoCall => CallOK(k)) /\ calls' = [calls EXCEPT ![e] = k]
  BY <1>1, <1>2, <1>3 DEF PlanInv
<1>5. Fragments' = Fragments
  BY <1>1 DEF Fragments
<1>6. late' \subseteq late \cup ({calls[e]} \ {NoCall}) /\ mishaps' \in 0..MaxMishaps
  BY <1>1, <1>2
<1>7. CASE run.state = "queued"
  <2>1. PICK y : y = [ex[e] EXCEPT !.pc = "measuring"]
    OBVIOUS
  <2>2. /\ run' = [run EXCEPT !.state = "leased", !.holder = e, !.started = TRUE]
        /\ ex' = [ex EXCEPT ![e] = y]
    BY <1>7, <2>1 DEF Start, Set
  <2>3. /\ y \in Process /\ SameView(ex[e], y) /\ ~Succeeding(y)
    BY <1>2, <2>1 DEF Process, SameView, Succeeding
  <2>4. /\ run' \in [state : {"queued", "leased", "attention"},
                     holder : Executor \cup {None}, started : BOOLEAN, cancelled : BOOLEAN,
                     result : {None, "succeeded", "failed", "cancelled"}]
        /\ run'.result = run.result
    <3>1. run \in [state : {"queued", "leased", "attention", "closed"},
                   holder : Executor \cup {None}, started : BOOLEAN, cancelled : BOOLEAN,
                   result : {None, "succeeded", "failed", "cancelled"}]
      BY <1>2 DEF TablesOK, TablesTypeOK
    <3> QED BY <2>2, <3>1
  <2>5. TablesOK' /\ Grows
    BY <1>1, <1>2, <1>7, <2>4, LeaseKeeps
  <2>6. run'.result # "succeeded"
    BY <1>2, <1>7, <2>4 DEF TablesOK, LedgerOK
  <2>7. Viewing(y, Fragments', plan'.accepted, queue')
    BY <1>1, <1>2, <1>5, <2>3, SameViewing
  <2>8. ex[e].done <= y.done /\ Waiting(e, y, k)
    BY <1>2, <1>3, <2>3, DoneNat DEF Waiting
  <2> QED BY <1>1, <1>4, <1>6, <2>2, <2>3, <2>5, <2>6, <2>7, <2>8, ExecutorMoves
<1>8. CASE run.state # "queued"
  <2>1. PICK y : y = [ex[e] EXCEPT !.pc = "left"]
    OBVIOUS
  <2>2. run' = run /\ ex' = [ex EXCEPT ![e] = y]
    BY <1>8, <2>1 DEF Start, Set
  <2>3. y \in Process /\ SameView(ex[e], y) /\ ~Succeeding(y)
    BY <1>2, <2>1 DEF Process, SameView, Succeeding
  <2>4. Local /\ UNCHANGED calls
    BY <1>1, <2>2 DEF Local, durable
  <2>5. ex[e].pc \notin AwaitPc
    BY <1>1 DEF AwaitPc
  <2> QED BY <2>2, <2>3, <2>4, <2>5, QuietMove
<1> QED BY <1>7, <1>8

LEMMA LeftIs ==
    ASSUME NEW x \in Process, NEW y, y = Left(x)
    PROVE  y \in Process /\ SameView(x, y) /\ ~Succeeding(y)
<1>1. PICK l, r : l = <<>> /\ r = Region
  OBVIOUS
<1>2. l \in Seq(Operation) /\ r \in SUBSET Region
  BY <1>1
<1>3. y = [x EXCEPT !.pc = "left", !.ledger = l, !.request = None,
                    !.open = r, !.over = FALSE, !.told = 0]
  BY <1>1 DEF Left
<1>4. y \in Process
  <2>1. PICK z : z = [x EXCEPT !.pc = "left", !.ledger = l, !.request = None]
    OBVIOUS
  <2>2. z \in Process
    BY <1>2, <2>1 DEF Process
  <2>3. PICK w : w = [z EXCEPT !.open = r, !.told = 0]
    OBVIOUS
  <2>4. w \in Process
    BY <1>2, <2>2, <2>3 DEF Process
  <2>5. y = [w EXCEPT !.over = FALSE]
    BY <1>3, <2>1, <2>3
  <2> QED BY <2>4, <2>5 DEF Process
<1>5. SameView(x, y) /\ ~Succeeding(y)
  BY <1>3 DEF SameView, Succeeding, Process
<1> QED BY <1>4, <1>5

LEMMA UnansweredIs ==
    ASSUME NEW e \in Executor, ex[e] \in Process, ex[e].pc \in AwaitPc, NEW y,
           y = Unanswered(e)
    PROVE  y \in Process /\ SameView(ex[e], y) /\ ~Succeeding(y)
<1>1. PICK x : x = ex[e]
  OBVIOUS
<1>2. CASE x.pc \in {"covering", "appending", "closing"}
  <2>1. y = [x EXCEPT !.pc = "finishing", !.result = "failed", !.request = None]
    BY <1>1, <1>2 DEF Unanswered
  <2> QED BY <1>1, <2>1 DEF Process, SameView, Succeeding
<1>3. CASE x.pc = "flushing"
  <2>1. PICK r : r = IF x.result = "cancelled" THEN x.result ELSE "failed"
    OBVIOUS
  <2>2. y = [x EXCEPT !.pc = "finishing", !.told = x.done, !.result = r]
    BY <1>1, <1>3, <2>1 DEF Unanswered
  <2>3. r \in {"cancelled", "failed"}
    BY <2>1
  <2> QED BY <1>1, <2>2, <2>3 DEF Process, SameView, Succeeding
<1>4. CASE x.pc = "committing"
  <2>1. y = Left(x)
    BY <1>1, <1>4 DEF Unanswered
  <2> QED BY <1>1, <2>1, LeftIs
<1> QED BY <1>1, <1>2, <1>3, <1>4 DEF AwaitPc

\* The executor has its answer, the daemon has served it.
LEMMA AnsweredIs ==
    ASSUME PlanInv, NEW e \in Executor, calls[e] # NoCall, TablesOK', Grows,
           NEW y, y = Answered(e),
           calls[e].kind = "append" /\ calls[e].op.outcome = "accepted" =>
               [start |-> calls[e].start, proposal |-> calls[e].op.proposal] \in Fragments',
           calls[e].kind = "close" => PlanClosed' /\ plan'.accepted = calls[e].completed
    PROVE  /\ y \in Process /\ ex[e].done <= y.done
           /\ Viewing(y, Fragments', plan'.accepted, queue')
           /\ Succeeding(y) => PlanClosed' /\ y.done = plan'.accepted
<1>1. PICK x, c : x = ex[e] /\ c = calls[e]
  OBVIOUS
<1>2. /\ TablesOK /\ x \in Process /\ c \in Call /\ Waiting(e, x, c)
      /\ Viewing(x, Fragments, plan.accepted, queue)
      /\ Succeeding(x) => Whole(e)
  BY <1>1, TheExecutor
<1>3. Viewing(x, Fragments', plan'.accepted, queue')
  BY <1>2, ViewingStays
<1>4. /\ c.kind = "cover" => x.pc \in {"covering", "flushing"}
      /\ c.kind = "append" => x.pc = "appending"
      /\ c.kind = "close" => x.pc = "closing" /\ c.completed = x.done
      /\ c.kind = "commit" => x.pc = "committing"
      /\ c.kind \in {"cover", "append", "close", "commit"}
  BY <1>2, AwaitedPc
<1>5. CASE c.kind = "cover"
  <2>1. c.end \in Nat
    BY <1>2, <1>5 DEF Call, AppendCall, CloseCall, CoverCall, CommitCall
  <2>2. CASE x.pc = "covering"
    <3>1. y = [x EXCEPT !.pc = "measuring", !.told = c.end]
      BY <1>1, <2>2 DEF Answered
    <3>2. y \in Process /\ SameView(x, y) /\ ~Succeeding(y)
      BY <1>2, <2>1, <3>1 DEF Process, SameView, Succeeding
    <3>3. Viewing(y, Fragments', plan'.accepted, queue') /\ x.done <= y.done
      BY <1>2, <1>3, <3>2, SameViewing, DoneNat
    <3> QED BY <1>1, <3>2, <3>3
  <2>3. CASE x.pc = "flushing"
    <3>1. y = [x EXCEPT !.pc = "finishing", !.told = c.end]
      BY <1>1, <2>3 DEF Answered
    <3>2. y \in Process /\ SameView(x, y) /\ (Succeeding(y) => Succeeding(x))
      BY <1>2, <2>1, <2>3, <3>1 DEF Process, SameView, Succeeding
    <3>3. Viewing(y, Fragments', plan'.accepted, queue') /\ x.done <= y.done
      BY <1>2, <1>3, <3>2, SameViewing, DoneNat
    <3>4. Succeeding(y) => PlanClosed' /\ y.done = plan'.accepted
      BY <1>1, <1>2, <3>2 DEF Whole, SameView, Grows
    <3> QED BY <1>1, <3>2, <3>3, <3>4
  <2> QED BY <1>4, <1>5, <2>2, <2>3
<1>6. CASE c.kind = "append"
  <2>1. y = [x EXCEPT !.pc = "measuring", !.request = None, !.points = Extend(x, c)]
    BY <1>1, <1>4, <1>6 DEF Answered
  <2>2. c \in AppendCall
    BY <1>2, <1>6 DEF Call, AppendCall, CloseCall, CoverCall, CommitCall
  <2>3. c.start \in Nat /\ c.op.proposal \in Proposal /\ c.op.outcome \in {"accepted", "rejected"}
    BY <2>2, AppendCallTypes
  <2>4. CASE c.op.outcome = "accepted"
    <3>1. PICK g : g = [start |-> c.start, proposal |-> c.op.proposal]
      OBVIOUS
    <3>2. g \in Fragment /\ g.start = c.start
      BY <2>3, <3>1 DEF Fragment
    <3>3. g \in Fragments'
      BY <1>1, <1>6, <2>4, <3>1
    <3>4. Extend(x, c) = x.points \cup {g}
      BY <2>4, <3>1 DEF Extend
    <3>5. y = [x EXCEPT !.pc = "measuring", !.request = None, !.points = x.points \cup {g}]
      BY <2>1, <3>4
    <3>6. /\ y \in Process /\ y.points = x.points \cup {g} /\ y.done = x.done
          /\ y.request = None /\ y.pc = "measuring"
      <4>1. PICK P : P = x.points \cup {g}
        OBVIOUS
      <4>2. P \in SUBSET Fragment
        BY <1>2, <3>2, <4>1 DEF Process
      <4>3. y = [x EXCEPT !.pc = "measuring", !.request = None, !.points = P]
        BY <3>5, <4>1
      <4> QED BY <1>2, <4>1, <4>2, <4>3 DEF Process
    <3>7. g.start = Extent(x.points)
      BY <1>2, <1>6, <2>2, <2>4, <3>2 DEF Waiting, AppendCall, NoCall
    <3>8. /\ plan'.accepted \in InitialCount..PointLimit /\ decisions' \in Seq(Decision)
          /\ Tiled(Fragments', plan'.accepted)
      BY DEF TablesOK, TablesTypeOK, LedgerOK
    <3>9. plan'.accepted \in Nat /\ InitialCount <= plan'.accepted
      BY <3>8, InitialCountNat
    <3>10. Fragments' \subseteq Fragment
      <4>1. \A d \in Range(decisions') : d \in Decision
        BY <3>8 DEF Range
      <4>2. \A d \in Decision : [start |-> d.start, proposal |-> d.op.proposal] \in Fragment
        BY DEF Decision, Operation, Fragment
      <4> QED BY <4>1, <4>2 DEF Fragments
    <3>11. Leading(x.points, Fragments')
      BY <1>3 DEF Viewing
    <3>12. /\ Leading(x.points \cup {g}, Fragments')
           /\ Extent(x.points) < Extent(x.points \cup {g})
           /\ Extent(x.points \cup {g}) <= plan'.accepted
      BY <3>3, <3>7, <3>8, <3>9, <3>10, <3>11, LeadingMoves
    <3>13. x.done \in Nat /\ Extent(x.points) \in Nat /\ x.done <= Extent(x.points)
      BY <1>2, ViewReaches
    <3>14. Extent(x.points \cup {g}) \in Nat
      <4>1. x.points \cup {g} \subseteq Fragment
        BY <1>2, <3>2 DEF Process
      <4>2. \A f \in x.points \cup {g} : End(f) <= plan'.accepted
        BY <3>3, <3>8, <3>11 DEF Tiled, Leading
      <4> QED BY <3>9, <4>1, <4>2, ExtentReached
    <3>15. x.done <= Extent(x.points \cup {g})
      BY <3>12, <3>13, <3>14
    <3>16. Viewing(y, Fragments', plan'.accepted, queue')
      BY <3>6, <3>12, <3>15 DEF Viewing
    <3>17. ~Succeeding(y) /\ ex[e].done <= y.done
      BY <1>1, <3>6, <3>13 DEF Succeeding
    <3> QED BY <3>6, <3>16, <3>17
  <2>5. CASE c.op.outcome # "accepted"
    <3>1. Extend(x, c) = x.points
      BY <2>5 DEF Extend
    <3>2. y = [x EXCEPT !.pc = "measuring", !.request = None, !.points = x.points]
      BY <2>1, <3>1
    <3>3. y \in Process /\ SameView(x, y) /\ ~Succeeding(y)
      BY <1>2, <3>2 DEF Process, SameView, Succeeding
    <3>4. Viewing(y, Fragments', plan'.accepted, queue') /\ x.done <= y.done
      BY <1>2, <1>3, <3>3, SameViewing, DoneNat
    <3> QED BY <1>1, <3>3, <3>4
  <2> QED BY <2>4, <2>5
<1>7. CASE c.kind = "close"
  <2>1. y = [x EXCEPT !.pc = "closed"]
    BY <1>1, <1>4, <1>7 DEF Answered
  <2>2. y \in Process /\ SameView(x, y)
    BY <1>2, <2>1 DEF Process, SameView
  <2>3. Viewing(y, Fragments', plan'.accepted, queue') /\ x.done <= y.done
    BY <1>2, <1>3, <2>2, SameViewing, DoneNat
  <2>4. PlanClosed' /\ y.done = plan'.accepted
    BY <1>1, <1>4, <1>7, <2>2 DEF SameView
  <2> QED BY <1>1, <2>2, <2>3, <2>4
<1>8. CASE c.kind = "commit"
  <2>1. y = Left(x)
    BY <1>1, <1>4, <1>8 DEF Answered
  <2>2. y \in Process /\ SameView(x, y) /\ ~Succeeding(y)
    BY <1>2, <2>1, LeftIs
  <2>3. Viewing(y, Fragments', plan'.accepted, queue') /\ x.done <= y.done
    BY <1>2, <1>3, <2>2, SameViewing, DoneNat
  <2> QED BY <1>1, <2>2, <2>3
<1> QED BY <1>4, <1>5, <1>6, <1>7, <1>8

LEMMA ServeCallMoves ==
    ASSUME PlanInv, NEW e \in Executor, ServeCall(e)
    PROVE  PlanInv'
<1>1. PICK c, k : c = calls[e] /\ k = NoCall
  OBVIOUS
<1>2. /\ c # NoCall /\ calls' = [calls EXCEPT ![e] = k] /\ UNCHANGED <<scope, late, mishaps>>
      /\ \/ /\ Served(c) /\ Serve(c)
            /\ \/ Set(e, Unanswered(e))
               \/ Set(e, Answered(e))
         \/ ~Served(c) /\ UNCHANGED durable /\ Set(e, Unanswered(e))
  BY <1>1 DEF ServeCall
<1>3. /\ TablesOK /\ ex[e] \in Process /\ c \in Call /\ CallOK(c) /\ Waiting(e, ex[e], c)
      /\ Viewing(ex[e], Fragments, plan.accepted, queue)
  BY <1>1, <1>2, TheExecutor
<1>4. ex[e].pc \in AwaitPc /\ c.from = e
  <2>1. PICK x : x = ex[e]
    OBVIOUS
  <2> QED BY <1>3, <2>1, AwaitedPc
<1>5. k \in Call \cup {NoCall} /\ (k # NoCall => CallOK(k)) /\ \A y : Waiting(e, y, k)
  BY <1>1 DEF Waiting
<1>6. PICK u : u = Unanswered(e)
  OBVIOUS
<1>7. u \in Process /\ SameView(ex[e], u) /\ ~Succeeding(u)
  BY <1>3, <1>4, <1>6, UnansweredIs
<1>8. Viewing(u, Fragments, plan.accepted, queue) /\ ex[e].done <= u.done
  BY <1>3, <1>7, SameViewing, DoneNat
<1>9. CASE Served(c) /\ Serve(c) /\ (Set(e, Unanswered(e)) \/ Set(e, Answered(e)))
  <2>1. /\ TablesOK' /\ Grows
        /\ run'.result = "succeeded" => run'.holder = c.from /\ Whole(c.from)
        /\ c.kind = "append" /\ c.op.outcome = "accepted" =>
               [start |-> c.start, proposal |-> c.op.proposal] \in Fragments'
        /\ c.kind = "close" => PlanClosed' /\ plan'.accepted = c.completed
    BY <1>3, <1>9, ServeKeeps
  <2>2. run'.result = "succeeded" => run'.holder \in Executor /\ Whole(run'.holder)
    BY <1>4, <2>1
  <2>3. late' \subseteq late \cup ({calls[e]} \ {NoCall}) /\ mishaps' \in 0..MaxMishaps
        /\ scope' = scope
    BY <1>2 DEF PlanInv
  <2>4. CASE Set(e, Unanswered(e))
    <3>1. ex' = [ex EXCEPT ![e] = u]
      BY <1>6, <2>4 DEF Set
    <3>2. Viewing(u, Fragments', plan'.accepted, queue')
      BY <1>3, <1>7, <1>8, <2>1, ViewingStays
    <3>3. Waiting(e, u, k)
      BY <1>5
    <3> QED BY <1>2, <1>5, <1>7, <1>8, <2>1, <2>2, <2>3, <3>1, <3>2, <3>3, ExecutorMoves
  <2>5. CASE Set(e, Answered(e))
    <3>1. PICK y : y = Answered(e)
      OBVIOUS
    <3>2. ex' = [ex EXCEPT ![e] = y]
      BY <2>5, <3>1 DEF Set
    <3>3. /\ y \in Process /\ ex[e].done <= y.done
          /\ Viewing(y, Fragments', plan'.accepted, queue')
          /\ Succeeding(y) => PlanClosed' /\ y.done = plan'.accepted
      BY <1>1, <1>2, <2>1, <3>1, AnsweredIs
    <3>4. Waiting(e, y, k)
      BY <1>5
    <3> QED BY <1>2, <1>5, <2>1, <2>2, <2>3, <3>2, <3>3, <3>4, ExecutorMoves
  <2> QED BY <1>9, <2>4, <2>5
<1>10. CASE ~Served(c) /\ UNCHANGED durable /\ Set(e, Unanswered(e))
  <2>1. ex' = [ex EXCEPT ![e] = u] /\ Local
    BY <1>2, <1>6, <1>10 DEF Set, Local
  <2>2. Waiting(e, u, k)
    BY <1>5
  <2> QED BY <1>2, <1>5, <1>7, <1>8, <2>1, <2>2, LocalMove
<1> QED BY <1>2, <1>9, <1>10

LEMMA MishapsCounted ==
    ASSUME mishaps \in 0..MaxMishaps, mishaps < MaxMishaps, mishaps' = mishaps + 1
    PROVE  mishaps' \in 0..MaxMishaps
<1>1. MaxMishaps \in Nat
  BY AdaptiveAssumption
<1> QED BY <1>1

\* An executor gives up a request, which the daemon may still serve.
LEMMA LettingGoMoves ==
    ASSUME PlanInv, NEW e \in Executor, UNCHANGED <<scope, durable>>,
           NEW y \in Process, SameView(ex[e], y), ~Succeeding(y),
           ex' = [ex EXCEPT ![e] = y], calls' = [calls EXCEPT ![e] = NoCall],
           late' \subseteq late \cup ({calls[e]} \ {NoCall}),
           mishaps < MaxMishaps, mishaps' = mishaps + 1
    PROVE  PlanInv'
<1>1. PICK k : k = NoCall
  OBVIOUS
<1>2. /\ TablesOK /\ ex[e] \in Process /\ Viewing(ex[e], Fragments, plan.accepted, queue)
      /\ run.result = "succeeded" => run.holder \in Executor /\ Whole(run.holder)
      /\ mishaps \in 0..MaxMishaps
  BY TheExecutor DEF PlanInv
<1>3. UNCHANGED <<plan, decisions, queue, covered>> /\ run' = run /\ scope' = scope
  BY DEF durable
<1>4. TablesOK' /\ Grows
  BY <1>2, <1>3, SameTables
<1>5. Viewing(y, Fragments, plan.accepted, queue) /\ ex[e].done <= y.done
  BY <1>2, SameViewing, DoneNat
<1>6. Viewing(y, Fragments', plan'.accepted, queue')
  BY <1>2, <1>4, <1>5, ViewingStays
<1>7. run'.result = "succeeded" => run'.holder \in Executor /\ Whole(run'.holder)
  BY <1>2, <1>3
<1>8. k \in Call \cup {NoCall} /\ (k # NoCall => CallOK(k)) /\ Waiting(e, y, k)
      /\ calls' = [calls EXCEPT ![e] = k]
  BY <1>1 DEF Waiting
<1>9. mishaps' \in 0..MaxMishaps
  BY <1>2, MishapsCounted
<1> QED BY <1>3, <1>4, <1>5, <1>6, <1>7, <1>8, <1>9, ExecutorMoves

LEMMA LoseAnswerMoves ==
    ASSUME PlanInv, NEW e \in Executor, LoseAnswer(e)
    PROVE  PlanInv'
<1>1. PICK y, x, c : y = Unanswered(e) /\ x = ex[e] /\ c = calls[e]
  OBVIOUS
<1>2. /\ c # NoCall /\ mishaps < MaxMishaps /\ mishaps' = mishaps + 1
      /\ late' = late \cup {c} /\ calls' = [calls EXCEPT ![e] = NoCall]
      /\ ex' = [ex EXCEPT ![e] = y] /\ UNCHANGED <<scope, durable>>
  BY <1>1 DEF LoseAnswer, Set
<1>3. x \in Process /\ c \in Call /\ Waiting(e, x, c)
  BY <1>1, <1>2, TheExecutor
<1>4. x.pc \in AwaitPc
  BY <1>3, AwaitedPc
<1>5. y \in Process /\ SameView(ex[e], y) /\ ~Succeeding(y)
  BY <1>1, <1>3, <1>4, UnansweredIs
<1>6. late' \subseteq late \cup ({calls[e]} \ {NoCall})
  BY <1>1, <1>2
<1> QED BY <1>2, <1>5, <1>6, LettingGoMoves

LEMMA CrashMoves ==
    ASSUME PlanInv, NEW e \in Executor, Crash(e)
    PROVE  PlanInv'
<1>1. PICK y, x : y = Left(ex[e]) /\ x = ex[e]
  OBVIOUS
<1>2. /\ mishaps < MaxMishaps /\ mishaps' = mishaps + 1
      /\ late' \subseteq late \cup ({calls[e]} \ {NoCall})
      /\ calls' = [calls EXCEPT ![e] = NoCall]
      /\ ex' = [ex EXCEPT ![e] = y] /\ UNCHANGED <<scope, durable>>
  BY <1>1 DEF Crash, Set
<1>3. x \in Process
  BY <1>1, TheExecutor
<1>4. y \in Process /\ SameView(x, y) /\ ~Succeeding(y)
  BY <1>1, <1>3, LeftIs
<1>5. SameView(ex[e], y)
  BY <1>1, <1>4
<1> QED BY <1>2, <1>4, <1>5, LettingGoMoves

LEMMA ServeLateMoves ==
    ASSUME PlanInv, NEW c \in late, ServeLate(c)
    PROVE  PlanInv'
<1>1. c \in Call /\ CallOK(c) /\ TablesOK /\ mishaps \in 0..MaxMishaps
  BY DEF PlanInv
<1>2. Served(c) /\ Serve(c) /\ late' \subseteq late /\ UNCHANGED <<scope, ex, calls, mishaps>>
  BY DEF ServeLate
<1>3. /\ TablesOK' /\ Grows
      /\ run'.result = "succeeded" => run'.holder = c.from /\ Whole(c.from)
  BY <1>1, <1>2, ServeKeeps
<1>4. c.from \in Executor
  BY <1>1 DEF Call, AppendCall, CloseCall, CoverCall, CommitCall
<1>5. run'.result = "succeeded" => run'.holder \in Executor /\ Whole(run'.holder)
  BY <1>3, <1>4
<1> QED BY <1>1, <1>2, <1>3, <1>5, TablesMove

LEMMA OperatorMoves ==
    ASSUME PlanInv,
           \/ \E q \in Request : Enqueue(q)
           \/ CancelRun \/ LapseLease \/ FenceLease \/ ContinueRun \/ CloseAttention
    PROVE  PlanInv'
<1>1. /\ TablesOK /\ mishaps \in 0..MaxMishaps
      /\ run.result = "succeeded" => run.holder \in Executor /\ Whole(run.holder)
      /\ run \in [state : {"queued", "leased", "attention", "closed"},
                  holder : Executor \cup {None}, started : BOOLEAN, cancelled : BOOLEAN,
                  result : {None, "succeeded", "failed", "cancelled"}]
  BY DEF PlanInv, TablesOK, TablesTypeOK
<1>2. run.state # "closed" => run.result # "succeeded"
  BY <1>1 DEF TablesOK, LedgerOK
<1>3. ASSUME NEW q \in Request, Enqueue(q) PROVE PlanInv'
  <2>1. TablesOK' /\ Grows
    BY <1>1, <1>3, EnqueueKeeps
  <2>2. UNCHANGED <<scope, ex, calls>> /\ late' \subseteq late /\ mishaps' \in 0..MaxMishaps
        /\ run' = run
    BY <1>1, <1>3 DEF Enqueue
  <2>3. run'.result = "succeeded" => run'.holder \in Executor /\ Whole(run'.holder)
    BY <1>1, <2>2
  <2> QED BY <2>1, <2>2, <2>3, TablesMove
<1>4. ASSUME run' \in [state : {"queued", "leased", "attention", "closed"},
                       holder : Executor \cup {None}, started : BOOLEAN, cancelled : BOOLEAN,
                       result : {None, "succeeded", "failed", "cancelled"}],
             run'.result # "succeeded",
             AbandonPlan, UNCHANGED <<scope, decisions, covered, ex, calls, late, mishaps>>
      PROVE  PlanInv'
  <2>1. TablesOK' /\ Grows
    BY <1>1, <1>4, AbandonKeeps
  <2>2. UNCHANGED <<scope, ex, calls>> /\ late' \subseteq late /\ mishaps' \in 0..MaxMishaps
    BY <1>1, <1>4
  <2>3. run'.result = "succeeded" => run'.holder \in Executor /\ Whole(run'.holder)
    BY <1>4
  <2> QED BY <2>1, <2>2, <2>3, TablesMove
<1>5. ASSUME run' \in [state : {"queued", "leased", "attention"},
                       holder : Executor \cup {None}, started : BOOLEAN, cancelled : BOOLEAN,
                       result : {None, "succeeded", "failed", "cancelled"}],
             run'.result = run.result, run.state # "closed",
             UNCHANGED <<scope, plan, decisions, queue, covered, ex, calls, late>>,
             mishaps' \in 0..MaxMishaps
      PROVE  PlanInv'
  <2>1. TablesOK' /\ Grows
    BY <1>1, <1>5, LeaseKeeps
  <2>2. UNCHANGED <<scope, ex, calls>> /\ late' \subseteq late
    BY <1>5
  <2>3. run'.result = "succeeded" => run'.holder \in Executor /\ Whole(run'.holder)
    BY <1>2, <1>5
  <2> QED BY <1>5, <2>1, <2>2, <2>3, TablesMove
<1>6. CASE CancelRun
  <2>1. CASE run.state = "queued" /\ AbandonPlan
               /\ run' = [Closed("cancelled") EXCEPT !.cancelled = TRUE]
    <3>1. run' = [run EXCEPT !.state = "closed", !.result = "cancelled", !.cancelled = TRUE]
      BY <2>1, <1>1 DEF Closed
    <3> QED BY <1>1, <1>4, <1>6, <2>1, <3>1 DEF CancelRun
  <2>2. CASE run.state = "leased" /\ run' = [run EXCEPT !.cancelled = TRUE]
               /\ UNCHANGED <<plan, queue>>
    <3>1. run' \in [state : {"queued", "leased", "attention"},
                    holder : Executor \cup {None}, started : BOOLEAN, cancelled : BOOLEAN,
                    result : {None, "succeeded", "failed", "cancelled"}]
          /\ run'.result = run.result
      BY <1>1, <2>2
    <3> QED BY <1>1, <1>5, <1>6, <2>2, <3>1 DEF CancelRun
  <2> QED BY <1>6, <2>1, <2>2 DEF CancelRun
<1>7. CASE LapseLease \/ FenceLease
  <2>1. run.state = "leased" /\ run' = [run EXCEPT !.state = "attention"]
        /\ UNCHANGED <<scope, plan, decisions, queue, covered, ex, calls, late>>
    BY <1>7 DEF LapseLease, FenceLease, LoseLease
  <2>2. mishaps' \in 0..MaxMishaps
    BY <1>1, <1>7, MishapsCounted DEF LapseLease, FenceLease
  <2>3. run' \in [state : {"queued", "leased", "attention"},
                  holder : Executor \cup {None}, started : BOOLEAN, cancelled : BOOLEAN,
                  result : {None, "succeeded", "failed", "cancelled"}]
        /\ run'.result = run.result
    BY <1>1, <2>1
  <2> QED BY <1>5, <2>1, <2>2, <2>3
<1>8. CASE ContinueRun
  <2>1. run.state = "attention" /\ run' = [run EXCEPT !.state = "queued"]
        /\ UNCHANGED <<scope, plan, decisions, queue, covered, ex, calls, late, mishaps>>
    BY <1>8 DEF ContinueRun
  <2>2. run' \in [state : {"queued", "leased", "attention"},
                  holder : Executor \cup {None}, started : BOOLEAN, cancelled : BOOLEAN,
                  result : {None, "succeeded", "failed", "cancelled"}]
        /\ run'.result = run.result
    BY <1>1, <2>1
  <2> QED BY <1>1, <1>5, <2>1, <2>2
<1>9. CASE CloseAttention
  <2>1. run' = [run EXCEPT !.state = "closed", !.result = "failed"] /\ AbandonPlan
        /\ UNCHANGED <<scope, decisions, covered, ex, calls, late, mishaps>>
    BY <1>9 DEF CloseAttention, Closed
  <2> QED BY <1>1, <1>4, <2>1
<1> QED BY <1>3, <1>6, <1>7, <1>8, <1>9

-----------------------------------------------------------------------------
(* The invariant. *)

LEMMA NoFragments ==
    ASSUME decisions = <<>>
    PROVE  Fragments = {}
BY DEF Fragments, Range

LEMMA NewExecutorIs ==
    ASSUME NEW x, x = NewExecutor
    PROVE  /\ x \in Process /\ x.points = {} /\ x.done = 0 /\ x.request = None
           /\ ~Succeeding(x)
<1>1. PICK l, r : l = <<>> /\ r = Region
  OBVIOUS
<1>2. l \in Seq(Operation) /\ r \in SUBSET Region
  BY <1>1
<1>3. x = [pc |-> "new", points |-> {}, ledger |-> l, open |-> r,
           done |-> 0, told |-> 0, over |-> FALSE, request |-> None, result |-> "failed"]
  BY <1>1 DEF NewExecutor
<1> QED BY <1>2, <1>3 DEF Process, Succeeding

LEMMA NothingYet == Extent({}) = InitialCount
<1>1. Extent({}) = InitialCount \/ \E f \in {} : Extent({}) = End(f)
  BY InitialCountNat, ExtentReached
<1> QED BY <1>1

LEMMA PlanInitially ==
    ASSUME Init
    PROVE  PlanInv
<1>1. /\ scope \in Scope /\ late = {} /\ mishaps = 0 /\ covered = 0
      /\ run = [state |-> "queued", holder |-> None, started |-> FALSE,
                cancelled |-> FALSE, result |-> None]
      /\ plan = [accepted |-> InitialCount, stop |-> NotClosed]
      /\ decisions = <<>> /\ queue = <<>>
      /\ ex = [e \in Executor |-> NewExecutor] /\ calls = [e \in Executor |-> NoCall]
  BY DEF Init
<1>2. Fragments = {} /\ ~PlanClosed
  BY <1>1, NoFragments DEF PlanClosed
<1>3. MaxMishaps \in Nat /\ InitialCount \in Nat /\ InitialCount <= PointLimit
      /\ PointLimit \in Nat
  BY AdaptiveAssumption
<1>4. None \notin {"succeeded", "failed", "cancelled"}
  BY AdaptiveAssumption
<1>5. plan.accepted = InitialCount /\ plan.stop = NotClosed /\ run.state = "queued"
      /\ run.result = None
  BY <1>1
<1>6. TablesTypeOK
  <2>1. decisions \in Seq(Decision) /\ queue \in Seq(Entry)
    BY <1>1
  <2>2. covered \in 0..PointLimit /\ InitialCount \in InitialCount..PointLimit
    BY <1>1, <1>3
  <2>3. plan \in [accepted : InitialCount..PointLimit,
                  stop : {NotClosed, Abandoned} \cup (Nat \X Reason)]
    BY <1>1, <2>2
  <2>4. run \in [state : {"queued", "leased", "attention", "closed"},
                 holder : Executor \cup {None}, started : BOOLEAN, cancelled : BOOLEAN,
                 result : {None, "succeeded", "failed", "cancelled"}]
    BY <1>1
  <2> QED BY <2>1, <2>2, <2>3, <2>4 DEF TablesTypeOK
<1>7. LedgerOK
  <2>1. Tiled({}, InitialCount)
    BY <1>3 DEF Tiled
  <2> QED BY <1>1, <1>2, <1>3, <1>4, <1>5, <2>1 DEF LedgerOK
<1>8. QueueOK
  BY <1>1, <1>5 DEF QueueOK, Matched
<1>9. PICK x : x = NewExecutor
  OBVIOUS
<1>10. /\ x \in Process /\ x.points = {} /\ x.done = 0 /\ x.request = None
       /\ ~Succeeding(x)
  BY <1>9, NewExecutorIs
<1>11. Viewing(x, {}, InitialCount, queue)
  BY <1>3, <1>10, NothingYet DEF Viewing, Leading
<1>12. ex \in [Executor -> Process] /\ \A e \in Executor : ex[e] = x
  BY <1>1, <1>9, <1>10
<1>13. calls \in [Executor -> Call \cup {NoCall}] /\ \A e \in Executor : calls[e] = NoCall
  BY <1>1
<1>14. \A e \in Executor : ExecutorOK(e)
  BY <1>2, <1>5, <1>10, <1>11, <1>12, <1>13 DEF ExecutorOK, Waiting
<1>15. mishaps \in 0..MaxMishaps /\ late \subseteq Call
  BY <1>1, <1>3
<1>16. run.result # "succeeded"
  BY <1>4, <1>5
<1> QED BY <1>1, <1>6, <1>7, <1>8, <1>12, <1>13, <1>14, <1>15, <1>16 DEF PlanInv, TablesOK

LEMMA PlanStutters ==
    ASSUME PlanInv, UNCHANGED vars
    PROVE  PlanInv'
<1>1. /\ UNCHANGED <<plan, decisions, queue, covered>> /\ run' = run
      /\ UNCHANGED <<scope, ex, calls>> /\ late' \subseteq late /\ mishaps' = mishaps
  BY DEF vars, durable
<1>2. /\ TablesOK /\ mishaps \in 0..MaxMishaps
      /\ run.result = "succeeded" => run.holder \in Executor /\ Whole(run.holder)
  BY DEF PlanInv
<1>3. TablesOK' /\ Grows
  BY <1>1, <1>2, SameTables
<1>4. run'.result = "succeeded" => run'.holder \in Executor /\ Whole(run'.holder)
  BY <1>1, <1>2
<1>5. mishaps' \in 0..MaxMishaps
  BY <1>1, <1>2
<1> QED BY <1>1, <1>3, <1>4, <1>5, TablesMove

\* The invariant holds for every plan, budget and number of executors.
THEOREM PlanInvariant == Spec => []PlanInv
<1>1. Init => PlanInv
  BY PlanInitially
<1>2. PlanInv /\ [Next]_vars => PlanInv'
  <2> SUFFICES ASSUME PlanInv, [Next]_vars PROVE PlanInv'
    OBVIOUS
  <2>1. ASSUME NEW e \in Executor, Step(e) PROVE PlanInv'
    BY <2>1, ReadHistoryMoves, StartMoves, MeasureMoves, FlushMoves, ReadQueueMoves,
       DecideRequestMoves, DecideProposalMoves, CompleteOptimizationMoves, SendCloseMoves,
       FinishingMoves, SendLastCoverageMoves, SendCommitMoves, ServeCallMoves DEF Step
  <2>2. ASSUME NEW e \in Executor, LoseAnswer(e) \/ Crash(e) PROVE PlanInv'
    BY <2>2, LoseAnswerMoves, CrashMoves
  <2>3. ASSUME NEW c \in late, ServeLate(c) PROVE PlanInv'
    BY <2>3, ServeLateMoves
  <2>4. CASE \/ \E q \in Request : Enqueue(q)
             \/ CancelRun \/ LapseLease \/ FenceLease \/ ContinueRun \/ CloseAttention
    BY <2>4, OperatorMoves
  <2>5. CASE UNCHANGED vars
    BY <2>5, PlanStutters
  <2> QED BY <2>1, <2>2, <2>3, <2>4, <2>5 DEF Next
<1> QED BY <1>1, <1>2, PTL DEF Spec

-----------------------------------------------------------------------------
(* What the invariant says of the properties. *)

\* Every variable stays in its type.
THEOREM PlanTypeCorrect == Spec => []PlanTypeOK
<1>1. PlanInv => PlanTypeOK
  BY DEF PlanInv, TablesOK, TablesTypeOK, PlanTypeOK
<1> QED BY <1>1, PlanInvariant, PTL

LEMMA PlanIsLed ==
    ASSUME PlanInv
    PROVE  PlanLeadsExecutors
<1>1. /\ TablesOK /\ Tiled(Fragments, plan.accepted) /\ covered =< plan.accepted
      /\ Fragments \subseteq Fragment /\ plan.accepted \in Nat /\ InitialCount \in Nat
      /\ \A f \in Fragments : f.start \in Nat /\ End(f) \in Nat
  BY TablesTypes, FragmentEnds, InitialCountNat DEF PlanInv, TablesOK, LedgerOK
<1>2. InitialCount..(plan.accepted - 1) = UNION {PointsOf(f) : f \in Fragments}
  <2>1. ASSUME NEW n \in InitialCount..(plan.accepted - 1)
        PROVE  n \in UNION {PointsOf(f) : f \in Fragments}
    <3>1. PICK f \in Fragments : f.start =< n /\ n < End(f)
      BY <1>1 DEF Tiled
    <3>2. n \in PointsOf(f)
      BY <1>1, <3>1 DEF PointsOf
    <3> QED BY <3>2
  <2>2. ASSUME NEW f \in Fragments, NEW n \in PointsOf(f)
        PROVE  n \in InitialCount..(plan.accepted - 1)
    <3>1. InitialCount =< f.start /\ End(f) =< plan.accepted
      BY <1>1 DEF Tiled
    <3> QED BY <1>1, <3>1 DEF PointsOf
  <2> QED BY <2>1, <2>2
<1>3. \A f, g \in Fragments : f # g => PointsOf(f) \cap PointsOf(g) = {}
  <2> TAKE f, g \in Fragments
  <2> HAVE f # g
  <2>1. End(f) =< g.start \/ End(g) =< f.start
    BY <1>1 DEF Tiled
  <2> QED BY <1>1, <2>1 DEF PointsOf
<1>4. \A e \in Executor :
          /\ ex[e].points = {f \in Fragments : f.start < PointCount(e)}
          /\ ex[e].done =< PointCount(e) /\ PointCount(e) =< plan.accepted
  BY DEF PlanInv, ExecutorOK, Viewing, Leading, PointCount
<1> QED BY <1>1, <1>2, <1>3, <1>4 DEF PlanLeadsExecutors

\* What is measured was accepted first, and the accepted fragments are a tiling of
\* the plan: for all sizes, budgets and interleavings.
THEOREM PlanLeadsExecutorsHolds == Spec => []PlanLeadsExecutors
BY PlanIsLed, PlanInvariant, PTL

LEMMA AnswersMatch ==
    ASSUME PlanInv
    PROVE  AnswersAreTrue
<1>1. /\ queue \in Seq(Entry) /\ decisions \in Seq(Decision) /\ Matched(queue, decisions)
      /\ plan.stop # NotClosed => NonePending(queue)
      /\ run.state = "closed" => plan.stop # NotClosed
  BY DEF PlanInv, TablesOK, TablesTypeOK, LedgerOK, QueueOK
<1> SUFFICES ASSUME NEW q \in Range(queue)
             PROVE  LET answers == {i \in DOMAIN decisions : decisions[i].op.request = q.id}
                    IN /\ q.status \in {"accepted", "rejected"} =>
                             /\ Cardinality(answers) = 1
                             /\ \A i \in answers :
                                   /\ decisions[i].op.outcome = q.status
                                   /\ decisions[i].op.proposal.size = q.size
                       /\ q.status \in {"pending", "cancelled"} => answers = {}
                       /\ q.status = "pending" =>
                              plan.stop = NotClosed /\ run.state # "closed"
  BY DEF AnswersAreTrue
<1> DEFINE answers == {i \in DOMAIN decisions : decisions[i].op.request = q.id}
<1>2. PICK j \in DOMAIN queue : q = queue[j]
  BY DEF Range
<1>3. q \in Entry /\ q.id # None
  <2>1. q \in Entry
    BY <1>1, <1>2
  <2>2. q.id \in RequestId
    BY <2>1 DEF Entry
  <2>3. None \notin RequestId
    BY AdaptiveAssumption
  <2> QED BY <2>1, <2>2, <2>3
<1>4. \A i \in answers : Answers(decisions[i], q)
  <2> TAKE i \in answers
  <2>1. PICK n \in DOMAIN queue : Answers(decisions[i], queue[n])
    BY <1>1, <1>3 DEF Matched
  <2>2. n = j
    BY <1>1, <1>2, <2>1 DEF Matched, Answers
  <2> QED BY <1>2, <2>1, <2>2
<1>5. \A i, n \in answers : i = n
  BY <1>1, <1>3 DEF Matched
<1>6. q.status \in {"accepted", "rejected"} => Cardinality(answers) = 1
  <2> HAVE q.status \in {"accepted", "rejected"}
  <2>1. PICK i \in DOMAIN decisions : Answers(decisions[i], q)
    BY <1>1, <1>2 DEF Matched
  <2>2. i \in answers
    BY <2>1 DEF Answers
  <2>3. answers = {i}
    BY <1>5, <2>2
  <2> QED BY <2>3, FS_Singleton
<1>7. \A i \in answers : q.status \in {"accepted", "rejected"}
  <2> TAKE i \in answers
  <2>1. decisions[i] \in Decision
    BY <1>1
  <2>2. decisions[i].op.outcome \in {"accepted", "rejected"}
    BY <2>1 DEF Decision, Operation
  <2> QED BY <1>4, <2>2 DEF Answers
<1>8. q.status \in {"pending", "cancelled"} => answers = {}
  BY <1>7
<1>9. q.status = "pending" => plan.stop = NotClosed /\ run.state # "closed"
  BY <1>1, <1>2 DEF NonePending
<1> QED BY <1>4, <1>6, <1>8, <1>9 DEF Answers

\* An operator is told the truth about every request, however many there are.
THEOREM AnswersAreTrueHolds == Spec => []AnswersAreTrue
BY AnswersMatch, PlanInvariant, PTL

LEMMA WholeIsEverything ==
    ASSUME PlanInv
    PROVE  SuccessIsWholePlan
<1> SUFFICES ASSUME run.result = "succeeded"
             PROVE  LET x == ex[run.holder]
                    IN /\ plan.stop \notin {NotClosed, Abandoned}
                       /\ x.points = Fragments
                       /\ x.done = plan.accepted /\ covered = plan.accepted
  BY DEF SuccessIsWholePlan
<1>1. PICK e, x : e = run.holder /\ x = ex[e]
  OBVIOUS
<1>2. e \in Executor /\ Whole(e) /\ TablesOK
  BY <1>1 DEF PlanInv
<1>3. PlanClosed /\ x.done = plan.accepted /\ covered = plan.accepted
  BY <1>1, <1>2 DEF Whole, TablesOK, LedgerOK
<1>4. x \in Process /\ Viewing(x, Fragments, plan.accepted, queue)
  BY <1>1, <1>2, TheExecutor
<1>5. /\ Extent(x.points) \in Nat /\ plan.accepted \in Nat
      /\ x.done <= Extent(x.points) /\ Fragments \subseteq Fragment
  BY <1>2, <1>4, ViewReaches
<1>6. \A f \in Fragments : f.start < Extent(x.points)
  <2> TAKE f \in Fragments
  <2>1. f.start \in Nat /\ End(f) \in Nat /\ f.start < End(f)
    BY <1>5, FragmentEnds
  <2>2. End(f) =< plan.accepted
    BY <1>2 DEF TablesOK, LedgerOK, Tiled
  <2> QED BY <1>3, <1>5, <2>1, <2>2
<1>7. x.points = Fragments
  BY <1>4, <1>6 DEF Viewing, Leading
<1> QED BY <1>1, <1>3, <1>7 DEF PlanClosed

\* A run that succeeds has measured, by the executor that committed it, all of its plan.
THEOREM SuccessIsWholePlanHolds == Spec => []SuccessIsWholePlan
BY WholeIsEverything, PlanInvariant, PTL
=============================================================================

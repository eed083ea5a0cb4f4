------------------------ MODULE InstrumentActorsProofs ------------------------
(***************************************************************************)
(* One owner and one connection per device, for any devices, threads,      *)
(* maintenance requests, backends and replacements.                        *)
(***************************************************************************)
EXTENDS InstrumentActors, TLAPS

ActorsTypes ==
    /\ accepting \in BOOLEAN /\ replacing \in BOOLEAN
    /\ active \in Backend \cup {None}
    /\ retiring \in [Key -> Party \cup {None}]
    /\ acquiring \in [Key -> SUBSET Thread]
    /\ registered \in [Key -> Slot \cup {None}]
    /\ actors \in [Key -> [Slot -> Actor]]
    /\ stuck \subseteq Key
    /\ backend \in Backend /\ stopped \subseteq Backend
    /\ th \in [Thread -> Request]
    /\ held \in [Thread -> [Key -> Slot \cup {None}]]
    /\ rt \in [Party -> Retirement]
    /\ rep \in Replacing
    /\ sd \in [pc : {"running", "draining", "closing", "done"}, left : SUBSET (Key \X Slot)]

\* Between the first and the last section of an acquisition.
Acquires == {"gated", "connecting", "connected", "discarding", "failing"}

(***************************************************************************)
(* A thread holds handles of the devices it has come to in its request; an *)
(* acquisition under way is counted, and its actor stays registered.       *)
(***************************************************************************)
RequestOK(t) ==
    /\ th[t].got <= Len(Wants[t])
    /\ \A k \in Key : held[t][k] # None <=> \E i \in 1..th[t].got : Wants[t][i] = k
    /\ At(t, "idle") => th[t].got = 0
    /\ th[t].pc \in {"owner", "releasing", "faulting"} => th[t].got > 0
    /\ th[t].pc \in Acquires \cup {"asked"} =>
          th[t].got < Len(Wants[t]) /\ th[t].backend \in Backend
    /\ th[t].pc \in Acquires =>
          /\ th[t].slot \in Slot /\ registered[Target(t)] = th[t].slot
          /\ t \in acquiring[Target(t)]

\* Connecting, a thread is alone with a usable actor that has no connection.
LineOK(t) ==
    At(t, "connecting") =>
        /\ ~Mine(t).down /\ Mine(t).owner = None /\ Mine(t).conn = None
        /\ \A u \in Thread : At(u, "connecting") /\ Target(u) = Target(t) => u = t

\* What is not registered is neither owned nor connected; a device that may still
\* be connected keeps its registered actor shut down for good.
DeviceOK(k) ==
    /\ \A s \in Slot : registered[k] # s =>
          actors[k][s].owner = None /\ actors[k][s].conn = None
    /\ k \in stuck => /\ registered[k] \in Slot
                      /\ actors[k][registered[k]].down
                      /\ actors[k][registered[k]].conn = None

\* Once the acquisitions have drained a retirement knows every actor there is
\* behind its gate.
RetirementOK(m) ==
    /\ rt[m].pc \in {"checking", "retiring", "retired"} =>
          \A k \in Behind(m) : acquiring[k] = {}
    /\ rt[m].pc \in {"checking", "retiring"} =>
          \A k \in Key, s \in Slot :
              <<k, s>> \in rt[m].left <=> k \in Behind(m) /\ registered[k] = s
    /\ rt[m].pc = "retired" => \A k \in Behind(m) : registered[k] = None

\* The gates of a replacement stay closed until its previous backend was stopped.
ReplacementOK ==
    /\ accepting <=> sd.pc = "running"
    /\ rep.pc # "idle" =>
          sd.pc = "running" /\ rep.new \in Backend /\ rep.old \in Backend \ {rep.new}
    /\ rep.pc \in {"retiring", "publishing", "stopping"} =>
          \A k \in Key : retiring[k] = Replacement
    /\ rep.pc \in {"publishing", "stopping"} => rt[Replacement].pc = "retired"

\* Connections, and acquisitions that may still connect, are to the backend that
\* is active, if there was a replacement at all.
Fits(b) == b \notin stopped /\ active \in {None, b}
BackendOK ==
    accepting =>
        /\ active \notin stopped
        /\ active = None => stopped = {}
        /\ rep.pc \in {"idle", "waiting", "gating", "retiring"} => active \in {None, backend}
        /\ rep.pc # "idle" => rep.new \notin stopped
        /\ rep.pc \in {"publishing", "stopping"} => backend = rep.new
        /\ rep.pc = "stopping" => active = rep.new
        /\ \A k \in Key, s \in Slot : actors[k][s].conn # None => Fits(actors[k][s].conn)
        /\ \A t \in Thread : th[t].pc \in {"gated", "connecting"} => Fits(th[t].backend)

ActorsInv ==
    /\ ActorsTypes
    /\ \A t \in Thread : RequestOK(t) /\ LineOK(t)
    /\ \A k \in Key : DeviceOK(k)
    /\ NoGhostOwner
    /\ \A m \in Party : RetirementOK(m)
    /\ ReplacementOK /\ BackendOK

-----------------------------------------------------------------------------
LEMMA Nones ==
    /\ None \notin Thread /\ None \notin Slot /\ None \notin Backend /\ None \notin Key
    /\ None \notin Party
BY ActorsAssumption DEF Party

LEMMA WantsFacts ==
    ASSUME NEW t \in Thread
    PROVE  /\ Len(Wants[t]) \in Nat \ {0}
           /\ \A i \in 1..Len(Wants[t]) : Wants[t][i] \in Key
           /\ \A i, j \in 1..Len(Wants[t]) : Wants[t][i] = Wants[t][j] => i = j
<1>1. Wants[t] \in Seq(Key) /\ Wants[t] # <<>>
  BY ActorsAssumption
<1>2. Len(Wants[t]) \in Nat \ {0} /\ \A i \in 1..Len(Wants[t]) : Wants[t][i] \in Key
  BY <1>1
<1> QED
  BY <1>2, ActorsAssumption

\* The device a thread comes to is not among those it has, the last one is.
LEMMA Places ==
    ASSUME ActorsInv, NEW t \in Thread
    PROVE  /\ th[t] \in Request /\ th[t].got \in Nat /\ th[t].got <= Len(Wants[t])
           /\ th[t].got < Len(Wants[t]) => Target(t) \in Key /\ held[t][Target(t)] = None
           /\ th[t].got > 0 => Last(t) \in Key /\ held[t][Last(t)] \in Slot
<1> DEFINE n == th[t].got
<1>1. /\ th[t] \in Request /\ n \in Nat /\ n <= Len(Wants[t])
      /\ \A k \in Key : held[t][k] # None <=> \E i \in 1..n : Wants[t][i] = k
      /\ held[t] \in [Key -> Slot \cup {None}]
  BY DEF ActorsInv, ActorsTypes, RequestOK, Request
<1> HIDE DEF n
<1>2. ASSUME n < Len(Wants[t])
      PROVE  Wants[t][n + 1] \in Key /\ held[t][Wants[t][n + 1]] = None
  <2>1. n + 1 \in 1..Len(Wants[t]) /\ \A i \in 1..n : i \in 1..Len(Wants[t]) /\ i # n + 1
    BY <1>1, <1>2, WantsFacts
  <2>2. Wants[t][n + 1] \in Key /\ \A i \in 1..n : Wants[t][i] # Wants[t][n + 1]
    BY <2>1, WantsFacts
  <2> QED
    BY <1>1, <2>2
<1>3. ASSUME n > 0
      PROVE  Wants[t][n] \in Key /\ held[t][Wants[t][n]] \in Slot
  <2>1. n \in 1..n /\ n \in 1..Len(Wants[t])
    BY <1>1, <1>3, WantsFacts
  <2>2. Wants[t][n] \in Key
    BY <2>1, WantsFacts
  <2> QED
    BY <1>1, <2>1, <2>2
<1> QED
  BY <1>1, <1>2, <1>3 DEF n, Target, Last

\* An acquisition is that of a registered actor.
LEMMA Acquired ==
    ASSUME ActorsInv, NEW t \in Thread, th[t].pc \in Acquires
    PROVE  /\ Target(t) \in Key /\ th[t].slot \in Slot /\ held[t][Target(t)] = None
           /\ registered[Target(t)] = th[t].slot /\ t \in acquiring[Target(t)]
           /\ Mine(t) \in Actor /\ th[t].backend \in Backend
           /\ th[t].got < Len(Wants[t])
<1>1. RequestOK(t) /\ actors \in [Key -> [Slot -> Actor]]
  BY DEF ActorsInv, ActorsTypes
<1>2. /\ th[t].slot \in Slot /\ registered[Target(t)] = th[t].slot
      /\ t \in acquiring[Target(t)] /\ th[t].got < Len(Wants[t]) /\ th[t].backend \in Backend
  BY <1>1 DEF RequestOK
<1>3. Target(t) \in Key /\ held[t][Target(t)] = None
  BY <1>2, Places
<1> QED
  BY <1>1, <1>2, <1>3 DEF Mine

LEMMA InvariantImplies ==
    ASSUME ActorsInv
    PROVE  ActorsTypeOK /\ OneConnection /\ NoGhostOwner /\ ConnectedToActive
<1>1. ActorsTypeOK
  BY DEF ActorsInv, ActorsTypes, ActorsTypeOK, RequestOK
<1>2. ASSUME NEW k \in Key, NEW a \in Lines(k), NEW b \in Lines(k)
      PROVE  a = b
  <2>1. DeviceOK(k) /\ registered[k] \in Slot \cup {None}
    BY DEF ActorsInv, ActorsTypes
  <2>2. ASSUME NEW c \in Lines(k)
        PROVE  \/ registered[k] \in Slot /\ actors[k][registered[k]].conn # None
                  /\ c = <<"actor", registered[k]>>
               \/ \E t \in Thread : /\ At(t, "connecting") /\ Target(t) = k
                                    /\ c = <<"connect", t>>
               \/ k \in stuck /\ c = <<"stuck", k>>
    BY <2>1 DEF Lines, DeviceOK
  <2>3. ASSUME NEW t \in Thread, At(t, "connecting"), Target(t) = k
        PROVE  /\ actors[k][registered[k]].conn = None /\ k \notin stuck
               /\ \A u \in Thread : At(u, "connecting") /\ Target(u) = k => u = t
    <3>1. th[t].pc \in Acquires /\ LineOK(t)
      BY <2>3 DEF At, Acquires, ActorsInv
    <3>2. registered[k] = th[t].slot
      BY <2>3, <3>1, Acquired
    <3> QED
      BY <2>1, <2>3, <3>1, <3>2 DEF LineOK, Mine, DeviceOK
  <2>4. k \in stuck => actors[k][registered[k]].conn = None
    BY <2>1 DEF DeviceOK
  <2> QED
    BY <2>2, <2>3, <2>4
<1>3. ConnectedToActive
  BY DEF ActorsInv, BackendOK, Fits, ConnectedToActive
<1> QED
  BY <1>1, <1>2, <1>3 DEF ActorsInv, OneConnection

-----------------------------------------------------------------------------
(* What a step of one thread leaves as it was. *)

\* One actor object is written.
Rewritten(k, s, a) ==
    /\ actors' \in [Key -> [Slot -> Actor]] /\ actors'[k][s] = a
    /\ \A j \in Key, u \in Slot : (j # k \/ u # s) => actors'[j][u] = actors[j][u]

LEMMA RewrittenFacts ==
    ASSUME ActorsInv, NEW k \in Key, NEW s \in Slot, NEW a \in Actor,
           actors' = [actors EXCEPT ![k][s] = a]
    PROVE  Rewritten(k, s, a)
BY DEF Rewritten, ActorsInv, ActorsTypes

\* What registry, lifecycle and backends have in common for a step of a thread.
Around == <<accepting, replacing, active, retiring, registered, backend, stopped, lifecycle>>

HandlesOf(t) ==
    /\ held' \in [Thread -> [Key -> Slot \cup {None}]]
    /\ \A u \in Thread \ {t} : held'[u] = held[u]

CountsOf(t) ==
    /\ acquiring' \in [Key -> SUBSET Thread]
    /\ \A k \in Key : acquiring'[k] \subseteq acquiring[k]
    /\ \A k \in Key : \A u \in acquiring[k] \ {t} : u \in acquiring'[k]

\* The actors that others connect are not touched, and nobody else becomes an owner.
LinesKept(t) ==
    \A u \in Thread \ {t} : At(u, "connecting") =>
        actors'[Target(u)][th[u].slot] = actors[Target(u)][th[u].slot]

OwnersKept(t) ==
    \A k \in Key, s \in Slot : \A u \in Thread \ {t} :
        actors'[k][s].owner = u => actors[k][s].owner = u

\* The thread still knows what it owns.
OwnsKnown(t, x) ==
    \A k \in Key, s \in Slot : actors'[k][s].owner = t =>
        \/ held'[t][k] = s
        \/ x.pc \in {"connected", "discarding"} /\ Target(t)' = k /\ x.slot = s

ConnsFit ==
    \A k \in Key, s \in Slot : \/ actors'[k][s].conn \in {None, actors[k][s].conn}
                               \/ accepting => Fits(actors'[k][s].conn)

DevicesKept ==
    /\ actors' \in [Key -> [Slot -> Actor]] /\ stuck' \subseteq Key
    /\ \A k \in Key : DeviceOK(k)'

\* Only acquisitions that end are uncounted.
LEMMA CountedFacts ==
    ASSUME ActorsInv, NEW t \in Thread, Target(t) \in Key,
           Counted(t) \/ UNCHANGED acquiring
    PROVE  CountsOf(t)
<1>1. acquiring \in [Key -> SUBSET Thread]
  BY DEF ActorsInv, ActorsTypes
<1>2. CASE Counted(t)
  BY <1>1, <1>2 DEF Counted, CountsOf
<1>3. CASE UNCHANGED acquiring
  BY <1>1, <1>3 DEF CountsOf
<1> QED
  BY <1>2, <1>3

LEMMA ThreadStep ==
    ASSUME ActorsInv, NEW t \in Thread, NEW x \in Request, th' = [th EXCEPT ![t] = x],
           RequestOK(t)', HandlesOf(t), CountsOf(t), DevicesKept,
           \A u \in Thread : LineOK(u)',
           NoGhostOwner', BackendOK', UNCHANGED Around
    PROVE  ActorsInv'
<1>1. /\ UNCHANGED <<accepting, replacing, active, retiring, registered, backend, stopped>>
      /\ UNCHANGED <<rt, rep, sd>>
  BY DEF Around, lifecycle
<1>2. ActorsTypes'
  BY <1>1 DEF ActorsInv, ActorsTypes, HandlesOf, CountsOf, DevicesKept
<1>3. ASSUME NEW u \in Thread \ {t}
      PROVE  RequestOK(u)'
  <2>1. th'[u] = th[u] /\ held'[u] = held[u] /\ RequestOK(u)
    BY DEF ActorsInv, ActorsTypes, HandlesOf
  <2>2. th[u].pc \in Acquires => Target(u) \in Key /\ u \in acquiring'[Target(u)]
    BY Acquired DEF CountsOf
  <2> QED
    BY <1>1, <2>1, <2>2 DEF RequestOK, At, Target
<1>4. ASSUME NEW m \in Party
      PROVE  RetirementOK(m)'
  <2>1. RetirementOK(m) /\ acquiring \in [Key -> SUBSET Thread]
    BY DEF ActorsInv, ActorsTypes
  <2>2. Behind(m)' = Behind(m) /\ Behind(m) \subseteq Key
    BY <1>1 DEF Behind
  <2>3. \A k \in Key : acquiring[k] = {} => acquiring'[k] = {}
    BY <2>1 DEF CountsOf
  <2> QED
    BY <1>1, <2>1, <2>2, <2>3 DEF RetirementOK
<1>5. ReplacementOK'
  BY <1>1 DEF ActorsInv, ReplacementOK
<1> QED
  BY <1>2, <1>3, <1>4, <1>5 DEF ActorsInv, DevicesKept

\* The lines of the others: their actors are not touched while they connect.
LEMMA LinesStay ==
    ASSUME ActorsInv, NEW t \in Thread, NEW x \in Request, th' = [th EXCEPT ![t] = x],
           x.pc # "connecting", LinesKept(t)
    PROVE  \A u \in Thread : LineOK(u)'
<1>1. th'[t] = x /\ \A u \in Thread \ {t} : th'[u] = th[u] /\ Target(u)' = Target(u)
  BY DEF ActorsInv, ActorsTypes, Target
<1>2. ASSUME NEW u \in Thread, At(u, "connecting")'
      PROVE  /\ u # t /\ At(u, "connecting") /\ Target(u)' = Target(u) /\ Mine(u)' = Mine(u)
  <2>1. u # t /\ At(u, "connecting") /\ th'[u] = th[u] /\ Target(u)' = Target(u)
    BY <1>1, <1>2 DEF At
  <2> QED
    BY <2>1 DEF Mine, LinesKept
<1>3. \A u \in Thread : LineOK(u)
  BY DEF ActorsInv
<1> QED
  BY <1>2, <1>3 DEF LineOK

\* An actor that is written has its registered object written, or is let go.
LEMMA DeviceStays ==
    ASSUME ActorsInv, NEW k \in Key, NEW s \in Slot, NEW a \in Actor, Rewritten(k, s, a),
           UNCHANGED registered,
           registered[k] # s => a.owner = None /\ a.conn = None,
           k \in stuck /\ registered[k] = s => a.down /\ a.conn = None,
           \/ stuck' = stuck
           \/ stuck' = stuck \cup {k} /\ registered[k] = s /\ a.down /\ a.conn = None
    PROVE  \A j \in Key : DeviceOK(j)'
<1>1. \A j \in Key : DeviceOK(j)
  BY DEF ActorsInv
<1>2. \A j \in Key \ {k} : DeviceOK(j)'
  BY <1>1 DEF DeviceOK, Rewritten
<1>3. DeviceOK(k)'
  <2>1. \A u \in Slot : registered[k] # u => actors'[k][u].owner = None /\ actors'[k][u].conn = None
    BY <1>1 DEF DeviceOK, Rewritten
  <2>2. k \in stuck' => registered[k] \in Slot /\ actors'[k][registered[k]].down
                        /\ actors'[k][registered[k]].conn = None
    BY <1>1 DEF DeviceOK, Rewritten
  <2> QED
    BY <2>1, <2>2 DEF DeviceOK
<1> QED
  BY <1>2, <1>3

LEMMA DeviceSame ==
    ASSUME ActorsInv, UNCHANGED <<registered, actors, stuck>>
    PROVE  \A j \in Key : DeviceOK(j)'
BY DEF ActorsInv, DeviceOK

\* Nobody comes to a new backend.
LEMMA BackendStays ==
    ASSUME ActorsInv, NEW t \in Thread, NEW x \in Request, th' = [th EXCEPT ![t] = x],
           x.pc \in {"gated", "connecting"} =>
               th[t].pc \in {"gated", "connecting"} /\ x.backend = th[t].backend,
           ConnsFit, UNCHANGED Around
    PROVE  BackendOK'
<1>1. UNCHANGED <<accepting, active, backend, stopped, rep>>
  BY DEF Around, lifecycle
<1>2. \A b : Fits(b)' = Fits(b)
  BY <1>1 DEF Fits
<1>3. BackendOK /\ th'[t] = x /\ \A u \in Thread \ {t} : th'[u] = th[u]
  BY DEF ActorsInv, ActorsTypes
<1>4. accepting => \A u \in Thread : th'[u].pc \in {"gated", "connecting"} => Fits(th'[u].backend)
  BY <1>3 DEF BackendOK
<1>5. accepting => \A k \in Key, s \in Slot :
          actors'[k][s].conn # None => Fits(actors'[k][s].conn)
  BY <1>3 DEF BackendOK, ConnsFit
<1> QED
  BY <1>1, <1>2, <1>3, <1>4, <1>5 DEF BackendOK

LEMMA GhostStays ==
    ASSUME ActorsInv, NEW t \in Thread, NEW x \in Request, th' = [th EXCEPT ![t] = x],
           HandlesOf(t), OwnersKept(t), OwnsKnown(t, x)
    PROVE  NoGhostOwner'
<1>1. th'[t] = x /\ \A u \in Thread \ {t} : th'[u] = th[u] /\ Target(u)' = Target(u)
  BY DEF ActorsInv, ActorsTypes, Target
<1>2. NoGhostOwner
  BY DEF ActorsInv
<1>3. ASSUME NEW k \in Key, NEW s \in Slot, NEW u \in Thread \ {t}, actors'[k][s].owner = u
      PROVE  \/ held'[u][k] = s
             \/ th'[u].pc \in {"connected", "discarding"} /\ Target(u)' = k /\ th'[u].slot = s
  BY <1>1, <1>2, <1>3 DEF NoGhostOwner, HandlesOf, OwnersKept
<1>4. ASSUME NEW k \in Key, NEW s \in Slot, actors'[k][s].owner = t
      PROVE  \/ held'[t][k] = s
             \/ th'[t].pc \in {"connected", "discarding"} /\ Target(t)' = k /\ th'[t].slot = s
  BY <1>1, <1>4 DEF OwnsKnown
<1> QED
  BY <1>3, <1>4 DEF NoGhostOwner

\* A thread goes on in its acquisition.
LEMMA RequestMoves ==
    ASSUME ActorsInv, NEW t \in Thread, th[t].pc \in Acquires, NEW pc \in Acquires,
           th' = [th EXCEPT ![t] = [th[t] EXCEPT !.pc = pc]],
           UNCHANGED <<held, registered, acquiring>>
    PROVE  /\ [th[t] EXCEPT !.pc = pc] \in Request
           /\ [th[t] EXCEPT !.pc = pc].pc = pc
           /\ [th[t] EXCEPT !.pc = pc].slot = th[t].slot
           /\ [th[t] EXCEPT !.pc = pc].backend = th[t].backend
           /\ RequestOK(t)' /\ Target(t)' = Target(t)
<1> DEFINE x == [th[t] EXCEPT !.pc = pc]
<1>1. RequestOK(t) /\ th[t] \in Request /\ th \in [Thread -> Request]
  BY DEF ActorsInv, ActorsTypes
<1>2. pc \in ThreadPc
  BY DEF Acquires, ThreadPc
<1>3. /\ x \in Request /\ x.pc = pc /\ x.got = th[t].got /\ x.slot = th[t].slot
      /\ x.backend = th[t].backend
  BY <1>1, <1>2 DEF Request
<1>4. th'[t] = x
  BY <1>1
<1> HIDE DEF x
<1>5. Target(t)' = Target(t)
  BY <1>3, <1>4 DEF Target
<1>6. RequestOK(t)'
  BY <1>1, <1>3, <1>4, <1>5 DEF RequestOK, At, Acquires
<1> QED
  BY <1>3, <1>5, <1>6 DEF x

\* Its group is released.
LEMMA RequestUnwinds ==
    ASSUME ActorsInv, NEW t \in Thread, NEW got \in Nat, got <= Len(Wants[t]),
           NEW pc \in {"releasing", "faulting"}, Unwind(t, got, pc),
           \A k \in Key : held'[t][k] # None <=> \E i \in 1..got : Wants[t][i] = k
    PROVE  \E x \in Request : /\ th' = [th EXCEPT ![t] = x]
                              /\ x.pc \in {"idle", "releasing", "faulting"}
                              /\ RequestOK(t)'
<1> DEFINE x == IF got = 0 THEN Idle
                ELSE [th[t] EXCEPT !.pc = pc, !.got = got, !.slot = None]
<1>1. th[t] \in Request /\ th \in [Thread -> Request]
  BY DEF ActorsInv, ActorsTypes
<1>2. Idle \in Request /\ Idle.pc = "idle" /\ Idle.got = 0
  BY DEF Idle, Request, ThreadPc
<1>3. /\ x \in Request /\ x.got = got
      /\ got = 0 => x.pc = "idle"
      /\ got # 0 => x.pc = pc
  BY <1>1, <1>2 DEF Request, ThreadPc
<1>4. th' = [th EXCEPT ![t] = x]
  BY <1>1 DEF Unwind
<1>5. th'[t] = x
  BY <1>1, <1>4
<1> HIDE DEF x
<1>6. RequestOK(t)'
  BY <1>3, <1>5 DEF RequestOK, At, Acquires
<1> QED
  BY <1>3, <1>4, <1>6

LEMMA HeldOK ==
    ASSUME ActorsInv, NEW t \in Thread
    PROVE  \A k \in Key : held[t][k] # None <=> \E i \in 1..th[t].got : Wants[t][i] = k
BY DEF ActorsInv, RequestOK

\* The acquisition of a thread failed, or was refused.
LEMMA Leaves ==
    ASSUME ActorsInv, NEW t \in Thread, Target(t) \in Key, Unwind(t, th[t].got, "releasing"),
           Counted(t) \/ UNCHANGED acquiring,
           UNCHANGED held, UNCHANGED Around, DevicesKept, LinesKept(t), ConnsFit, OwnersKept(t),
           \A k \in Key, s \in Slot : actors'[k][s].owner = t => held[t][k] = s
    PROVE  ActorsInv'
<1>1. th[t].got \in Nat /\ th[t].got <= Len(Wants[t])
  BY Places
<1>2. PICK x \in Request : /\ th' = [th EXCEPT ![t] = x]
                           /\ x.pc \in {"idle", "releasing", "faulting"} /\ RequestOK(t)'
  BY <1>1, HeldOK, RequestUnwinds
<1>3. HandlesOf(t)
  BY DEF ActorsInv, ActorsTypes, HandlesOf
<1>4. CountsOf(t)
  BY CountedFacts
<1>5. \A u \in Thread : LineOK(u)'
  BY <1>2, LinesStay
<1>6. NoGhostOwner'
  <2>1. OwnsKnown(t, x)
    BY DEF OwnsKnown
  <2> QED
    BY <1>2, <1>3, <2>1, GhostStays
<1>7. BackendOK'
  BY <1>2, BackendStays
<1> QED
  BY <1>2, <1>3, <1>4, <1>5, <1>6, <1>7, ThreadStep

\* The owner of an actor that no acquisition names has its handle.
LEMMA OwnerHolds ==
    ASSUME ActorsInv, NEW t \in Thread, NEW k \in Key, NEW s \in Slot,
           actors[k][s].owner = t,
           th[t].pc \notin {"connected", "discarding"}
             \/ Target(t) # k \/ th[t].slot # s
    PROVE  held[t][k] = s
BY DEF ActorsInv, NoGhostOwner

\* An acquisition goes on: its actor may be written, its line may be taken.
LEMMA Moves ==
    ASSUME ActorsInv, NEW t \in Thread, th[t].pc \in Acquires, NEW pc \in Acquires,
           Goto(t, pc), UNCHANGED <<held, acquiring>>, UNCHANGED Around,
           pc \in {"gated", "connecting"} => th[t].pc \in {"gated", "connecting"},
           DevicesKept, LinesKept(t), ConnsFit, OwnersKept(t),
           pc = "connecting" =>
               /\ actors'[Target(t)][th[t].slot] = NewActor
               /\ \A u \in Thread : ~(At(u, "connecting") /\ Target(u) = Target(t)),
           \A k \in Key, s \in Slot : actors'[k][s].owner = t =>
               \/ held[t][k] = s
               \/ pc \in {"connected", "discarding"} /\ Target(t) = k /\ th[t].slot = s
    PROVE  ActorsInv'
<1>1. th[t] \in Request /\ th \in [Thread -> Request] /\ HandlesOf(t)
  BY DEF ActorsInv, ActorsTypes, HandlesOf
<1>2. UNCHANGED registered
  BY DEF Around
<1>3. th' = [th EXCEPT ![t] = [th[t] EXCEPT !.pc = pc]]
  BY <1>1 DEF Goto
<1>4. PICK x \in Request :
          /\ th' = [th EXCEPT ![t] = x] /\ x.pc = pc /\ x.slot = th[t].slot
          /\ x.backend = th[t].backend /\ RequestOK(t)' /\ Target(t)' = Target(t)
  <2> DEFINE y == [th[t] EXCEPT !.pc = pc]
  <2>1. /\ y \in Request /\ y.pc = pc /\ y.slot = th[t].slot /\ y.backend = th[t].backend
        /\ RequestOK(t)' /\ Target(t)' = Target(t) /\ th' = [th EXCEPT ![t] = y]
    BY <1>2, <1>3, RequestMoves
  <2> HIDE DEF y
  <2> QED
    BY <2>1
<1>5. NoGhostOwner'
  <2>1. OwnsKnown(t, x)
    BY <1>4 DEF OwnsKnown
  <2> QED
    BY <1>1, <1>4, <2>1, GhostStays
<1>6. BackendOK'
  BY <1>4, BackendStays
<1>7. \A u \in Thread : LineOK(u)'
  <2>1. CASE x.pc # "connecting"
    BY <1>4, <2>1, LinesStay
  <2>2. CASE x.pc = "connecting"
    <3>1. th'[t] = x /\ \A u \in Thread \ {t} : th'[u] = th[u] /\ Target(u)' = Target(u)
      BY <1>1, <1>4 DEF Target
    <3>2. /\ actors'[Target(t)][th[t].slot] = NewActor
          /\ \A u \in Thread : ~(At(u, "connecting") /\ Target(u) = Target(t))
      BY <1>4, <2>2
    <3>3. LineOK(t)'
      <4>1. Mine(t)' = NewActor
        BY <1>4, <3>1, <3>2 DEF Mine
      <4>2. \A u \in Thread : (At(u, "connecting") /\ Target(u) = Target(t))' => u = t
        BY <1>4, <3>1, <3>2 DEF At
      <4> QED
        BY <4>1, <4>2 DEF LineOK, NewActor
    <3>4. ASSUME NEW u \in Thread \ {t}
          PROVE  LineOK(u)'
      <4>1. SUFFICES ASSUME At(u, "connecting")
                     PROVE  LineOK(u)'
        BY <3>1 DEF LineOK, At
      <4>2. LineOK(u)
        BY DEF ActorsInv
      <4>3. Mine(u)' = Mine(u)
        BY <3>1, <4>1 DEF Mine, LinesKept
      <4>4. Target(u) # Target(t)
        BY <3>2, <4>1
      <4> QED
        BY <1>4, <3>1, <4>1, <4>2, <4>3, <4>4 DEF LineOK, At
    <3> QED
      BY <3>3, <3>4
  <2> QED
    BY <2>1, <2>2
<1>8. CountsOf(t)
  BY DEF ActorsInv, ActorsTypes, CountsOf
<1> QED
  BY <1>1, <1>4, <1>5, <1>6, <1>7, <1>8, ThreadStep

LEMMA SameActors ==
    ASSUME ActorsInv, UNCHANGED <<registered, actors, stuck>>
    PROVE  DevicesKept /\ ConnsFit /\ \A t : LinesKept(t) /\ OwnersKept(t)
<1>1. actors \in [Key -> [Slot -> Actor]] /\ stuck \subseteq Key
  BY DEF ActorsInv, ActorsTypes
<1> QED
  BY <1>1, DeviceSame DEF DevicesKept, ConnsFit, LinesKept, OwnersKept

\* The step of a thread, or of nobody, writes one actor.
LEMMA OneActor ==
    ASSUME ActorsInv, NEW k \in Key, NEW s \in Slot, NEW a \in Actor, Rewritten(k, s, a),
           NEW t, a.owner \in {None, t, actors[k][s].owner},
           a.conn \in {None, actors[k][s].conn} \/ (accepting => Fits(a.conn)),
           \A u \in Thread \ {t} : ~(At(u, "connecting") /\ Target(u) = k /\ th[u].slot = s),
           stuck' \subseteq Key, \A j \in Key : DeviceOK(j)'
    PROVE  DevicesKept /\ ConnsFit /\ LinesKept(t) /\ OwnersKept(t)
<1>1. DevicesKept
  BY DEF DevicesKept, Rewritten
<1>2. ConnsFit
  BY DEF ConnsFit, Rewritten
<1>3. LinesKept(t)
  <2>1. SUFFICES ASSUME NEW u \in Thread \ {t}, At(u, "connecting")
                 PROVE  actors'[Target(u)][th[u].slot] = actors[Target(u)][th[u].slot]
    BY DEF LinesKept
  <2>2. Target(u) \in Key /\ th[u].slot \in Slot
    BY <2>1, Acquired DEF At, Acquires
  <2> QED
    BY <2>1, <2>2 DEF Rewritten
<1>4. OwnersKept(t)
  BY Nones DEF OwnersKept, Rewritten
<1> QED
  BY <1>1, <1>2, <1>3, <1>4

\* A thread on the actor it acquires, unless that is locked.
LEMMA OnMine ==
    ASSUME ActorsInv, NEW t \in Thread, th[t].pc \in Acquires,
           At(t, "connecting") \/ ~MineLocked(t)
    PROVE  \A u \in Thread \ {t} : ~(At(u, "connecting") /\ Target(u) = Target(t))
<1>1. SUFFICES ASSUME NEW u \in Thread \ {t}, At(u, "connecting"), Target(u) = Target(t)
               PROVE  FALSE
  OBVIOUS
<1>2. th[u].slot = th[t].slot
  BY <1>1, Acquired DEF At, Acquires
<1>3. CASE At(t, "connecting")
  BY <1>1, <1>3 DEF ActorsInv, LineOK
<1>4. CASE ~MineLocked(t)
  BY <1>1, <1>2, <1>4 DEF MineLocked, Locked
<1> QED
  BY <1>3, <1>4

\* A disconnect, confirmed or not, by a thread or by nobody.
LEMMA Detached ==
    ASSUME ActorsInv, NEW k \in Key, NEW s \in Slot, NEW a \in Actor,
           actors' = [actors EXCEPT ![k][s] = a], a.owner = None, a.conn = None,
           \/ stuck' = stuck
           \/ stuck' = stuck \cup {k} /\ a.down /\ actors[k][s].conn # None,
           UNCHANGED registered,
           registered[k] = s /\ k \in stuck => a.down, NEW t,
           \A u \in Thread \ {t} : ~(At(u, "connecting") /\ Target(u) = k /\ th[u].slot = s)
    PROVE  DevicesKept /\ ConnsFit /\ LinesKept(t) /\ OwnersKept(t) /\ Rewritten(k, s, a)
<1>1. Rewritten(k, s, a)
  BY RewrittenFacts
<1>2. DeviceOK(k) /\ stuck \subseteq Key
  BY DEF ActorsInv, ActorsTypes
<1>3. \A j \in Key : DeviceOK(j)'
  <2>1. k \in stuck /\ registered[k] = s => a.down /\ a.conn = None
    OBVIOUS
  <2>2. \/ stuck' = stuck
        \/ stuck' = stuck \cup {k} /\ registered[k] = s /\ a.down /\ a.conn = None
    BY <1>2 DEF DeviceOK
  <2>3. registered[k] # s => a.owner = None /\ a.conn = None
    OBVIOUS
  <2> QED
    BY <1>1, <2>1, <2>2, <2>3, DeviceStays
<1>4. stuck' \subseteq Key
  BY <1>2
<1>5. a.owner \in {None, t, actors[k][s].owner}
      /\ (a.conn \in {None, actors[k][s].conn} \/ (accepting => Fits(a.conn)))
  OBVIOUS
<1>6. DevicesKept /\ ConnsFit /\ LinesKept(t) /\ OwnersKept(t)
  BY <1>1, <1>3, <1>4, <1>5, OneActor
<1> QED
  BY <1>1, <1>6

LEMMA SeverFacts ==
    ASSUME NEW k, NEW s, NEW down, down \in BOOLEAN, Sever(k, s, down)
    PROVE  \E a \in Actor :
              /\ actors' = [actors EXCEPT ![k][s] = a]
              /\ a.owner = None /\ a.conn = None /\ (down => a.down)
              /\ \/ stuck' = stuck
                 \/ stuck' = stuck \cup {k} /\ a.down /\ actors[k][s].conn # None
<1>1. PICK ok \in BOOLEAN : (ok \/ actors[k][s].conn # None) /\ Detach(k, s, down, ok)
  BY DEF Sever
<1> DEFINE a == [down |-> down \/ ~ok, owner |-> None, conn |-> None]
<1>2. a \in Actor /\ a.owner = None /\ a.conn = None /\ (a.down <=> down \/ ~ok)
  BY DEF Actor
<1>3. actors' = [actors EXCEPT ![k][s] = a] /\ stuck' = IF ok THEN stuck ELSE stuck \cup {k}
  BY <1>1 DEF Detach
<1> HIDE DEF a
<1> QED
  BY <1>1, <1>2, <1>3

-----------------------------------------------------------------------------
(* The steps of a thread. *)

LEMMA AskStep ==
    ASSUME ActorsInv, NEW t \in Thread, Ask(t)
    PROVE  ActorsInv'
<1>1. At(t, "idle") /\ UNCHANGED <<registry, actors, stuck, backend, stopped, held, lifecycle>>
  BY DEF Ask
<1>2. UNCHANGED Around /\ UNCHANGED <<registered, actors, stuck, acquiring, held>>
  BY <1>1 DEF Around, registry
<1>3. /\ th \in [Thread -> Request] /\ backend \in Backend /\ RequestOK(t) /\ HandlesOf(t)
      /\ CountsOf(t)
  BY <1>2 DEF ActorsInv, ActorsTypes, HandlesOf, CountsOf
<1>4. PICK x \in Request : /\ th' = [th EXCEPT ![t] = x] /\ x.pc = "asked" /\ x.got = 0
                           /\ x.backend \in Backend
  <2> DEFINE y == [Idle EXCEPT !.pc = "asked", !.backend = backend]
  <2>1. y \in Request /\ y.pc = "asked" /\ y.got = 0 /\ y.backend \in Backend
    BY <1>3 DEF Idle, Request, ThreadPc
  <2>2. th' = [th EXCEPT ![t] = y]
    BY DEF Ask
  <2> HIDE DEF y
  <2> QED
    BY <2>1, <2>2
<1>5. th'[t] = x
  BY <1>3, <1>4
<1>6. RequestOK(t)'
  BY <1>1, <1>2, <1>3, <1>4, <1>5, WantsFacts DEF RequestOK, At, Acquires
<1>7. DevicesKept /\ ConnsFit /\ LinesKept(t) /\ OwnersKept(t)
  BY <1>2, SameActors
<1>8. \A u \in Thread : LineOK(u)'
  BY <1>4, <1>7, LinesStay
<1>9. OwnsKnown(t, x)
  BY <1>1, <1>2, OwnerHolds DEF OwnsKnown, At
<1>10. NoGhostOwner'
  BY <1>3, <1>4, <1>7, <1>9, GhostStays
<1>11. BackendOK'
  BY <1>2, <1>4, <1>7, BackendStays
<1> QED
  BY <1>2, <1>3, <1>4, <1>6, <1>7, <1>8, <1>10, <1>11, ThreadStep

LEMMA RefusedStep ==
    ASSUME ActorsInv, NEW t \in Thread, Refused(t)
    PROVE  ActorsInv'
<1>1. At(t, "asked") /\ Unwind(t, th[t].got, "releasing")
      /\ UNCHANGED <<registry, actors, stuck, backend, stopped, held, lifecycle>>
  BY DEF Refused
<1>2. UNCHANGED Around /\ UNCHANGED <<registered, actors, stuck>> /\ UNCHANGED acquiring
      /\ UNCHANGED held
  BY <1>1 DEF Around, registry
<1>3. DevicesKept /\ ConnsFit /\ LinesKept(t) /\ OwnersKept(t)
  BY <1>2, SameActors
<1>4. Target(t) \in Key
  BY <1>1, Places DEF ActorsInv, RequestOK, At
<1>5. \A k \in Key, s \in Slot : actors'[k][s].owner = t => held[t][k] = s
  BY <1>1, <1>2, OwnerHolds DEF At
<1> QED
  BY <1>1, <1>2, <1>3, <1>4, <1>5, Leaves

\* The errors of an acquisition that leave the actors alone.
LEMMA FailedStep ==
    ASSUME ActorsInv, NEW t \in Thread, th[t].pc \in Acquires \ {"connected", "discarding"},
           Failed(t), UNCHANGED <<Around, actors, stuck, held>>
    PROVE  ActorsInv'
<1>1. UNCHANGED Around /\ UNCHANGED <<registered, actors, stuck>> /\ UNCHANGED held
  BY DEF Around
<1>2. DevicesKept /\ ConnsFit /\ LinesKept(t) /\ OwnersKept(t)
  BY <1>1, SameActors
<1>3. Target(t) \in Key
  BY Acquired
<1>4. \A k \in Key, s \in Slot : actors'[k][s].owner = t => held[t][k] = s
  BY <1>1, OwnerHolds
<1> QED
  BY <1>1, <1>2, <1>3, <1>4, Leaves DEF Failed

LEMMA ConflictStep ==
    ASSUME ActorsInv, NEW t \in Thread, Conflict(t) \/ Finish(t)
    PROVE  ActorsInv'
BY FailedStep DEF Conflict, Finish, Around, lifecycle, At, Acquires

\* A thread that finds its actor usable becomes its owner.
LEMMA Claims ==
    ASSUME ActorsInv, NEW t \in Thread, th[t].pc \in {"gated", "connecting"},
           At(t, "connecting") \/ ~MineLocked(t), ~Mine(t).down,
           NEW a \in Actor, a.owner = t, ~a.down,
           a.conn = Mine(t).conn \/ a.conn = th[t].backend,
           actors' = [actors EXCEPT ![Target(t)][th[t].slot] = a],
           Goto(t, "connected"), UNCHANGED <<Around, stuck, held, acquiring>>
    PROVE  ActorsInv'
<1> DEFINE k == Target(t)
           s == th[t].slot
<1>1. th[t].pc \in Acquires
  BY DEF Acquires
<1>2. UNCHANGED Around /\ UNCHANGED <<held, acquiring>> /\ UNCHANGED registered
      /\ UNCHANGED stuck
  BY DEF Around
<1>3. k \in Key /\ s \in Slot /\ registered[k] = s /\ Mine(t) = actors[k][s]
  BY <1>1, Acquired DEF Mine
<1>4. stuck \subseteq Key /\ DeviceOK(k) /\ k \notin stuck
  BY <1>3 DEF ActorsInv, ActorsTypes, DeviceOK
<1>5. accepting => Fits(th[t].backend)
  BY DEF ActorsInv, BackendOK
<1>6. Rewritten(k, s, a)
  BY <1>3, RewrittenFacts
<1>7. \A u \in Thread \ {t} : ~(At(u, "connecting") /\ Target(u) = k /\ th[u].slot = s)
  BY <1>1, OnMine
<1>8. \A j \in Key : DeviceOK(j)'
  <2>1. registered[k] # s => a.owner = None /\ a.conn = None
    BY <1>3
  <2>2. k \in stuck /\ registered[k] = s => a.down /\ a.conn = None
    BY <1>4
  <2>3. \/ stuck' = stuck
        \/ stuck' = stuck \cup {k} /\ registered[k] = s /\ a.down /\ a.conn = None
    BY <1>2
  <2> QED
    BY <1>2, <1>3, <1>6, <2>1, <2>2, <2>3, DeviceStays
<1>9. stuck' \subseteq Key
  BY <1>2, <1>4
<1>10. a.owner \in {None, t, actors[k][s].owner}
       /\ (a.conn \in {None, actors[k][s].conn} \/ (accepting => Fits(a.conn)))
  BY <1>3, <1>5
<1>11. DevicesKept /\ ConnsFit /\ LinesKept(t) /\ OwnersKept(t)
  BY <1>3, <1>6, <1>7, <1>8, <1>9, <1>10, OneActor
<1>12. \A j \in Key, u \in Slot : actors'[j][u].owner = t =>
           \/ held[t][j] = u
           \/ "connected" \in {"connected", "discarding"} /\ k = j /\ s = u
  BY <1>6, OwnerHolds DEF Rewritten
<1> QED
  BY <1>1, <1>2, <1>11, <1>12, Moves DEF Acquires

LEMMA ReuseStep ==
    ASSUME ActorsInv, NEW t \in Thread, Reuse(t)
    PROVE  ActorsInv'
<1>1. /\ th[t].pc = "gated" /\ ~MineLocked(t) /\ ~Mine(t).down /\ Goto(t, "connected")
      /\ actors' = [actors EXCEPT ![Target(t)][th[t].slot].owner = t]
      /\ UNCHANGED <<registry, stuck, backend, stopped, held, lifecycle>>
  BY DEF Reuse, Usable, At
<1>2. UNCHANGED <<Around, stuck, held, acquiring>>
  BY <1>1 DEF Around, registry
<1>3. PICK a \in Actor : /\ actors' = [actors EXCEPT ![Target(t)][th[t].slot] = a]
                         /\ a.owner = t /\ a.down = Mine(t).down /\ a.conn = Mine(t).conn
  <2> DEFINE y == [Mine(t) EXCEPT !.owner = t]
  <2>1. Target(t) \in Key /\ th[t].slot \in Slot /\ Mine(t) \in Actor
    BY <1>1, Acquired DEF Acquires
  <2>2. y \in Actor /\ y.owner = t /\ y.down = Mine(t).down /\ y.conn = Mine(t).conn
    BY <2>1 DEF Actor
  <2>3. actors' = [actors EXCEPT ![Target(t)][th[t].slot] = y]
    BY <1>1, <2>1 DEF Mine
  <2> HIDE DEF y
  <2> QED
    BY <2>2, <2>3
<1> QED
  BY <1>1, <1>2, <1>3, Claims

LEMMA ConnectStep ==
    ASSUME ActorsInv, NEW t \in Thread, Connect(t)
    PROVE  ActorsInv'
<1>1. At(t, "connecting") /\ th[t].pc = "connecting" /\ th[t].pc \in Acquires
  BY DEF Connect, At, Acquires
<1>2. UNCHANGED Around /\ UNCHANGED <<Around, stuck, held>>
  BY DEF Connect, Around, lifecycle
<1>3. CASE Failed(t) /\ UNCHANGED actors
  BY <1>1, <1>2, <1>3, FailedStep DEF Acquires
<1>4. CASE /\ actors' = [actors EXCEPT ![Target(t)][th[t].slot] =
                             [@ EXCEPT !.owner = t, !.conn = th[t].backend]]
           /\ Goto(t, "connected") /\ UNCHANGED acquiring
  <2>1. Target(t) \in Key /\ th[t].slot \in Slot /\ Mine(t) \in Actor /\ th[t].backend \in Backend
    BY <1>1, Acquired
  <2>2. ~Mine(t).down
    BY <1>1 DEF ActorsInv, LineOK
  <2>3. PICK a \in Actor : /\ actors' = [actors EXCEPT ![Target(t)][th[t].slot] = a]
                           /\ a.owner = t /\ a.down = Mine(t).down /\ a.conn = th[t].backend
    <3> DEFINE y == [Mine(t) EXCEPT !.owner = t, !.conn = th[t].backend]
    <3>1. y \in Actor /\ y.owner = t /\ y.down = Mine(t).down /\ y.conn = th[t].backend
      BY <2>1 DEF Actor
    <3>2. actors' = [actors EXCEPT ![Target(t)][th[t].slot] = y]
      BY <1>4, <2>1 DEF Mine
    <3> HIDE DEF y
    <3> QED
      BY <3>1, <3>2
  <2>4. UNCHANGED <<Around, stuck, held, acquiring>>
    BY <1>2, <1>4
  <2> QED
    BY <1>1, <1>4, <2>2, <2>3, <2>4, Claims
<1> QED
  BY <1>3, <1>4 DEF Connect

LEMMA DialStep ==
    ASSUME ActorsInv, NEW t \in Thread, Dial(t)
    PROVE  ActorsInv'
<1>1. /\ th[t].pc = "gated" /\ th[t].pc \in Acquires /\ ~MineLocked(t) /\ Goto(t, "connecting")
      /\ ~Mine(t).down /\ Mine(t).owner = None /\ Mine(t).conn = None
      /\ UNCHANGED <<registry, actors, stuck, backend, stopped, held, lifecycle>>
  BY DEF Dial, Usable, At, Acquires
<1>2. UNCHANGED Around /\ UNCHANGED <<held, acquiring>> /\ UNCHANGED <<registered, actors, stuck>>
  BY <1>1 DEF Around, registry
<1>3. DevicesKept /\ ConnsFit /\ LinesKept(t) /\ OwnersKept(t)
  BY <1>2, SameActors
<1>4. Mine(t) = NewActor
  BY <1>1, Acquired DEF Actor, NewActor
<1>5. \A u \in Thread : ~(At(u, "connecting") /\ Target(u) = Target(t))
  BY <1>1, OnMine DEF At
<1>6. actors'[Target(t)][th[t].slot] = NewActor
  BY <1>2, <1>4 DEF Mine
<1>7. \A k \in Key, s \in Slot : actors'[k][s].owner = t => held[t][k] = s
  BY <1>1, <1>2, OwnerHolds
<1> QED
  BY <1>1, <1>2, <1>3, <1>5, <1>6, <1>7, Moves DEF Acquires

LEMMA DropIdleStep ==
    ASSUME ActorsInv, NEW t \in Thread, DropIdle(t)
    PROVE  ActorsInv'
<1> DEFINE k == Target(t)
           s == th[t].slot
<1>1. /\ th[t].pc = "gated" /\ th[t].pc \in Acquires /\ ~MineLocked(t)
      /\ ~Mine(t).down /\ Mine(t).owner = None /\ Mine(t).conn # None
  BY DEF DropIdle, Usable, At, Acquires
<1>2. UNCHANGED Around /\ UNCHANGED held /\ UNCHANGED registered
  BY DEF DropIdle, Around, lifecycle
<1>3. PICK ok \in BOOLEAN, a \in Actor :
          /\ actors' = [actors EXCEPT ![k][s] = a] /\ a.owner = None /\ a.conn = None
          /\ a.down = ~ok /\ stuck' = IF ok THEN stuck ELSE stuck \cup {k}
          /\ IF ok THEN Goto(t, "connecting") /\ UNCHANGED acquiring ELSE Failed(t)
  <2>1. PICK ok \in BOOLEAN :
            /\ Detach(k, s, FALSE, ok)
            /\ IF ok THEN Goto(t, "connecting") /\ UNCHANGED acquiring ELSE Failed(t)
    BY DEF DropIdle
  <2> DEFINE y == [down |-> FALSE \/ ~ok, owner |-> None, conn |-> None]
  <2>2. y \in Actor /\ y.owner = None /\ y.conn = None /\ y.down = ~ok
    BY DEF Actor
  <2>3. actors' = [actors EXCEPT ![k][s] = y] /\ stuck' = IF ok THEN stuck ELSE stuck \cup {k}
    BY <2>1 DEF Detach
  <2> HIDE DEF y
  <2> QED
    BY <2>1, <2>2, <2>3
<1>4. k \in Key /\ s \in Slot /\ registered[k] = s /\ Mine(t) = actors[k][s]
  BY <1>1, Acquired DEF Mine
<1>5. k \notin stuck
  BY <1>1, <1>4 DEF ActorsInv, DeviceOK
<1>6. \A u \in Thread \ {t} : ~(At(u, "connecting") /\ Target(u) = k)
  BY <1>1, OnMine
<1>7. DevicesKept /\ ConnsFit /\ LinesKept(t) /\ OwnersKept(t) /\ Rewritten(k, s, a)
  <2>1. registered[k] = s /\ k \in stuck => a.down
    BY <1>5
  <2>2. \A u \in Thread \ {t} : ~(At(u, "connecting") /\ Target(u) = k /\ th[u].slot = s)
    BY <1>6
  <2>3. \/ stuck' = stuck
        \/ stuck' = stuck \cup {k} /\ a.down /\ actors[k][s].conn # None
    BY <1>1, <1>3, <1>4
  <2> QED
    BY <1>2, <1>3, <1>4, <2>1, <2>2, <2>3, Detached
<1>8. \A j \in Key, u \in Slot : actors'[j][u].owner = t => held[t][j] = u
  <2>1. actors'[k][s].owner = None
    BY <1>3, <1>7 DEF Rewritten
  <2> QED
    BY <1>1, <1>7, <2>1, Nones, OwnerHolds DEF Rewritten
<1>9. CASE ok
  <2>1. actors'[k][s] = NewActor
    BY <1>3, <1>7, <1>9 DEF Rewritten, NewActor, Actor
  <2>2. \A u \in Thread : ~(At(u, "connecting") /\ Target(u) = Target(t))
    BY <1>1, <1>6 DEF At
  <2>3. UNCHANGED <<held, acquiring>> /\ Goto(t, "connecting")
    BY <1>2, <1>3, <1>9
  <2> QED
    BY <1>1, <1>2, <1>7, <1>8, <2>1, <2>2, <2>3, Moves DEF Acquires
<1>10. CASE ~ok
  BY <1>2, <1>3, <1>4, <1>7, <1>8, <1>10, Leaves DEF Failed
<1> QED
  BY <1>9, <1>10

LEMMA TurnAwayStep ==
    ASSUME ActorsInv, NEW t \in Thread, TurnAway(t)
    PROVE  ActorsInv'
<1>1. /\ th[t].pc = "connected" /\ th[t].pc \in Acquires /\ Goto(t, "discarding")
      /\ UNCHANGED <<registry, actors, stuck, backend, stopped, held, lifecycle>>
  BY DEF TurnAway, At, Acquires
<1>2. UNCHANGED Around /\ UNCHANGED <<held, acquiring>> /\ UNCHANGED <<registered, actors, stuck>>
  BY <1>1 DEF Around, registry
<1>3. DevicesKept /\ ConnsFit /\ LinesKept(t) /\ OwnersKept(t)
  BY <1>2, SameActors
<1>4. \A k \in Key, s \in Slot : actors'[k][s].owner = t =>
          \/ held[t][k] = s
          \/ "discarding" \in {"connected", "discarding"} /\ Target(t) = k /\ th[t].slot = s
  BY <1>2, OwnerHolds
<1> QED
  BY <1>1, <1>2, <1>3, <1>4, Moves DEF Acquires

LEMMA DiscardStep ==
    ASSUME ActorsInv, NEW t \in Thread, Discard(t)
    PROVE  ActorsInv'
<1> DEFINE k == Target(t)
           s == th[t].slot
<1>1. /\ th[t].pc = "discarding" /\ th[t].pc \in Acquires /\ Goto(t, "failing")
      /\ UNCHANGED <<registry, backend, stopped, held, lifecycle>>
  BY DEF Discard, At, Acquires
<1>2. UNCHANGED Around /\ UNCHANGED <<held, acquiring>> /\ UNCHANGED registered
  BY <1>1 DEF Around, registry
<1>3. k \in Key /\ s \in Slot /\ registered[k] = s /\ Mine(t) = actors[k][s] /\ Mine(t) \in Actor
  BY <1>1, Acquired DEF Mine
<1>4. /\ DevicesKept /\ ConnsFit /\ LinesKept(t) /\ OwnersKept(t)
      /\ \A j \in Key, u \in Slot : actors'[j][u].owner = t => held[t][j] = u
  <2>1. CASE Mine(t).owner = t
    <3>1. Sever(k, s, Mine(t).down) /\ Mine(t).down \in BOOLEAN
      BY <1>3, <2>1 DEF Discard, Actor
    <3>2. PICK a \in Actor :
              /\ actors' = [actors EXCEPT ![k][s] = a]
              /\ a.owner = None /\ a.conn = None /\ (Mine(t).down => a.down)
              /\ \/ stuck' = stuck
                 \/ stuck' = stuck \cup {k} /\ a.down /\ actors[k][s].conn # None
      BY <3>1, SeverFacts
    <3>3. registered[k] = s /\ k \in stuck => a.down
      BY <1>3, <3>2 DEF ActorsInv, DeviceOK
    <3>4. \A u \in Thread \ {t} : ~(At(u, "connecting") /\ Target(u) = k /\ th[u].slot = s)
      BY <1>3, <2>1, Nones DEF ActorsInv, LineOK, Mine
    <3>5. DevicesKept /\ ConnsFit /\ LinesKept(t) /\ OwnersKept(t) /\ Rewritten(k, s, a)
      BY <1>2, <1>3, <3>2, <3>3, <3>4, Detached
    <3>6. actors'[k][s].owner = None
      BY <3>2, <3>5 DEF Rewritten
    <3> QED
      BY <3>5, <3>6, Nones, OwnerHolds DEF Rewritten
  <2>2. CASE Mine(t).owner # t
    <3>1. UNCHANGED <<actors, stuck>>
      BY <2>2 DEF Discard
    <3>2. DevicesKept /\ ConnsFit /\ LinesKept(t) /\ OwnersKept(t)
      BY <1>2, <3>1, SameActors
    <3> QED
      BY <1>3, <2>2, <3>1, <3>2, OwnerHolds
  <2> QED
    BY <2>1, <2>2
<1> QED
  BY <1>1, <1>2, <1>4, Moves DEF Acquires

LEMMA EndOwnershipStep ==
    ASSUME ActorsInv, NEW t \in Thread, EndOwnership(t)
    PROVE  ActorsInv'
<1>1. /\ At(t, "owner") /\ UNCHANGED <<registry, actors, stuck, backend, stopped, held, lifecycle>>
  BY DEF EndOwnership
<1>2. UNCHANGED Around /\ UNCHANGED <<registered, actors, stuck, acquiring, held>>
  BY <1>1 DEF Around, registry
<1>3. /\ th \in [Thread -> Request] /\ th[t] \in Request /\ RequestOK(t) /\ HandlesOf(t)
      /\ CountsOf(t)
  BY <1>2 DEF ActorsInv, ActorsTypes, HandlesOf, CountsOf
<1>4. PICK x \in Request : /\ th' = [th EXCEPT ![t] = x] /\ x.pc \in {"releasing", "faulting"}
                           /\ x.got = th[t].got
  <2>1. PICK pc \in {"releasing", "faulting"} : Goto(t, pc)
    BY DEF EndOwnership
  <2> DEFINE y == [th[t] EXCEPT !.pc = pc]
  <2>2. y \in Request /\ y.pc = pc /\ y.got = th[t].got
    BY <1>3 DEF Request, ThreadPc
  <2>3. th' = [th EXCEPT ![t] = y]
    BY <1>3, <2>1 DEF Goto
  <2> HIDE DEF y
  <2> QED
    BY <2>2, <2>3
<1>5. th'[t] = x
  BY <1>3, <1>4
<1>6. RequestOK(t)'
  BY <1>1, <1>2, <1>3, <1>4, <1>5 DEF RequestOK, At, Acquires
<1>7. DevicesKept /\ ConnsFit /\ LinesKept(t) /\ OwnersKept(t)
  BY <1>2, SameActors
<1>8. \A u \in Thread : LineOK(u)'
  BY <1>4, <1>7, LinesStay
<1>9. OwnsKnown(t, x)
  BY <1>1, <1>2, OwnerHolds DEF OwnsKnown, At
<1>10. NoGhostOwner'
  BY <1>3, <1>4, <1>7, <1>9, GhostStays
<1>11. BackendOK'
  BY <1>2, <1>4, <1>7, BackendStays
<1> QED
  BY <1>2, <1>3, <1>4, <1>6, <1>7, <1>8, <1>10, <1>11, ThreadStep

\* A handle is given back, after its actor was written if it was still valid.
LEMMA GivesBack ==
    ASSUME ActorsInv, NEW t \in Thread, th[t].pc \in {"releasing", "faulting"}, GoesBack(t),
           UNCHANGED <<Around, acquiring>>, DevicesKept, LinesKept(t), ConnsFit, OwnersKept(t),
           \A k \in Key, s \in Slot : actors'[k][s].owner = t =>
               actors[k][s].owner = t /\ ~(k = Last(t) /\ s = held[t][k])
    PROVE  ActorsInv'
<1> DEFINE k == Last(t)
           n == th[t].got
<1>1. /\ th[t] \in Request /\ n \in Nat /\ n > 0 /\ n <= Len(Wants[t]) /\ k \in Key
      /\ held \in [Thread -> [Key -> Slot \cup {None}]] /\ acquiring \in [Key -> SUBSET Thread]
  BY Places DEF ActorsInv, ActorsTypes, RequestOK
<1>2. held' = [held EXCEPT ![t][k] = None] /\ Unwind(t, n - 1, th[t].pc)
  BY DEF GoesBack
<1>3. UNCHANGED Around /\ UNCHANGED <<registered, acquiring>>
  BY DEF Around
<1>4. HandlesOf(t) /\ held'[t] = [held[t] EXCEPT ![k] = None]
  BY <1>1, <1>2 DEF HandlesOf
<1>5. \A j \in Key : held'[t][j] # None <=> \E i \in 1..(n - 1) : Wants[t][i] = j
  <2>1. k = Wants[t][n] /\ n \in 1..Len(Wants[t])
    BY <1>1, WantsFacts DEF Last
  <2>2. \A i \in 1..n : i \in 1..Len(Wants[t]) /\ (Wants[t][i] = k => i = n)
    BY <1>1, <2>1, WantsFacts
  <2>3. \A j \in Key : held[t][j] # None <=> \E i \in 1..n : Wants[t][i] = j
    BY HeldOK
  <2>4. held'[t][k] = None /\ \A j \in Key \ {k} : held'[t][j] = held[t][j]
    BY <1>1, <1>4
  <2>5. ~\E i \in 1..(n - 1) : Wants[t][i] = k
    BY <1>1, <2>2
  <2>6. \A j \in Key \ {k} : (\E i \in 1..n : Wants[t][i] = j)
                              <=> (\E i \in 1..(n - 1) : Wants[t][i] = j)
    BY <1>1, <2>1
  <2> QED
    BY <2>3, <2>4, <2>5, <2>6
<1>6. n - 1 \in Nat /\ n - 1 <= Len(Wants[t])
  BY <1>1, WantsFacts
<1>7. PICK x \in Request : /\ th' = [th EXCEPT ![t] = x]
                           /\ x.pc \in {"idle", "releasing", "faulting"} /\ RequestOK(t)'
  <2> HIDE DEF n, k
  <2> QED
    BY <1>2, <1>5, <1>6, RequestUnwinds
<1>8. CountsOf(t)
  BY <1>1, <1>3 DEF CountsOf
<1>9. \A u \in Thread : LineOK(u)'
  BY <1>7, LinesStay
<1>10. OwnsKnown(t, x)
  <2>1. SUFFICES ASSUME NEW j \in Key, NEW s \in Slot, actors'[j][s].owner = t
                 PROVE  held'[t][j] = s
    BY DEF OwnsKnown
  <2>2. actors[j][s].owner = t /\ ~(j = k /\ s = held[t][j])
    BY <2>1
  <2>3. held[t][j] = s
    BY <2>2, OwnerHolds
  <2> QED
    BY <1>1, <1>4, <2>2, <2>3
<1>11. NoGhostOwner'
  BY <1>4, <1>7, <1>10, GhostStays
<1>12. BackendOK'
  BY <1>3, <1>7, BackendStays
<1> QED
  BY <1>3, <1>4, <1>7, <1>8, <1>9, <1>11, <1>12, ThreadStep

\* The handle of an actor it still owns is that of a registered, unlocked one.
LEMMA ValidFacts ==
    ASSUME ActorsInv, NEW t \in Thread, NEW k \in Key, Valid(t, k)
    PROVE  /\ held[t][k] \in Slot /\ actors[k][held[t][k]] \in Actor
           /\ registered[k] = held[t][k]
           /\ \A u \in Thread \ {t} :
                  ~(At(u, "connecting") /\ Target(u) = k /\ th[u].slot = held[t][k])
<1>1. held[t][k] \in Slot /\ actors[k][held[t][k]] \in Actor /\ actors[k][held[t][k]].owner = t
  BY DEF Valid, ActorsInv, ActorsTypes
<1>2. registered[k] = held[t][k]
  BY <1>1, Nones DEF ActorsInv, DeviceOK
<1>3. ASSUME NEW u \in Thread, At(u, "connecting"), Target(u) = k, th[u].slot = held[t][k]
      PROVE  FALSE
  BY <1>1, <1>3, Nones DEF ActorsInv, LineOK, Mine
<1> QED
  BY <1>1, <1>2, <1>3

LEMMA ReleaseStep ==
    ASSUME ActorsInv, NEW t \in Thread, Release(t)
    PROVE  ActorsInv'
<1> DEFINE k == Last(t)
           s == held[t][k]
<1>1. /\ th[t].pc \in {"releasing", "faulting"} /\ GoesBack(t)
      /\ UNCHANGED <<registry, stuck, backend, stopped, lifecycle>>
  BY DEF Release, At
<1>2. UNCHANGED <<Around, acquiring>> /\ UNCHANGED registered /\ UNCHANGED stuck
  BY <1>1 DEF Around, registry
<1>3. k \in Key /\ s \in Slot
  BY <1>1, Places DEF ActorsInv, RequestOK
<1>4. /\ DevicesKept /\ ConnsFit /\ LinesKept(t) /\ OwnersKept(t)
      /\ \A j \in Key, u \in Slot : actors'[j][u].owner = t =>
             actors[j][u].owner = t /\ ~(j = k /\ u = held[t][j])
  <2>1. CASE Valid(t, k)
    <3>1. /\ actors[k][s] \in Actor /\ registered[k] = s /\ actors \in [Key -> [Slot -> Actor]]
          /\ \A u \in Thread \ {t} : ~(At(u, "connecting") /\ Target(u) = k /\ th[u].slot = s)
      BY <1>3, <2>1, ValidFacts DEF ActorsInv, ActorsTypes
    <3>2. PICK a \in Actor : /\ actors' = [actors EXCEPT ![k][s] = a] /\ a.owner = None
                             /\ a.down = actors[k][s].down /\ a.conn = actors[k][s].conn
      <4> DEFINE y == [actors[k][s] EXCEPT !.owner = None]
      <4>1. y \in Actor /\ y.owner = None /\ y.down = actors[k][s].down /\ y.conn = actors[k][s].conn
        BY <3>1 DEF Actor
      <4>2. actors' = [actors EXCEPT ![k][s] = y]
        BY <1>3, <2>1, <3>1 DEF Release
      <4> HIDE DEF y
      <4> QED
        BY <4>1, <4>2
    <3>3. Rewritten(k, s, a)
      BY <1>3, <3>2, RewrittenFacts
    <3>4. \A j \in Key : DeviceOK(j)'
      <4>1. k \in stuck /\ registered[k] = s => a.down /\ a.conn = None
        BY <1>3, <3>2 DEF ActorsInv, DeviceOK
      <4>2. registered[k] # s => a.owner = None /\ a.conn = None
        BY <3>1
      <4>3. \/ stuck' = stuck
            \/ stuck' = stuck \cup {k} /\ registered[k] = s /\ a.down /\ a.conn = None
        BY <1>2
      <4> HIDE DEF k, s
      <4> QED
        BY <1>2, <1>3, <3>3, <4>1, <4>2, <4>3, DeviceStays
    <3>5. stuck' \subseteq Key
      BY <1>2 DEF ActorsInv, ActorsTypes
    <3>6. a.owner \in {None, t, actors[k][s].owner}
          /\ (a.conn \in {None, actors[k][s].conn} \/ (accepting => Fits(a.conn)))
      BY <3>2
    <3>7. DevicesKept /\ ConnsFit /\ LinesKept(t) /\ OwnersKept(t)
      <4>1. \A u \in Thread \ {t} : ~(At(u, "connecting") /\ Target(u) = k /\ th[u].slot = s)
        BY <3>1
      <4> HIDE DEF k, s
      <4> QED
        BY <1>3, <3>3, <3>4, <3>5, <3>6, <4>1, OneActor
    <3>8. actors'[k][s].owner = None
      BY <3>2, <3>3 DEF Rewritten
    <3> QED
      BY <3>3, <3>7, <3>8, Nones DEF Rewritten
  <2>2. CASE ~Valid(t, k)
    <3>1. UNCHANGED actors
      BY <2>2 DEF Release
    <3>2. DevicesKept /\ ConnsFit /\ LinesKept(t) /\ OwnersKept(t)
      BY <1>2, <3>1, SameActors
    <3> QED
      BY <1>3, <2>2, <3>1, <3>2, Nones DEF Valid
  <2> QED
    BY <2>1, <2>2
<1> QED
  BY <1>1, <1>2, <1>4, GivesBack

LEMMA FaultStep ==
    ASSUME ActorsInv, NEW t \in Thread, Fault(t)
    PROVE  ActorsInv'
<1> DEFINE k == Last(t)
           s == held[t][k]
<1>1. /\ th[t].pc \in {"releasing", "faulting"} /\ GoesBack(t)
      /\ UNCHANGED <<registry, backend, stopped, lifecycle>>
  BY DEF Fault, At
<1>2. UNCHANGED <<Around, acquiring>> /\ UNCHANGED registered
  BY <1>1 DEF Around, registry
<1>3. k \in Key /\ s \in Slot
  BY <1>1, Places DEF ActorsInv, RequestOK
<1>4. /\ DevicesKept /\ ConnsFit /\ LinesKept(t) /\ OwnersKept(t)
      /\ \A j \in Key, u \in Slot : actors'[j][u].owner = t =>
             actors[j][u].owner = t /\ ~(j = k /\ u = held[t][j])
  <2>1. CASE Valid(t, k)
    <3>1. /\ actors[k][s] \in Actor /\ registered[k] = s
          /\ \A u \in Thread \ {t} : ~(At(u, "connecting") /\ Target(u) = k /\ th[u].slot = s)
      BY <1>3, <2>1, ValidFacts
    <3>2. Sever(k, s, actors[k][s].down) /\ actors[k][s].down \in BOOLEAN
      BY <2>1, <3>1 DEF Fault, Actor
    <3>3. PICK a \in Actor :
              /\ actors' = [actors EXCEPT ![k][s] = a]
              /\ a.owner = None /\ a.conn = None /\ (actors[k][s].down => a.down)
              /\ \/ stuck' = stuck
                 \/ stuck' = stuck \cup {k} /\ a.down /\ actors[k][s].conn # None
      BY <3>2, SeverFacts
    <3>4. registered[k] = s /\ k \in stuck => a.down
      BY <1>3, <3>3 DEF ActorsInv, DeviceOK
    <3>5. DevicesKept /\ ConnsFit /\ LinesKept(t) /\ OwnersKept(t) /\ Rewritten(k, s, a)
      <4>1. \A u \in Thread \ {t} : ~(At(u, "connecting") /\ Target(u) = k /\ th[u].slot = s)
        BY <3>1
      <4>2. UNCHANGED registered
        BY <1>2
      <4> HIDE DEF k, s
      <4> QED
        BY <1>3, <3>3, <3>4, <4>1, <4>2, Detached
    <3>6. actors'[k][s].owner = None
      BY <3>3, <3>5 DEF Rewritten
    <3> QED
      BY <3>5, <3>6, Nones DEF Rewritten
  <2>2. CASE ~Valid(t, k)
    <3>1. UNCHANGED <<actors, stuck>>
      BY <2>2 DEF Fault
    <3>2. DevicesKept /\ ConnsFit /\ LinesKept(t) /\ OwnersKept(t)
      BY <1>2, <3>1, SameActors
    <3> QED
      BY <1>3, <2>2, <3>1, <3>2, Nones DEF Valid
  <2> QED
    BY <2>1, <2>2
<1> QED
  BY <1>1, <1>2, <1>4, GivesBack

LEMMA PublishStep ==
    ASSUME ActorsInv, NEW t \in Thread, Publish(t)
    PROVE  ActorsInv'
<1> DEFINE k == Target(t)
           n == th[t].got
<1>1. /\ At(t, "connected") /\ th[t].pc \in Acquires /\ Counted(t)
      /\ held' = [held EXCEPT ![t][k] = th[t].slot]
      /\ UNCHANGED Around /\ UNCHANGED <<registered, actors, stuck>>
  BY DEF Publish, At, Acquires, Around, lifecycle
<1>2. /\ th[t] \in Request /\ th \in [Thread -> Request] /\ n \in Nat /\ n < Len(Wants[t])
      /\ k \in Key /\ th[t].slot \in Slot /\ held \in [Thread -> [Key -> Slot \cup {None}]]
      /\ held[t][k] = None /\ th[t].backend \in Backend
  BY <1>1, Acquired, Places DEF ActorsInv, ActorsTypes
<1>3. HandlesOf(t) /\ held'[t] = [held[t] EXCEPT ![k] = th[t].slot]
  BY <1>1, <1>2 DEF HandlesOf
<1>4. \A j \in Key : held'[t][j] # None <=> \E i \in 1..(n + 1) : Wants[t][i] = j
  <2>1. k = Wants[t][n + 1]
    BY DEF Target
  <2>2. \A j \in Key : held[t][j] # None <=> \E i \in 1..n : Wants[t][i] = j
    BY HeldOK
  <2>3. held'[t][k] # None /\ \A j \in Key \ {k} : held'[t][j] = held[t][j]
    BY <1>2, <1>3, Nones
  <2>4. \A j \in Key \ {k} : (\E i \in 1..(n + 1) : Wants[t][i] = j)
                              <=> (\E i \in 1..n : Wants[t][i] = j)
    BY <1>2, <2>1
  <2>5. n + 1 \in 1..(n + 1)
    BY <1>2
  <2> HIDE DEF n
  <2> QED
    BY <2>1, <2>2, <2>3, <2>4, <2>5
<1>5. PICK x \in Request : /\ th' = [th EXCEPT ![t] = x] /\ x.got = n + 1
                           /\ x.pc = IF n + 1 = Len(Wants[t]) THEN "owner" ELSE "asked"
                           /\ x.backend = th[t].backend
  <2> DEFINE pc == IF n + 1 = Len(Wants[t]) THEN "owner" ELSE "asked"
             y == [th[t] EXCEPT !.pc = pc, !.got = n + 1, !.slot = None]
  <2>1. pc \in ThreadPc
    BY DEF ThreadPc
  <2>2. th' = [th EXCEPT ![t] = y]
    BY <1>2 DEF Publish
  <2>3. n + 1 \in Nat
    BY <1>2
  <2> HIDE DEF pc, n
  <2>4. y \in Request /\ y.got = n + 1 /\ y.pc = pc /\ y.backend = th[t].backend
    BY <1>2, <2>1, <2>3 DEF Request
  <2> HIDE DEF y
  <2> QED
    BY <2>2, <2>4 DEF pc
<1>6. th'[t] = x
  BY <1>2, <1>5
<1>7. RequestOK(t)'
  <2>1. n + 1 <= Len(Wants[t]) /\ n + 1 > 0 /\ (n + 1 # Len(Wants[t]) => n + 1 < Len(Wants[t]))
    BY <1>2, WantsFacts
  <2> HIDE DEF n
  <2> QED
    BY <1>2, <1>4, <1>5, <1>6, <2>1 DEF RequestOK, At, Acquires
<1>8. DevicesKept /\ ConnsFit /\ LinesKept(t) /\ OwnersKept(t)
  BY <1>1, SameActors
<1>9. CountsOf(t)
  BY <1>1, <1>2, CountedFacts
<1>10. \A u \in Thread : LineOK(u)'
  BY <1>5, <1>8, LinesStay
<1>11. OwnsKnown(t, x)
  <2>1. SUFFICES ASSUME NEW j \in Key, NEW s \in Slot, actors'[j][s].owner = t
                 PROVE  held'[t][j] = s
    BY DEF OwnsKnown
  <2>2. held[t][j] = s \/ (k = j /\ th[t].slot = s)
    BY <1>1, <2>1, OwnerHolds
  <2> QED
    BY <1>2, <1>3, <2>2, Nones
<1>12. NoGhostOwner'
  BY <1>3, <1>5, <1>8, <1>11, GhostStays
<1>13. BackendOK'
  <2>1. x.pc \notin {"gated", "connecting"}
    BY <1>5
  <2> QED
    BY <1>1, <1>5, <1>8, <2>1, BackendStays
<1> QED
  BY <1>1, <1>3, <1>5, <1>7, <1>8, <1>9, <1>10, <1>12, <1>13, ThreadStep

LEMMA EnterStep ==
    ASSUME ActorsInv, NEW t \in Thread, Enter(t)
    PROVE  ActorsInv'
<1> DEFINE k == Target(t)
<1>1. /\ At(t, "asked") /\ Open(k) /\ active \in {None, th[t].backend}
      /\ acquiring' = [acquiring EXCEPT ![k] = @ \cup {t}]
      /\ UNCHANGED <<accepting, replacing, active, retiring, stuck, backend, stopped, held>>
      /\ UNCHANGED <<rt, rep, sd>>
  BY DEF Enter, Admitted, lifecycle
<1>2. PICK s \in Slot :
          /\ \/ registered[k] = s /\ UNCHANGED <<registered, actors>>
             \/ /\ registered[k] = None
                /\ registered' = [registered EXCEPT ![k] = s]
                /\ actors' = [actors EXCEPT ![k][s] = NewActor]
          /\ th' = [th EXCEPT ![t].pc = "gated", ![t].slot = s]
  BY DEF Enter
<1>3. ActorsTypes /\ \A u \in Thread : RequestOK(u) /\ LineOK(u)
  BY DEF ActorsInv
<1>4. /\ th[t] \in Request /\ th \in [Thread -> Request] /\ th[t].got < Len(Wants[t])
      /\ k \in Key /\ th[t].backend \in Backend
  BY <1>1, <1>3, Places DEF ActorsTypes, RequestOK, At
<1>5. PICK x \in Request : /\ th' = [th EXCEPT ![t] = x] /\ x.pc = "gated" /\ x.slot = s
                           /\ x.got = th[t].got /\ x.backend = th[t].backend
  <2> DEFINE y == [th[t] EXCEPT !.pc = "gated", !.slot = s]
  <2>1. y \in Request /\ y.pc = "gated" /\ y.slot = s /\ y.got = th[t].got /\ y.backend = th[t].backend
    BY <1>4 DEF Request, ThreadPc
  <2>2. th' = [th EXCEPT ![t] = y]
    BY <1>2, <1>4
  <2> HIDE DEF y
  <2> QED
    BY <2>1, <2>2
<1>6. /\ th'[t] = x /\ Target(t)' = k
      /\ \A u \in Thread \ {t} : th'[u] = th[u] /\ Target(u)' = Target(u)
  BY <1>4, <1>5 DEF Target
<1>7. /\ registered \in [Key -> Slot \cup {None}] /\ acquiring \in [Key -> SUBSET Thread]
      /\ actors \in [Key -> [Slot -> Actor]] /\ NewActor \in Actor
  BY <1>3 DEF ActorsTypes, NewActor, Actor
<1> HIDE DEF k
\* The registered actor is s now; if it is a new one, k had none.
<1>8. /\ registered' \in [Key -> Slot \cup {None}] /\ registered'[k] = s
      /\ \A j \in Key \ {k} : registered'[j] = registered[j]
      /\ actors' \in [Key -> [Slot -> Actor]]
      /\ \A j \in Key \ {k} : actors'[j] = actors[j]
      /\ \A u \in Slot \ {s} : actors'[k][u] = actors[k][u]
      /\ \/ registered[k] = s /\ actors'[k][s] = actors[k][s]
         \/ registered[k] = None /\ actors'[k][s] = NewActor
  <2>1. CASE registered[k] = s /\ UNCHANGED <<registered, actors>>
    BY <1>4, <1>7, <2>1
  <2>2. CASE /\ registered[k] = None
             /\ registered' = [registered EXCEPT ![k] = s]
             /\ actors' = [actors EXCEPT ![k][s] = NewActor]
    <3>1. actors' \in [Key -> [Slot -> Actor]] /\ \A j \in Key \ {k} : actors'[j] = actors[j]
      BY <1>4, <1>7, <2>2
    <3>2. actors'[k][s] = NewActor /\ \A u \in Slot \ {s} : actors'[k][u] = actors[k][u]
      BY <1>4, <1>7, <2>2
    <3>3. registered' \in [Key -> Slot \cup {None}] /\ registered'[k] = s
          /\ \A j \in Key \ {k} : registered'[j] = registered[j]
      BY <1>4, <1>7, <2>2
    <3> QED
      BY <2>2, <3>1, <3>2, <3>3
  <2> QED
    BY <1>2, <2>1, <2>2 DEF k
<1>9. /\ acquiring' \in [Key -> SUBSET Thread] /\ t \in acquiring'[k]
      /\ \A j \in Key : acquiring[j] \subseteq acquiring'[j]
      /\ \A j \in Key \ {k} : acquiring'[j] = acquiring[j]
  BY <1>1, <1>4, <1>7
<1>10. \A u \in Thread : th[u].pc \in Acquires =>
           /\ Target(u) \in Key /\ registered'[Target(u)] = registered[Target(u)]
           /\ actors'[Target(u)][th[u].slot] = actors[Target(u)][th[u].slot]
  <2>1. SUFFICES ASSUME NEW u \in Thread, th[u].pc \in Acquires
                 PROVE  /\ Target(u) \in Key /\ registered'[Target(u)] = registered[Target(u)]
                        /\ actors'[Target(u)][th[u].slot] = actors[Target(u)][th[u].slot]
    OBVIOUS
  <2>2. Target(u) \in Key /\ registered[Target(u)] = th[u].slot /\ th[u].slot \in Slot
    BY <2>1, Acquired
  <2> QED
    BY <1>8, <2>2, Nones
<1>11. ActorsTypes'
  BY <1>1, <1>3, <1>5, <1>8, <1>9 DEF ActorsTypes
<1>12. ASSUME NEW u \in Thread
       PROVE  RequestOK(u)' /\ LineOK(u)'
  <2>1. RequestOK(u) /\ LineOK(u) /\ held'[u] = held[u]
    BY <1>1, <1>3
  <2>2. CASE u = t
    <3>1. /\ x.got <= Len(Wants[t]) /\ x.got < Len(Wants[t])
          /\ \A j \in Key : held[t][j] # None <=> \E i \in 1..x.got : Wants[t][i] = j
      BY <1>4, <1>5, <2>1, <2>2 DEF RequestOK
    <3>2. RequestOK(t)'
      BY <1>4, <1>5, <1>6, <1>8, <1>9, <2>1, <2>2, <3>1 DEF RequestOK, At, Acquires
    <3> QED
      BY <1>5, <1>6, <2>2, <3>2 DEF LineOK, At
  <2>3. CASE u # t
    <3>1. th'[u] = th[u] /\ Target(u)' = Target(u)
      BY <1>6, <2>3
    <3>2. RequestOK(u)'
      BY <1>9, <1>10, <2>1, <3>1 DEF RequestOK, At
    <3>3. ASSUME At(u, "connecting")'
          PROVE  /\ ~Mine(u)'.down /\ Mine(u)'.owner = None /\ Mine(u)'.conn = None
                 /\ \A v \in Thread : (At(v, "connecting") /\ Target(v) = Target(u))' => v = u
      <4>1. At(u, "connecting") /\ th[u].pc \in Acquires
        BY <3>1, <3>3 DEF At, Acquires
      <4>2. Mine(u)' = Mine(u)
        BY <1>10, <3>1, <4>1 DEF Mine
      <4>3. \A v \in Thread : (At(v, "connecting") /\ Target(v) = Target(u))' =>
                At(v, "connecting") /\ Target(v) = Target(u)
        BY <1>5, <1>6, <3>1 DEF At
      <4> QED
        BY <2>1, <4>1, <4>2, <4>3 DEF LineOK
    <3> QED
      BY <3>2, <3>3 DEF LineOK
  <2> QED
    BY <2>2, <2>3
<1>13. ASSUME NEW j \in Key
       PROVE  DeviceOK(j)'
  <2>1. DeviceOK(j) /\ stuck' = stuck
    BY <1>1 DEF ActorsInv
  <2>2. CASE j = k
    BY <1>8, <2>1, <2>2, Nones DEF DeviceOK
  <2>3. CASE j # k
    BY <1>8, <2>1, <2>3 DEF DeviceOK
  <2> QED
    BY <2>2, <2>3
<1>14. NoGhostOwner'
  <2>1. SUFFICES ASSUME NEW j \in Key, NEW c \in Slot, NEW u \in Thread, actors'[j][c].owner = u
                 PROVE  \/ held'[u][j] = c
                        \/ th'[u].pc \in {"connected", "discarding"} /\ Target(u)' = j /\ th'[u].slot = c
    BY DEF NoGhostOwner
  <2>2. actors[j][c].owner = u
    BY <1>8, <2>1, Nones DEF NewActor
  <2>3. th[u].pc \in {"connected", "discarding"} => th'[u] = th[u] /\ Target(u)' = Target(u)
    BY <1>1, <1>6 DEF At
  <2> QED
    BY <1>1, <2>2, <2>3 DEF ActorsInv, NoGhostOwner
<1>15. ASSUME NEW m \in Party
       PROVE  RetirementOK(m)'
  <2>1. RetirementOK(m) /\ Behind(m)' = Behind(m) /\ k \notin Behind(m) /\ Behind(m) \subseteq Key
    BY <1>1, Nones DEF ActorsInv, Behind, Open
  <2>2. \A j \in Behind(m) : acquiring'[j] = acquiring[j] /\ registered'[j] = registered[j]
    BY <1>8, <1>9, <2>1
  <2> QED
    BY <1>1, <2>1, <2>2 DEF RetirementOK
<1>16. ReplacementOK'
  BY <1>1 DEF ActorsInv, ReplacementOK
<1>17. BackendOK'
  <2>1. BackendOK /\ accepting /\ \A b : Fits(b)' = Fits(b)
    BY <1>1 DEF ActorsInv, Fits, Open
  <2>2. Fits(th[t].backend)
    BY <1>1, <1>4, <2>1, Nones DEF BackendOK, Fits
  <2>3. \A j \in Key, c \in Slot : actors'[j][c].conn # None => Fits(actors'[j][c].conn)
    BY <1>8, <2>1 DEF BackendOK, NewActor
  <2>4. \A u \in Thread : th'[u].pc \in {"gated", "connecting"} => Fits(th'[u].backend)
    BY <1>5, <1>6, <2>1, <2>2 DEF BackendOK
  <2> QED
    BY <1>1, <2>1, <2>3, <2>4 DEF BackendOK
<1> QED
  BY <1>11, <1>12, <1>13, <1>14, <1>15, <1>16, <1>17 DEF ActorsInv

-----------------------------------------------------------------------------
(* The steps of maintenance, of a replacement and of the shutdown. *)

\* They leave the threads alone.
LEMMA Outside ==
    ASSUME ActorsInv, UNCHANGED <<th, held, acquiring, registered>>,
           LinesKept(None), OwnersKept(None)
    PROVE  (\A u \in Thread : RequestOK(u)' /\ LineOK(u)') /\ NoGhostOwner'
<1>1. \A u \in Thread : Target(u)' = Target(u) /\ RequestOK(u) /\ LineOK(u) /\ u # None
  BY Nones DEF Target, ActorsInv
<1>2. \A u \in Thread : RequestOK(u)'
  BY <1>1 DEF RequestOK, At
<1>3. \A u \in Thread : LineOK(u)'
  BY <1>1 DEF LineOK, At, Mine, LinesKept
<1>4. NoGhostOwner'
  BY <1>1 DEF ActorsInv, NoGhostOwner, OwnersKept
<1> QED
  BY <1>2, <1>3, <1>4

LEMMA LifecycleStep ==
    ASSUME ActorsInv, UNCHANGED <<th, held, acquiring, registered, actors, stuck>>,
           accepting' \in BOOLEAN, replacing' \in BOOLEAN, active' \in Backend \cup {None},
           retiring' \in [Key -> Party \cup {None}], backend' \in Backend,
           stopped' \subseteq Backend, rt' \in [Party -> Retirement], rep' \in Replacing,
           sd' \in [pc : {"running", "draining", "closing", "done"}, left : SUBSET (Key \X Slot)],
           \A m \in Party : RetirementOK(m)', ReplacementOK', BackendOK'
    PROVE  ActorsInv'
<1>1. LinesKept(None) /\ OwnersKept(None) /\ DevicesKept
  BY SameActors
<1>2. (\A u \in Thread : RequestOK(u)' /\ LineOK(u)') /\ NoGhostOwner'
  BY <1>1, Outside
<1>3. ActorsTypes'
  BY DEF ActorsInv, ActorsTypes
<1> QED
  BY <1>1, <1>2, <1>3 DEF ActorsInv, DevicesKept

LEMMA RetirementStays ==
    ASSUME ActorsInv, UNCHANGED <<retiring, acquiring, registered, rt>>
    PROVE  \A m \in Party : RetirementOK(m)'
<1>1. \A m \in Party : RetirementOK(m) /\ Behind(m)' = Behind(m)
  BY DEF ActorsInv, Behind
<1> QED
  BY <1>1 DEF RetirementOK

LEMMA BackendSame ==
    ASSUME ActorsInv, UNCHANGED <<accepting, active, backend, stopped, rep, th, actors>>
    PROVE  BackendOK'
<1>1. \A b : Fits(b)' = Fits(b)
  BY DEF Fits
<1> QED
  BY <1>1 DEF ActorsInv, BackendOK

\* One maintenance request goes on, behind the gates as they are.
LEMMA RetirementStep ==
    ASSUME ActorsInv, NEW m \in Party, NEW r \in Retirement, rt' = [rt EXCEPT ![m] = r],
           UNCHANGED <<registry, actors, stuck, backend, stopped, th, held, rep, sd>>,
           RetirementOK(m)', m = Replacement /\ rt[m].pc = "retired" => r.pc = "retired"
    PROVE  ActorsInv'
<1>1. /\ UNCHANGED <<accepting, replacing, active, retiring, acquiring, registered>>
      /\ ActorsTypes
  BY DEF registry, ActorsInv
<1>2. rt' \in [Party -> Retirement] /\ rt'[m] = r /\ \A n \in Party \ {m} : rt'[n] = rt[n]
  BY <1>1 DEF ActorsTypes
<1>3. \A n \in Party \ {m} : RetirementOK(n)'
  <2>1. \A n \in Party : RetirementOK(n) /\ Behind(n)' = Behind(n)
    BY <1>1 DEF ActorsInv, Behind
  <2> QED
    BY <1>1, <1>2, <2>1 DEF RetirementOK
<1>4. ReplacementOK'
  <2>1. Replacement \in Party
    BY DEF Party
  <2> QED
    BY <1>1, <1>2, <2>1 DEF ActorsInv, ReplacementOK
<1>5. BackendOK'
  BY <1>1, BackendSame
<1>6. \A n \in Party : RetirementOK(n)'
  BY <1>3
<1> QED
  BY <1>1, <1>2, <1>4, <1>5, <1>6, LifecycleStep DEF ActorsTypes

LEMMA AdvanceFacts ==
    ASSUME ActorsInv, NEW m \in Party,
           NEW pc \in {"idle", "gated", "checking", "retiring", "retired", "leaving"},
           Advance(m, pc)
    PROVE  \E r \in Retirement :
               rt' = [rt EXCEPT ![m] = r] /\ r.pc = pc /\ r.left = rt[m].left /\ rt'[m] = r
<1> DEFINE y == [rt[m] EXCEPT !.pc = pc]
<1>1. rt \in [Party -> Retirement] /\ rt[m] \in Retirement
  BY DEF ActorsInv, ActorsTypes
<1>2. y \in Retirement /\ y.pc = pc /\ y.left = rt[m].left
  BY <1>1 DEF Retirement
<1>3. rt' = [rt EXCEPT ![m] = y] /\ rt'[m] = y
  BY <1>1 DEF Advance
<1> HIDE DEF y
<1> QED
  BY <1>2, <1>3

LEMMA BlockedStep ==
    ASSUME ActorsInv, NEW m \in Party, Blocked(m)
    PROVE  ActorsInv'
<1>1. rt[m].pc = "gated" /\ Advance(m, "leaving")
      /\ UNCHANGED <<registry, actors, stuck, backend, stopped, th, held, rep, sd>>
  BY DEF Blocked, RetirementAt
<1>2. PICK r \in Retirement : rt' = [rt EXCEPT ![m] = r] /\ r.pc = "leaving" /\ rt'[m] = r
  BY <1>1, AdvanceFacts
<1>3. RetirementOK(m)'
  BY <1>2 DEF RetirementOK
<1> QED
  BY <1>1, <1>2, <1>3, RetirementStep

LEMMA DrainStep ==
    ASSUME ActorsInv, NEW m \in Party, Drain(m)
    PROVE  ActorsInv'
<1> DEFINE left == {ks \in Behind(m) \X Slot : registered[ks[1]] = ks[2]}
<1>1. /\ rt[m].pc = "gated" /\ Drained(m)
      /\ rt' = [rt EXCEPT ![m] = [pc |-> "checking", left |-> left]]
      /\ UNCHANGED <<registry, actors, stuck, backend, stopped, th, held, rep, sd>>
  BY DEF Drain, RetirementAt
<1>2. Behind(m) \subseteq Key
  BY DEF Behind
<1>3. /\ left \subseteq Key \X Slot
      /\ \A k \in Key, s \in Slot : <<k, s>> \in left <=> k \in Behind(m) /\ registered[k] = s
  BY <1>2
<1> HIDE DEF left
<1>4. PICK r \in Retirement : rt' = [rt EXCEPT ![m] = r] /\ r.pc = "checking" /\ r.left = left
  <2>1. [pc |-> "checking", left |-> left] \in Retirement
    BY <1>3 DEF Retirement
  <2> QED
    BY <1>1, <2>1
<1>5. rt'[m] = r /\ Behind(m)' = Behind(m) /\ UNCHANGED <<registered, acquiring>>
  BY <1>1, <1>4 DEF ActorsInv, ActorsTypes, Behind, registry
<1>6. RetirementOK(m)'
  BY <1>1, <1>3, <1>4, <1>5 DEF RetirementOK, Drained
<1> QED
  BY <1>1, <1>4, <1>6, RetirementStep

LEMMA CheckGroupStep ==
    ASSUME ActorsInv, NEW m \in Party, CheckGroup(m)
    PROVE  ActorsInv'
<1>1. /\ rt[m].pc = "checking" /\ (Advance(m, "retiring") \/ Advance(m, "leaving"))
      /\ UNCHANGED <<registry, actors, stuck, backend, stopped, th, held, rep, sd>>
  BY DEF CheckGroup, RetirementAt
<1>2. PICK r \in Retirement : /\ rt' = [rt EXCEPT ![m] = r] /\ r.pc \in {"retiring", "leaving"}
                              /\ r.left = rt[m].left /\ rt'[m] = r
  BY <1>1, AdvanceFacts
<1>3. RetirementOK(m)'
  <2>1. RetirementOK(m) /\ Behind(m)' = Behind(m) /\ UNCHANGED <<registered, acquiring>>
    BY <1>1 DEF ActorsInv, Behind, registry
  <2> QED
    BY <1>1, <1>2, <2>1 DEF RetirementOK
<1> QED
  BY <1>1, <1>2, <1>3, RetirementStep

LEMMA RetiredStep ==
    ASSUME ActorsInv, NEW m \in Party, Retired(m)
    PROVE  ActorsInv'
<1>1. /\ rt[m].pc = "retiring" /\ rt[m].left = {} /\ Advance(m, "retired")
      /\ UNCHANGED <<registry, actors, stuck, backend, stopped, th, held, rep, sd>>
  BY DEF Retired, RetirementAt
<1>2. PICK r \in Retirement : /\ rt' = [rt EXCEPT ![m] = r] /\ r.pc = "retired" /\ rt'[m] = r
  BY <1>1, AdvanceFacts
<1>3. RetirementOK(m)'
  <2>1. /\ RetirementOK(m) /\ Behind(m)' = Behind(m) /\ UNCHANGED <<registered, acquiring>>
        /\ registered \in [Key -> Slot \cup {None}] /\ Behind(m) \subseteq Key
    BY <1>1 DEF ActorsInv, ActorsTypes, Behind, registry
  <2>2. \A k \in Behind(m) : registered[k] = None
    BY <1>1, <2>1 DEF RetirementOK
  <2> QED
    BY <1>1, <1>2, <2>1, <2>2 DEF RetirementOK
<1> QED
  BY <1>1, <1>2, <1>3, RetirementStep

LEMMA BeginRetirementStep ==
    ASSUME ActorsInv, NEW m \in Party, BeginRetirement(m)
    PROVE  ActorsInv'
<1>1. /\ m \in Retirer /\ m # Replacement /\ Advance(m, "gated")
      /\ \A k \in Scope[m] : retiring[k] = None
      /\ retiring' = [k \in Key |-> IF k \in Scope[m] THEN m ELSE retiring[k]]
      /\ UNCHANGED <<accepting, replacing, active, acquiring, registered, actors, stuck,
                     backend, stopped, th, held, rep, sd>>
  BY ActorsAssumption DEF BeginRetirement
<1>2. PICK r \in Retirement : rt' = [rt EXCEPT ![m] = r] /\ r.pc = "gated"
  BY <1>1, AdvanceFacts
<1>3. ActorsTypes
  BY DEF ActorsInv
<1>4. rt' \in [Party -> Retirement] /\ rt'[m] = r /\ \A n \in Party \ {m} : rt'[n] = rt[n]
  BY <1>2, <1>3 DEF ActorsTypes
<1>5. retiring' \in [Key -> Party \cup {None}]
  BY <1>1, <1>3 DEF ActorsTypes
<1>6. \A n \in Party \ {m} : Behind(n)' = Behind(n)
  BY <1>1, Nones DEF Behind
<1>7. ASSUME NEW n \in Party
      PROVE  RetirementOK(n)'
  <2>1. CASE n = m
    BY <1>2, <1>4, <2>1 DEF RetirementOK
  <2>2. CASE n # m
    BY <1>1, <1>4, <1>6, <2>2 DEF ActorsInv, RetirementOK
  <2> QED
    BY <2>1, <2>2
<1>8. ReplacementOK'
  <2>1. Replacement \in Party /\ Replacement # None
    BY Nones DEF Party
  <2>2. rt'[Replacement] = rt[Replacement] /\ ReplacementOK
    BY <1>1, <1>4, <2>1 DEF ActorsInv
  <2>3. (\A k \in Key : retiring[k] = Replacement) => \A k \in Key : retiring'[k] = Replacement
    BY <1>1, <2>1
  <2> QED
    BY <1>1, <2>2, <2>3 DEF ReplacementOK
<1>9. BackendOK'
  BY <1>1, BackendSame
<1> QED
  BY <1>1, <1>3, <1>4, <1>5, <1>7, <1>8, <1>9, LifecycleStep DEF ActorsTypes

LEMMA OpenGateStep ==
    ASSUME ActorsInv, NEW m \in Party, OpenGate(m)
    PROVE  ActorsInv'
<1>1. /\ m = Replacement => rep.pc = "idle"
      /\ retiring' = [k \in Key |-> IF retiring[k] = m THEN None ELSE retiring[k]]
      /\ rt' = [rt EXCEPT ![m] = NoRetirement]
      /\ UNCHANGED <<accepting, replacing, active, acquiring, registered, actors, stuck,
                     backend, stopped, th, held, rep, sd>>
  BY DEF OpenGate
<1>2. ActorsTypes /\ NoRetirement \in Retirement /\ NoRetirement.pc = "idle"
  BY DEF ActorsInv, NoRetirement, Retirement
<1>3. /\ rt' \in [Party -> Retirement] /\ rt'[m] = NoRetirement
      /\ \A n \in Party \ {m} : rt'[n] = rt[n]
  BY <1>1, <1>2 DEF ActorsTypes
<1>4. retiring' \in [Key -> Party \cup {None}]
  BY <1>1, <1>2 DEF ActorsTypes
<1>5. \A n \in Party \ {m} : Behind(n)' = Behind(n)
  BY <1>1, Nones DEF Behind
<1>6. ASSUME NEW n \in Party
      PROVE  RetirementOK(n)'
  <2>1. CASE n = m
    BY <1>2, <1>3, <2>1 DEF RetirementOK
  <2>2. CASE n # m
    BY <1>1, <1>3, <1>5, <2>2 DEF ActorsInv, RetirementOK
  <2> QED
    BY <2>1, <2>2
<1>7. ReplacementOK'
  <2>1. ReplacementOK /\ Replacement \in Party
    BY DEF ActorsInv, Party
  <2>2. CASE m = Replacement
    BY <1>1, <2>1, <2>2 DEF ReplacementOK
  <2>3. CASE m # Replacement
    <3>1. rt'[Replacement] = rt[Replacement]
      BY <1>3, <2>1, <2>3
    <3>2. (\A k \in Key : retiring[k] = Replacement) => \A k \in Key : retiring'[k] = Replacement
      BY <1>1, <2>3
    <3> QED
      BY <1>1, <2>1, <3>1, <3>2 DEF ReplacementOK
  <2> QED
    BY <2>2, <2>3
<1>8. BackendOK'
  BY <1>1, BackendSame
<1> QED
  BY <1>1, <1>2, <1>3, <1>4, <1>6, <1>7, <1>8, LifecycleStep DEF ActorsTypes

\* Nobody acquires behind a drained gate, so the actor of a device can go.
LEMMA RetireOneStep ==
    ASSUME ActorsInv, NEW m \in Party, NEW k \in Key, NEW s \in Slot, RetireOne(m, k, s)
    PROVE  ActorsInv'
<1>1. /\ rt[m].pc = "retiring" /\ <<k, s>> \in rt[m].left /\ ~Locked(k, s)
      /\ UNCHANGED <<accepting, replacing, active, retiring, acquiring,
                     backend, stopped, th, held, rep, sd>>
  BY DEF RetireOne, RetirementAt
<1>2. /\ ActorsTypes /\ RetirementOK(m) /\ ReplacementOK /\ DeviceOK(k)
      /\ registered \in [Key -> Slot \cup {None}] /\ rt \in [Party -> Retirement]
      /\ rt[m] \in Retirement
  BY DEF ActorsInv, ActorsTypes
<1>3. /\ k \in Behind(m) /\ registered[k] = s /\ acquiring[k] = {} /\ retiring[k] = m
      /\ \A j \in Key, c \in Slot :
             <<j, c>> \in rt[m].left <=> j \in Behind(m) /\ registered[j] = c
      /\ \A j \in Behind(m) : acquiring[j] = {}
  BY <1>1, <1>2 DEF RetirementOK, Behind
<1>4. \A n \in Party : Behind(n)' = Behind(n) /\ (n # m => k \notin Behind(n))
  BY <1>1, <1>3 DEF Behind
<1>5. ASSUME ~IsIdle(k, s)
      PROVE  ActorsInv'
  <2>1. Advance(m, "leaving") /\ UNCHANGED <<registered, actors, stuck>>
    BY <1>5 DEF RetireOne
  <2>2. PICK r \in Retirement : rt' = [rt EXCEPT ![m] = r] /\ r.pc = "leaving" /\ rt'[m] = r
    BY <2>1, AdvanceFacts
  <2>3. RetirementOK(m)'
    BY <2>2 DEF RetirementOK
  <2>4. UNCHANGED <<registry, actors, stuck, backend, stopped, th, held, rep, sd>>
    BY <1>1, <2>1 DEF registry
  <2> QED
    BY <1>1, <2>2, <2>3, <2>4, RetirementStep
<1>6. ASSUME IsIdle(k, s)
      PROVE  ActorsInv'
  <2>1. PICK ok \in BOOLEAN, a \in Actor, r \in Retirement :
            /\ ok \/ actors[k][s].conn # None
            /\ actors' = [actors EXCEPT ![k][s] = a] /\ a.owner = None /\ a.conn = None /\ a.down
            /\ stuck' = IF ok THEN stuck ELSE stuck \cup {k}
            /\ registered' = IF ok THEN [registered EXCEPT ![k] = None] ELSE registered
            /\ rt' = [rt EXCEPT ![m] = r] /\ r.pc = IF ok THEN "retiring" ELSE "leaving"
            /\ r.left = rt[m].left \ {<<k, s>>}
    <3>1. PICK ok \in BOOLEAN :
              /\ ok \/ actors[k][s].conn # None
              /\ Detach(k, s, TRUE, ok)
              /\ registered' = IF ok THEN [registered EXCEPT ![k] = None] ELSE registered
              /\ rt' = [rt EXCEPT ![m] = [pc |-> IF ok THEN "retiring" ELSE "leaving",
                                          left |-> @.left \ {<<k, s>>}]]
      BY <1>6 DEF RetireOne
    <3> DEFINE a == [down |-> TRUE \/ ~ok, owner |-> None, conn |-> None]
               pc == IF ok THEN "retiring" ELSE "leaving"
               r == [pc |-> pc, left |-> rt[m].left \ {<<k, s>>}]
    <3>2. a \in Actor /\ a.owner = None /\ a.conn = None /\ a.down
      BY DEF Actor
    <3>3. actors' = [actors EXCEPT ![k][s] = a] /\ stuck' = IF ok THEN stuck ELSE stuck \cup {k}
      BY <3>1 DEF Detach
    <3>4. rt[m].left \ {<<k, s>>} \subseteq Key \X Slot
      BY <1>2 DEF Retirement
    <3>5. rt' = [rt EXCEPT ![m] = r]
      BY <1>2, <3>1
    <3>6. pc \in {"idle", "gated", "checking", "retiring", "retired", "leaving"}
      OBVIOUS
    <3> HIDE DEF pc
    <3>7. r \in Retirement /\ r.pc = pc /\ r.left = rt[m].left \ {<<k, s>>}
      BY <3>4, <3>6 DEF Retirement
    <3> HIDE DEF a, r
    <3> QED
      BY <3>1, <3>2, <3>3, <3>5, <3>7 DEF pc
  <2>2. Rewritten(k, s, a)
    BY <2>1, RewrittenFacts
  <2>3. /\ rt' \in [Party -> Retirement] /\ rt'[m] = r /\ \A n \in Party \ {m} : rt'[n] = rt[n]
    BY <1>2, <2>1
  <2>4. /\ registered' \in [Key -> Slot \cup {None}]
        /\ \A j \in Key \ {k} : registered'[j] = registered[j]
        /\ registered'[k] = IF ok THEN None ELSE s
    BY <1>2, <1>3, <2>1
  <2>5. actors[k][s].owner = None /\ k \notin stuck
    BY <1>2, <1>3, <1>6 DEF IsIdle, DeviceOK
  <2>6. \A j \in Key : DeviceOK(j)'
    <3>1. DeviceOK(k)'
      BY <1>2, <1>3, <2>1, <2>2, <2>4, <2>5 DEF DeviceOK, Rewritten
    <3>2. ASSUME NEW j \in Key \ {k}
          PROVE  DeviceOK(j)'
      <4>1. DeviceOK(j) /\ (j \in stuck' <=> j \in stuck) /\ registered'[j] = registered[j]
        BY <2>1, <2>4 DEF ActorsInv
      <4> QED
        BY <2>2, <4>1 DEF DeviceOK, Rewritten
    <3> QED
      BY <3>1, <3>2
  <2>7. stuck' \subseteq Key
    BY <1>2, <2>1 DEF ActorsTypes
  <2>8. LinesKept(None) /\ OwnersKept(None) /\ ConnsFit
    <3>1. \A u \in Thread \ {None} : ~(At(u, "connecting") /\ Target(u) = k /\ th[u].slot = s)
      BY <1>1 DEF Locked
    <3>2. a.owner \in {None, None, actors[k][s].owner}
          /\ (a.conn \in {None, actors[k][s].conn} \/ (accepting => Fits(a.conn)))
      BY <2>1
    <3> QED
      BY <2>2, <2>6, <2>7, <3>1, <3>2, OneActor
  <2>9. ASSUME NEW u \in Thread
        PROVE  RequestOK(u)'
    <3>1. RequestOK(u) /\ Target(u)' = Target(u) /\ th'[u] = th[u] /\ held'[u] = held[u]
      BY <1>1 DEF ActorsInv, Target
    <3>2. th[u].pc \in Acquires => Target(u) \in Key \ {k}
      BY <1>3, Acquired
    <3> QED
      BY <1>1, <2>4, <3>1, <3>2 DEF RequestOK, At
  <2>10. ASSUME NEW u \in Thread
         PROVE  LineOK(u)'
    <3>1. \A v \in Thread : Target(v)' = Target(v) /\ th'[v] = th[v]
      BY <1>1 DEF Target
    <3>2. At(u, "connecting") => Mine(u)' = Mine(u)
      BY <2>8, <3>1, Nones DEF LinesKept, Mine
    <3> QED
      BY <3>1, <3>2 DEF ActorsInv, LineOK, At
  <2>11. NoGhostOwner'
    <3>1. \A v \in Thread : Target(v)' = Target(v) /\ v # None
      BY <1>1, Nones DEF Target
    <3> QED
      BY <1>1, <2>8, <3>1 DEF ActorsInv, NoGhostOwner, OwnersKept
  <2>12. ASSUME NEW n \in Party
         PROVE  RetirementOK(n)'
    <3>1. CASE n = m
      <4>1. CASE ok
        <5>1. r.pc = "retiring" /\ registered'[k] = None
          BY <2>1, <2>4, <4>1
        <5>2. \A j \in Key, c \in Slot :
                  <<j, c>> \in r.left <=> j \in Behind(m) /\ registered'[j] = c
          <6>1. SUFFICES ASSUME NEW j \in Key, NEW c \in Slot
                         PROVE  <<j, c>> \in r.left <=> j \in Behind(m) /\ registered'[j] = c
            OBVIOUS
          <6>2. CASE j = k
            BY <1>3, <2>1, <5>1, <6>2, Nones
          <6>3. CASE j # k
            BY <1>3, <2>1, <2>4, <6>3
          <6> QED
            BY <6>2, <6>3
        <5> QED
          BY <1>1, <1>3, <1>4, <2>3, <3>1, <5>1, <5>2 DEF RetirementOK
      <4>2. CASE ~ok
        BY <2>1, <2>3, <3>1, <4>2 DEF RetirementOK
      <4> QED
        BY <4>1, <4>2
    <3>2. CASE n # m
      <4>1. \A j \in Behind(n) : registered'[j] = registered[j]
        BY <1>4, <2>4, <3>2 DEF Behind
      <4> QED
        BY <1>1, <1>4, <2>3, <3>2, <4>1 DEF ActorsInv, RetirementOK
    <3> QED
      BY <3>1, <3>2
  <2>13. ReplacementOK'
    <3>1. Replacement \in Party /\ (rt[Replacement].pc = "retired" => rt'[Replacement].pc = "retired")
      BY <1>1, <2>3 DEF Party
    <3> QED
      BY <1>1, <1>2, <3>1 DEF ReplacementOK
  <2>14. BackendOK'
    <3>1. \A b : Fits(b)' = Fits(b)
      BY <1>1 DEF Fits
    <3> QED
      BY <1>1, <2>8, <3>1 DEF ActorsInv, BackendOK, ConnsFit
  <2>15. ActorsTypes'
    BY <1>1, <1>2, <2>2, <2>3, <2>4, <2>7 DEF ActorsTypes, Rewritten
  <2> QED
    BY <2>6, <2>9, <2>10, <2>11, <2>12, <2>13, <2>14, <2>15 DEF ActorsInv
<1> QED
  BY <1>5, <1>6

\* A step of the replacement or of the shutdown leaves the retirements alone.
LEMMA ServiceStep ==
    ASSUME ActorsInv, UNCHANGED <<retiring, acquiring, registered, actors, stuck, th, held, rt>>,
           accepting' \in BOOLEAN, replacing' \in BOOLEAN, active' \in Backend \cup {None},
           backend' \in Backend, stopped' \subseteq Backend, rep' \in Replacing,
           sd' \in [pc : {"running", "draining", "closing", "done"}, left : SUBSET (Key \X Slot)],
           ReplacementOK', BackendOK'
    PROVE  ActorsInv'
<1>1. \A m \in Party : RetirementOK(m)'
  BY RetirementStays
<1>2. retiring' \in [Key -> Party \cup {None}] /\ rt' \in [Party -> Retirement]
  BY DEF ActorsInv, ActorsTypes
<1> QED
  BY <1>1, <1>2, LifecycleStep

\* Behind the gates of a replacement that has retired the actors nothing is
\* connected, and nobody is about to connect.
LEMMA NothingLeft ==
    ASSUME ActorsInv, rep.pc \in {"publishing", "stopping"}
    PROVE  /\ \A k \in Key, s \in Slot : actors[k][s].conn = None
           /\ \A t \in Thread : th[t].pc \notin Acquires
<1>1. /\ \A k \in Key : retiring[k] = Replacement
      /\ rt[Replacement].pc = "retired" /\ Replacement \in Party
  <2>1. ReplacementOK
    BY DEF ActorsInv
  <2> QED
    BY <2>1 DEF ReplacementOK, Party
<1>2. \A k \in Key : registered[k] = None
  <2>1. RetirementOK(Replacement)
    BY <1>1 DEF ActorsInv
  <2> QED
    BY <1>1, <2>1 DEF RetirementOK, Behind
<1>3. \A k \in Key, s \in Slot : actors[k][s].conn = None
  BY <1>2, Nones DEF ActorsInv, DeviceOK
<1>4. ASSUME NEW t \in Thread, th[t].pc \in Acquires
      PROVE  FALSE
  BY <1>2, <1>4, Acquired, Nones
<1> QED
  BY <1>3, <1>4

LEMMA BeginReplacementStep ==
    ASSUME ActorsInv, NEW b \in Backend, BeginReplacement(b)
    PROVE  ActorsInv'
<1>1. /\ rep.pc = "idle" /\ sd.pc = "running" /\ b \notin stopped /\ b # backend
      /\ replacing' = TRUE /\ rep' = [pc |-> "waiting", new |-> b, old |-> backend]
      /\ UNCHANGED <<accepting, active, retiring, acquiring, registered, actors, stuck,
                     backend, stopped, th, held, rt, sd>>
  BY DEF BeginReplacement
<1>2. ActorsTypes /\ ReplacementOK /\ BackendOK /\ \A c : Fits(c)' = Fits(c)
  BY <1>1 DEF ActorsInv, Fits
<1>3. /\ rep' \in Replacing /\ rep'.pc = "waiting" /\ rep'.new = b /\ rep'.old = backend
  BY <1>1, <1>2 DEF Replacing, ActorsTypes
<1>4. ReplacementOK'
  BY <1>1, <1>2, <1>3 DEF ReplacementOK, ActorsTypes
<1>5. BackendOK'
  BY <1>1, <1>2, <1>3 DEF BackendOK
<1> QED
  BY <1>1, <1>2, <1>3, <1>4, <1>5, ServiceStep DEF ActorsTypes

LEMMA ReplacementDrainedStep ==
    ASSUME ActorsInv, ReplacementDrained
    PROVE  ActorsInv'
<1>1. /\ rep.pc = "waiting" /\ rep' = [rep EXCEPT !.pc = "gating"]
      /\ UNCHANGED <<registry, actors, stuck, backend, stopped, th, held, rt, sd>>
      /\ UNCHANGED <<accepting, replacing, active, retiring, acquiring, registered>>
  BY DEF ReplacementDrained, registry
<1>2. ActorsTypes /\ ReplacementOK /\ BackendOK /\ \A c : Fits(c)' = Fits(c)
  BY <1>1 DEF ActorsInv, Fits
<1>3. rep' \in Replacing /\ rep'.pc = "gating" /\ rep'.new = rep.new /\ rep'.old = rep.old
  BY <1>1, <1>2 DEF Replacing, ActorsTypes
<1>4. ReplacementOK'
  BY <1>1, <1>2, <1>3 DEF ReplacementOK
<1>5. BackendOK'
  BY <1>1, <1>2, <1>3 DEF BackendOK
<1> QED
  BY <1>1, <1>2, <1>3, <1>4, <1>5, ServiceStep DEF ActorsTypes

LEMMA GateReplacementStep ==
    ASSUME ActorsInv, GateReplacement
    PROVE  ActorsInv'
<1>1. /\ rep.pc = "gating" /\ rep' = [rep EXCEPT !.pc = "retiring"]
      /\ \A k \in Key : retiring[k] = None
      /\ retiring' = [k \in Key |-> Replacement] /\ Advance(Replacement, "gated")
      /\ UNCHANGED <<accepting, replacing, active, acquiring, registered, actors, stuck,
                     backend, stopped, th, held, sd>>
  BY DEF GateReplacement
<1>2. /\ ActorsTypes /\ ReplacementOK /\ BackendOK /\ \A c : Fits(c)' = Fits(c)
      /\ Replacement \in Party
  BY <1>1 DEF ActorsInv, Fits, Party
<1>3. rep' \in Replacing /\ rep'.pc = "retiring" /\ rep'.new = rep.new /\ rep'.old = rep.old
  BY <1>1, <1>2 DEF Replacing, ActorsTypes
<1>4. PICK r \in Retirement : rt' = [rt EXCEPT ![Replacement] = r] /\ r.pc = "gated"
  BY <1>1, <1>2, AdvanceFacts
<1>5. /\ rt' \in [Party -> Retirement] /\ rt'[Replacement] = r
      /\ \A n \in Party \ {Replacement} : rt'[n] = rt[n]
  BY <1>2, <1>4 DEF ActorsTypes
<1>6. retiring' \in [Key -> Party \cup {None}]
  BY <1>1, <1>2
<1>7. ASSUME NEW n \in Party
      PROVE  RetirementOK(n)'
  <2>1. CASE n = Replacement
    BY <1>4, <1>5, <2>1 DEF RetirementOK
  <2>2. CASE n # Replacement
    <3>1. RetirementOK(n) /\ Behind(n) = {} /\ Behind(n)' = {} /\ rt'[n] = rt[n]
      BY <1>1, <1>5, <2>2, Nones DEF ActorsInv, Behind
    <3> QED
      BY <1>1, <3>1 DEF RetirementOK
  <2> QED
    BY <2>1, <2>2
<1>8. ReplacementOK'
  BY <1>1, <1>2, <1>3 DEF ReplacementOK
<1>9. BackendOK'
  BY <1>1, <1>2, <1>3 DEF BackendOK
<1> QED
  BY <1>1, <1>2, <1>3, <1>5, <1>6, <1>7, <1>8, <1>9, LifecycleStep DEF ActorsTypes

LEMMA FailReplacementStep ==
    ASSUME ActorsInv, FailReplacement
    PROVE  ActorsInv'
<1>1. /\ rep.pc \in {"gating", "retiring"} /\ replacing' = FALSE /\ rep' = NoReplacement
      /\ UNCHANGED <<accepting, active, retiring, acquiring, registered, actors, stuck,
                     backend, stopped, th, held, rt, sd>>
  BY DEF FailReplacement
<1>2. ActorsTypes /\ ReplacementOK /\ BackendOK /\ \A c : Fits(c)' = Fits(c)
  BY <1>1 DEF ActorsInv, Fits
<1>3. rep' \in Replacing /\ rep'.pc = "idle"
  BY <1>1 DEF Replacing, NoReplacement
<1>4. ReplacementOK'
  BY <1>1, <1>2, <1>3 DEF ReplacementOK
<1>5. BackendOK'
  BY <1>1, <1>2, <1>3 DEF BackendOK
<1> QED
  BY <1>1, <1>2, <1>3, <1>4, <1>5, ServiceStep DEF ActorsTypes

LEMMA PublishBackendStep ==
    ASSUME ActorsInv, PublishBackend
    PROVE  ActorsInv'
<1>1. /\ rep.pc = "retiring" /\ rt[Replacement].pc = "retired" /\ backend' = rep.new
      /\ rep' = [rep EXCEPT !.pc = "publishing"]
      /\ UNCHANGED <<registry, actors, stuck, stopped, th, held, rt, sd>>
      /\ UNCHANGED <<accepting, replacing, active, retiring, acquiring, registered>>
  BY DEF PublishBackend, RetirementAt, registry
<1>2. ActorsTypes /\ ReplacementOK /\ BackendOK /\ \A c : Fits(c)' = Fits(c)
  BY <1>1 DEF ActorsInv, Fits
<1>3. rep' \in Replacing /\ rep'.pc = "publishing" /\ rep'.new = rep.new /\ rep'.old = rep.old
  BY <1>1, <1>2 DEF Replacing, ActorsTypes
<1>4. ReplacementOK' /\ backend' \in Backend
  BY <1>1, <1>2, <1>3 DEF ReplacementOK
<1>5. BackendOK'
  BY <1>1, <1>2, <1>3 DEF BackendOK
<1> QED
  BY <1>1, <1>2, <1>3, <1>4, <1>5, ServiceStep DEF ActorsTypes

LEMMA ActivateStep ==
    ASSUME ActorsInv, Activate
    PROVE  ActorsInv'
<1>1. /\ rep.pc = "publishing" /\ active' = rep.new /\ replacing' = FALSE
      /\ rep' = [rep EXCEPT !.pc = "stopping"]
      /\ UNCHANGED <<accepting, retiring, acquiring, registered, actors, stuck,
                     backend, stopped, th, held, rt, sd>>
  BY DEF Activate
<1>2. ActorsTypes /\ ReplacementOK /\ BackendOK
  BY DEF ActorsInv
<1>3. rep' \in Replacing /\ rep'.pc = "stopping" /\ rep'.new = rep.new /\ rep'.old = rep.old
  BY <1>1, <1>2 DEF Replacing, ActorsTypes
<1>4. ReplacementOK' /\ rep.new \in Backend
  BY <1>1, <1>2, <1>3 DEF ReplacementOK
<1>5. BackendOK'
  BY <1>1, <1>2, <1>3, <1>4, NothingLeft, Nones DEF BackendOK, Acquires
<1> QED
  BY <1>1, <1>2, <1>3, <1>4, <1>5, ServiceStep DEF ActorsTypes

LEMMA StopPreviousStep ==
    ASSUME ActorsInv, StopPrevious
    PROVE  ActorsInv'
<1>1. /\ rep.pc = "stopping" /\ stopped' = stopped \cup {rep.old} /\ rep' = NoReplacement
      /\ UNCHANGED <<registry, actors, stuck, backend, th, held, rt, sd>>
      /\ UNCHANGED <<accepting, replacing, active, retiring, acquiring, registered>>
  BY DEF StopPrevious, registry
<1>2. ActorsTypes /\ ReplacementOK /\ BackendOK
  BY DEF ActorsInv
<1>3. rep' \in Replacing /\ rep'.pc = "idle"
  BY <1>1 DEF Replacing, NoReplacement
<1>4. ReplacementOK'
  BY <1>1, <1>2, <1>3 DEF ReplacementOK
<1>5. rep.old \in Backend /\ rep.new \in Backend /\ rep.new # rep.old
  BY <1>1, <1>2 DEF ReplacementOK
<1>6. BackendOK'
  <2>1. /\ \A k \in Key, s \in Slot : actors'[k][s].conn = None
        /\ \A t \in Thread : th'[t].pc \notin {"gated", "connecting"}
    BY <1>1, NothingLeft DEF Acquires
  <2>2. accepting => /\ active = rep.new /\ backend = rep.new /\ active \notin stopped
    BY <1>1, <1>2 DEF BackendOK
  <2> QED
    BY <1>1, <1>3, <1>5, <2>1, <2>2, Nones DEF BackendOK
<1> QED
  BY <1>1, <1>2, <1>3, <1>4, <1>5, <1>6, ServiceStep DEF ActorsTypes

LEMMA StopAcceptingStep ==
    ASSUME ActorsInv, StopAccepting
    PROVE  ActorsInv'
<1>1. /\ sd.pc = "running" /\ rep.pc = "idle" /\ accepting' = FALSE
      /\ sd' = [sd EXCEPT !.pc = "draining"]
      /\ UNCHANGED <<replacing, active, retiring, acquiring, registered, actors, stuck,
                     backend, stopped, th, held, rt, rep>>
  BY DEF StopAccepting
<1>2. ActorsTypes
  BY DEF ActorsInv
<1>3. /\ sd' \in [pc : {"running", "draining", "closing", "done"}, left : SUBSET (Key \X Slot)]
      /\ sd'.pc = "draining"
  BY <1>1, <1>2 DEF ActorsTypes
<1>4. ReplacementOK' /\ BackendOK'
  BY <1>1, <1>3 DEF ReplacementOK, BackendOK
<1> QED
  BY <1>1, <1>2, <1>3, <1>4, ServiceStep DEF ActorsTypes

\* Once the service shuts down its backend may be stopped at any time.
LEMMA ClosingStep ==
    ASSUME ActorsInv, Deadline \/ CloseRegistry \/ StopEndpoint
    PROVE  ActorsInv'
<1>1. ActorsTypes /\ ReplacementOK
  BY DEF ActorsInv
<1>2. /\ sd.pc # "running"
      /\ stopped' = stopped \/ stopped' = stopped \cup {backend}
      /\ UNCHANGED <<accepting, replacing, active, retiring, acquiring, registered, actors, stuck,
                     backend, th, held, rt, rep>>
  BY DEF Deadline, CloseRegistry, StopEndpoint, registry, lifecycle
<1>3. /\ sd' \in [pc : {"running", "draining", "closing", "done"}, left : SUBSET (Key \X Slot)]
      /\ sd'.pc # "running"
  <2>1. CASE Deadline
    BY <1>1, <1>2, <2>1 DEF Deadline, lifecycle, ActorsTypes
  <2>2. CASE CloseRegistry
    BY <2>2 DEF CloseRegistry
  <2>3. CASE StopEndpoint
    BY <1>1, <2>3 DEF StopEndpoint, ActorsTypes
  <2> QED
    BY <2>1, <2>2, <2>3
<1>4. ReplacementOK' /\ BackendOK'
  BY <1>1, <1>2, <1>3 DEF ReplacementOK, BackendOK
<1> QED
  BY <1>1, <1>2, <1>3, <1>4, ServiceStep DEF ActorsTypes

LEMMA ShutDownActorStep ==
    ASSUME ActorsInv, NEW k \in Key, NEW s \in Slot, ShutDownActor(k, s)
    PROVE  ActorsInv'
<1>1. /\ sd.pc = "closing" /\ ~Locked(k, s) /\ sd' = [sd EXCEPT !.left = @ \ {<<k, s>>}]
      /\ UNCHANGED <<registry, backend, stopped, th, held, rt, rep>>
      /\ UNCHANGED <<accepting, replacing, active, retiring, acquiring, registered>>
  BY DEF ShutDownActor, registry
<1>2. ActorsTypes /\ ReplacementOK /\ DeviceOK(k)
  BY DEF ActorsInv
<1>3. /\ sd' \in [pc : {"running", "draining", "closing", "done"}, left : SUBSET (Key \X Slot)]
      /\ sd'.pc = "closing"
  BY <1>1, <1>2 DEF ActorsTypes
<1>4. DevicesKept /\ LinesKept(None) /\ OwnersKept(None)
  <2>1. CASE UNCHANGED <<actors, stuck>>
    BY <1>1, <2>1, SameActors
  <2>2. CASE Sever(k, s, TRUE)
    <3>1. PICK a \in Actor :
              /\ actors' = [actors EXCEPT ![k][s] = a]
              /\ a.owner = None /\ a.conn = None /\ a.down
              /\ \/ stuck' = stuck
                 \/ stuck' = stuck \cup {k} /\ a.down /\ actors[k][s].conn # None
      <4> DEFINE down == TRUE
      <4>1. Sever(k, s, down) /\ down \in BOOLEAN /\ down
        BY <2>2
      <4> HIDE DEF down
      <4> QED
        BY <4>1, SeverFacts
    <3>2. \A u \in Thread \ {None} : ~(At(u, "connecting") /\ Target(u) = k /\ th[u].slot = s)
      BY <1>1 DEF Locked
    <3>3. registered[k] = s /\ k \in stuck => a.down
      BY <3>1
    <3>4. UNCHANGED registered
      BY <1>1
    <3> HIDE <1>1, <1>2, <1>3
    <3>5. DevicesKept /\ ConnsFit /\ LinesKept(None) /\ OwnersKept(None) /\ Rewritten(k, s, a)
      BY <3>1, <3>2, <3>3, <3>4, Detached
    <3> QED
      BY <3>5
  <2> QED
    BY <2>1, <2>2 DEF ShutDownActor
<1>5. (\A u \in Thread : RequestOK(u)' /\ LineOK(u)') /\ NoGhostOwner'
  BY <1>1, <1>4, Outside
<1>6. \A m \in Party : RetirementOK(m)'
  BY <1>1, RetirementStays
<1>7. ReplacementOK' /\ BackendOK'
  BY <1>1, <1>2, <1>3 DEF ReplacementOK, BackendOK
<1>8. ActorsTypes'
  BY <1>1, <1>2, <1>3, <1>4 DEF ActorsTypes, DevicesKept
<1> QED
  BY <1>4, <1>5, <1>6, <1>7, <1>8 DEF ActorsInv, DevicesKept

-----------------------------------------------------------------------------
LEMMA ActorsInit ==
    ASSUME Init
    PROVE  ActorsInv
<1>1. ActorsTypes
  <2>1. Idle \in Request /\ NewActor \in Actor
    BY DEF Idle, Request, ThreadPc, NewActor, Actor
  <2>2. NoRetirement \in Retirement /\ NoReplacement \in Replacing
    BY DEF NoRetirement, Retirement, NoReplacement, Replacing
  <2> QED
    BY <2>1, <2>2, ActorsAssumption DEF Init, ActorsTypes
<1>2. \A t \in Thread : RequestOK(t) /\ LineOK(t)
  BY WantsFacts DEF Init, RequestOK, LineOK, Idle, At, Acquires
<1>3. \A k \in Key : DeviceOK(k)
  BY DEF Init, DeviceOK, NewActor
<1>4. NoGhostOwner
  BY Nones DEF Init, NoGhostOwner, NewActor
<1>5. \A m \in Party : RetirementOK(m)
  BY DEF Init, RetirementOK, NoRetirement
<1>6. ReplacementOK
  BY DEF Init, ReplacementOK, NoReplacement
<1>7. BackendOK
  BY DEF Init, BackendOK, NoReplacement, NewActor, Idle
<1> QED
  BY <1>1, <1>2, <1>3, <1>4, <1>5, <1>6, <1>7 DEF ActorsInv

LEMMA ActorsStep ==
    ASSUME ActorsInv, [Next]_vars
    PROVE  ActorsInv'
<1>1. ASSUME NEW t \in Thread, Ask(t) \/ Proceed(t) \/ EndOwnership(t)
      PROVE  ActorsInv'
  BY <1>1, AskStep, EnterStep, RefusedStep, ConflictStep, ReuseStep, DropIdleStep, DialStep,
     ConnectStep, PublishStep, TurnAwayStep, DiscardStep, EndOwnershipStep, ReleaseStep,
     FaultStep DEF Proceed
<1>2. ASSUME NEW m \in Party, BeginRetirement(m) \/ Blocked(m) \/ Retire(m)
      PROVE  ActorsInv'
  BY <1>2, BeginRetirementStep, BlockedStep, DrainStep, CheckGroupStep, RetireOneStep,
     RetiredStep, OpenGateStep DEF Retire
<1>3. ASSUME NEW b \in Backend, BeginReplacement(b)
      PROVE  ActorsInv'
  BY <1>3, BeginReplacementStep
<1>4. CASE Replace
  BY <1>4, ReplacementDrainedStep, GateReplacementStep, FailReplacementStep, PublishBackendStep,
     ActivateStep, StopPreviousStep DEF Replace
<1>5. CASE StopAccepting \/ Deadline \/ ShutDown
  BY <1>5, StopAcceptingStep, ClosingStep, ShutDownActorStep DEF ShutDown
<1>6. CASE UNCHANGED vars
  <2>1. /\ UNCHANGED <<accepting, replacing, active, retiring, acquiring, registered>>
        /\ UNCHANGED <<actors, stuck, backend, stopped, th, held, rt, rep, sd>>
    BY <1>6 DEF vars, registry, lifecycle
  <2>2. ActorsTypes /\ ReplacementOK
    BY DEF ActorsInv
  <2>3. ReplacementOK' /\ BackendOK'
    BY <2>1, <2>2, BackendSame DEF ReplacementOK
  <2> QED
    BY <2>1, <2>2, <2>3, ServiceStep DEF ActorsTypes
<1> QED
  BY <1>1, <1>2, <1>3, <1>4, <1>5, <1>6 DEF Next

\* The registry's types hold, and with them all that keeps devices, acquisitions,
\* retirements, the replacement and the shutdown consistent with each other.
THEOREM ActorsInvariant == Spec => []ActorsInv
<1>1. Init => ActorsInv
  BY ActorsInit
<1>2. ActorsInv /\ [Next]_vars => ActorsInv'
  BY ActorsStep
<1> QED
  BY <1>1, <1>2, PTL DEF Spec

\* A device never has two lines to it, whatever was retired, replaced or shut down.
THEOREM OneConnectionHolds == Spec => []OneConnection
BY ActorsInvariant, InvariantImplies, PTL

\* Nobody but a thread that still knows the device owns it.
THEOREM NoGhostOwnerHolds == Spec => []NoGhostOwner
BY ActorsInvariant, InvariantImplies, PTL

\* The connections of a running daemon are to the backend it uses.
THEOREM ConnectedToActiveHolds == Spec => []ConnectedToActive
BY ActorsInvariant, InvariantImplies, PTL

-----------------------------------------------------------------------------
\* What is written to another actor is no matter of this one.
LEMMA Elsewhere ==
    ASSUME ActorsInv, NEW k \in Key, NEW s \in Slot, NEW j \in Key, NEW c \in Slot,
           j # k \/ c # s, NEW a, actors' = [actors EXCEPT ![j][c] = a]
    PROVE  actors'[k][s] = actors[k][s]
<1>1. actors \in [Key -> [Slot -> Actor]]
  BY DEF ActorsInv, ActorsTypes
<1>2. CASE j # k
  BY <1>1, <1>2
<1>3. CASE j = k /\ c # s
  BY <1>1, <1>3
<1> QED
  BY <1>2, <1>3

LEMMA Undisturbed ==
    ASSUME ActorsInv, [Next]_vars, NEW t \in Thread, NEW k \in Key,
           held[t][k] # None, held'[t][k] = held[t][k], accepting', Valid(t, k)
    PROVE  actors'[k][held[t][k]] = actors[k][held[t][k]] /\ registered'[k] = registered[k]
<1>1. PICK s \in Slot : s = held[t][k] /\ actors[k][s].owner = t /\ registered[k] = s
  BY ValidFacts DEF Valid
<1>2. SUFFICES actors'[k][s] = actors[k][s] /\ registered'[k] = registered[k]
  BY <1>1
<1>3. ASSUME NEW u \in Thread, th[u].pc \in Acquires, Mine(u).owner = None
      PROVE  Target(u) \in Key /\ th[u].slot \in Slot /\ (Target(u) # k \/ th[u].slot # s)
  BY <1>1, <1>3, Acquired, Nones DEF Mine
<1>4. ASSUME NEW u \in Thread, Proceed(u)
      PROVE  actors'[k][s] = actors[k][s] /\ registered'[k] = registered[k]
  <2>1. CASE Enter(u)
    <3>1. PICK c \in Slot :
              \/ UNCHANGED <<registered, actors>>
              \/ /\ registered[Target(u)] = None
                 /\ registered' = [registered EXCEPT ![Target(u)] = c]
                 /\ actors' = [actors EXCEPT ![Target(u)][c] = NewActor]
      BY <2>1 DEF Enter
    <3>2. CASE UNCHANGED <<registered, actors>>
      BY <3>2
    <3>3. CASE /\ registered[Target(u)] = None
               /\ registered' = [registered EXCEPT ![Target(u)] = c]
               /\ actors' = [actors EXCEPT ![Target(u)][c] = NewActor]
      <4>1. Target(u) \in Key
        BY <2>1, Places DEF Enter, At, ActorsInv, RequestOK
      <4>2. Target(u) # k
        BY <1>1, <3>3, Nones
      <4>3. actors'[k][s] = actors[k][s]
        BY <3>3, <4>1, <4>2, Elsewhere
      <4>4. registered'[k] = registered[k]
        BY <3>3, <4>2 DEF ActorsInv, ActorsTypes
      <4> QED
        BY <4>3, <4>4
    <3> QED
      BY <3>1, <3>2, <3>3
  <2>2. CASE \/ Refused(u) \/ Conflict(u) \/ Dial(u) \/ Publish(u) \/ TurnAway(u) \/ Finish(u)
    BY <2>2 DEF Refused, Conflict, Dial, Publish, TurnAway, Finish, registry
  <2>3. CASE Reuse(u)
    <3>1. /\ th[u].pc \in Acquires /\ Mine(u).owner = None /\ UNCHANGED registered
          /\ actors' = [actors EXCEPT ![Target(u)][th[u].slot].owner = u]
      BY <2>3 DEF Reuse, Usable, At, Acquires, registry
    <3>2. actors' = [actors EXCEPT ![Target(u)][th[u].slot] = [Mine(u) EXCEPT !.owner = u]]
      BY <1>3, <3>1 DEF Mine, ActorsInv, ActorsTypes
    <3>3. actors'[k][s] = actors[k][s]
      BY <1>3, <3>1, <3>2, Elsewhere
    <3> QED
      BY <3>1, <3>3
  <2>4. CASE DropIdle(u)
    <3>1. th[u].pc \in Acquires /\ Mine(u).owner = None /\ UNCHANGED registered
      BY <2>4 DEF DropIdle, Usable, At, Acquires
    <3>2. PICK a : actors' = [actors EXCEPT ![Target(u)][th[u].slot] = a]
      BY <2>4 DEF DropIdle, Detach
    <3>3. actors'[k][s] = actors[k][s]
      BY <1>3, <3>1, <3>2, Elsewhere
    <3> QED
      BY <3>1, <3>3
  <2>5. CASE Connect(u)
    <3>1. th[u].pc \in Acquires /\ Mine(u).owner = None /\ UNCHANGED registered
      BY <2>5 DEF Connect, At, Acquires, ActorsInv, LineOK
    <3>2. CASE UNCHANGED actors
      BY <3>1, <3>2
    <3>3. CASE actors' = [actors EXCEPT ![Target(u)][th[u].slot] =
                              [@ EXCEPT !.owner = u, !.conn = th[u].backend]]
      <4>1. actors' = [actors EXCEPT ![Target(u)][th[u].slot] =
                           [Mine(u) EXCEPT !.owner = u, !.conn = th[u].backend]]
        BY <1>3, <3>1, <3>3 DEF Mine, ActorsInv, ActorsTypes
      <4>2. actors'[k][s] = actors[k][s]
        BY <1>3, <3>1, <4>1, Elsewhere
      <4> QED
        BY <3>1, <4>2
    <3> QED
      BY <2>5, <3>2, <3>3 DEF Connect
  <2>6. CASE Discard(u)
    <3>1. th[u].pc \in Acquires /\ UNCHANGED registered
      BY <2>6 DEF Discard, At, Acquires, registry
    <3>2. CASE Mine(u).owner # u
      BY <2>6, <3>1, <3>2 DEF Discard
    <3>3. CASE Mine(u).owner = u
      <4>1. PICK a : actors' = [actors EXCEPT ![Target(u)][th[u].slot] = a]
        BY <2>6, <3>3 DEF Discard, Sever, Detach
      <4>2. Target(u) \in Key /\ th[u].slot \in Slot /\ (Target(u) # k \/ th[u].slot # s)
        BY <1>1, <3>1, <3>3, Acquired, Nones DEF Mine
      <4>3. actors'[k][s] = actors[k][s]
        BY <4>1, <4>2, Elsewhere
      <4> QED
        BY <3>1, <4>3
    <3> QED
      BY <3>2, <3>3
  <2>7. CASE Release(u) \/ Fault(u)
    <3>1. /\ Last(u) \in Key /\ held[u][Last(u)] \in Slot /\ UNCHANGED registered
          /\ held' = [held EXCEPT ![u][Last(u)] = None]
      BY <2>7, Places DEF Release, Fault, At, GoesBack, registry, ActorsInv, RequestOK
    <3>2. CASE ~Valid(u, Last(u))
      BY <2>7, <3>1, <3>2 DEF Release, Fault
    <3>3. CASE Valid(u, Last(u))
      <4> DEFINE j == Last(u)
                 c == held[u][j]
      <4>1. j # k \/ c # s
        <5>1. CASE u = t
          BY <1>1, <3>1, <5>1, Nones DEF ActorsInv, ActorsTypes
        <5>2. CASE u # t
          BY <1>1, <3>3, <5>2 DEF Valid
        <5> QED
          BY <5>1, <5>2
      <4>2. PICK a : actors' = [actors EXCEPT ![j][c] = a]
        <5>1. CASE Release(u)
          <6>1. actors' = [actors EXCEPT ![j][c].owner = None]
            BY <3>3, <5>1 DEF Release
          <6>2. actors' = [actors EXCEPT ![j][c] = [actors[j][c] EXCEPT !.owner = None]]
            BY <3>1, <6>1 DEF ActorsInv, ActorsTypes
          <6> QED
            BY <6>2
        <5>2. CASE Fault(u)
          BY <3>3, <5>2 DEF Fault, Sever, Detach
        <5> QED
          BY <2>7, <5>1, <5>2
      <4>3. actors'[k][s] = actors[k][s]
        BY <3>1, <4>1, <4>2, Elsewhere
      <4> QED
        BY <3>1, <4>3
    <3> QED
      BY <3>2, <3>3
  <2> QED
    BY <1>4, <2>1, <2>2, <2>3, <2>4, <2>5, <2>6, <2>7 DEF Proceed
<1>5. ASSUME NEW m \in Party, NEW j \in Key, NEW c \in Slot, RetireOne(m, j, c)
      PROVE  actors'[k][s] = actors[k][s] /\ registered'[k] = registered[k]
  <2>1. CASE ~IsIdle(j, c)
    BY <1>5, <2>1 DEF RetireOne
  <2>2. CASE IsIdle(j, c)
    <3>1. registered[j] = c
      BY <1>5 DEF RetireOne, RetirementAt, ActorsInv, RetirementOK
    <3>2. j # k
      BY <1>1, <2>2, <3>1, Nones DEF IsIdle
    <3>3. PICK a : actors' = [actors EXCEPT ![j][c] = a]
      BY <1>5, <2>2 DEF RetireOne, Detach
    <3>4. registered'[k] = registered[k]
      BY <1>5, <2>2, <3>2 DEF RetireOne, ActorsInv, ActorsTypes
    <3> QED
      BY <3>2, <3>3, <3>4, Elsewhere
  <2> QED
    BY <2>1, <2>2
<1>6. ASSUME ShutDown
      PROVE  UNCHANGED <<actors, registered>>
  <2>1. ~ShutDownActor(k, s) /\ \A j \in Key, c \in Slot : ~ShutDownActor(j, c)
    BY DEF ShutDownActor, registry, ActorsInv, ReplacementOK
  <2> QED
    BY <1>6, <2>1 DEF ShutDown, CloseRegistry, StopEndpoint, registry
<1>7. ASSUME NEW m \in Party,
             BeginRetirement(m) \/ Blocked(m) \/ Drain(m) \/ CheckGroup(m) \/ Retired(m) \/ OpenGate(m)
      PROVE  UNCHANGED <<actors, registered>>
  BY <1>7 DEF BeginRetirement, Blocked, Drain, CheckGroup, Retired, OpenGate, registry
<1>8. ASSUME NEW b \in Backend, BeginReplacement(b)
      PROVE  UNCHANGED <<actors, registered>>
  BY <1>8 DEF BeginReplacement
<1>9. ASSUME Replace \/ StopAccepting \/ Deadline \/ UNCHANGED vars
      PROVE  UNCHANGED <<actors, registered>>
  BY <1>9 DEF Replace, ReplacementDrained, GateReplacement, FailReplacement, PublishBackend,
              Activate, StopPrevious, StopAccepting, Deadline, registry, vars
<1>10. ASSUME NEW u \in Thread, Ask(u) \/ EndOwnership(u)
       PROVE  UNCHANGED <<actors, registered>>
  BY <1>10 DEF Ask, EndOwnership, registry
<1> QED
  BY <1>4, <1>5, <1>6, <1>7, <1>8, <1>9, <1>10 DEF Next, Retire

\* No step of maintenance, of a replacement or of another thread takes a device
\* from the thread that was given it and still owns it.
THEOREM OwnerKeepsDeviceHolds == Spec => OwnerKeepsDevice
<1>1. ActorsInv /\ [Next]_vars =>
          [\A t \in Thread, k \in Key :
              held[t][k] # None /\ held'[t][k] = held[t][k] /\ accepting' /\ Valid(t, k) =>
                  /\ Valid(t, k)'
                  /\ actors'[k][held[t][k]].conn = actors[k][held[t][k]].conn
                  /\ registered'[k] = held[t][k]]_vars
  <2>1. SUFFICES ASSUME ActorsInv, [Next]_vars, NEW t \in Thread, NEW k \in Key,
                        held[t][k] # None, held'[t][k] = held[t][k], accepting', Valid(t, k)
                 PROVE  /\ Valid(t, k)'
                        /\ actors'[k][held[t][k]].conn = actors[k][held[t][k]].conn
                        /\ registered'[k] = held[t][k]
    OBVIOUS
  <2>2. actors'[k][held[t][k]] = actors[k][held[t][k]] /\ registered'[k] = registered[k]
    BY <2>1, Undisturbed
  <2>3. registered[k] = held[t][k]
    BY <2>1, ValidFacts
  <2> QED
    BY <2>1, <2>2, <2>3 DEF Valid
<1> QED
  BY <1>1, ActorsInvariant, PTL DEF Spec, OwnerKeepsDevice
=============================================================================

------------------------ MODULE ScheduledTask_proofs ------------------------
(***************************************************************************)
(* Theorems about Snowflake ids, and about scheduled messages, which draw  *)
(* them.                                                                   *)
(*                                                                         *)
(* Ids: for every number of processes, every mask of the sequence number,  *)
(* clocks that are set back, and restarts.  Tasks: for any number of       *)
(* tasks, processes and overlapping scans, and any number of failures and  *)
(* crashes.                                                                *)
(***************************************************************************)
EXTENDS ScheduledTask, FiniteSetTheorems, TLAPS

(* A field of W values does not run into the one above it. *)
LEMMA Carry ==
  ASSUME NEW W \in Nat, NEW a \in Int, NEW b \in Int, a < b,
         NEW x \in 0..W - 1, NEW y \in 0..W - 1
  PROVE  a * W + x < b * W + y
<1>1. (a + 1) * W <= b * W
  <2>1. b = (a + 1) + (b - a - 1) /\ b - a - 1 \in Nat
    OBVIOUS
  <2>2. PICK d \in Nat : b = (a + 1) + d
    BY <2>1
  <2>3. d * W \in Nat
    OBVIOUS
  <2>4. b * W = (a + 1) * W + d * W
    BY <2>2
  <2> QED BY <2>3, <2>4
<1>2. (a + 1) * W = a * W + W
  OBVIOUS
<1> QED BY <1>1, <1>2

LEMMA Spans == NodeSpan \in Nat /\ SeqSpan \in Nat
BY SMT DEF NodeSpan, SeqSpan

LEMMA Bounds ==
  MaxSeq \in Nat /\ MaxSeq \in 0..MaxSeq /\ 0 \in 0..MaxSeq /\ MaxTime \in Nat \ {0}
<1>1. MaxSeq \in Nat /\ MaxTime \in Nat \ {0}
  BY NodeAssumption, Spans
<1> QED BY <1>1

(* The two upper fields of an id. *)
Upper(t, m) == t * NodeSpan + NodeOf[m]

LEMMA Fields ==
  ASSUME NEW m \in Machines, NEW t \in Nat
  PROVE  /\ NodeOf[m] \in 0..NodeSpan - 1 /\ Upper(t, m) \in Nat
         /\ \A s \in 0..MaxSeq : s \in 0..SeqSpan - 1
         /\ \A s \in 0..MaxSeq : Pack(t, m, s) = Upper(t, m) * SeqSpan + s
<1>1. NodeOf[m] \in 0..NodeSpan - 1 /\ \A s \in 0..MaxSeq : s \in 0..SeqSpan - 1
  BY NodeAssumption, Spans
<1>2. t * NodeSpan \in Nat
  BY Spans
<1> QED BY <1>1, <1>2, Spans DEF Upper, Pack

LEMMA PackOrder ==
  ASSUME NEW m \in Machines, NEW t \in Nat, NEW u \in Nat,
         NEW s \in 0..MaxSeq, NEW r \in 0..MaxSeq
  PROVE  /\ Pack(t, m, s) \in Nat
         /\ t < u => Pack(t, m, s) < Pack(u, m, r)
         /\ s < r => Pack(t, m, s) < Pack(t, m, r)
         /\ s <= r => Pack(t, m, s) <= Pack(t, m, r)
<1>1. /\ Upper(t, m) \in Nat /\ Upper(u, m) \in Nat
      /\ s \in 0..SeqSpan - 1 /\ r \in 0..SeqSpan - 1
      /\ Pack(t, m, s) = Upper(t, m) * SeqSpan + s
      /\ Pack(t, m, r) = Upper(t, m) * SeqSpan + r
      /\ Pack(u, m, r) = Upper(u, m) * SeqSpan + r
  BY Fields
<1>2. Upper(t, m) * SeqSpan \in Nat
  BY <1>1, Spans
<1>3. ASSUME t < u PROVE Pack(t, m, s) < Pack(u, m, r)
  <2>1. NodeOf[m] \in 0..NodeSpan - 1
    BY Fields
  <2>2. t * NodeSpan + NodeOf[m] < u * NodeSpan + NodeOf[m]
    BY <1>3, <2>1, Carry, Spans
  <2>3. Upper(t, m) < Upper(u, m)
    BY <2>2 DEF Upper
  <2> QED BY <1>1, <2>3, Carry, Spans
<1> QED BY <1>1, <1>2, <1>3

LEMMA PackNode ==
  ASSUME NEW m \in Machines, NEW n \in Machines, NEW t \in Nat, NEW u \in Nat,
         NEW s \in 0..MaxSeq, NEW r \in 0..MaxSeq, Pack(t, m, s) = Pack(u, n, r)
  PROVE  m = n
<1>1. /\ Upper(t, m) \in Nat /\ Upper(u, n) \in Nat
      /\ s \in 0..SeqSpan - 1 /\ r \in 0..SeqSpan - 1
      /\ Pack(t, m, s) = Upper(t, m) * SeqSpan + s
      /\ Pack(u, n, r) = Upper(u, n) * SeqSpan + r
      /\ NodeOf[m] \in 0..NodeSpan - 1 /\ NodeOf[n] \in 0..NodeSpan - 1
  BY Fields
<1>2. ~(Pack(t, m, s) < Pack(u, n, r)) /\ ~(Pack(u, n, r) < Pack(t, m, s))
  <2>1. Pack(t, m, s) \in Nat
    BY PackOrder
  <2> QED BY <2>1
<1>3. Upper(t, m) = Upper(u, n)
  <2>1. ~(Upper(t, m) < Upper(u, n))
    <3> SUFFICES ASSUME Upper(t, m) < Upper(u, n) PROVE FALSE
      OBVIOUS
    <3>1. Upper(t, m) * SeqSpan + s < Upper(u, n) * SeqSpan + r
      BY <1>1, Carry, Spans
    <3> QED BY <1>1, <1>2, <3>1
  <2>2. ~(Upper(u, n) < Upper(t, m))
    <3> SUFFICES ASSUME Upper(u, n) < Upper(t, m) PROVE FALSE
      OBVIOUS
    <3>1. Upper(u, n) * SeqSpan + r < Upper(t, m) * SeqSpan + s
      BY <1>1, Carry, Spans
    <3> QED BY <1>1, <1>2, <3>1
  <2> QED BY <1>1, <2>1, <2>2
<1>4. t = u
  <2>1. ~(t < u)
    <3> SUFFICES ASSUME t < u PROVE FALSE
      OBVIOUS
    <3>1. Upper(t, m) < Upper(u, n)
      BY <1>1, Carry, Spans DEF Upper
    <3> QED BY <1>1, <1>3, <3>1
  <2>2. ~(u < t)
    <3> SUFFICES ASSUME u < t PROVE FALSE
      OBVIOUS
    <3>1. Upper(u, n) < Upper(t, m)
      BY <1>1, Carry, Spans DEF Upper
    <3> QED BY <1>1, <1>3, <3>1
  <2> QED BY <2>1, <2>2
<1>5. NodeOf[m] = NodeOf[n]
  <2>1. t * NodeSpan \in Nat
    BY Spans
  <2> QED BY <1>1, <1>3, <1>4, <2>1 DEF Upper
<1> QED BY <1>5, NodeAssumption

-----------------------------------------------------------------------------
(* No id drawn so far is above the ceiling, and the next one will be.  It   *)
(* is the last id drawn, but for a generator that has wrapped its sequence  *)
(* number or was restarted: then every number of the last millisecond may   *)
(* be taken.                                                                *)
Top(m, l, w, s, r) ==
  IF l = 0 THEN Pack(r, m, MaxSeq) ELSE Pack(l, m, IF w THEN MaxSeq ELSE s)

Ceiling(m) == Top(m, last[m], waiting[m], sequence[m], retired[m])

LEMMA TopNat ==
  ASSUME NEW m \in Machines, NEW l \in Nat, NEW w \in BOOLEAN, NEW s \in 0..MaxSeq,
         NEW r \in Nat
  PROVE  Top(m, l, w, s, r) \in Nat
<1>1. Pack(r, m, MaxSeq) \in Nat /\ Pack(l, m, MaxSeq) \in Nat /\ Pack(l, m, s) \in Nat
  BY Bounds, PackOrder
<1> QED BY <1>1 DEF Top

Below(m) == \A i \in DOMAIN issued[m] : issued[m][i] <= Ceiling(m)

(* Every id is packed from the fields of the machine that drew it. *)
Packed(m) == \A i \in DOMAIN issued[m] :
  \E t \in Nat, s \in 0..MaxSeq : issued[m][i] = Pack(t, m, s)

Increasing(m) == \A i, j \in DOMAIN issued[m] : i < j => issued[m][i] < issued[m][j]

MachineInv(m) ==
  /\ last[m] = 0 => clock[m] > retired[m] /\ ~waiting[m]
  /\ Below(m) /\ Packed(m) /\ Increasing(m)

FlakeInv == FlakeTypeOK /\ \A m \in Machines : MachineInv(m)

LEMMA FlakeInvInit == FlakeInit => FlakeInv
BY Bounds DEF FlakeInit, FlakeInv, FlakeTypeOK, MachineInv, Below, Packed, Increasing

(* An id above the ceiling goes to the end of the sequence of a machine. *)
LEMMA EmitStep ==
  ASSUME FlakeInv, NEW m \in Machines, NEW t \in Nat \ {0}, NEW s \in 0..MaxSeq,
         Emit(m, t, s), waiting' \in [Machines -> BOOLEAN],
         \A k \in Machines \ {m} : waiting'[k] = waiting[k],
         waiting'[m] = FALSE, Ceiling(m) < Pack(t, m, s)
  PROVE  FlakeInv'
<1> DEFINE id == Pack(t, m, s)
           old == issued[m]
<1>1. id \in Nat
  BY PackOrder, Bounds
<1>2. old \in Seq(Nat)
  BY DEF FlakeInv, FlakeTypeOK
<1>3. issued'[m] = Append(old, id) /\ \A k \in Machines \ {m} : issued'[k] = issued[k]
  BY DEF Emit, FlakeInv, FlakeTypeOK
<1>4. FlakeTypeOK'
  <2>1. Append(old, id) \in Seq(Nat)
    BY <1>1, <1>2
  <2>2. issued' = [issued EXCEPT ![m] = Append(old, id)]
    BY DEF Emit
  <2> HIDE DEF old, id
  <2> QED BY <2>1, <2>2 DEF FlakeInv, FlakeTypeOK, Emit
<1>5. ASSUME NEW k \in Machines, k # m
      PROVE  MachineInv(k)'
  <2>1. /\ last'[k] = last[k] /\ sequence'[k] = sequence[k] /\ waiting'[k] = waiting[k]
        /\ issued'[k] = issued[k] /\ UNCHANGED <<clock, retired>>
    BY <1>5 DEF Emit, FlakeInv, FlakeTypeOK
  <2> QED
    BY <1>5, <2>1 DEF FlakeInv, MachineInv, Below, Packed, Increasing, Ceiling
<1>6. MachineInv(m)'
  <2>1. last'[m] = t /\ sequence'[m] = s
    BY DEF Emit, FlakeInv, FlakeTypeOK
  <2>2. Ceiling(m)' = id
    BY <2>1 DEF Ceiling, Top, Pack
  <2>3. \A i \in DOMAIN issued'[m] :
          \/ i \in DOMAIN old /\ issued'[m][i] = old[i]
          \/ i = Len(old) + 1 /\ issued'[m][i] = id
    BY <1>2, <1>3
  <2>4. \A i \in DOMAIN old : old[i] \in Nat /\ old[i] < id /\ i \in 1..Len(old)
    <3>1. Ceiling(m) \in Nat
      BY TopNat DEF Ceiling, FlakeInv, FlakeTypeOK
    <3>2. \A i \in DOMAIN old : old[i] <= Ceiling(m)
      BY DEF FlakeInv, MachineInv, Below
    <3>3. \A i \in DOMAIN old : old[i] \in Nat /\ i \in 1..Len(old)
      BY <1>2
    <3>4. Ceiling(m) < id
      OBVIOUS
    <3> HIDE DEF old, id
    <3> QED BY <1>1, <3>1, <3>2, <3>3, <3>4
  <2>5. Below(m)'
    BY <1>1, <2>2, <2>3, <2>4 DEF Below
  <2>6. Packed(m)'
    BY <2>3 DEF Packed, FlakeInv, MachineInv, Pack
  <2>7. Increasing(m)'
    <3>1. Increasing(m)
      BY DEF FlakeInv, MachineInv
    <3> HIDE DEF id
    <3> QED BY <1>1, <1>2, <2>3, <2>4, <3>1 DEF Increasing
  <2> QED BY <2>1, <2>5, <2>6, <2>7 DEF MachineInv
<1> QED BY <1>4, <1>5, <1>6 DEF FlakeInv
LEMMA GenerateStep ==
  ASSUME FlakeInv, NEW m \in Machines, Generate(m)
  PROVE  FlakeInv'
<1>0. /\ clock[m] \in Nat \ {0} /\ last[m] \in Nat /\ retired[m] \in Nat
      /\ sequence[m] \in 0..MaxSeq /\ waiting \in [Machines -> BOOLEAN]
      /\ MaxSeq \in Nat
  BY Bounds DEF FlakeInv, FlakeTypeOK
<1>1. CASE FirstOfMilli(m)
  <2>1. Ceiling(m) < Pack(clock[m], m, 0)
    <3>1. CASE last[m] = 0
      BY <1>0, <3>1, PackOrder DEF Ceiling, Top, FlakeInv, MachineInv
    <3>2. CASE last[m] # 0
      <4>1. last[m] < clock[m]
        BY <1>0, <1>1 DEF FirstOfMilli
      <4>2. (IF waiting[m] THEN MaxSeq ELSE sequence[m]) \in 0..MaxSeq
        BY <1>0
      <4>3. 0 \in 0..MaxSeq
        BY Bounds
      <4> DEFINE s == IF waiting[m] THEN MaxSeq ELSE sequence[m]
      <4> HIDE DEF s
      <4>4. Pack(last[m], m, s) < Pack(clock[m], m, 0)
        BY <1>0, <4>1, <4>2, <4>3, PackOrder DEF s
      <4> QED BY <3>2, <4>4 DEF Ceiling, Top, s
    <3> QED BY <3>1, <3>2
  <2>2. /\ Emit(m, clock[m], 0) /\ waiting'[m] = FALSE
        /\ waiting' \in [Machines -> BOOLEAN]
        /\ \A k \in Machines \ {m} : waiting'[k] = waiting[k]
    BY <1>0, <1>1 DEF FirstOfMilli
  <2>3. clock[m] \in Nat \ {0} /\ 0 \in 0..MaxSeq
    BY <1>0, Bounds
  <2> QED BY <2>1, <2>2, <2>3, EmitStep
<1>2. CASE SameMilli(m)
  <2>1. /\ last[m] = clock[m] /\ waiting[m] = FALSE /\ sequence[m] + 1 \in 0..MaxSeq
        /\ Emit(m, clock[m], sequence[m] + 1) /\ waiting' = waiting
    BY <1>0, <1>2 DEF SameMilli
  <2>2. Ceiling(m) < Pack(clock[m], m, sequence[m] + 1)
    <3>1. Pack(clock[m], m, sequence[m]) < Pack(clock[m], m, sequence[m] + 1)
      <4> DEFINE r == sequence[m] + 1
      <4>1. /\ clock[m] \in Nat /\ sequence[m] \in 0..MaxSeq
            /\ r \in 0..MaxSeq /\ sequence[m] < r
        BY <1>0, <2>1
      <4> HIDE DEF r
      <4>2. Pack(clock[m], m, sequence[m]) < Pack(clock[m], m, r)
        BY <4>1, PackOrder
      <4> QED BY <4>2 DEF r
    <3> QED BY <1>0, <2>1, <3>1 DEF Ceiling, Top
  <2> QED BY <1>0, <2>1, <2>2, EmitStep
<1> QED BY <1>1, <1>2 DEF Generate

(* A step that draws no id may only raise the ceiling. *)
LEMMA QuietStep ==
  ASSUME FlakeInv, FlakeTypeOK', UNCHANGED issued,
         \A k \in Machines :
           /\ Ceiling(k) <= Ceiling(k)'
           /\ last'[k] = 0 => clock'[k] > retired'[k] /\ ~waiting'[k]
  PROVE  FlakeInv'
<1> SUFFICES ASSUME NEW k \in Machines PROVE MachineInv(k)'
  BY DEF FlakeInv
<1>1. Ceiling(k) \in Int /\ Ceiling(k)' \in Int
  <2>1. Ceiling(k) \in Int
    BY TopNat DEF Ceiling, FlakeInv, FlakeTypeOK
  <2>2. /\ last'[k] \in Nat /\ retired'[k] \in Nat /\ sequence'[k] \in 0..MaxSeq
        /\ waiting'[k] \in BOOLEAN
    BY DEF FlakeTypeOK
  <2>3. Top(k, last'[k], waiting'[k], sequence'[k], retired'[k]) \in Int
    BY <2>2, TopNat
  <2> QED BY <2>1, <2>3 DEF Ceiling, Top, Pack
<1>2. \A i \in DOMAIN issued[k] : issued[k][i] \in Int
  BY DEF FlakeInv, FlakeTypeOK
<1>3. Below(k)'
  <2>1. \A i \in DOMAIN issued[k] : issued[k][i] <= Ceiling(k)
    BY DEF FlakeInv, MachineInv, Below
  <2>2. \A i \in DOMAIN issued[k] : issued[k][i] <= Ceiling(k)'
    <3> HIDE DEF Ceiling, Top
    <3> QED BY <1>1, <1>2, <2>1
  <2> QED BY <2>2 DEF Below
<1> QED BY <1>3 DEF FlakeInv, MachineInv, Packed, Increasing, Pack

LEMMA ClockStep ==
  ASSUME FlakeInv, NEW m \in Machines, Tick(m) \/ SetBack(m)
  PROVE  FlakeInv'
<1>0. /\ UNCHANGED <<last, sequence, waiting, retired, issued>>
      /\ clock \in [Machines -> 1..MaxTime] /\ MaxTime \in Nat
      /\ retired \in [Machines -> Nat]
  BY Bounds DEF FlakeInv, FlakeTypeOK, Tick, SetBack
<1>1. clock' \in [Machines -> 1..MaxTime]
  <2>1. CASE Tick(m)
    BY <1>0, <2>1 DEF Tick
  <2>2. CASE SetBack(m)
    BY <1>0, <2>2 DEF SetBack
  <2> QED BY <2>1, <2>2
<1>2. FlakeTypeOK'
  BY <1>0, <1>1 DEF FlakeInv, FlakeTypeOK
<1>3. ASSUME NEW k \in Machines
      PROVE  /\ Ceiling(k) <= Ceiling(k)'
             /\ last'[k] = 0 => clock'[k] > retired'[k] /\ ~waiting'[k]
  <2>1. Ceiling(k)' = Ceiling(k) /\ Ceiling(k) \in Nat
    <3>1. Ceiling(k) \in Nat
      BY TopNat DEF Ceiling, FlakeInv, FlakeTypeOK
    <3> QED BY <1>0, <3>1 DEF Ceiling, Top, Pack
  <2>2. ASSUME last'[k] = 0 PROVE clock'[k] > retired'[k] /\ ~waiting'[k]
    <3>1. clock[k] > retired[k] /\ ~waiting[k] /\ last[k] = 0
      BY <1>0, <2>2 DEF FlakeInv, MachineInv
    <3>2. CASE Tick(m)
      BY <1>0, <3>1, <3>2 DEF Tick
    <3>3. CASE SetBack(m)
      BY <1>0, <3>1, <3>3 DEF SetBack
    <3> QED BY <3>2, <3>3
  <2>3. Ceiling(k) <= Ceiling(k)'
    <3> HIDE DEF Ceiling
    <3> QED BY <2>1
  <2> QED BY <2>2, <2>3
<1> QED BY <1>0, <1>2, <1>3, QuietStep

LEMMA WaitStep ==
  ASSUME FlakeInv, NEW m \in Machines, Wait(m)
  PROVE  FlakeInv'
<1>1. FlakeTypeOK' /\ UNCHANGED issued
  BY Bounds DEF FlakeInv, FlakeTypeOK, Wait
<1>2. ASSUME NEW k \in Machines
      PROVE  /\ Ceiling(k) <= Ceiling(k)'
             /\ last'[k] = 0 => clock'[k] > retired'[k] /\ ~waiting'[k]
  <2>0. /\ last[k] \in Nat /\ retired[k] \in Nat /\ sequence[k] \in 0..MaxSeq
        /\ MaxSeq \in 0..MaxSeq /\ clock[k] \in 1..MaxTime /\ UNCHANGED <<last, retired, clock>>
    BY Bounds DEF FlakeInv, FlakeTypeOK, Wait
  <2>1. CASE k # m
    <3>1. waiting'[k] = waiting[k] /\ sequence'[k] = sequence[k]
      BY <2>1 DEF Wait, FlakeInv, FlakeTypeOK
    <3>2. Ceiling(k)' = Ceiling(k) /\ Ceiling(k) \in Nat
      BY <2>0, <3>1, PackOrder DEF Ceiling, Top, Pack
    <3> QED BY <2>0, <3>1, <3>2 DEF FlakeInv, MachineInv
  <2>2. CASE k = m
    <3>1. last[m] # 0 /\ waiting'[m] = TRUE
      BY <2>0, <2>2 DEF Wait, FlakeInv, FlakeTypeOK
    <3>2. Ceiling(m)' = Pack(last[m], m, MaxSeq)
      BY <2>0, <3>1 DEF Ceiling, Top, Pack
    <3>3. Ceiling(m) <= Pack(last[m], m, MaxSeq)
      BY <2>0, <2>2, <3>1, PackOrder DEF Ceiling, Top
    <3> QED BY <2>0, <2>2, <3>1, <3>2, <3>3
  <2> QED BY <2>1, <2>2
<1> QED BY <1>1, <1>2, QuietStep

LEMMA RestartStep ==
  ASSUME FlakeInv, NEW m \in Machines, Restart(m)
  PROVE  FlakeInv'
<1>1. FlakeTypeOK' /\ UNCHANGED issued
  BY Bounds DEF FlakeInv, FlakeTypeOK, Restart
<1>2. ASSUME NEW k \in Machines
      PROVE  /\ Ceiling(k) <= Ceiling(k)'
             /\ last'[k] = 0 => clock'[k] > retired'[k] /\ ~waiting'[k]
  <2>0. /\ last[k] \in Nat /\ retired[k] \in Nat /\ sequence[k] \in 0..MaxSeq
        /\ MaxSeq \in 0..MaxSeq /\ clock[k] \in 1..MaxTime /\ UNCHANGED clock
    BY Bounds DEF FlakeInv, FlakeTypeOK, Restart
  <2>1. CASE k # m
    <3>1. /\ waiting'[k] = waiting[k] /\ sequence'[k] = sequence[k]
          /\ last'[k] = last[k] /\ retired'[k] = retired[k]
      BY <2>1 DEF Restart, FlakeInv, FlakeTypeOK
    <3>2. Ceiling(k)' = Ceiling(k) /\ Ceiling(k) \in Nat
      BY <2>0, <3>1, PackOrder DEF Ceiling, Top, Pack
    <3> QED BY <2>0, <3>1, <3>2 DEF FlakeInv, MachineInv
  <2>2. CASE k = m
    <3>1. /\ last'[m] = 0 /\ waiting'[m] = FALSE
          /\ retired'[m] = IF last[m] > 0 THEN last[m] ELSE retired[m]
      BY <2>2 DEF Restart, FlakeInv, FlakeTypeOK
    <3>2. Ceiling(m)' = Pack(retired'[m], m, MaxSeq)
      BY <3>1 DEF Ceiling, Top, Pack
    <3>3. Ceiling(m) <= Pack(retired'[m], m, MaxSeq)
      <4>1. CASE last[m] = 0
        BY <2>0, <2>2, <3>1, <4>1, PackOrder DEF Ceiling, Top
      <4>2. CASE last[m] # 0
        BY <2>0, <2>2, <3>1, <4>2, PackOrder DEF Ceiling, Top
      <4> QED BY <4>1, <4>2
    <3>4. clock[m] > retired'[m]
      BY <2>0, <2>2, <3>1 DEF Restart, FlakeInv, MachineInv
    <3> QED BY <2>0, <2>2, <3>1, <3>2, <3>3, <3>4
  <2> QED BY <2>1, <2>2
<1> QED BY <1>1, <1>2, QuietStep

LEMMA FlakeInvStep ==
  ASSUME FlakeInv, [FlakeNext]_flakeVars
  PROVE  FlakeInv'
<1>1. CASE FlakeNext
  BY <1>1, ClockStep, GenerateStep, WaitStep, RestartStep DEF FlakeNext
<1>2. CASE UNCHANGED flakeVars
  BY <1>2 DEF flakeVars, FlakeInv, FlakeTypeOK, MachineInv, Below, Packed, Increasing,
     Ceiling, Top, Pack
<1> QED BY <1>1, <1>2

LEMMA FlakeInvGivesUnique == FlakeInv => UniqueIds
<1> SUFFICES ASSUME FlakeInv, NEW m \in Machines, NEW n \in Machines,
                    NEW i \in DOMAIN issued[m], NEW j \in DOMAIN issued[n],
                    issued[m][i] = issued[n][j]
             PROVE  m = n /\ i = j
  BY DEF UniqueIds
<1>1. m = n
  BY PackNode DEF FlakeInv, MachineInv, Packed
<1>2. issued[m] \in Seq(Nat)
  BY DEF FlakeInv, FlakeTypeOK
<1>3. i = j
  BY <1>1, <1>2 DEF FlakeInv, MachineInv, Increasing
<1> QED BY <1>1, <1>3

LEMMA FlakeInvGivesIncrease == FlakeInv => IdsIncrease
BY DEF FlakeInv, MachineInv, Increasing, IdsIncrease

(* No id is drawn twice, by one process or by two.                          *)
THEOREM FlakeUnique == FlakeSpec => []UniqueIds
BY FlakeInvInit, FlakeInvStep, FlakeInvGivesUnique, PTL DEF FlakeSpec

(* The ids of one process increase, across a clock that is set back, a      *)
(* sequence number that wraps and a restart.                                *)
THEOREM FlakeIncreases == FlakeSpec => []IdsIncrease
BY FlakeInvInit, FlakeInvStep, FlakeInvGivesIncrease, PTL DEF FlakeSpec

-----------------------------------------------------------------------------
(* What is known of a task by its state and by the goroutine that has it. *)
Untouched(t) == sent[t] = {} /\ notices[t] = {} /\ \A s \in Scans : pc[s][t] = "none"

OneRunner(t) == \A s, r \in Scans : pc[s][t] # "none" /\ pc[r][t] # "none" => s = r

RunnerKnows(s, t) ==
  /\ pc[s][t] # "none" => notices[t] = {}
  /\ pc[s][t] \in {"draw", "insert"} => sent[t] = {} /\ status[t] = Claimed
  /\ pc[s][t] = "update" => sent[t] # {} /\ status[t] = Claimed
  /\ pc[s][t] \in {"told_ok", "notice_ok"} => sent[t] # {} /\ status[t] = Done

RowKnows(t) ==
  /\ status[t] \in {Absent, Pending} => Untouched(t)
  /\ sent[t] = {} \/ \E x \in Nat : sent[t] = {x}
  /\ "ok" \in notices[t] => sent[t] # {} /\ status[t] = Done /\ "failed" \notin notices[t]

TaskInv ==
  /\ TaskTypeOK
  /\ \A t \in Tasks : RowKnows(t) /\ OneRunner(t)
  /\ \A t \in Tasks : \A s \in Scans : RunnerKnows(s, t)

-----------------------------------------------------------------------------
(* Every step of the tasks is a step of the generators or leaves them alone. *)
LEMMA TaskFlakeStep ==
  ASSUME [TaskNext]_allTaskVars
  PROVE  [FlakeNext]_flakeVars
<1>1. CASE UNCHANGED allTaskVars
  BY <1>1 DEF allTaskVars
<1>2. CASE \E t \in Tasks : CreateScheduledMessage(t) \/ BecomesDue(t)
  BY <1>2 DEF CreateScheduledMessage, BecomesDue
<1>3. CASE \E s \in Scans : Fetch(s)
  BY <1>3 DEF Fetch
<1>4. CASE \E s \in Scans, t \in Tasks :
             \/ ClaimTask(s, t) \/ ClaimFails(s, t)
             \/ SendStep(s, t) \/ InsertFails(s, t) \/ CompleteFails(s, t)
  <2> PICK s \in Scans, t \in Tasks :
             \/ ClaimTask(s, t) \/ ClaimFails(s, t)
             \/ SendStep(s, t) \/ InsertFails(s, t) \/ CompleteFails(s, t)
    BY <1>4
  <2>1. CASE DrawId(s, t)
    <3>1. MachineOf[s] \in Machines /\ Generate(MachineOf[s])
      BY <2>1, TaskAssumption DEF DrawId
    <3> QED BY <3>1 DEF FlakeNext
  <2>2. CASE ~DrawId(s, t)
    BY <2>2 DEF ClaimTask, ClaimFails, SendStep, InsertMessage, CompleteTask, FailedTask,
       Notify, InsertFails, CompleteFails
  <2> QED BY <2>1, <2>2
<1>5. CASE \E m \in Machines :
             \/ Crash(m)
             \/ (Tick(m) \/ SetBack(m)) /\ UNCHANGED taskVars
             \/ Wait(m) /\ Drawing(m) /\ UNCHANGED taskVars
  BY <1>5 DEF Crash, FlakeNext
<1> QED BY <1>1, <1>2, <1>3, <1>4, <1>5 DEF TaskNext

LEMMA TaskInvInit == TaskInit => TaskInv
BY TaskAssumption DEF TaskInit, TaskInv, TaskTypeOK, RowKnows, OneRunner, RunnerKnows, Untouched,
   Steps, Absent, Pending, Claimed, Done, Failed

(* The invariant speaks of one task at a time. *)
LEMMA Elsewhere ==
  ASSUME TaskInv, NEW u \in Tasks,
         status'[u] = status[u], sent'[u] = sent[u], notices'[u] = notices[u],
         \A s \in Scans : pc'[s][u] = pc[s][u]
  PROVE  RowKnows(u)' /\ OneRunner(u)' /\ \A s \in Scans : RunnerKnows(s, u)'
<1>1. RowKnows(u) /\ OneRunner(u) /\ \A s \in Scans : RunnerKnows(s, u)
  BY DEF TaskInv
<1>2. RowKnows(u)'
  BY <1>1 DEF RowKnows, Untouched, Absent, Pending, Done
<1>3. OneRunner(u)'
  BY <1>1 DEF OneRunner
<1>4. \A s \in Scans : RunnerKnows(s, u)'
  BY <1>1 DEF RunnerKnows, Claimed, Done
<1> QED BY <1>2, <1>3, <1>4

(* A step of the goroutine a scan has started for a task, that is or is at  *)
(* work on it, leaves every other task and every other goroutine alone.     *)
LEMMA OneTaskStep ==
  ASSUME TaskInv, TaskTypeOK', NEW s \in Scans, NEW t \in Tasks, NEW to \in Steps,
         \A u \in Tasks \ {t} : status'[u] = status[u] /\ sent'[u] = sent[u] /\ notices'[u] = notices[u],
         pc' = [pc EXCEPT ![s][t] = to],
         pc[s][t] # "none" \/ status[t] = Pending,
         status'[t] \in {Claimed, Done, Failed},
         sent'[t] = {} \/ \E x \in Nat : sent'[t] = {x},
         "ok" \in notices'[t] => sent'[t] # {} /\ status'[t] = Done /\ "failed" \notin notices'[t],
         to # "none" => notices'[t] = {},
         to \in {"draw", "insert"} => sent'[t] = {} /\ status'[t] = Claimed,
         to = "update" => sent'[t] # {} /\ status'[t] = Claimed,
         to \in {"told_ok", "notice_ok"} => sent'[t] # {} /\ status'[t] = Done
  PROVE  TaskInv'
<1>1. /\ pc'[s][t] = to
      /\ \A r \in Scans, u \in Tasks : r # s \/ u # t => pc'[r][u] = pc[r][u]
  BY DEF TaskInv, TaskTypeOK
<1>2. ASSUME NEW u \in Tasks, u # t
      PROVE  RowKnows(u)' /\ OneRunner(u)' /\ \A r \in Scans : RunnerKnows(r, u)'
  BY <1>1, <1>2, Elsewhere
<1>3. \A r \in Scans : r # s => pc[r][t] = "none"
  BY DEF TaskInv, OneRunner, RowKnows, Untouched
<1>4. \A r \in Scans : r # s => pc'[r][t] = "none"
  BY <1>1, <1>3
<1>5. RowKnows(t)'
  BY DEF RowKnows, Absent, Pending, Claimed, Done, Failed
<1>6. OneRunner(t)'
  BY <1>4 DEF OneRunner
<1>7. ASSUME NEW r \in Scans PROVE RunnerKnows(r, t)'
  <2>1. CASE r = s
    BY <1>1, <2>1 DEF RunnerKnows, Claimed, Done
  <2>2. CASE r # s
    BY <1>4, <2>2 DEF RunnerKnows
  <2> QED BY <2>1, <2>2
<1>8. ASSUME NEW u \in Tasks
      PROVE  RowKnows(u)' /\ OneRunner(u)' /\ \A r \in Scans : RunnerKnows(r, u)'
  <2>1. CASE u = t
    BY <1>5, <1>6, <1>7, <2>1
  <2>2. CASE u # t
    BY <1>2, <2>2
  <2> QED BY <2>1, <2>2
<1> QED BY <1>8 DEF TaskInv

-----------------------------------------------------------------------------
LEMMA NewAndDueStep ==
  ASSUME TaskInv, NEW t \in Tasks, CreateScheduledMessage(t) \/ BecomesDue(t)
  PROVE  TaskInv'
<1>1. TaskTypeOK'
  BY DEF TaskInv, TaskTypeOK, CreateScheduledMessage, BecomesDue, Absent, Pending, Failed
<1>2. ASSUME NEW u \in Tasks
      PROVE  RowKnows(u)' /\ OneRunner(u)' /\ \A r \in Scans : RunnerKnows(r, u)'
  <2>0. UNCHANGED <<pc, sent, notices>>
    BY DEF CreateScheduledMessage, BecomesDue
  <2>1. CASE status'[u] = status[u]
    BY <2>0, <2>1, Elsewhere
  <2>2. CASE status'[u] # status[u]
    <3>1. status[u] = Absent /\ status'[u] = Pending
      BY <2>2 DEF CreateScheduledMessage, BecomesDue, TaskInv, TaskTypeOK
    <3>2. Untouched(u) /\ RowKnows(u)
      BY <3>1 DEF TaskInv, RowKnows
    <3>3. Untouched(u)'
      BY <2>0, <3>2 DEF Untouched
    <3>4. RowKnows(u)'
      BY <3>3 DEF RowKnows, Untouched
    <3> QED BY <3>3, <3>4 DEF Untouched, OneRunner, RunnerKnows
  <2> QED BY <2>1, <2>2
<1> QED BY <1>1, <1>2 DEF TaskInv

(* A step that moves no task and no goroutine. *)
LEMMA IdleStep ==
  ASSUME TaskInv, TaskTypeOK', UNCHANGED <<status, sent, notices, pc>>
  PROVE  TaskInv'
BY Elsewhere DEF TaskInv

LEMMA FetchStep ==
  ASSUME TaskInv, NEW s \in Scans, Fetch(s)
  PROVE  TaskInv'
<1>1. TaskTypeOK'
  <2> PICK rows \in SUBSET GetPendingScheduledTasks : batch' = [batch EXCEPT ![s] = rows]
    BY DEF Fetch
  <2>1. rows \in SUBSET Tasks
    BY DEF GetPendingScheduledTasks, TaskInv, TaskTypeOK
  <2> QED BY <2>1 DEF TaskInv, TaskTypeOK, Fetch, rowVars
<1> QED BY <1>1, IdleStep DEF Fetch, rowVars

LEMMA ClaimStep ==
  ASSUME TaskInv, NEW s \in Scans, NEW t \in Tasks, ClaimTask(s, t) \/ ClaimFails(s, t)
  PROVE  TaskInv'
<1>0. /\ status \in [Tasks -> Absent..Failed] /\ pc \in [Scans -> [Tasks -> Steps]]
      /\ UNCHANGED <<due, mid, sent, notices>>
  BY DEF TaskInv, TaskTypeOK, ClaimTask, ClaimFails
<1>1. TaskTypeOK'
  <2>1. faults' \in 0..MaxFaults
    BY TaskAssumption DEF TaskInv, TaskTypeOK, ClaimTask, ClaimFails, Fault
  <2>2. batch' \in [Scans -> SUBSET Tasks]
    BY DEF TaskInv, TaskTypeOK, ClaimTask, ClaimFails
  <2>3. status' \in [Tasks -> Absent..Failed]
    BY <1>0 DEF ClaimTask, ClaimFails, Absent, Claimed, Failed
  <2>4. pc' \in [Scans -> [Tasks -> Steps]]
    BY <1>0 DEF ClaimTask, ClaimFails, Steps
  <2> QED BY <1>0, <2>1, <2>2, <2>3, <2>4 DEF TaskInv, TaskTypeOK
<1>2. CASE status' = status /\ pc' = pc
  BY <1>0, <1>1, <1>2, IdleStep
<1>3. CASE ~(status' = status /\ pc' = pc)
  <2>1. status[t] = Pending /\ status' = [status EXCEPT ![t] = Claimed]
    BY <1>0, <1>3 DEF ClaimTask, ClaimFails
  <2>2. pc' = [pc EXCEPT ![s][t] = "draw"] \/ pc' = [pc EXCEPT ![s][t] = "none"]
    <3>1. CASE ClaimTask(s, t)
      BY <2>1, <3>1 DEF ClaimTask
    <3>2. CASE ClaimFails(s, t)
      <4>1. pc[s][t] = "none"
        BY <2>1 DEF TaskInv, RowKnows, Untouched
      <4> QED BY <1>0, <3>2, <4>1 DEF ClaimFails
    <3> QED BY <3>1, <3>2
  <2>3. sent'[t] = {} /\ notices'[t] = {}
    BY <1>0, <2>1 DEF TaskInv, RowKnows, Untouched
  <2>4. /\ status'[t] = Claimed
        /\ \A u \in Tasks \ {t} : status'[u] = status[u] /\ sent'[u] = sent[u] /\ notices'[u] = notices[u]
    BY <1>0, <2>1
  <2>5. "draw" \in Steps /\ "none" \in Steps
    BY DEF Steps
  <2> QED BY <1>1, <2>1, <2>2, <2>3, <2>4, <2>5, OneTaskStep
<1> QED BY <1>2, <1>3

(* What the goroutine at work on a task finds. *)
LEMMA RunnerFinds ==
  ASSUME TaskInv, NEW s \in Scans, NEW t \in Tasks, pc[s][t] # "none"
  PROVE  /\ status[t] \in {Claimed, Done, Failed} /\ notices[t] = {}
         /\ sent[t] = {} \/ \E x \in Nat : sent[t] = {x}
         /\ pc[s][t] \in {"draw", "insert"} => sent[t] = {} /\ status[t] = Claimed
         /\ pc[s][t] = "update" => sent[t] # {} /\ status[t] = Claimed
         /\ pc[s][t] \in {"told_ok", "notice_ok"} => sent[t] # {} /\ status[t] = Done
<1>1. RowKnows(t) /\ RunnerKnows(s, t) /\ status[t] \in Absent..Failed
  BY DEF TaskInv, TaskTypeOK
<1>2. status[t] \notin {Absent, Pending}
  BY <1>1 DEF RowKnows, Untouched
<1>3. status[t] \in {Claimed, Done, Failed}
  BY <1>1, <1>2 DEF Absent, Pending, Claimed, Done, Failed
<1> QED BY <1>1, <1>3 DEF RowKnows, RunnerKnows

LEMMA DrawStep ==
  ASSUME TaskInv, FlakeTypeOK, FlakeTypeOK', NEW s \in Scans, NEW t \in Tasks, DrawId(s, t)
  PROVE  TaskInv'
<1>1. MachineOf[s] \in Machines /\ UNCHANGED <<rowVars, batch, faults>>
  BY TaskAssumption DEF DrawId
<1>2. Last(issued'[MachineOf[s]]) \in Nat
  <2>1. PICK id : issued' = [issued EXCEPT ![MachineOf[s]] = Append(@, id)]
    BY DEF DrawId, Generate, FirstOfMilli, SameMilli, Emit
  <2>2. issued'[MachineOf[s]] = Append(issued[MachineOf[s]], id)
    BY <1>1, <2>1 DEF FlakeTypeOK
  <2>3. issued[MachineOf[s]] \in Seq(Nat) /\ issued'[MachineOf[s]] \in Seq(Nat)
    BY <1>1 DEF FlakeTypeOK
  <2>4. Len(issued'[MachineOf[s]]) \in 1..Len(issued'[MachineOf[s]])
    BY <2>2, <2>3
  <2> QED BY <2>3, <2>4 DEF Last
<1>3. PICK to \in {"insert", "notice_ok", "notice_failed"} :
        /\ pc' = [pc EXCEPT ![s][t] = to]
        /\ to = "insert" => pc[s][t] = "draw"
        /\ to = "notice_ok" => pc[s][t] = "told_ok"
        /\ to = "notice_failed" => pc[s][t] = "told_failed"
  BY DEF DrawId, GoTo
<1>4. TaskTypeOK'
  BY <1>1, <1>2, <1>3 DEF TaskInv, TaskTypeOK, DrawId, rowVars, Steps
<1>5. /\ status' = status /\ sent' = sent /\ notices' = notices /\ to \in Steps
      /\ pc[s][t] # "none"
  BY <1>1, <1>3 DEF rowVars, Steps
<1> QED BY <1>3, <1>4, <1>5, RunnerFinds, OneTaskStep

LEMMA InsertStep ==
  ASSUME TaskInv, NEW s \in Scans, NEW t \in Tasks, InsertMessage(s, t) \/ InsertFails(s, t)
  PROVE  TaskInv'
<1>1. /\ pc[s][t] = "insert" /\ UNCHANGED <<status, notices, due, batch, mid>>
      /\ mid[s][t] \in Nat
      /\ sent' = sent \/ sent' = [sent EXCEPT ![t] = @ \cup {mid[s][t]}]
  BY DEF InsertMessage, InsertFails, GoTo, TaskInv, TaskTypeOK
<1>2. PICK to \in {"update", "fail"} :
        /\ pc' = [pc EXCEPT ![s][t] = to]
        /\ to = "update" => sent' = [sent EXCEPT ![t] = @ \cup {mid[s][t]}]
  BY DEF InsertMessage, InsertFails, GoTo
<1>3. faults' \in 0..MaxFaults
  BY TaskAssumption DEF InsertMessage, InsertFails, Fault, TaskInv, TaskTypeOK
<1>4. TaskTypeOK'
  BY <1>1, <1>2, <1>3 DEF TaskInv, TaskTypeOK, Steps
<1>5. /\ sent[t] = {} /\ status[t] = Claimed /\ notices[t] = {}
  BY <1>1, RunnerFinds
<1>6. /\ sent'[t] = {} \/ sent'[t] = {mid[s][t]}
      /\ to = "update" => sent'[t] = {mid[s][t]}
      /\ \A u \in Tasks \ {t} : sent'[u] = sent[u]
  BY <1>1, <1>2, <1>5 DEF TaskInv, TaskTypeOK
<1>7. to \in Steps /\ status' = status /\ notices' = notices /\ pc[s][t] # "none"
  BY <1>1 DEF Steps
<1> QED BY <1>1, <1>2, <1>4, <1>5, <1>6, <1>7, OneTaskStep

LEMMA CompleteStep ==
  ASSUME TaskInv, NEW s \in Scans, NEW t \in Tasks,
         CompleteTask(s, t) \/ CompleteFails(s, t) \/ FailedTask(s, t)
  PROVE  TaskInv'
<1>1. PICK to \in {"told_ok", "fail", "told_failed"} :
        /\ pc' = [pc EXCEPT ![s][t] = to]
        /\ pc[s][t] \in {"update", "fail"}
        /\ to = "told_ok" => /\ pc[s][t] = "update"
                             /\ status' = [status EXCEPT ![t] = IF @ = Claimed THEN Done ELSE @]
        /\ to = "fail" => /\ pc[s][t] = "update"
                          /\ \/ status' = status
                             \/ status' = [status EXCEPT ![t] = IF @ = Claimed THEN Done ELSE @]
        /\ to = "told_failed" => status' = [status EXCEPT ![t] = IF @ = Claimed THEN Failed ELSE @]
        /\ UNCHANGED <<due, sent, notices, batch, mid>>
  BY DEF CompleteTask, CompleteFails, FailedTask, GoTo
<1>2. faults' \in 0..MaxFaults
  BY TaskAssumption DEF CompleteTask, CompleteFails, FailedTask, Fault, TaskInv, TaskTypeOK
<1>3. status \in [Tasks -> Absent..Failed]
  BY DEF TaskInv, TaskTypeOK
<1>4. /\ status[t] \in {Claimed, Done, Failed} /\ notices[t] = {}
      /\ sent[t] = {} \/ \E x \in Nat : sent[t] = {x}
      /\ pc[s][t] = "update" => sent[t] # {} /\ status[t] = Claimed
  BY <1>1, RunnerFinds
<1>5. /\ status' \in [Tasks -> Absent..Failed]
      /\ status'[t] \in {Claimed, Done, Failed}
      /\ to = "told_ok" => status'[t] = Done
      /\ \A u \in Tasks \ {t} : status'[u] = status[u]
  BY <1>1, <1>3, <1>4 DEF Absent, Claimed, Done, Failed
<1>6. TaskTypeOK'
  BY <1>1, <1>2, <1>5 DEF TaskInv, TaskTypeOK, Steps
<1>7. to \in Steps /\ sent' = sent /\ notices' = notices /\ pc[s][t] # "none"
  BY <1>1 DEF Steps
<1> QED BY <1>1, <1>4, <1>5, <1>6, <1>7, OneTaskStep

LEMMA NotifyStep ==
  ASSUME TaskInv, NEW s \in Scans, NEW t \in Tasks, Notify(s, t)
  PROVE  TaskInv'
<1>1. /\ pc' = [pc EXCEPT ![s][t] = "none"] /\ pc[s][t] \in {"notice_ok", "notice_failed"}
      /\ \/ notices' = notices
         \/ /\ pc[s][t] = "notice_ok"
            /\ notices' = [notices EXCEPT ![t] = @ \cup {"ok"}]
         \/ notices' = [notices EXCEPT ![t] = @ \cup {"failed"}]
      /\ UNCHANGED <<status, due, sent, batch, mid>>
  BY DEF Notify, GoTo
<1>2. faults' \in 0..MaxFaults
  BY TaskAssumption DEF Notify, NoFault, Fault, TaskInv, TaskTypeOK
<1>3. TaskTypeOK'
  BY <1>1, <1>2 DEF TaskInv, TaskTypeOK, Steps
<1>4. /\ status[t] \in {Claimed, Done, Failed} /\ notices[t] = {}
      /\ sent[t] = {} \/ \E x \in Nat : sent[t] = {x}
      /\ pc[s][t] = "notice_ok" => sent[t] # {} /\ status[t] = Done
  BY <1>1, RunnerFinds
<1>5. /\ notices'[t] \in {{}, {"ok"}, {"failed"}}
      /\ notices'[t] = {"ok"} => pc[s][t] = "notice_ok"
      /\ \A u \in Tasks \ {t} : notices'[u] = notices[u]
  BY <1>1, <1>4 DEF TaskInv, TaskTypeOK
<1>6. "ok" \in notices'[t] => sent'[t] # {} /\ status'[t] = Done /\ "failed" \notin notices'[t]
  BY <1>1, <1>4, <1>5
<1>7. "none" \in Steps /\ status' = status /\ sent' = sent /\ pc[s][t] # "none"
  BY <1>1 DEF Steps
<1> QED BY <1>1, <1>3, <1>4, <1>5, <1>6, <1>7, OneTaskStep

(* A crash takes goroutines away and leaves the rows. *)
LEMMA CrashStep ==
  ASSUME TaskInv, NEW m \in Machines, Crash(m)
  PROVE  TaskInv'
<1>1. /\ UNCHANGED <<status, due, sent, notices, mid>>
      /\ batch' = [s \in Scans |-> IF MachineOf[s] = m THEN {} ELSE batch[s]]
      /\ pc' = [s \in Scans |-> IF MachineOf[s] = m THEN [t \in Tasks |-> "none"] ELSE pc[s]]
  BY DEF Crash, rowVars
<1>2. faults' \in 0..MaxFaults
  BY TaskAssumption DEF Crash, Fault, TaskInv, TaskTypeOK
<1>3. TaskTypeOK'
  <2>1. pc' \in [Scans -> [Tasks -> Steps]] /\ batch' \in [Scans -> SUBSET Tasks]
    BY <1>1 DEF TaskInv, TaskTypeOK, Steps
  <2> QED BY <1>1, <1>2, <2>1 DEF TaskInv, TaskTypeOK
<1>4. \A s \in Scans, t \in Tasks : pc'[s][t] = "none" \/ pc'[s][t] = pc[s][t]
  BY <1>1
<1>5. ASSUME NEW u \in Tasks
      PROVE  RowKnows(u)' /\ OneRunner(u)' /\ \A s \in Scans : RunnerKnows(s, u)'
  <2>1. RowKnows(u) /\ OneRunner(u) /\ \A s \in Scans : RunnerKnows(s, u)
    BY DEF TaskInv
  <2>2. RowKnows(u)'
    BY <1>1, <1>4, <2>1 DEF RowKnows, Untouched
  <2>3. OneRunner(u)'
    BY <1>4, <2>1 DEF OneRunner
  <2>4. \A s \in Scans : RunnerKnows(s, u)'
    BY <1>1, <1>4, <2>1 DEF RunnerKnows
  <2> QED BY <2>2, <2>3, <2>4
<1> QED BY <1>3, <1>5 DEF TaskInv

LEMMA TaskInvStep ==
  ASSUME TaskInv, FlakeTypeOK, FlakeTypeOK', [TaskNext]_allTaskVars
  PROVE  TaskInv'
<1>1. CASE UNCHANGED allTaskVars \/ UNCHANGED taskVars
  <2>1. UNCHANGED <<status, due, sent, notices, batch, pc, mid, faults>>
    BY <1>1 DEF allTaskVars, taskVars, rowVars
  <2> QED BY <2>1, IdleStep DEF TaskInv, TaskTypeOK
<1>2. CASE \E t \in Tasks : CreateScheduledMessage(t) \/ BecomesDue(t)
  BY <1>2, NewAndDueStep
<1>3. CASE \E s \in Scans : Fetch(s)
  BY <1>3, FetchStep
<1>4. CASE \E s \in Scans, t \in Tasks :
             \/ ClaimTask(s, t) \/ ClaimFails(s, t)
             \/ SendStep(s, t) \/ InsertFails(s, t) \/ CompleteFails(s, t)
  BY <1>4, ClaimStep, DrawStep, InsertStep, CompleteStep, NotifyStep DEF SendStep
<1>5. CASE \E m \in Machines : Crash(m)
  BY <1>5, CrashStep
<1> QED BY <1>1, <1>2, <1>3, <1>4, <1>5 DEF TaskNext

-----------------------------------------------------------------------------
LEMMA TaskInvHolds == TaskSpec => [](TaskInv /\ FlakeInv)
<1>1. TaskInit => TaskInv /\ FlakeInv
  BY TaskInvInit, FlakeInvInit DEF TaskInit
<1>2. TaskInv /\ FlakeInv /\ [TaskNext]_allTaskVars => TaskInv' /\ FlakeInv'
  <2> SUFFICES ASSUME TaskInv, FlakeInv, [TaskNext]_allTaskVars
               PROVE  TaskInv' /\ FlakeInv'
    OBVIOUS
  <2>1. FlakeInv'
    BY TaskFlakeStep, FlakeInvStep
  <2>2. FlakeTypeOK /\ FlakeTypeOK'
    BY <2>1 DEF FlakeInv
  <2> QED BY <2>1, <2>2, TaskInvStep
<1> QED BY <1>1, <1>2, PTL DEF TaskSpec

(* The state of tasks and goroutines keeps its types. *)
THEOREM TaskTypeCorrect == TaskSpec => []TaskTypeOK
<1>1. TaskInv => TaskTypeOK
  BY DEF TaskInv
<1> QED BY <1>1, TaskInvHolds, PTL

(* Message ids stay unique under the agent's use of the generators: drawing *)
(* goroutines, clocks that are set back, crashes of the process.            *)
THEOREM TaskUniqueIds == TaskSpec => []UniqueIds
BY TaskInvHolds, FlakeInvGivesUnique, PTL

(* The ids a process draws increase, across crashes too. *)
THEOREM TaskIdsIncrease == TaskSpec => []IdsIncrease
BY TaskInvHolds, FlakeInvGivesIncrease, PTL

(* A task's message is inserted at most once, however many processes and    *)
(* overlapping scans fetch the task and whatever fails.                     *)
THEOREM TaskSentAtMostOnce == TaskSpec => []SentAtMostOnce
<1>1. TaskInv => SentAtMostOnce
  <2> SUFFICES ASSUME TaskInv, NEW t \in Tasks PROVE Cardinality(sent[t]) <= 1
    BY DEF SentAtMostOnce
  <2>1. sent[t] = {} \/ \E x \in Nat : sent[t] = {x}
    BY DEF TaskInv, RowKnows
  <2>2. Cardinality(sent[t]) = 0 \/ Cardinality(sent[t]) = 1
    BY <2>1, FS_EmptySet, FS_Singleton, Zenon
  <2> QED BY <2>2
<1> QED BY <1>1, TaskInvHolds, PTL

(* The creator is told of a success only when message and task are stored,  *)
(* and never of both a success and a failure.                               *)
THEOREM TaskSuccessIsTrue == TaskSpec => []SuccessIsTrue
<1>1. TaskInv => SuccessIsTrue
  BY DEF TaskInv, RowKnows, SuccessIsTrue
<1> QED BY <1>1, TaskInvHolds, PTL

-----------------------------------------------------------------------------
(* For ClaimedIsHandled: a goroutine only leaves a task, and only comes to  *)
(* its last steps, when the task is no longer claimed; as long as nothing   *)
(* fails, nothing else takes a goroutine away.                              *)
Handled(t) ==
  /\ \A s \in Scans : pc[s][t] \in {"told_failed", "notice_failed"} => status[t] # Claimed
  /\ status[t] = Claimed /\ faults = 0 => \E s \in Scans : pc[s][t] # "none"
HandledInv == \A t \in Tasks : Handled(t)

(* A step that leaves the task and its goroutines alone. *)
LEMMA HandledElsewhere ==
  ASSUME NEW u \in Tasks, Handled(u), status'[u] = status[u], faults' = 0 => faults = 0,
         \A s \in Scans : pc'[s][u] = pc[s][u]
  PROVE  Handled(u)'
BY DEF Handled, Claimed

(* A step of the one goroutine that is at work on a task, or comes to be. *)
LEMMA HandledByOne ==
  ASSUME TaskInv, HandledInv, NEW s \in Scans, NEW t \in Tasks, NEW to \in Steps,
         \A u \in Tasks \ {t} : status'[u] = status[u],
         faults' = 0 => faults = 0,
         pc' = [pc EXCEPT ![s][t] = to],
         pc[s][t] # "none" \/ status[t] = Pending,
         to \in {"told_failed", "notice_failed"} => status'[t] # Claimed,
         status'[t] = Claimed /\ faults' = 0 => to # "none"
  PROVE  HandledInv'
<1>1. /\ pc'[s][t] = to
      /\ \A r \in Scans, u \in Tasks : r # s \/ u # t => pc'[r][u] = pc[r][u]
  BY DEF TaskInv, TaskTypeOK
<1>2. \A r \in Scans : r # s => pc'[r][t] = "none"
  BY <1>1 DEF TaskInv, OneRunner, RowKnows, Untouched
<1>3. Handled(t)'
  <2>1. \A r \in Scans : pc'[r][t] \in {"told_failed", "notice_failed"} => status'[t] # Claimed
    BY <1>1, <1>2
  <2> QED BY <1>1, <2>1 DEF Handled, Claimed
<1>4. ASSUME NEW u \in Tasks, u # t PROVE Handled(u)'
  BY <1>1, <1>4, HandledElsewhere DEF HandledInv
<1> QED BY <1>3, <1>4 DEF HandledInv

LEMMA HandledSend ==
  ASSUME TaskInv, HandledInv, NEW s \in Scans, NEW t \in Tasks,
         SendStep(s, t) \/ InsertFails(s, t) \/ CompleteFails(s, t)
  PROVE  HandledInv'
<1>1. /\ status \in [Tasks -> Absent..Failed] /\ faults \in Nat
      /\ \A r \in Scans : pc[r][t] \in {"told_failed", "notice_failed"} => status[t] # Claimed
  BY TaskAssumption DEF TaskInv, TaskTypeOK, HandledInv, Handled
<1>2. faults' = 0 => faults = 0
  BY <1>1 DEF SendStep, DrawId, InsertMessage, InsertFails, CompleteTask, CompleteFails, FailedTask,
     Notify, Fault, NoFault
<1>3. \A u \in Tasks \ {t} : status'[u] = status[u]
  BY <1>1 DEF SendStep, DrawId, InsertMessage, InsertFails, CompleteTask, CompleteFails, FailedTask,
     Notify, rowVars
<1>4. CASE DrawId(s, t)
  <2>1. PICK to \in {"insert", "notice_ok", "notice_failed"} :
          /\ pc' = [pc EXCEPT ![s][t] = to] /\ pc[s][t] # "none"
          /\ to = "notice_failed" => pc[s][t] = "told_failed"
    BY <1>4 DEF DrawId, GoTo
  <2>2. status' = status /\ to \in Steps
    BY <1>4 DEF DrawId, rowVars, Steps
  <2> QED BY <1>1, <1>2, <2>1, <2>2, HandledByOne
<1>5. CASE InsertMessage(s, t) \/ InsertFails(s, t) \/ CompleteTask(s, t) \/ CompleteFails(s, t)
  <2>1. PICK to \in {"update", "fail", "told_ok"} :
          pc' = [pc EXCEPT ![s][t] = to] /\ pc[s][t] # "none"
    BY <1>5 DEF InsertMessage, InsertFails, CompleteTask, CompleteFails, GoTo
  <2>2. to \in Steps
    BY DEF Steps
  <2> QED BY <1>2, <1>3, <2>1, <2>2, HandledByOne
<1>6. CASE FailedTask(s, t)
  <2>1. /\ pc' = [pc EXCEPT ![s][t] = "told_failed"] /\ pc[s][t] # "none"
        /\ "told_failed" \in Steps
    BY <1>6 DEF FailedTask, GoTo, Steps
  <2>2. status'[t] # Claimed
    BY <1>1, <1>6 DEF FailedTask, Claimed, Failed
  <2> QED BY <1>2, <1>3, <2>1, <2>2, HandledByOne
<1>7. CASE Notify(s, t)
  <2>1. /\ pc' = [pc EXCEPT ![s][t] = "none"] /\ pc[s][t] \in {"notice_ok", "notice_failed"}
        /\ "none" \in Steps /\ status' = status
    BY <1>7 DEF Notify, GoTo, Steps
  <2>2. status[t] # Claimed
    BY <1>1, <2>1, RunnerFinds DEF Claimed, Done
  <2> QED BY <1>2, <1>3, <2>1, <2>2, HandledByOne
<1> QED BY <1>4, <1>5, <1>6, <1>7 DEF SendStep

LEMMA HandledStep ==
  ASSUME TaskInv, HandledInv, [TaskNext]_allTaskVars
  PROVE  HandledInv'
<1>0. faults \in Nat /\ status \in [Tasks -> Absent..Failed] /\ pc \in [Scans -> [Tasks -> Steps]]
  BY TaskAssumption DEF TaskInv, TaskTypeOK
<1>1. CASE UNCHANGED <<status, pc, faults>>
  BY <1>1, HandledElsewhere DEF HandledInv
<1>2. ASSUME NEW t \in Tasks, CreateScheduledMessage(t) PROVE HandledInv'
  <2> SUFFICES ASSUME NEW u \in Tasks PROVE Handled(u)'
    BY DEF HandledInv
  <2>1. UNCHANGED <<pc, faults>> /\ (status'[u] = status[u] \/ status'[u] = Pending)
    BY <1>0, <1>2 DEF CreateScheduledMessage
  <2> QED BY <2>1 DEF HandledInv, Handled, Claimed, Pending
<1>3. ASSUME NEW s \in Scans, NEW t \in Tasks, ClaimTask(s, t) PROVE HandledInv'
  <2>1. CASE status[t] = Pending
    <3>1. /\ pc' = [pc EXCEPT ![s][t] = "draw"] /\ UNCHANGED faults /\ "draw" \in Steps
          /\ \A u \in Tasks \ {t} : status'[u] = status[u]
      BY <1>0, <1>3, <2>1 DEF ClaimTask, Steps
    <3> QED BY <2>1, <3>1, HandledByOne
  <2>2. CASE status[t] # Pending
    BY <1>1, <1>3, <2>2 DEF ClaimTask
  <2> QED BY <2>1, <2>2
<1>4. ASSUME NEW s \in Scans, NEW t \in Tasks, ClaimFails(s, t) PROVE HandledInv'
  <2>1. faults' # 0 /\ UNCHANGED pc
    BY <1>0, <1>4 DEF ClaimFails, Fault
  <2>2. \A u \in Tasks : status'[u] = Claimed => status[u] = Claimed \/ status[u] = Pending
    BY <1>0, <1>4 DEF ClaimFails
  <2> SUFFICES ASSUME NEW u \in Tasks PROVE Handled(u)'
    BY DEF HandledInv
  <2>3. status[u] = Pending => \A r \in Scans : pc[r][u] = "none"
    BY DEF TaskInv, RowKnows, Untouched
  <2> QED BY <2>1, <2>2, <2>3 DEF HandledInv, Handled, Claimed
<1>5. ASSUME NEW m \in Machines, Crash(m) PROVE HandledInv'
  <2>1. faults' # 0 /\ UNCHANGED status
    BY <1>0, <1>5 DEF Crash, Fault, rowVars
  <2>2. \A r \in Scans, u \in Tasks : pc'[r][u] = "none" \/ pc'[r][u] = pc[r][u]
    BY <1>5 DEF Crash
  <2> SUFFICES ASSUME NEW u \in Tasks PROVE Handled(u)'
    BY DEF HandledInv
  <2> QED BY <2>1, <2>2 DEF HandledInv, Handled, Claimed
<1>6. CASE \/ \E t \in Tasks : BecomesDue(t)
           \/ \E s \in Scans : Fetch(s)
           \/ UNCHANGED taskVars \/ UNCHANGED allTaskVars
  BY <1>1, <1>6 DEF BecomesDue, Fetch, rowVars, taskVars, allTaskVars
<1> QED BY <1>2, <1>3, <1>4, <1>5, <1>6, HandledSend DEF TaskNext

(* As long as nothing fails, exactly one goroutine is at work on a claimed  *)
(* task, for any number of processes and overlapping scans.                 *)
THEOREM TaskClaimedIsHandled == TaskSpec => []ClaimedIsHandled
<1>1. TaskInit => HandledInv
  BY DEF TaskInit, HandledInv, Handled, Absent, Claimed
<1>2. TaskInv /\ HandledInv => ClaimedIsHandled
  <2> SUFFICES ASSUME TaskInv, HandledInv, NEW t \in Tasks, status[t] = Claimed, faults = 0
               PROVE  Cardinality(Running(t)) = 1
    BY DEF ClaimedIsHandled
  <2>1. PICK s \in Scans : pc[s][t] # "none"
    BY DEF HandledInv, Handled
  <2>2. Running(t) = {s}
    BY <2>1 DEF Running, TaskInv, OneRunner
  <2> QED BY <2>2, FS_Singleton, Zenon
<1> QED BY <1>1, <1>2, TaskInvHolds, HandledStep, PTL DEF TaskSpec
=============================================================================

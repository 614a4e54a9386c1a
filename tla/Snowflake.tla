------------------------------ MODULE Snowflake ------------------------------
(***************************************************************************)
(* Message ids (pkg/utils/snowflake.go).  Every process has one generator, *)
(* whose mutex lets one caller at a time through Generate.  An id packs    *)
(* the millisecond, the process's node number and a sequence number within *)
(* the millisecond.  The generator waits when the clock is behind the last *)
(* id's millisecond and when the sequence numbers of it are used up.       *)
(***************************************************************************)
EXTENDS Integers, Sequences

CONSTANTS
  Machines,     \* processes with a generator
  NodeOf,       \* [Machines -> node numbers], from the configuration
  MaxSeq,       \* mask of the sequence number, 0xFFF in the code
  MaxTime       \* bound: the last millisecond of a behaviour

(* Sizes of the node number (10 bits) and of the sequence number (12 bits). *)
NodeSpan == 1024
SeqSpan == 4096

(* No two processes have the same node number.  config.go:29 asks for it of *)
(* the gateway and Logic; of several processes of one kind it is assumed,   *)
(* as that their configurations differ.                                     *)
ASSUME NodeAssumption ==
  /\ NodeOf \in [Machines -> 0..NodeSpan - 1]
  /\ \A m, n \in Machines : NodeOf[m] = NodeOf[n] => m = n
  /\ MaxSeq \in 0..SeqSpan - 1
  /\ MaxTime \in Nat \ {0}

VARIABLES
  clock,      \* time.Now().UnixMilli() of a machine
  last,       \* lastTimestamp
  sequence,   \* sequence
  waiting,    \* a caller holds the mutex and sleeps until the clock is past last
  retired,    \* the last millisecond used before the process was restarted
  issued      \* the ids a machine has drawn, in order

flakeVars == <<clock, last, sequence, waiting, retired, issued>>

(* Slip: the node number is shifted into the sequence's bits. *)
PackOverlapping(t, m, s) == t * NodeSpan * SeqSpan + NodeOf[m] + s

(* (current << 22) | (nodeID << 12) | sequence *)
Pack(t, m, s) == (t * NodeSpan + NodeOf[m]) * SeqSpan + s

FlakeTypeOK ==
  /\ clock \in [Machines -> 1..MaxTime]
  /\ last \in [Machines -> Nat]
  /\ sequence \in [Machines -> 0..MaxSeq]
  /\ waiting \in [Machines -> BOOLEAN]
  /\ retired \in [Machines -> Nat]
  /\ issued \in [Machines -> Seq(Nat)]

FlakeInit ==
  /\ clock = [m \in Machines |-> 1]
  /\ last = [m \in Machines |-> 0]
  /\ sequence = [m \in Machines |-> 0]
  /\ waiting = [m \in Machines |-> FALSE]
  /\ retired = [m \in Machines |-> 0]
  /\ issued = [m \in Machines |-> <<>>]

-----------------------------------------------------------------------------
(* Time passes, or the clock is set back.  A process that has drawn no id    *)
(* yet remembers none: its clock is assumed to stay past the ids drawn      *)
(* before it was restarted.                                                 *)
Tick(m) ==
  /\ clock[m] < MaxTime
  /\ clock' = [clock EXCEPT ![m] = @ + 1]
  /\ UNCHANGED <<last, sequence, waiting, retired, issued>>

SetBack(m) ==
  /\ clock[m] > 1
  /\ last[m] = 0 => clock[m] - 1 > retired[m]
  /\ clock' = [clock EXCEPT ![m] = @ - 1]
  /\ UNCHANGED <<last, sequence, waiting, retired, issued>>

Emit(m, t, s) ==
  /\ last' = [last EXCEPT ![m] = t]
  /\ sequence' = [sequence EXCEPT ![m] = s]
  /\ issued' = [issued EXCEPT ![m] = Append(@, Pack(t, m, s))]
  /\ UNCHANGED <<clock, retired>>

(* Slip: any other millisecond starts a new sequence. *)
FirstOfAnyMilli(m) ==
  /\ clock[m] # last[m]
  /\ Emit(m, clock[m], 0)
  /\ waiting' = [waiting EXCEPT ![m] = FALSE]

(* A later millisecond: the sequence starts again. *)
FirstOfMilli(m) ==
  /\ clock[m] > last[m]
  /\ Emit(m, clock[m], 0)
  /\ waiting' = [waiting EXCEPT ![m] = FALSE]

(* The same millisecond, at the first look at the clock. *)
SameMilli(m) ==
  /\ ~waiting[m]
  /\ clock[m] = last[m]
  /\ sequence[m] < MaxSeq
  /\ Emit(m, clock[m], sequence[m] + 1)
  /\ UNCHANGED waiting

Generate(m) == FirstOfMilli(m) \/ SameMilli(m)

(* The clock is behind, or the sequence wraps to 0: sleep. *)
Wait(m) ==
  /\ ~waiting[m]
  /\ \/ /\ clock[m] < last[m]
        /\ UNCHANGED sequence
     \/ /\ clock[m] = last[m]
        /\ sequence[m] = MaxSeq
        /\ sequence' = [sequence EXCEPT ![m] = 0]
  /\ waiting' = [waiting EXCEPT ![m] = TRUE]
  /\ UNCHANGED <<clock, last, retired, issued>>

(* The process is started again: InitSnowflake, with a clock that is past   *)
(* the last id it drew before.                                              *)
Restart(m) ==
  /\ clock[m] > last[m]
  /\ retired' = [retired EXCEPT ![m] = IF last[m] > 0 THEN last[m] ELSE @]
  /\ last' = [last EXCEPT ![m] = 0]
  /\ sequence' = [sequence EXCEPT ![m] = 0]
  /\ waiting' = [waiting EXCEPT ![m] = FALSE]
  /\ UNCHANGED <<clock, issued>>

FlakeNext == \E m \in Machines :
  Tick(m) \/ SetBack(m) \/ Generate(m) \/ Wait(m) \/ Restart(m)

FlakeSpec == FlakeInit /\ [][FlakeNext]_flakeVars

-----------------------------------------------------------------------------
(* No id is drawn twice, on one machine or on two, whatever the clocks do   *)
(* (snowflake.go:57, "generates a unique ID").                              *)
UniqueIds == \A m, n \in Machines :
  \A i \in DOMAIN issued[m], j \in DOMAIN issued[n] :
    issued[m][i] = issued[n][j] => m = n /\ i = j

(* A machine's ids increase, across a clock set back and a wrap of the      *)
(* sequence: messages of one gateway sort by id in the order drawn.         *)
IdsIncrease == \A m \in Machines : \A i, j \in DOMAIN issued[m] :
  i < j => issued[m][i] < issued[m][j]
=============================================================================

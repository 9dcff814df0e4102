--------------------------- MODULE KafkaConsumerProofs ---------------------------
(***************************************************************************)
(* The end-of-partition counter of the Kafka consumer, for every set of      *)
(* partitions and every length of their logs.                                *)
(***************************************************************************)
EXTENDS KafkaConsumer, FiniteSetTheorems, TLAPS

\* Plain types, and the partitions: an assigned partition is counted, and a
\* partition at its end is assigned.
Types == /\ run \in BOOLEAN /\ busy \in BOOLEAN /\ announced \in BOOLEAN
         /\ phase \in {"loop", "close", "done", "killed"}
         /\ eof_cnt \in Nat /\ count \in Nat /\ partition_cnt \in Nat
         /\ atEof \subseteq assigned /\ assigned \subseteq Partitions
         /\ phase # "loop" => ~run /\ ~busy

\* The rounds: one that is under way or still to come is the twelfth at the latest,
\* and it counts one event at most.
Rounds == /\ eof_cnt <= count /\ count <= 12
          /\ run \/ busy => count <= 11

\* The counters: while the program runs on, an event is missing.
Counters == /\ Cardinality(assigned) <= partition_cnt
            /\ Cardinality(atEof) <= eof_cnt
            /\ partition_cnt <= Cardinality(Partitions)
            /\ eof_cnt <= partition_cnt
            /\ run \/ busy => partition_cnt = 0 \/ eof_cnt < partition_cnt

Inv == Types /\ Rounds /\ Counters

\* Cardinalities of sets of partitions are numbers.
LEMMA Counting ==
  /\ Cardinality({}) = 0 /\ Cardinality(Partitions) \in Nat
  /\ \A S \in SUBSET Partitions :
       /\ IsFiniteSet(S) /\ Cardinality(S) \in Nat /\ Cardinality(S) <= Cardinality(Partitions)
       /\ Cardinality(S) = 0 <=> S = {}
       /\ \A T \in SUBSET S : /\ Cardinality(T) <= Cardinality(S)
                              /\ Cardinality(T) = Cardinality(S) => T = S
<1>1. IsFiniteSet(Partitions)
  BY KafkaAssumption
<1>2. Cardinality({}) = 0 /\ Cardinality(Partitions) \in Nat
  BY <1>1, FS_EmptySet, FS_CardinalityType
<1>3. ASSUME NEW S \in SUBSET Partitions
      PROVE  /\ IsFiniteSet(S) /\ Cardinality(S) \in Nat
             /\ Cardinality(S) <= Cardinality(Partitions)
             /\ Cardinality(S) = 0 <=> S = {}
             /\ \A T \in SUBSET S : /\ Cardinality(T) <= Cardinality(S)
                                    /\ Cardinality(T) = Cardinality(S) => T = S
  <2>1. IsFiniteSet(S) /\ Cardinality(S) <= Cardinality(Partitions)
    BY <1>1, FS_Subset
  <2>2. Cardinality(S) \in Nat /\ (Cardinality(S) = 0 <=> S = {})
    BY <2>1, FS_EmptySet, FS_CardinalityType
  <2>3. \A T \in SUBSET S : /\ Cardinality(T) <= Cardinality(S)
                            /\ Cardinality(T) = Cardinality(S) => T = S
    BY <2>1, FS_Subset
  <2> QED
    BY <2>1, <2>2, <2>3
<1> QED
  BY <1>2, <1>3

\* The end of a round (kafka-test-1.cpp:284-289).
LEMMA AgainRounds ==
  ASSUME Inv, busy, NEW go \in BOOLEAN, Again(go)
  PROVE  /\ run' \in BOOLEAN /\ busy' = FALSE /\ phase = "loop"
         /\ run' => run /\ go /\ count' <= 11
         /\ count' = count + 1 /\ count' \in Nat /\ count' <= 12
<1>1. run' \in BOOLEAN /\ busy' = FALSE /\ phase = "loop"
  BY DEF Inv, Types, Again
<1>2. run' => run /\ go /\ ~(count > 10)
  BY DEF Again
<1>3. count' = count + 1 /\ count \in Nat /\ count <= 11
  BY DEF Inv, Types, Rounds, Again
<1>4. ~(count > 10) => count' <= 11
  BY <1>3
<1> QED
  BY <1>1, <1>2, <1>3, <1>4

\* A round that leaves the counters alone.
LEMMA IdleRound ==
  ASSUME Inv, busy, NEW go \in BOOLEAN, Again(go),
         UNCHANGED <<eof_cnt, partition_cnt, phase, assigned, announced>>,
         atEof' \subseteq atEof
  PROVE  Inv'
<1>1. Types'
  <2>1. run' \in BOOLEAN /\ busy' = FALSE /\ phase = "loop" /\ count' \in Nat
    BY AgainRounds
  <2> QED
    BY <2>1 DEF Inv, Types
<1>2. Rounds'
  <2>1. eof_cnt <= count /\ eof_cnt \in Nat /\ count \in Nat
    BY DEF Inv, Types, Rounds
  <2>2. count' = count + 1 /\ count' <= 12
    BY AgainRounds
  <2>3. eof_cnt' <= count'
    BY <2>1, <2>2
  <2>4. run' \/ busy' => count' <= 11
    BY AgainRounds
  <2> QED
    BY <2>2, <2>3, <2>4 DEF Rounds
<1>3. Counters'
  <2>1. Cardinality(atEof') <= Cardinality(atEof) /\ Cardinality(atEof) \in Nat
        /\ Cardinality(atEof') \in Nat
    BY Counting DEF Inv, Types
  <2> QED
    BY <2>1, AgainRounds DEF Inv, Types, Counters
<1> QED
  BY <1>1, <1>2, <1>3 DEF Inv

\* An event of a partition that was not at its end (kafka-test-1.cpp:139-145).
LEMMA EofRound ==
  ASSUME Inv, NEW p \in Partitions, PartitionEof(p)
  PROVE  Inv'
<1> DEFINE all == eof_cnt + 1 = partition_cnt
<1>1. /\ busy /\ p \in assigned /\ p \notin atEof /\ atEof' = atEof \cup {p}
      /\ eof_cnt' = eof_cnt + 1 /\ announced' = (announced \/ all) /\ Again(~all)
      /\ UNCHANGED <<partition_cnt, phase, assigned>>
  BY DEF PartitionEof
<1>2. /\ run' \in BOOLEAN /\ busy' = FALSE /\ phase = "loop"
      /\ run' => ~all /\ count' <= 11
      /\ count' = count + 1 /\ count' \in Nat /\ count' <= 12
  BY <1>1, AgainRounds
<1>3. Types'
  <2>1. announced' \in BOOLEAN
    BY <1>1 DEF Inv, Types
  <2>2. eof_cnt' \in Nat
    BY <1>1 DEF Inv, Types
  <2> QED
    BY <1>1, <1>2, <2>1, <2>2 DEF Inv, Types
<1>4. Rounds'
  BY <1>1, <1>2 DEF Inv, Types, Rounds
<1>5. Counters'
  <2>1. Cardinality(atEof') = Cardinality(atEof) + 1 /\ Cardinality(atEof) \in Nat
    BY <1>1, Counting, FS_AddElement DEF Inv, Types
  <2>2. Cardinality(assigned) \in Nat /\ Cardinality(assigned) # 0
    BY <1>1, Counting DEF Inv, Types
  <2>3. eof_cnt < partition_cnt
    BY <1>1, <2>2 DEF Inv, Types, Counters
  <2> QED
    BY <1>1, <1>2, <2>1, <2>3, Counting DEF Inv, Types, Counters
<1> QED
  BY <1>3, <1>4, <1>5 DEF Inv

\* Every step keeps the invariant.
LEMMA NextInv == Inv /\ [Next]_vars => Inv'
<1> SUFFICES ASSUME Inv, [Next]_vars PROVE Inv'
  OBVIOUS
<1> USE DEF kafka
<1>1. CASE Begin
  BY <1>1 DEF Begin, Inv, Types, Rounds, Counters
<1>2. CASE Consume
  <2>1. CASE TimedOut
    BY <2>1, IdleRound DEF TimedOut
  <2>2. CASE ConsumeError
    BY <2>2, IdleRound DEF ConsumeError
  <2>3. ASSUME NEW p \in Partitions, Message(p) PROVE Inv'
    BY <2>3, IdleRound DEF Message
  <2> QED
    BY <1>2, <2>1, <2>2, <2>3, EofRound DEF Consume
<1>3. CASE Unassign
  BY <1>3, Counting DEF Unassign, Inv, Types, Rounds, Counters
<1>4. CASE Sigterm
  BY <1>4 DEF Sigterm, Inv, Types, Rounds, Counters
<1>5. CASE Stop
  BY <1>5 DEF Stop, Inv, Types, Rounds, Counters
<1>6. CASE Close
  BY <1>6, Counting DEF Close, Inv, Types, Rounds, Counters
<1>7. CASE Alarm
  BY <1>7 DEF Alarm, Inv, Types, Rounds, Counters
<1>8. ASSUME NEW p \in Partitions, Produce(p) PROVE Inv'
  BY <1>8 DEF Produce, Inv, Types, Rounds, Counters
<1>9. ASSUME NEW ps \in SUBSET Partitions, NEW ok \in BOOLEAN, Assign(ps, ok)
      PROVE  Inv'
  <2>1. Cardinality(ps) \in Nat /\ Cardinality(ps) <= Cardinality(Partitions)
    BY Counting
  <2>2. /\ assigned' \in {ps, {}} /\ atEof' = {} /\ eof_cnt' = 0
        /\ partition_cnt' = Cardinality(ps) /\ busy
        /\ UNCHANGED <<run, busy, count, phase, announced>>
    BY <1>9, <2>1 DEF Assign
  <2>3. Types'
    BY <2>1, <2>2 DEF Inv, Types
  <2>4. Rounds'
    BY <2>2 DEF Inv, Types, Rounds
  <2>5. Counters'
    BY <2>1, <2>2, Counting DEF Inv, Types, Counters
  <2> QED
    BY <2>3, <2>4, <2>5 DEF Inv
<1>10. CASE UNCHANGED vars
  BY <1>10 DEF vars, Inv, Types, Rounds, Counters
<1> QED
  BY <1>1, <1>2, <1>3, <1>4, <1>5, <1>6, <1>7, <1>8, <1>9, <1>10 DEF Next

\* The invariant holds in every state of the consumer.
LEMMA InvHolds == Spec => []Inv
<1>1. Init => Inv
  <2> SUFFICES ASSUME Init PROVE Inv
    OBVIOUS
  <2>1. Types
    BY DEF Init, Types
  <2>2. Rounds
    BY DEF Init, Rounds
  <2>3. Counters
    BY Counting DEF Init, Counters
  <2> QED
    BY <2>1, <2>2, <2>3 DEF Inv
<1> QED
  BY <1>1, NextInv, PTL DEF Spec

\* The program's counters stay in their ranges: at most twelve rounds, at most
\* as many partitions as the topic has (kafka-test-1.cpp:97, 140, 284-289).
THEOREM ConsumerTypeCorrect == Spec => []TypeOK
<1>1. Inv => TypeOK
  BY Counting DEF Inv, Types, Rounds, Counters, TypeOK
<1> QED
  BY <1>1, InvHolds, PTL

\* The event counter never passes the number of partitions, whatever the group
\* takes away and gives back (kafka-test-1.cpp:97-106, 140).
THEOREM EofBounded == Spec => []EofNeverOvershoots
<1>1. Inv => EofNeverOvershoots
  BY DEF Inv, Counters, EofNeverOvershoots
<1> QED
  BY <1>1, InvHolds, PTL

\* A consumer whose partitions are all at their end is not asked for another
\* round (kafka-test-1.cpp:140-145).
THEOREM EofStops == Spec => []AllEofStops
<1>1. Inv => AllEofStops
  <2> SUFFICES ASSUME Inv, assigned # {}, Cardinality(assigned) = partition_cnt,
                      atEof = assigned, run
               PROVE  FALSE
    BY DEF AllEofStops, Inv, Types
  <2>1. Cardinality(assigned) \in Nat /\ Cardinality(assigned) # 0
    BY Counting DEF Inv, Types
  <2> QED
    BY <2>1 DEF Inv, Types, Counters
<1> QED
  BY <1>1, InvHolds, PTL
=============================================================================

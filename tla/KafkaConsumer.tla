------------------------------ MODULE KafkaConsumer ------------------------------
(***************************************************************************)
(* The consumer of test-debug/kafka-test/kafka-test-1.cpp: a loop of consume *)
(* and msg_consume that ends on a signal, an error, after a number of calls, *)
(* or when the end-of-partition events counted since the last rebalance are  *)
(* as many as the partitions it was given.  rebalance_cb runs inside consume. *)
(*                                                                          *)
(* librdkafka and the brokers are external, modelled from their use: consume  *)
(* returns a message of an assigned partition, the event that one has no more *)
(* messages (once, until it gets another), an error, or nothing; the group    *)
(* takes partitions away all at once and gives them anew.                     *)
(***************************************************************************)
EXTENDS Integers, FiniteSets

CONSTANTS Partitions,   \* partitions of the topic
          MaxLog        \* messages of one partition

ASSUME KafkaAssumption == IsFiniteSet(Partitions) /\ MaxLog \in Nat

VARIABLES run, eof_cnt, partition_cnt, \* the program's globals
          busy,        \* inside a round of the loop
          count,       \* rounds
          phase,       \* "loop", "close", "done"; "killed" by the alarm
          assigned,    \* partitions librdkafka reads for this consumer
          log, pos,    \* messages of each partition, and those read
          atEof,       \* partitions whose end was reported since their last message
          announced    \* "EOF reached for all ... partition(s)" was printed

vars == <<run, eof_cnt, partition_cnt, busy, count, phase, assigned, log, pos, atEof, announced>>
kafka == <<assigned, log, pos, atEof>>

Init == /\ run = TRUE /\ eof_cnt = 0 /\ partition_cnt = 0 /\ busy = FALSE /\ count = 0
        /\ phase = "loop" /\ announced = FALSE
        /\ assigned = {} /\ atEof = {}
        /\ log \in [Partitions -> 0 .. 1] /\ pos = [p \in Partitions |-> 0]

\* while (run)
Begin == /\ phase = "loop" /\ run /\ ~busy
         /\ busy' = TRUE
         /\ UNCHANGED <<run, eof_cnt, partition_cnt, count, phase, announced>> /\ UNCHANGED kafka
-----------------------------------------------------------------------------
\* rebalance_cb with partitions given (none, if the group has more members than
\* partitions); assign may fail, they are counted anyway.
Assign(ps, ok) ==
  /\ busy /\ assigned = {} /\ partition_cnt = 0
  /\ assigned' = IF ok THEN ps ELSE {}
  /\ partition_cnt' = partition_cnt + Cardinality(ps)
  /\ eof_cnt' = 0
  /\ atEof' = {}
  /\ UNCHANGED <<run, busy, count, phase, log, pos, announced>>

\* Faulty variant: the events of the partitions taken away stay counted.
Unassign_kept ==
  /\ busy /\ partition_cnt > 0
  /\ assigned' = {} /\ atEof' = {}
  /\ partition_cnt' = 0
  /\ \E new \in [Partitions -> 0 .. MaxLog] :
       /\ \A p \in Partitions : IF p \in assigned THEN new[p] = pos[p] ELSE new[p] \in pos[p] .. log[p]
       /\ pos' = new
  /\ UNCHANGED <<run, eof_cnt, busy, count, phase, log, announced>>
\* rebalance_cb with partitions taken away.  Others may have read some meanwhile.
Unassign ==
  /\ busy /\ partition_cnt > 0
  /\ assigned' = {} /\ atEof' = {}
  /\ partition_cnt' = 0
  /\ eof_cnt' = 0
  /\ \E new \in [Partitions -> 0 .. MaxLog] :
       /\ \A p \in Partitions : IF p \in assigned THEN new[p] = pos[p] ELSE new[p] \in pos[p] .. log[p]
       /\ pos' = new
  /\ UNCHANGED <<run, busy, count, phase, log, announced>>

Produce(p) == /\ phase = "loop" /\ log[p] < MaxLog
              /\ log' = [log EXCEPT ![p] = @ + 1]
              /\ UNCHANGED <<run, eof_cnt, partition_cnt, busy, count, phase, assigned, pos, atEof, announced>>

Sigterm == /\ phase = "loop" /\ run
           /\ run' = FALSE
           /\ UNCHANGED <<eof_cnt, partition_cnt, busy, count, phase, announced>> /\ UNCHANGED kafka
-----------------------------------------------------------------------------
\* Faulty variants: the rounds are not counted, or one more is made.
Again_uncounted(go) == /\ run' = (run /\ go /\ ~(count > 10))
                       /\ count' = count
                       /\ busy' = FALSE
Again_more(go) == /\ run' = (run /\ go /\ ~(count > 11))
                  /\ count' = count + 1
                  /\ busy' = FALSE
\* The end of a round: if (count++ > 10) run = 0.
Again(go) == /\ run' = (run /\ go /\ ~(count > 10))
             /\ count' = count + 1
             /\ busy' = FALSE

TimedOut == /\ busy
            /\ Again(TRUE)
            /\ UNCHANGED <<eof_cnt, partition_cnt, phase, announced>> /\ UNCHANGED kafka

Message(p) == /\ busy /\ p \in assigned /\ pos[p] < log[p]
              /\ pos' = [pos EXCEPT ![p] = @ + 1]
              /\ atEof' = atEof \ {p}
              /\ Again(TRUE)
              /\ UNCHANGED <<eof_cnt, partition_cnt, phase, assigned, log, announced>>

\* Faulty variant: the counter is compared before it is increased.
PartitionEof_post(p) ==
  /\ busy /\ p \in assigned \ atEof /\ pos[p] = log[p]
  /\ atEof' = atEof \cup {p}
  /\ eof_cnt' = eof_cnt + 1
  /\ LET all == eof_cnt = partition_cnt
     IN  announced' = (announced \/ all) /\ Again(~all)
  /\ UNCHANGED <<partition_cnt, phase, assigned, log, pos>>
PartitionEof(p) ==
  /\ busy /\ p \in assigned \ atEof /\ pos[p] = log[p]
  /\ atEof' = atEof \cup {p}
  /\ eof_cnt' = eof_cnt + 1
  /\ LET all == eof_cnt + 1 = partition_cnt
     IN  announced' = (announced \/ all) /\ Again(~all)
  /\ UNCHANGED <<partition_cnt, phase, assigned, log, pos>>

ConsumeError == /\ busy
                /\ Again(FALSE)
                /\ UNCHANGED <<eof_cnt, partition_cnt, phase, announced>> /\ UNCHANGED kafka

\* The loop ends; close gives the partitions back (rebalance_cb once more).
Stop == /\ phase = "loop" /\ ~run /\ ~busy
        /\ phase' = "close"
        /\ UNCHANGED <<run, eof_cnt, partition_cnt, busy, count, announced>> /\ UNCHANGED kafka

Close == /\ phase = "close"
         /\ phase' = "done"
         /\ assigned' = {} /\ atEof' = {} /\ partition_cnt' = 0 /\ eof_cnt' = 0
         /\ UNCHANGED <<run, busy, count, log, pos, announced>>

\* alarm(10) ends a process whose close takes too long.
Alarm == /\ phase = "close"
         /\ phase' = "killed"
         /\ UNCHANGED <<run, eof_cnt, partition_cnt, busy, count, announced>> /\ UNCHANGED kafka

Consume == \/ TimedOut \/ ConsumeError
           \/ \E p \in Partitions : Message(p) \/ PartitionEof(p)

Next == \/ Begin \/ Consume \/ Unassign \/ Sigterm \/ Stop \/ Close \/ Alarm
        \/ \E p \in Partitions : Produce(p)
        \/ \E ps \in SUBSET Partitions, ok \in BOOLEAN : Assign(ps, ok)

\* consume returns after a second at the latest, whatever the group does.
Spec == Init /\ [][Next]_vars /\ WF_vars(Begin) /\ WF_vars(Consume) /\ WF_vars(Stop) /\ WF_vars(Close \/ Alarm)
-----------------------------------------------------------------------------
TypeOK == /\ run \in BOOLEAN /\ busy \in BOOLEAN /\ announced \in BOOLEAN
          /\ phase \in {"loop", "close", "done", "killed"}
          /\ eof_cnt \in 0 .. 12 /\ count \in 0 .. 12
          /\ partition_cnt \in 0 .. Cardinality(Partitions)
          /\ atEof \subseteq assigned /\ assigned \subseteq Partitions

\* The consumer does not run on once it has read every assigned partition to its
\* end: the counter cannot jump over the number of partitions and does not lose an
\* event (kafka-test-1.cpp:97, 140).  Partitions that could not be assigned are
\* counted and never reach their end.
AllEofStops ==
  phase = "loop" /\ assigned # {} /\ Cardinality(assigned) = partition_cnt /\ atEof = assigned => ~run

\* Only as many events as there are partitions are counted (kafka-test-1.cpp:140).
EofNeverOvershoots == eof_cnt <= partition_cnt

\* The program ends, whatever the brokers do (kafka-test-1.cpp:284-289, 293).
ProgramEnds == <>(phase \in {"done", "killed"})

\* "EOF reached for all ... partition(s)" (kafka-test-1.cpp:141-142).
AnnouncedMeansAll == announced /\ phase = "loop" => atEof = assigned
=============================================================================

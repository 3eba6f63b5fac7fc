------------------------- MODULE KafkaEventBusProofs -------------------------
(***************************************************************************)
(* What KafkaEventBus keeps through faults, crashes and rebalances, for    *)
(* any keys, publishers and consumers and any number of events:            *)
(* nothing unsettled is committed, an event is handed out once for each    *)
(* assignment it is fetched under, and it is logged once per life of its   *)
(* idempotency key.                                                        *)
(***************************************************************************)
EXTENDS KafkaEventBus, FiniteSetTheorems, SequenceTheorems, TLAPS

Types ==
    /\ log \in Seq(Keys)
    /\ committed \in Nat
    /\ sending \in [Publishers -> SUBSET Keys]
    /\ task \in [Consumers -> Tasks]
    /\ owner \subseteq Consumers
    /\ position \in [Consumers -> Nat]
    /\ batch \in [Consumers -> Seq(Nat)]
    /\ expiries \in [Keys -> Nat]
    /\ under \in [Consumers -> Nat]
    /\ deliveries \subseteq Nat \X Nat
    /\ assignments \in Nat

\* A batch is a run of consecutive offsets.
BatchIsRun ==
    \A c \in Consumers : \A i \in 1 .. Len(batch[c]) : batch[c][i] = batch[c][1] + (i - 1)

\* What a task knows of the event in its hand.
HeadInHand ==
    \A c \in Consumers :
        /\ task[c] = "down" => batch[c] = <<>>
        /\ task[c] \in {"commit", "dlq", "recommit"} => batch[c] # <<>>
        /\ task[c] = "commit" => batch[c][1] \in dispatched
        /\ task[c] = "recommit" => batch[c][1] \in dlq \cup dropped

\* Events before the one in hand are settled, also if the partition was lost
\* since the batch was fetched.
EarlierSettled ==
    \A c \in Consumers : batch[c] # <<>> => \A o \in 1 .. batch[c][1] - 1 : o \in Settled

\* What the owner has fetched is settled or still in its batch.
FetchedCovered ==
    \A c \in owner : \A o \in 1 .. position[c] :
        o \in Settled \/ \E i \in 1 .. Len(batch[c]) : batch[c][i] = o

BatchInv == Types /\ BatchIsRun /\ HeadInHand

SettledInv == EarlierSettled /\ FetchedCovered /\ CommittedMeansSettled

-----------------------------------------------------------------------------
(* Steps of the publishers leave the consumers alone.                      *)

LEMMA PublisherFrame ==
  ASSUME Types,
         (\E p \in Publishers : Publish(p)) \/ (\E k \in Keys : Expire(k))
  PROVE  /\ UNCHANGED conVars
         /\ log' \in Seq(Keys) /\ Len(log') >= Len(log)
         /\ sending' \in [Publishers -> SUBSET Keys]
         /\ expiries' \in [Keys -> Nat]
<1> USE DEF Types
<1>1. ASSUME NEW p \in Publishers, NEW k \in Keys,
             SeenOrAdd(p, k) \/ Deduplicate(p, k) \/ \E took \in BOOLEAN : StoreFails(p, k, took)
      PROVE  /\ UNCHANGED conVars /\ log' = log /\ expiries' = expiries
             /\ sending' \in [Publishers -> SUBSET Keys]
  BY <1>1 DEF SeenOrAdd, Deduplicate, StoreFails
<1>2. ASSUME NEW p \in Publishers, Send(p) \/ \E took \in BOOLEAN : SendFails(p, took)
      PROVE  /\ UNCHANGED conVars /\ log' \in Seq(Keys) /\ Len(log') >= Len(log)
             /\ expiries' = expiries /\ sending' \in [Publishers -> SUBSET Keys]
  <2>1. PICK k \in sending[p] : log' = log \/ log' = Append(log, k)
    BY <1>2 DEF Send, SendFails
  <2>2. UNCHANGED conVars /\ expiries' = expiries /\ sending' = [sending EXCEPT ![p] = {}]
    BY <1>2 DEF Send, SendFails
  <2>3. k \in Keys /\ Len(log) \in Nat
    OBVIOUS
  <2>4. log' \in Seq(Keys) /\ Len(log') >= Len(log)
    <3>1. CASE log' = log
      BY <2>3, <3>1
    <3>2. CASE log' = Append(log, k)
      <4>1. log \in Seq(Keys)
        OBVIOUS
      <4>2. Append(log, k) \in Seq(Keys) /\ Len(Append(log, k)) = Len(log) + 1
        BY <2>3, <4>1, AppendProperties
      <4> QED
        BY <2>3, <3>2, <4>2
    <3> QED
      BY <2>1, <3>1, <3>2
  <2> QED
    BY <2>2, <2>4
<1>3. ASSUME NEW p \in Publishers, PublisherDies(p)
      PROVE  /\ UNCHANGED conVars /\ log' = log /\ expiries' = expiries
             /\ sending' \in [Publishers -> SUBSET Keys]
  BY <1>3 DEF PublisherDies
<1>4. ASSUME NEW k \in Keys, Expire(k)
      PROVE  /\ UNCHANGED conVars /\ log' = log /\ sending' = sending
             /\ expiries' \in [Keys -> Nat]
  BY <1>4 DEF Expire
<1> QED
  BY <1>1, <1>2, <1>3, <1>4 DEF Publish

\* The steps of a consumer and of the group leave the publishers alone.
LEMMA ConsumerFrame ==
  ASSUME NEW c \in Consumers, Consume(c) \/ PollFails(c) \/ Assign(c) \/ Crash(c)
  PROVE  UNCHANGED pubVars
  BY DEF Consume, Start, Poll, PollFails, Dispatch, DispatchFails, PublishDlq, DlqFails, Commit, CommitFails,
         Assign, Crash

-----------------------------------------------------------------------------
(* Batches.                                                                *)

LEMMA InitBatchInv == Init => BatchInv
  BY DEF Init, BatchInv, Types, BatchIsRun, HeadInHand, Tasks

\* What Poll puts in the batch.
LEMMA FetchedRun ==
  ASSUME Types, NEW c \in Consumers, Poll(c)
  PROVE  /\ batch' \in [Consumers -> Seq(Nat)]
         /\ Len(batch'[c]) = Len(log) - position[c] /\ Len(batch'[c]) \in Nat \ {0}
         /\ \A i \in 1 .. Len(batch'[c]) : batch'[c][i] = position[c] + i
         /\ \A d \in Consumers \ {c} : batch'[d] = batch[d]
<1> DEFINE n == Len(log) - position[c]
           run == [i \in 1 .. n |-> position[c] + i]
<1>1. n \in Nat \ {0} /\ position[c] \in Nat
  BY DEF Types, Poll
<1> HIDE DEF n
<1>2. run \in Seq(Nat) /\ Len(run) = n /\ \A i \in 1 .. n : run[i] = position[c] + i
  BY <1>1
<1>3. batch' = [batch EXCEPT ![c] = run]
  BY DEF Poll, n
<1> HIDE DEF run
<1> QED
  BY <1>1, <1>2, <1>3 DEF Types, n

LEMMA BatchStep ==
  ASSUME BatchInv, [Next]_vars
  PROVE  BatchInv'
<1> USE DEF BatchInv
<1>1. CASE (\E p \in Publishers : Publish(p)) \/ (\E k \in Keys : Expire(k))
  BY <1>1, PublisherFrame DEF Types, BatchIsRun, HeadInHand, conVars
<1>2. CASE UNCHANGED vars
  BY <1>2 DEF vars, Types, BatchIsRun, HeadInHand
<1>3. ASSUME NEW c \in Consumers, Consume(c) \/ PollFails(c) \/ Assign(c) \/ Crash(c)
      PROVE  BatchInv'
  <2>0. UNCHANGED pubVars
    BY <1>3, ConsumerFrame
  <2>1. CASE Start(c)
    <3>1. Types'
      BY <2>0, <2>1 DEF Start, Types, HeadInHand, pubVars, Tasks
    <3>2. BatchIsRun'
      BY <2>1 DEF Start, Types, BatchIsRun
    <3>3. HeadInHand'
      BY <2>1 DEF Start, Types, HeadInHand
    <3> QED
      BY <3>1, <3>2, <3>3
  <2>2. CASE Poll(c)
    <3>1. Types'
      <4>1. batch' \in [Consumers -> Seq(Nat)]
        BY <2>2, FetchedRun
      <4>2. /\ position' \in [Consumers -> Nat]
            /\ under' \in [Consumers -> Nat]
            /\ UNCHANGED <<committed, task, owner, deliveries, assignments>>
        BY <2>2 DEF Poll, Types
      <4> QED
        BY <2>0, <4>1, <4>2 DEF Types, pubVars
    <3>2. BatchIsRun'
      <4>1. \A i \in 1 .. Len(batch'[c]) : batch'[c][i] = batch'[c][1] + (i - 1)
        <5>1. /\ Len(batch'[c]) \in Nat \ {0} /\ position[c] \in Nat
              /\ \A i \in 1 .. Len(batch'[c]) : batch'[c][i] = position[c] + i
          BY <2>2, FetchedRun DEF Types
        <5>2. batch'[c][1] = position[c] + 1
          BY <5>1
        <5> QED
          BY <5>1, <5>2
      <4>2. \A d \in Consumers \ {c} : batch'[d] = batch[d]
        BY <2>2, FetchedRun
      <4> QED
        BY <4>1, <4>2 DEF BatchIsRun
    <3>3. HeadInHand'
      BY <2>2, FetchedRun DEF Poll, HeadInHand, Types
    <3> QED
      BY <3>1, <3>2, <3>3
  <2>3. CASE Dispatch(c)
    <3>1. deliveries' \subseteq Nat \X Nat
      BY <2>3 DEF Dispatch, Types
    <3>2. Types'
      BY <2>0, <2>3, <3>1 DEF Dispatch, Types, pubVars, Tasks
    <3>3. BatchIsRun'
      BY <2>3 DEF Dispatch, BatchIsRun
    <3>4. HeadInHand'
      BY <2>3 DEF Dispatch, Types, HeadInHand
    <3> QED
      BY <3>2, <3>3, <3>4
  <2>4. CASE DispatchFails(c)
    <3>1. deliveries' \subseteq Nat \X Nat
      BY <2>4 DEF DispatchFails, Types
    <3>2. Types'
      BY <2>0, <2>4, <3>1 DEF DispatchFails, Types, pubVars, Tasks
    <3>3. BatchIsRun'
      BY <2>4 DEF DispatchFails, BatchIsRun
    <3>4. HeadInHand'
      BY <2>4 DEF DispatchFails, Types, HeadInHand
    <3> QED
      BY <3>2, <3>3, <3>4
  <2>5. CASE PublishDlq(c)
    <3>1. Types'
      BY <2>0, <2>5 DEF PublishDlq, Types, HeadInHand, pubVars, Tasks
    <3>2. BatchIsRun'
      BY <2>5 DEF PublishDlq, Types, BatchIsRun
    <3>3. HeadInHand'
      BY <2>5 DEF PublishDlq, Types, HeadInHand
    <3> QED
      BY <3>1, <3>2, <3>3
  <2>6. CASE DlqFails(c)
    <3>1. Types'
      BY <2>0, <2>6 DEF DlqFails, Types, HeadInHand, pubVars, Tasks
    <3>2. BatchIsRun'
      BY <2>6 DEF DlqFails, Types, BatchIsRun
    <3>3. HeadInHand'
      BY <2>6 DEF DlqFails, Types, HeadInHand
    <3> QED
      BY <3>1, <3>2, <3>3
  <2>7. CASE Commit(c)
    <3>1. Types'
      BY <2>0, <2>7 DEF Commit, Types, HeadInHand, pubVars, Tasks
    <3>2. BatchIsRun'
      <4>1. /\ batch[c] \in Seq(Nat) /\ batch[c] # <<>>
            /\ batch' = [batch EXCEPT ![c] = Tail(batch[c])]
        BY <2>7 DEF Commit, Types, HeadInHand
      <4>2. \A i \in 1 .. Len(batch[c]) : batch[c][i] = batch[c][1] + (i - 1)
        BY DEF BatchIsRun
      <4>3. \A i \in 1 .. Len(Tail(batch[c])) : Tail(batch[c])[i] = Tail(batch[c])[1] + (i - 1)
        <5>1. /\ Len(Tail(batch[c])) = Len(batch[c]) - 1 /\ Len(batch[c]) \in Nat
              /\ \A i \in 1 .. Len(Tail(batch[c])) : Tail(batch[c])[i] = batch[c][i + 1]
          BY <4>1, HeadTailProperties
        <5>2. batch[c][1] \in Nat
          BY <4>1
        <5> QED
          BY <4>2, <5>1, <5>2
      <4> QED
        BY <4>1, <4>3 DEF BatchIsRun, Types
    <3>3. HeadInHand'
      BY <2>7 DEF Commit, Types, HeadInHand
    <3> QED
      BY <3>1, <3>2, <3>3
  <2>8. ASSUME NEW took \in BOOLEAN, CommitFails(c, took)
        PROVE  BatchInv'
    <3>1. Types'
      BY <2>0, <2>8 DEF CommitFails, Types, HeadInHand, pubVars, Tasks
    <3>2. BatchIsRun'
      BY <2>8 DEF CommitFails, Types, BatchIsRun
    <3>3. HeadInHand'
      BY <2>8 DEF CommitFails, Types, HeadInHand
    <3> QED
      BY <3>1, <3>2, <3>3
  <2>9. CASE Assign(c)
    <3>1. Types'
      BY <2>0, <2>9 DEF Assign, Types, HeadInHand, pubVars
    <3>2. BatchIsRun'
      BY <2>9 DEF Assign, Types, BatchIsRun
    <3>3. HeadInHand'
      BY <2>9 DEF Assign, Types, HeadInHand
    <3> QED
      BY <3>1, <3>2, <3>3
  <2>10. CASE Crash(c)
    <3>1. Types'
      BY <2>0, <2>10 DEF Crash, Types, HeadInHand, pubVars, Tasks
    <3>2. BatchIsRun'
      BY <2>10 DEF Crash, Types, BatchIsRun
    <3>3. HeadInHand'
      BY <2>10 DEF Crash, Types, HeadInHand
    <3> QED
      BY <3>1, <3>2, <3>3
  <2>11. CASE PollFails(c)
    <3>1. Types'
      BY <2>0, <2>11 DEF PollFails, Types, pubVars, Tasks
    <3>2. BatchIsRun'
      BY <2>11 DEF PollFails, BatchIsRun
    <3>3. HeadInHand'
      BY <2>11 DEF PollFails, Types, HeadInHand
    <3> QED
      BY <3>1, <3>2, <3>3
  <2> QED
    BY <1>3, <2>1, <2>2, <2>3, <2>4, <2>5, <2>6, <2>7, <2>8, <2>9, <2>10, <2>11 DEF Consume
<1> QED
  BY <1>1, <1>2, <1>3 DEF Next

-----------------------------------------------------------------------------
(* What is committed is settled.                                           *)

LEMMA InitSettled == Init => SettledInv
  BY DEF Init, SettledInv, EarlierSettled, FetchedCovered, CommittedMeansSettled

\* Settled events stay settled.
LEMMA SettledGrows ==
  ASSUME [Next]_vars
  PROVE  Settled \subseteq Settled'
<1>1. CASE (\E p \in Publishers : Publish(p)) \/ (\E k \in Keys : Expire(k))
  BY <1>1 DEF Publish, SeenOrAdd, Deduplicate, StoreFails, Send, SendFails, PublisherDies, Expire,
              conVars, Settled
<1>2. ASSUME NEW c \in Consumers, Consume(c) \/ PollFails(c) \/ Assign(c) \/ Crash(c)
      PROVE  Settled \subseteq Settled'
  BY <1>2 DEF Consume, Start, Poll, PollFails, Dispatch, DispatchFails, PublishDlq, DlqFails,
              Commit, CommitFails, Assign, Crash, Settled
<1> QED
  BY <1>1, <1>2 DEF Next, vars, Settled

\* Up to the event in hand, once it is dispatched or dead-lettered, everything
\* is settled: what is about to be committed.
LEMMA HeadSettled ==
  ASSUME BatchInv, SettledInv, NEW c \in Consumers, task[c] \in {"commit", "recommit"}
  PROVE  /\ batch[c] \in Seq(Nat) /\ batch[c] # <<>> /\ batch[c][1] \in Nat
         /\ Head(batch[c]) = batch[c][1]
         /\ \A o \in 1 .. batch[c][1] : o \in Settled
<1>1. batch[c] \in Seq(Nat) /\ batch[c] # <<>>
  BY DEF BatchInv, Types, HeadInHand
<1>2. batch[c][1] \in Nat /\ Head(batch[c]) = batch[c][1]
  BY <1>1
<1>3. batch[c][1] \in Settled
  BY DEF BatchInv, HeadInHand, Settled
<1>4. \A o \in 1 .. batch[c][1] - 1 : o \in Settled
  BY <1>1 DEF SettledInv, EarlierSettled
<1> QED
  BY <1>1, <1>2, <1>3, <1>4

LEMMA SettledStep ==
  ASSUME BatchInv, SettledInv, [Next]_vars
  PROVE  SettledInv'
<1> USE DEF SettledInv
<1>0. Settled \subseteq Settled'
  BY SettledGrows
<1>1. CASE (\E p \in Publishers : Publish(p)) \/ (\E k \in Keys : Expire(k))
  <2>1. UNCHANGED conVars
    BY <1>1, PublisherFrame DEF BatchInv
  <2> QED
    BY <1>0, <2>1 DEF conVars, EarlierSettled, FetchedCovered, CommittedMeansSettled
<1>2. CASE UNCHANGED vars
  BY <1>0, <1>2 DEF vars, EarlierSettled, FetchedCovered, CommittedMeansSettled
<1>3. ASSUME NEW c \in Consumers,
             \/ Start(c) \/ PollFails(c) \/ Dispatch(c) \/ DispatchFails(c) \/ PublishDlq(c)
             \/ DlqFails(c)
      PROVE  SettledInv'
  <2>1. UNCHANGED <<batch, position, owner, committed>>
    BY <1>3 DEF Start, PollFails, Dispatch, DispatchFails, PublishDlq, DlqFails
  <2> QED
    BY <1>0, <2>1 DEF EarlierSettled, FetchedCovered, CommittedMeansSettled
<1>4. ASSUME NEW c \in Consumers, Poll(c)
      PROVE  SettledInv'
  <2>1. /\ batch[c] = <<>> /\ c \in owner /\ position[c] \in Nat
        /\ UNCHANGED <<owner, committed>>
        /\ position' = [position EXCEPT ![c] = Len(log)] /\ position \in [Consumers -> Nat]
        /\ Len(log) \in Nat
    BY <1>4 DEF Poll, BatchInv, Types
  <2>2. /\ Len(batch'[c]) = Len(log) - position[c] /\ Len(batch'[c]) \in Nat \ {0}
        /\ \A i \in 1 .. Len(batch'[c]) : batch'[c][i] = position[c] + i
        /\ \A d \in Consumers \ {c} : batch'[d] = batch[d]
    BY <1>4, FetchedRun DEF BatchInv
  <2>3. \A o \in 1 .. position[c] : o \in Settled
    BY <2>1 DEF FetchedCovered
  <2>4. EarlierSettled'
    <3>0. 1 \in 1 .. Len(batch'[c])
      BY <2>2
    <3>1. batch'[c][1] = position[c] + 1
      BY <2>2, <3>0
    <3>2. \A o \in 1 .. batch'[c][1] - 1 : o \in Settled'
      BY <1>0, <2>1, <2>3, <3>1
    <3> QED
      BY <1>0, <2>2, <3>2 DEF EarlierSettled
  <2>5. FetchedCovered'
    <3>1. ASSUME NEW o \in 1 .. Len(log)
          PROVE  o \in Settled' \/ \E i \in 1 .. Len(batch'[c]) : batch'[c][i] = o
      <4>1. CASE o <= position[c]
        BY <1>0, <2>1, <2>3, <4>1
      <4>2. CASE o > position[c]
        <5>1. o - position[c] \in 1 .. Len(batch'[c]) /\ batch'[c][o - position[c]] = o
          BY <2>1, <2>2, <4>2
        <5> QED
          BY <5>1
      <4> QED
        BY <2>1, <4>1, <4>2
    <3>2. \A d \in owner' : d # c => d \in Consumers /\ position'[d] = position[d]
      BY <2>1 DEF BatchInv, Types
    <3>3. position'[c] = Len(log)
      BY <2>1
    <3> QED
      <4>1. ASSUME NEW d \in owner', NEW o \in 1 .. position'[d], d # c
            PROVE  o \in Settled' \/ \E i \in 1 .. Len(batch'[d]) : batch'[d][i] = o
        <5>1. d \in owner /\ batch'[d] = batch[d] /\ o \in 1 .. position[d]
          BY <2>1, <2>2, <3>2, <4>1
        <5> QED
          BY <1>0, <5>1 DEF FetchedCovered
      <4> QED
        BY <3>1, <3>3, <4>1 DEF FetchedCovered
  <2> QED
    BY <1>0, <2>1, <2>4, <2>5 DEF CommittedMeansSettled
<1>5. ASSUME NEW c \in Consumers, Commit(c)
      PROVE  SettledInv'
  <2>1. /\ batch[c] \in Seq(Nat) /\ batch[c] # <<>> /\ batch[c][1] \in Nat
        /\ committed' = batch[c][1]
        /\ \A o \in 1 .. batch[c][1] : o \in Settled
    BY <1>5, HeadSettled DEF Commit
  <2>2. /\ batch' = [batch EXCEPT ![c] = Tail(batch[c])] /\ batch \in [Consumers -> Seq(Nat)]
        /\ UNCHANGED <<owner, position>> /\ owner \subseteq Consumers
    BY <1>5 DEF Commit, BatchInv, Types
  <2>3. /\ Len(Tail(batch[c])) = Len(batch[c]) - 1 /\ Len(batch[c]) \in Nat
        /\ \A i \in 1 .. Len(Tail(batch[c])) : Tail(batch[c])[i] = batch[c][i + 1]
    BY <2>1, HeadTailProperties
  <2>4. EarlierSettled'
    <3>1. ASSUME Tail(batch[c]) # <<>>
          PROVE  Tail(batch[c])[1] = batch[c][1] + 1
      <4>0. Tail(batch[c]) \in Seq(Nat)
        BY <2>1, HeadTailProperties
      <4>1. Len(Tail(batch[c])) \in Nat \ {0}
        BY <3>1, <4>0, EmptySeq
      <4>2. 1 \in 1 .. Len(Tail(batch[c])) /\ 2 \in 1 .. Len(batch[c])
        <5> DEFINE n == Len(Tail(batch[c]))
                   m == Len(batch[c])
        <5>1. n \in Nat \ {0} /\ m \in Nat /\ n = m - 1
          BY <2>3, <4>1
        <5> HIDE DEF n, m
        <5>2. 1 \in 1 .. n /\ 2 \in 1 .. m
          BY <5>1
        <5> QED
          BY <5>2 DEF n, m
      <4>3. batch[c][2] = batch[c][1] + 1
        BY <4>2 DEF BatchInv, BatchIsRun
      <4>4. Tail(batch[c])[1] = batch[c][2]
        <5> DEFINE t == Tail(batch[c])
        <5>1. 1 \in 1 .. Len(t) /\ \A i \in 1 .. Len(t) : t[i] = batch[c][i + 1]
          BY <2>3, <4>2
        <5> HIDE DEF t
        <5>2. t[1] = batch[c][2]
          BY <5>1
        <5> QED
          BY <5>2, Zenon DEF t
      <4> QED
        BY <4>3, <4>4, Zenon
    <3>2. batch'[c] # <<>> => \A o \in 1 .. batch'[c][1] - 1 : o \in Settled'
      BY <1>0, <2>1, <2>2, <3>1
    <3> QED
      BY <1>0, <2>2, <3>2 DEF EarlierSettled
  <2>5. FetchedCovered'
    <3>1. ASSUME NEW o \in Nat \ {0}, NEW i \in 1 .. Len(batch[c]), batch[c][i] = o
          PROVE  o \in Settled' \/ \E j \in 1 .. Len(batch'[c]) : batch'[c][j] = o
      <4>1. CASE i = 1
        BY <1>0, <2>1, <3>1, <4>1
      <4>2. CASE i # 1
        <5>1. i - 1 \in 1 .. Len(Tail(batch[c])) /\ Tail(batch[c])[i - 1] = o
          BY <2>3, <3>1, <4>2
        <5> QED
          BY <2>2, <5>1
      <4> QED
        BY <4>1, <4>2
    <3>2. \A d \in Consumers \ {c} : batch'[d] = batch[d]
      BY <2>2
    <3>3. \A d \in owner : position[d] \in Nat
      BY DEF BatchInv, Types
    <3> QED
      <4>1. ASSUME NEW d \in owner, NEW o \in 1 .. position[d]
            PROVE  o \in Settled' \/ \E j \in 1 .. Len(batch'[d]) : batch'[d][j] = o
        <5>1. o \in Nat \ {0} /\ d \in Consumers
          BY <2>2, <3>3
        <5>2. CASE o \in Settled
          BY <1>0, <5>2
        <5>3. CASE o \notin Settled
          <6>1. PICK i \in 1 .. Len(batch[d]) : batch[d][i] = o
            BY <5>3 DEF FetchedCovered
          <6> QED
            BY <3>1, <3>2, <5>1, <6>1
        <5> QED
          BY <5>2, <5>3
      <4> QED
        BY <2>2, <4>1 DEF FetchedCovered
  <2>6. CommittedMeansSettled'
    BY <1>0, <2>1 DEF CommittedMeansSettled
  <2> QED
    BY <2>4, <2>5, <2>6
<1>6. ASSUME NEW c \in Consumers, NEW took \in BOOLEAN, CommitFails(c, took)
      PROVE  SettledInv'
  <2>1. /\ batch[c][1] \in Nat /\ Head(batch[c]) = batch[c][1]
        /\ \A o \in 1 .. batch[c][1] : o \in Settled
    BY <1>6, HeadSettled DEF CommitFails
  <2>2. /\ committed' \in {committed, batch[c][1]}
        /\ UNCHANGED <<batch, position, owner>>
    BY <1>6, <2>1 DEF CommitFails
  <2> QED
    BY <1>0, <2>1, <2>2 DEF EarlierSettled, FetchedCovered, CommittedMeansSettled
<1>7. ASSUME NEW c \in Consumers, Assign(c)
      PROVE  SettledInv'
  <2>1. /\ owner' = {c} /\ position'[c] = committed
        /\ UNCHANGED <<batch, committed>>
    BY <1>7 DEF Assign, BatchInv, Types
  <2> QED
    BY <1>0, <2>1 DEF EarlierSettled, FetchedCovered, CommittedMeansSettled
<1>8. ASSUME NEW c \in Consumers, Crash(c)
      PROVE  SettledInv'
  <2>1. /\ owner' = owner \ {c} /\ UNCHANGED <<position, committed>>
        /\ batch' = [batch EXCEPT ![c] = <<>>] /\ batch \in [Consumers -> Seq(Nat)]
        /\ owner \subseteq Consumers
    BY <1>8 DEF Crash, BatchInv, Types
  <2> QED
    BY <1>0, <2>1 DEF EarlierSettled, FetchedCovered, CommittedMeansSettled
<1> QED
  BY <1>1, <1>2, <1>3, <1>4, <1>5, <1>6, <1>7, <1>8 DEF Next, Consume

\* However processes crash, partitions move and commits or dead letters fail,
\* _handle_message never lets the group commit past an event that was neither
\* dispatched nor dead-lettered nor reported as lost.
THEOREM CommitsAreSettled == Spec => []CommittedMeansSettled
<1>1. Init => BatchInv /\ SettledInv
  BY InitBatchInv, InitSettled
<1>2. BatchInv /\ SettledInv /\ [Next]_vars => (BatchInv /\ SettledInv)'
  BY BatchStep, SettledStep
<1>3. SettledInv => CommittedMeansSettled
  BY DEF SettledInv
<1> QED
  BY <1>1, <1>2, <1>3, PTL DEF Spec

-----------------------------------------------------------------------------
(* Counting.                                                               *)

LEMMA Fewer ==
  ASSUME NEW S, IsFiniteSet(S), NEW T, T \subseteq S
  PROVE  /\ IsFiniteSet(T) /\ Cardinality(T) \in Nat /\ Cardinality(S) \in Nat
         /\ Cardinality(T) <= Cardinality(S)
  BY FS_Subset, FS_CardinalityType

LEMMA OneMore ==
  ASSUME NEW S, IsFiniteSet(S), NEW x, NEW T, T \subseteq S \cup {x}
  PROVE  Cardinality(T) <= Cardinality(S) + 1
<1>0. Cardinality(S) \in Nat
  BY FS_CardinalityType
<1>1. /\ IsFiniteSet(S \cup {x})
      /\ Cardinality(S \cup {x}) <= Cardinality(S) + 1
  BY <1>0, FS_AddElement
<1>2. Cardinality(T) <= Cardinality(S \cup {x}) /\ Cardinality(T) \in Nat
      /\ Cardinality(S \cup {x}) \in Nat
  BY <1>1, Fewer
<1> QED
  BY <1>0, <1>1, <1>2

LEMMA OneLess ==
  ASSUME NEW S, IsFiniteSet(S), NEW x \in S, NEW T, T \subseteq S \ {x}
  PROVE  Cardinality(T) <= Cardinality(S) - 1
<1>1. /\ IsFiniteSet(S \ {x}) /\ Cardinality(S) \in Nat
      /\ Cardinality(S \ {x}) = Cardinality(S) - 1
  BY FS_RemoveElement, FS_CardinalityType
<1>2. Cardinality(T) <= Cardinality(S \ {x}) /\ Cardinality(T) \in Nat
      /\ Cardinality(S \ {x}) \in Nat
  BY <1>1, Fewer
<1> QED
  BY <1>1, <1>2

-----------------------------------------------------------------------------
(* An event is handed to the handlers once for each assignment it is       *)
(* fetched under.                                                          *)

OneOwner == \A c, d \in owner : c = d

\* No batch and no delivery is of an assignment yet to come.
AssignmentsKnown ==
    /\ \A c \in Consumers : under[c] <= assignments
    /\ \A o, n \in Nat : <<o, n>> \in deliveries => n <= assignments

\* What was fetched under the present assignment is in the owner's hands and
\* not past its position.
FetchedByOwner ==
    \A c \in Consumers : under[c] = assignments =>
        \A i \in 1 .. Len(batch[c]) : c \in owner /\ batch[c][i] <= position[c]

\* What was handed out under the present assignment was fetched by the owner.
HandedOutFetched ==
    \A c \in owner : \A o \in Nat : <<o, assignments>> \in deliveries => o <= position[c]

\* Two members never hold batches of one assignment.
SeparateFetches ==
    \A c, d \in Consumers : c # d /\ batch[c] # <<>> /\ batch[d] # <<>> => under[c] # under[d]

\* What a member will still hand out was not handed out under that assignment.
StillToHandOut ==
    \A c \in Consumers : \A i \in 1 .. Len(batch[c]) :
        i > 1 \/ task[c] = "loop" => <<batch[c][i], under[c]>> \notin deliveries

DeliveryInv ==
    /\ OneOwner /\ AssignmentsKnown /\ FetchedByOwner
    /\ HandedOutFetched /\ SeparateFetches /\ StillToHandOut

LEMMA InitDelivery == Init => DeliveryInv
  BY DEF Init, DeliveryInv, OneOwner, AssignmentsKnown, FetchedByOwner, HandedOutFetched,
         SeparateFetches, StillToHandOut

LEMMA DeliveryStep ==
  ASSUME BatchInv, DeliveryInv, [Next]_vars
  PROVE  DeliveryInv'
<1> USE DEF DeliveryInv
<1>0. /\ batch \in [Consumers -> Seq(Nat)] /\ under \in [Consumers -> Nat] /\ assignments \in Nat
      /\ position \in [Consumers -> Nat] /\ owner \subseteq Consumers
      /\ deliveries \subseteq Nat \X Nat /\ task \in [Consumers -> Tasks]
  BY DEF BatchInv, Types
<1>1. CASE (\E p \in Publishers : Publish(p)) \/ (\E k \in Keys : Expire(k)) \/ UNCHANGED vars
  <2>1. UNCHANGED <<batch, under, task, owner, position, deliveries, assignments>>
    BY <1>1, PublisherFrame DEF BatchInv, conVars, vars
  <2> QED
    BY <2>1 DEF OneOwner, AssignmentsKnown, FetchedByOwner, HandedOutFetched, SeparateFetches,
                StillToHandOut
<1>2. ASSUME NEW c \in Consumers,
             \/ Start(c) \/ PollFails(c) \/ PublishDlq(c) \/ DlqFails(c)
             \/ \E took \in BOOLEAN : CommitFails(c, took)
      PROVE  DeliveryInv'
  <2>1. /\ UNCHANGED <<batch, under, owner, position, deliveries, assignments>>
        /\ task'[c] = "loop" => batch[c] = <<>>
        /\ \A d \in Consumers \ {c} : task'[d] = task[d]
    BY <1>0, <1>2 DEF Start, PollFails, PublishDlq, DlqFails, CommitFails, BatchInv, HeadInHand
  <2>2. StillToHandOut'
    <3> SUFFICES ASSUME NEW d \in Consumers, NEW i \in 1 .. Len(batch[d]),
                        i > 1 \/ task'[d] = "loop"
                 PROVE  <<batch[d][i], under[d]>> \notin deliveries
      BY <2>1 DEF StillToHandOut
    <3>1. i > 1 \/ task[d] = "loop"
      BY <2>1
    <3> QED
      BY <3>1 DEF StillToHandOut
  <2> QED
    BY <2>1, <2>2 DEF OneOwner, AssignmentsKnown, FetchedByOwner, HandedOutFetched, SeparateFetches
<1>3. ASSUME NEW c \in Consumers, Crash(c)
      PROVE  DeliveryInv'
  <2>1. /\ UNCHANGED <<position, deliveries, assignments>>
        /\ owner' = owner \ {c}
        /\ \A d \in Consumers :
              IF d = c THEN batch'[d] = <<>> /\ under'[d] = 0
              ELSE batch'[d] = batch[d] /\ task'[d] = task[d] /\ under'[d] = under[d]
    BY <1>0, <1>3 DEF Crash
  <2>2. OneOwner' /\ AssignmentsKnown' /\ HandedOutFetched'
    BY <1>0, <2>1 DEF OneOwner, AssignmentsKnown, HandedOutFetched
  <2>3. FetchedByOwner'
    BY <2>1 DEF FetchedByOwner
  <2>4. SeparateFetches'
    BY <2>1 DEF SeparateFetches
  <2>5. StillToHandOut'
    <3> SUFFICES ASSUME NEW d \in Consumers, NEW i \in 1 .. Len(batch'[d]),
                        i > 1 \/ task'[d] = "loop"
                 PROVE  <<batch'[d][i], under'[d]>> \notin deliveries
      BY <2>1 DEF StillToHandOut
    <3>1. d # c
      BY <2>1
    <3> QED
      BY <2>1, <3>1 DEF StillToHandOut
  <2> QED
    BY <2>2, <2>3, <2>4, <2>5
<1>4. ASSUME NEW c \in Consumers, Commit(c)
      PROVE  DeliveryInv'
  <2>1. /\ UNCHANGED <<position, owner, under, deliveries, assignments>>
        /\ batch[c] \in Seq(Nat) /\ batch[c] # <<>> /\ batch'[c] = Tail(batch[c])
        /\ \A d \in Consumers \ {c} : batch'[d] = batch[d] /\ task'[d] = task[d]
    BY <1>0, <1>4 DEF Commit, BatchInv, HeadInHand
  <2>2. /\ Len(batch'[c]) = Len(batch[c]) - 1 /\ Len(batch[c]) \in Nat
        /\ \A i \in 1 .. Len(batch'[c]) : batch'[c][i] = batch[c][i + 1]
    BY <2>1, HeadTailProperties
  <2>3. ASSUME NEW i \in 1 .. Len(batch'[c])
        PROVE  i + 1 \in 1 .. Len(batch[c]) /\ i + 1 > 1 /\ batch'[c][i] = batch[c][i + 1]
    BY <2>2
  <2>4. FetchedByOwner'
    <3> SUFFICES ASSUME NEW d \in Consumers, under[d] = assignments,
                        NEW i \in 1 .. Len(batch'[d])
                 PROVE  d \in owner /\ batch'[d][i] <= position[d]
      BY <2>1 DEF FetchedByOwner
    <3>1. CASE d = c
      <4>1. i + 1 \in 1 .. Len(batch[c]) /\ batch'[c][i] = batch[c][i + 1]
        BY <2>3, <3>1
      <4>2. c \in owner /\ batch[c][i + 1] <= position[c]
        BY <3>1, <4>1 DEF FetchedByOwner
      <4> QED
        BY <3>1, <4>1, <4>2
    <3>2. CASE d # c
      BY <2>1, <3>2 DEF FetchedByOwner
    <3> QED
      BY <3>1, <3>2
  <2>5. StillToHandOut'
    <3> SUFFICES ASSUME NEW d \in Consumers, NEW i \in 1 .. Len(batch'[d]),
                        i > 1 \/ task'[d] = "loop"
                 PROVE  <<batch'[d][i], under[d]>> \notin deliveries
      BY <2>1 DEF StillToHandOut
    <3>1. CASE d = c
      <4>1. i + 1 \in 1 .. Len(batch[c]) /\ i + 1 > 1 /\ batch'[c][i] = batch[c][i + 1]
        BY <2>3, <3>1
      <4>2. <<batch[c][i + 1], under[c]>> \notin deliveries
        BY <4>1 DEF StillToHandOut
      <4> QED
        BY <3>1, <4>1, <4>2
    <3>2. CASE d # c
      BY <2>1, <3>2 DEF StillToHandOut
    <3> QED
      BY <3>1, <3>2
  <2>6. SeparateFetches'
    BY <2>1 DEF SeparateFetches
  <2> QED
    BY <2>1, <2>4, <2>5, <2>6 DEF OneOwner, AssignmentsKnown, HandedOutFetched
<1>5. ASSUME NEW c \in Consumers, Assign(c)
      PROVE  DeliveryInv'
  <2>1. /\ UNCHANGED <<batch, under, task, deliveries>> /\ owner' = {c}
        /\ assignments' = assignments + 1
    BY <1>5 DEF Assign
  <2>2. (\A d \in Consumers : under[d] # assignments')
        /\ \A o \in Nat : <<o, assignments'>> \notin deliveries
    BY <1>0, <2>1 DEF AssignmentsKnown
  <2>3. AssignmentsKnown'
    BY <1>0, <2>1 DEF AssignmentsKnown
  <2> QED
    BY <2>1, <2>2, <2>3 DEF OneOwner, FetchedByOwner, HandedOutFetched, SeparateFetches,
                            StillToHandOut
<1>6. ASSUME NEW c \in Consumers, Poll(c)
      PROVE  DeliveryInv'
  <2>1. /\ UNCHANGED <<owner, task, deliveries, assignments>>
        /\ c \in owner /\ batch[c] = <<>>
        /\ under'[c] = assignments /\ \A d \in Consumers \ {c} : under'[d] = under[d]
        /\ position'[c] = Len(log) /\ \A d \in Consumers \ {c} : position'[d] = position[d]
        /\ Len(log) \in Nat /\ position[c] < Len(log) /\ position[c] \in Nat
    BY <1>0, <1>6 DEF Poll, BatchInv, Types
  <2>2. /\ Len(batch'[c]) = Len(log) - position[c]
        /\ \A i \in 1 .. Len(batch'[c]) : batch'[c][i] = position[c] + i
        /\ \A d \in Consumers \ {c} : batch'[d] = batch[d]
    BY <1>6, FetchedRun DEF BatchInv
  <2>3. ASSUME NEW i \in 1 .. Len(batch'[c])
        PROVE  /\ batch'[c][i] \in Nat /\ batch'[c][i] <= Len(log)
               /\ batch'[c][i] > position[c]
    BY <2>1, <2>2
  <2>4. owner = {c}
    BY <2>1 DEF OneOwner
  <2>5. ASSUME NEW d \in Consumers \ {c}, batch[d] # <<>>
        PROVE  under[d] # assignments
    <3>1. 1 \in 1 .. Len(batch[d])
      BY <1>0, <2>5
    <3> QED
      BY <2>4, <3>1 DEF FetchedByOwner
  <2>6. OneOwner' /\ AssignmentsKnown'
    <3>0. \A d \in Consumers : under[d] <= assignments
      BY DEF AssignmentsKnown
    <3>1. ASSUME NEW d \in Consumers
          PROVE  under'[d] <= assignments
      <4>1. CASE d = c
        BY <1>0, <2>1, <4>1
      <4>2. CASE d # c
        BY <2>1, <3>0, <4>2
      <4> QED
        BY <4>1, <4>2
    <3>2. \A o, n \in Nat : <<o, n>> \in deliveries => n <= assignments
      BY DEF AssignmentsKnown
    <3>3. AssignmentsKnown'
      BY <2>1, <3>1, <3>2 DEF AssignmentsKnown
    <3> QED
      BY <2>1, <3>3 DEF OneOwner
  <2>7. FetchedByOwner'
    <3> SUFFICES ASSUME NEW d \in Consumers, under'[d] = assignments,
                        NEW i \in 1 .. Len(batch'[d])
                 PROVE  d \in owner /\ batch'[d][i] <= position'[d]
      BY <2>1 DEF FetchedByOwner
    <3>1. CASE d = c
      BY <2>1, <2>3, <3>1
    <3>2. CASE d # c
      BY <2>1, <2>2, <3>2 DEF FetchedByOwner
    <3> QED
      BY <3>1, <3>2
  <2>8. HandedOutFetched'
    <3> SUFFICES ASSUME NEW o \in Nat, <<o, assignments>> \in deliveries
                 PROVE  o <= position'[c]
      BY <2>1, <2>4 DEF HandedOutFetched
    <3>1. o <= position[c]
      BY <2>1 DEF HandedOutFetched
    <3> QED
      BY <2>1, <3>1
  <2>9. SeparateFetches'
    BY <2>1, <2>2, <2>5 DEF SeparateFetches
  <2>10. StillToHandOut'
    <3> SUFFICES ASSUME NEW d \in Consumers, NEW i \in 1 .. Len(batch'[d]),
                        i > 1 \/ task[d] = "loop"
                 PROVE  <<batch'[d][i], under'[d]>> \notin deliveries
      BY <2>1 DEF StillToHandOut
    <3>1. CASE d = c
      <4>1. batch'[c][i] \in Nat /\ batch'[c][i] > position[c]
        BY <2>3, <3>1
      <4>2. ~(batch'[c][i] <= position[c])
        BY <2>1, <4>1
      <4> QED
        BY <2>1, <3>1, <4>1, <4>2 DEF HandedOutFetched
    <3>2. CASE d # c
      BY <2>1, <2>2, <3>2 DEF StillToHandOut
    <3> QED
      BY <3>1, <3>2
  <2> QED
    BY <2>6, <2>7, <2>8, <2>9, <2>10
<1>7. ASSUME NEW c \in Consumers, Dispatch(c) \/ DispatchFails(c)
      PROVE  DeliveryInv'
  <2>1. /\ UNCHANGED <<batch, under, owner, position, assignments>>
        /\ task[c] = "loop" /\ batch[c] \in Seq(Nat) /\ batch[c] # <<>>
        /\ task'[c] # "loop" /\ \A d \in Consumers \ {c} : task'[d] = task[d]
        /\ deliveries' = deliveries \cup {<<Head(batch[c]), under[c]>>}
    BY <1>0, <1>7 DEF Dispatch, DispatchFails
  <2>2. /\ Head(batch[c]) = batch[c][1] /\ batch[c][1] \in Nat /\ under[c] \in Nat
        /\ 1 \in 1 .. Len(batch[c])
    BY <1>0, <2>1
  <2>3. \A o, n \in Nat : <<o, n>> \in deliveries' =>
            <<o, n>> \in deliveries \/ (o = batch[c][1] /\ n = under[c])
    BY <2>1, <2>2
  <2>4. AssignmentsKnown'
    BY <2>1, <2>3 DEF AssignmentsKnown
  <2>5. HandedOutFetched'
    <3> SUFFICES ASSUME NEW d \in owner, NEW o \in Nat, <<o, assignments>> \in deliveries'
                 PROVE  o <= position[d]
      BY <2>1 DEF HandedOutFetched
    <3>1. CASE <<o, assignments>> \in deliveries
      BY <3>1 DEF HandedOutFetched
    <3>2. CASE o = batch[c][1] /\ assignments = under[c]
      BY <2>2, <3>2 DEF FetchedByOwner, OneOwner
    <3> QED
      BY <1>0, <2>3, <3>1, <3>2
  <2>6. StillToHandOut'
    <3> SUFFICES ASSUME NEW d \in Consumers, NEW i \in 1 .. Len(batch[d]),
                        i > 1 \/ task'[d] = "loop"
                 PROVE  <<batch[d][i], under[d]>> \notin deliveries'
      BY <2>1 DEF StillToHandOut
    <3>1. batch[d][i] \in Nat /\ under[d] \in Nat
      BY <1>0
    <3>2. i > 1 \/ task[d] = "loop"
      BY <2>1
    <3>3. <<batch[d][i], under[d]>> \notin deliveries
      BY <3>2 DEF StillToHandOut
    <3>4. ~(batch[d][i] = batch[c][1] /\ under[d] = under[c])
      <4>1. CASE d = c
        <5>1. i > 1
          BY <2>1, <4>1
        <5>2. batch[c][i] = batch[c][1] + (i - 1)
          BY <4>1 DEF BatchInv, BatchIsRun
        <5> QED
          BY <2>2, <4>1, <5>1, <5>2
      <4>2. CASE d # c
        <5>1. batch[d] # <<>>
          BY <1>0
        <5> QED
          BY <2>1, <4>2, <5>1 DEF SeparateFetches
      <4> QED
        BY <4>1, <4>2
    <3> QED
      BY <2>3, <3>1, <3>3, <3>4
  <2> QED
    BY <2>1, <2>4, <2>5, <2>6 DEF OneOwner, FetchedByOwner, SeparateFetches
<1> QED
  BY <1>1, <1>2, <1>3, <1>4, <1>5, <1>6, <1>7 DEF Next, Consume

\* However the partition moves between members that still hold what they
\* fetched, _consume_loop hands out an event at most once for every assignment
\* it is fetched under: no event waiting to be dispatched was dispatched under
\* the same one, by this member or by another.
THEOREM DispatchedOncePerFetch == Spec => []OncePerFetch
<1>1. Init => BatchInv /\ DeliveryInv
  BY InitBatchInv, InitDelivery
<1>2. BatchInv /\ DeliveryInv /\ [Next]_vars => (BatchInv /\ DeliveryInv)'
  BY BatchStep, DeliveryStep
<1>3. BatchInv /\ DeliveryInv => OncePerFetch
  <2> SUFFICES ASSUME BatchInv, DeliveryInv, NEW c \in Consumers, task[c] = "loop",
                      batch[c] # <<>>
               PROVE  <<Head(batch[c]), under[c]>> \notin deliveries
    BY DEF OncePerFetch
  <2>1. batch[c] \in Seq(Nat)
    BY DEF BatchInv, Types
  <2>2. 1 \in 1 .. Len(batch[c]) /\ Head(batch[c]) = batch[c][1]
    BY <2>1
  <2> QED
    BY <2>2 DEF DeliveryInv, StillToHandOut
<1> QED
  BY <1>1, <1>2, <1>3, PTL DEF Spec

-----------------------------------------------------------------------------
(* An event is logged once per life of its idempotency key.                *)

Copies(k) == {o \in 1 .. Len(log) : log[o] = k}

InFlight(k) == {p \in Publishers : k \in sending[p]}

\* A key that is not in Redis is a copy that may still be made.
CopiesPaid ==
    \A k \in Keys :
        Cardinality(Copies(k)) + Cardinality(InFlight(k)) + (IF k \in seen THEN 0 ELSE 1)
            <= 1 + expiries[k]

\* What the events of one key amount to, as numbers.
LEMMA CopiesNumbers ==
  ASSUME Types, NEW k \in Keys
  PROVE  /\ IsFiniteSet(Copies(k)) /\ Cardinality(Copies(k)) \in Nat
         /\ IsFiniteSet(InFlight(k)) /\ Cardinality(InFlight(k)) \in Nat
         /\ expiries[k] \in Nat
<1>1. IsFiniteSet(1 .. Len(log)) /\ Copies(k) \subseteq 1 .. Len(log)
  BY FS_Interval DEF Types, Copies
<1>2. IsFiniteSet(Publishers) /\ InFlight(k) \subseteq Publishers
  BY KafkaAssumption DEF InFlight
<1>3. IsFiniteSet(Copies(k)) /\ Cardinality(Copies(k)) \in Nat
  BY <1>1, Fewer
<1>4. IsFiniteSet(InFlight(k)) /\ Cardinality(InFlight(k)) \in Nat
  BY <1>2, Fewer
<1> QED
  BY <1>3, <1>4 DEF Types

\* The same in the next state.
LEMMA NextCopiesNumbers ==
  ASSUME Types', NEW k \in Keys
  PROVE  Cardinality(Copies(k)') \in Nat /\ Cardinality(InFlight(k)') \in Nat
<1>1. IsFiniteSet(1 .. Len(log')) /\ Copies(k)' \subseteq 1 .. Len(log')
  BY FS_Interval DEF Types, Copies
<1>2. IsFiniteSet(Publishers) /\ InFlight(k)' \subseteq Publishers
  BY KafkaAssumption DEF InFlight
<1> QED
  BY <1>1, <1>2, Fewer

LEMMA InitCopies == Init => CopiesPaid
<1> SUFFICES ASSUME Init PROVE CopiesPaid
  OBVIOUS
<1>1. ASSUME NEW k \in Keys
      PROVE  Copies(k) = {} /\ InFlight(k) = {} /\ expiries[k] = 0
  BY DEF Init, Copies, InFlight
<1> QED
  BY <1>1, FS_EmptySet DEF CopiesPaid

\* A step that may log an event in flight, or give it up, keeps the count.
LEMMA SendKeepsCopies ==
  ASSUME Types, Types', CopiesPaid, NEW p \in Publishers, NEW e \in sending[p],
         log' \in {log, Append(log, e)}, sending' = [sending EXCEPT ![p] = {}],
         UNCHANGED <<seen, expiries>>
  PROVE  CopiesPaid'
<1> SUFFICES ASSUME NEW k \in Keys
             PROVE  (Cardinality(Copies(k)) + Cardinality(InFlight(k)) + (IF k \in seen THEN 0 ELSE 1)
                        <= 1 + expiries[k])'
  BY DEF CopiesPaid
<1> DEFINE n == Cardinality(Copies(k))
           n1 == Cardinality(Copies(k)')
           f == Cardinality(InFlight(k))
           f1 == Cardinality(InFlight(k)')
           s == IF k \in seen THEN 0 ELSE 1
<1>1. /\ n \in Nat /\ f \in Nat /\ s \in Nat /\ expiries[k] \in Nat
      /\ n1 \in Nat /\ f1 \in Nat /\ n + f + s <= 1 + expiries[k]
  BY CopiesNumbers, NextCopiesNumbers DEF CopiesPaid
<1>2. log \in Seq(Keys) /\ e \in Keys /\ Len(log) \in Nat
  BY DEF Types
<1>3. CASE k = e
  <2>1. Copies(k)' \subseteq Copies(k) \cup {Len(log) + 1}
    <3>1. CASE log' = log
      BY <3>1 DEF Copies
    <3>2. CASE log' = Append(log, e)
      <4>1. /\ Len(log') = Len(log) + 1
            /\ \A o \in 1 .. Len(log) : log'[o] = log[o]
        BY <1>2, <3>2, AppendProperties
      <4> QED
        BY <1>2, <4>1 DEF Copies
    <3> QED
      BY <3>1, <3>2
  <2>2. InFlight(k)' \subseteq InFlight(k) \ {p} /\ p \in InFlight(k)
    BY <1>3 DEF InFlight, Types
  <2>3. n1 <= n + 1 /\ f1 <= f - 1
    <3>1. n1 <= n + 1
      BY <2>1, CopiesNumbers, OneMore
    <3>2. f1 <= f - 1
      BY <2>2, CopiesNumbers, OneLess
    <3> QED
      BY <3>1, <3>2
  <2> HIDE DEF n, n1, f, f1, s
  <2>4. n1 + f1 + s <= 1 + expiries[k]
    BY <1>1, <2>3
  <2> QED
    BY <2>4 DEF n1, f1, s
<1>4. CASE k # e
  <2>1. Copies(k)' \subseteq Copies(k)
    <3>1. CASE log' = log
      BY <3>1 DEF Copies
    <3>2. CASE log' = Append(log, e)
      <4>1. /\ Len(log') = Len(log) + 1 /\ log'[Len(log) + 1] = e
            /\ \A o \in 1 .. Len(log) : log'[o] = log[o]
        BY <1>2, <3>2, AppendProperties
      <4> QED
        BY <1>2, <1>4, <4>1 DEF Copies
    <3> QED
      BY <3>1, <3>2
  <2>2. InFlight(k)' \subseteq InFlight(k)
    BY DEF InFlight, Types
  <2>3. n1 <= n /\ f1 <= f
    BY <2>1, <2>2, CopiesNumbers, Fewer
  <2> HIDE DEF n, n1, f, f1, s
  <2>4. n1 + f1 + s <= 1 + expiries[k]
    BY <1>1, <2>3
  <2> QED
    BY <2>4 DEF n1, f1, s
<1> QED
  BY <1>3, <1>4

LEMMA CopiesStep ==
  ASSUME Types, Types', CopiesPaid, [Next]_vars
  PROVE  CopiesPaid'
<1>1. ASSUME UNCHANGED <<log, sending, expiries>>, seen \subseteq seen'
      PROVE  CopiesPaid'
  <2> SUFFICES ASSUME NEW k \in Keys
               PROVE  (Cardinality(Copies(k)) + Cardinality(InFlight(k))
                          + (IF k \in seen THEN 0 ELSE 1) <= 1 + expiries[k])'
    BY DEF CopiesPaid
  <2>1. Copies(k)' = Copies(k) /\ InFlight(k)' = InFlight(k)
    BY <1>1 DEF Copies, InFlight
  <2> QED
    BY <1>1, <2>1, CopiesNumbers DEF CopiesPaid
<1>2. ASSUME NEW p \in Publishers, NEW e \in Keys, SeenOrAdd(p, e)
      PROVE  CopiesPaid'
  <2>1. /\ UNCHANGED <<log, expiries>> /\ e \notin seen /\ seen' = seen \cup {e}
        /\ sending[p] = {} /\ sending' = [sending EXCEPT ![p] = {e}]
    BY <1>2 DEF SeenOrAdd
  <2> SUFFICES ASSUME NEW k \in Keys
               PROVE  (Cardinality(Copies(k)) + Cardinality(InFlight(k))
                          + (IF k \in seen THEN 0 ELSE 1) <= 1 + expiries[k])'
    BY DEF CopiesPaid
  <2> DEFINE n == Cardinality(Copies(k))
             f == Cardinality(InFlight(k))
             f1 == Cardinality(InFlight(k)')
  <2>2. /\ n \in Nat /\ f \in Nat /\ f1 \in Nat /\ expiries[k] \in Nat
        /\ n + f + (IF k \in seen THEN 0 ELSE 1) <= 1 + expiries[k]
    BY CopiesNumbers, NextCopiesNumbers DEF CopiesPaid
  <2>3. Copies(k)' = Copies(k)
    BY <2>1 DEF Copies
  <2>4. CASE k = e
    <3>1. InFlight(k)' \subseteq InFlight(k) \cup {p}
      BY <2>1 DEF InFlight, Types
    <3>2. f1 <= f + 1
      BY <3>1, CopiesNumbers, OneMore
    <3> HIDE DEF n, f, f1
    <3>3. n + f1 + 0 <= 1 + expiries[k]
      BY <2>1, <2>2, <2>4, <3>2
    <3> QED
      BY <2>1, <2>3, <2>4, <3>3 DEF n, f1
  <2>5. CASE k # e
    <3>1. InFlight(k)' = InFlight(k)
      BY <2>1, <2>5 DEF InFlight, Types
    <3> QED
      BY <2>1, <2>2, <2>3, <2>5, <3>1
  <2> QED
    BY <2>4, <2>5
<1>3. ASSUME NEW p \in Publishers, Send(p) \/ \E took \in BOOLEAN : SendFails(p, took)
      PROVE  CopiesPaid'
  <2>1. PICK e \in sending[p] : log' \in {log, Append(log, e)}
    BY <1>3 DEF Send, SendFails
  <2>2. sending' = [sending EXCEPT ![p] = {}] /\ UNCHANGED <<seen, expiries>>
    BY <1>3 DEF Send, SendFails
  <2> QED
    BY <2>1, <2>2, SendKeepsCopies
<1>4. ASSUME NEW p \in Publishers, PublisherDies(p)
      PROVE  CopiesPaid'
  <2>1. PICK e \in sending[p] : TRUE
    BY <1>4 DEF PublisherDies
  <2>2. /\ sending' = [sending EXCEPT ![p] = {}] /\ UNCHANGED <<seen, expiries>>
        /\ log' \in {log, Append(log, e)}
    BY <1>4 DEF PublisherDies
  <2> QED
    BY <2>1, <2>2, SendKeepsCopies
<1>5. ASSUME NEW e \in Keys, Expire(e)
      PROVE  CopiesPaid'
  <2>1. /\ UNCHANGED <<log, sending>> /\ e \in seen /\ seen' = seen \ {e}
        /\ expiries' = [expiries EXCEPT ![e] = @ + 1]
    BY <1>5 DEF Expire
  <2> SUFFICES ASSUME NEW k \in Keys
               PROVE  (Cardinality(Copies(k)) + Cardinality(InFlight(k))
                          + (IF k \in seen THEN 0 ELSE 1) <= 1 + expiries[k])'
    BY DEF CopiesPaid
  <2>2. Copies(k)' = Copies(k) /\ InFlight(k)' = InFlight(k)
    BY <2>1 DEF Copies, InFlight
  <2>3. expiries'[k] = IF k = e THEN expiries[k] + 1 ELSE expiries[k]
    BY <2>1 DEF Types
  <2> QED
    BY <2>1, <2>2, <2>3, CopiesNumbers DEF CopiesPaid
<1>6. ASSUME NEW p \in Publishers, NEW e \in Keys,
             Deduplicate(p, e) \/ \E took \in BOOLEAN : StoreFails(p, e, took)
      PROVE  UNCHANGED <<log, sending, expiries>> /\ seen \subseteq seen'
  BY <1>6 DEF Deduplicate, StoreFails
<1>7. ASSUME NEW c \in Consumers, Consume(c) \/ PollFails(c) \/ Assign(c) \/ Crash(c)
      PROVE  UNCHANGED <<log, sending, expiries, seen>>
  BY <1>7, ConsumerFrame DEF pubVars
<1>8. CASE UNCHANGED vars
  BY <1>1, <1>8 DEF vars
<1> QED
  BY <1>1, <1>2, <1>3, <1>4, <1>5, <1>6, <1>7, <1>8 DEF Next, Publish

\* However publishers race, fail, die and retry between seen_or_add and
\* send_and_wait, the log has at most one copy of an event for every life of
\* its idempotency key in Redis.
THEOREM LoggedOncePerExpiry == Spec => []OncePerExpiry
<1>1. Init => BatchInv /\ CopiesPaid
  BY InitBatchInv, InitCopies
<1>2. BatchInv /\ CopiesPaid /\ [Next]_vars => (BatchInv /\ CopiesPaid)'
  BY BatchStep, CopiesStep DEF BatchInv
<1>3. BatchInv /\ CopiesPaid => OncePerExpiry
  <2> SUFFICES ASSUME BatchInv, CopiesPaid, NEW k \in Keys
               PROVE  Cardinality(Copies(k)) + Cardinality(InFlight(k)) <= 1 + expiries[k]
    BY DEF OncePerExpiry, Copies, InFlight
  <2>1. /\ Cardinality(Copies(k)) \in Nat /\ Cardinality(InFlight(k)) \in Nat /\ expiries[k] \in Nat
    BY CopiesNumbers DEF BatchInv
  <2> QED
    BY <2>1 DEF CopiesPaid
<1> QED
  BY <1>1, <1>2, <1>3, PTL DEF Spec
=============================================================================

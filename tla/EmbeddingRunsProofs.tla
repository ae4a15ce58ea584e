------------------------ MODULE EmbeddingRunsProofs ------------------------
(***************************************************************************)
(* What TLAPS proves of EmbeddingRuns, for any finite set of threads and    *)
(* any number of processes, configurations, commands, changes and faults.   *)
(***************************************************************************)
EXTENDS EmbeddingRuns, FiniteSetTheorems, SequenceTheorems, TLAPS

-----------------------------------------------------------------------------
(* Batches                                                                  *)

\* The rows of a batch, and of the batches that wait.
Span(b) == b.from .. b.to
Waiting(job) == UNION {Span(job.queue[k]) : k \in 1..Len(job.queue)}

Within(b, job) == 1 <= b.from /\ b.from <= b.to /\ b.to <= Len(job.tasks)

QueueSound(job) ==
  /\ \A k \in 1..Len(job.queue) :
       Within(job.queue[k], job) /\ job.queue[k].tries < MaxBatchAttempts
  /\ \A k, l \in 1..Len(job.queue) : k # l => Span(job.queue[k]) \cap Span(job.queue[l]) = {}

BatchSound(job) ==
  /\ Within(job.batch, job)
  /\ \A k \in 1..Len(job.queue) : Span(job.batch) \cap Span(job.queue[k]) = {}

\* The rows that are neither stored nor counted as failed.
Open(job) == Span(job.batch) \cup Waiting(job)

\* Rows are counted once.
Accounted(job, open) ==
  job.embedded + Cardinality(job.failed) + Cardinality(open) <= Len(job.tasks)

LEMMA BatchType ==
  /\ NoBatch \in Batch /\ Embedding \in Job /\ Clustering \in Cover
  /\ \A b \in Batch : b.from \in Nat /\ b.to \in Nat /\ b.tries \in 0..2
<1>1. NoBatch \in Batch
  BY DEF NoBatch, Batch, MaxBatchAttempts
<1>2. /\ <<>> \in Seq(Batch)
      /\ <<>> \in Seq([thread : Threads, text : Texts \ {NoText}])
  OBVIOUS
<1>3. 0 \in 0..MaxAttempts - 1
  BY EmbeddingAssumption
<1>4. Embedding \in Job
  BY <1>1, <1>2, <1>3 DEF Embedding, Job
<1>5. Clustering \in Cover
  BY DEF Clustering, Cover
<1>6. QED
  BY <1>1, <1>4, <1>5 DEF Batch, MaxBatchAttempts

LEMMA JobFields ==
  ASSUME NEW job \in Job
  PROVE  /\ job.tasks \in Seq([thread : Threads, text : Texts \ {NoText}])
         /\ job.queue \in Seq(Batch) /\ job.batch \in Batch
         /\ job.attempt \in 0..MaxAttempts - 1 /\ job.embedded \in Nat
         /\ job.failed \subseteq Threads /\ job.interrupted \in BOOLEAN
         /\ Len(job.tasks) \in Nat /\ Len(job.queue) \in Nat
         /\ \A k \in 1..Len(job.queue) : job.queue[k] \in Batch
         /\ \A i \in 1..Len(job.tasks) :
              job.tasks[i].thread \in Threads /\ job.tasks[i].text \in Texts \ {NoText}
<1>1. /\ job.tasks \in Seq([thread : Threads, text : Texts \ {NoText}])
      /\ job.queue \in Seq(Batch) /\ job.batch \in Batch
      /\ job.attempt \in 0..MaxAttempts - 1 /\ job.embedded \in Nat
      /\ job.failed \subseteq Threads /\ job.interrupted \in BOOLEAN
  BY DEF Job
<1>2. \A i \in 1..Len(job.tasks) : job.tasks[i] \in [thread : Threads, text : Texts \ {NoText}]
  BY <1>1, ElementOfSeq
<1>3. \A i \in 1..Len(job.tasks) :
         job.tasks[i].thread \in Threads /\ job.tasks[i].text \in Texts \ {NoText}
  BY <1>2
<1>4. \A k \in 1..Len(job.queue) : job.queue[k] \in Batch
  BY <1>1
<1>5. Len(job.tasks) \in Nat /\ Len(job.queue) \in Nat
  BY <1>1
<1>6. QED
  BY <1>1, <1>3, <1>4, <1>5

(* The next batch is the first that waits.                                  *)
LEMMA NextTaken ==
  ASSUME NEW job \in Job, QueueSound(job)
  PROVE  /\ NextJob(job) \in Job
         /\ NextJob(job).tasks = job.tasks /\ NextJob(job).embedded = job.embedded
         /\ NextJob(job).failed = job.failed /\ NextJob(job).interrupted = job.interrupted
         /\ job.queue = <<>> => Waiting(job) = {}
         /\ job.queue # <<>> => /\ QueueSound(NextJob(job)) /\ BatchSound(NextJob(job))
                                /\ Open(NextJob(job)) = Waiting(job)
<1>0. 0 \in 0..MaxAttempts - 1
  BY EmbeddingAssumption
<1>1. CASE job.queue = <<>>
  <2>1. NextJob(job) = [job EXCEPT !.batch = NoBatch, !.attempt = 0]
    BY <1>1 DEF NextJob
  <2>2. Waiting(job) = {}
    BY <1>1 DEF Waiting
  <2>3. QED
    BY <1>0, <1>1, <2>1, <2>2, BatchType DEF Job
<1>2. CASE job.queue # <<>>
  <2> DEFINE q == job.queue
             next == NextJob(job)
             b == [q[1] EXCEPT !.tries = @ + 1]
  <2>1. /\ q \in Seq(Batch) /\ Len(q) >= 1 /\ q[1] \in Batch /\ q[1].tries < MaxBatchAttempts
        /\ Head(q) = q[1]
    BY <1>2, JobFields DEF QueueSound
  <2>2. b \in Batch /\ b.from = q[1].from /\ b.to = q[1].to
    BY <2>1 DEF Batch, MaxBatchAttempts
  <2>3. Tail(q) \in Seq(Batch) /\ Len(Tail(q)) = Len(q) - 1
        /\ \A k \in 1..Len(Tail(q)) : Tail(q)[k] = q[k + 1] /\ k + 1 \in 1..Len(q) /\ k + 1 # 1
    BY <1>2, <2>1
  <2>4. next = [job EXCEPT !.queue = Tail(@), !.attempt = 0, !.batch = b]
    BY <1>2, <2>1 DEF NextJob
  <2>5. /\ next \in Job /\ next.tasks = job.tasks /\ next.embedded = job.embedded
        /\ next.failed = job.failed /\ next.interrupted = job.interrupted
        /\ next.queue = Tail(q) /\ next.batch = b
    BY <1>0, <2>2, <2>3, <2>4 DEF Job
  <2> HIDE DEF next, b
  <2>6. Span(next.batch) = Span(q[1])
    BY <2>2, <2>5 DEF Span
  <2>7. QueueSound(next)
    <3>1. \A k \in 1..Len(next.queue) : next.queue[k] = q[k + 1] /\ k + 1 \in 1..Len(q)
      BY <2>3, <2>5
    <3>2. \A k, l \in 1..Len(next.queue) : k # l => k + 1 # l + 1
      BY <2>3, <2>5
    <3>3. QED
      BY <2>5, <3>1, <3>2 DEF QueueSound, Within
  <2>8. BatchSound(next)
    <3>1. Within(next.batch, next)
      BY <2>1, <2>2, <2>5 DEF QueueSound, Within
    <3>2. ASSUME NEW k \in 1..Len(next.queue)
          PROVE  Span(next.batch) \cap Span(next.queue[k]) = {}
      <4>1. next.queue[k] = q[k + 1] /\ k + 1 \in 1..Len(q) /\ k + 1 # 1 /\ 1 \in 1..Len(q)
        BY <2>1, <2>3, <2>5, <3>2
      <4>2. QED
        BY <2>6, <4>1 DEF QueueSound
    <3>3. QED
      BY <3>1, <3>2 DEF BatchSound
  <2>9. Open(next) = Waiting(job)
    <3>1. Waiting(next) = UNION {Span(q[k + 1]) : k \in 1..Len(q) - 1}
      BY <2>3, <2>5 DEF Waiting
    <3>2. \A k \in 1..Len(q) : k = 1 \/ (k - 1 \in 1..Len(q) - 1 /\ k = (k - 1) + 1)
      BY <2>1
    <3>3. 1 \in 1..Len(q) /\ \A k \in 1..Len(q) - 1 : k + 1 \in 1..Len(q)
      BY <2>1
    <3>4. Open(next) = Span(q[1]) \cup UNION {Span(q[k + 1]) : k \in 1..Len(q) - 1}
      BY <2>6, <3>1 DEF Open
    <3>5. ASSUME NEW x PROVE x \in Open(next) <=> x \in Waiting(job)
      <4>1. x \in Waiting(job) <=> \E k \in 1..Len(q) : x \in Span(q[k])
        BY DEF Waiting
      <4>2. x \in Open(next) <=> x \in Span(q[1]) \/ \E k \in 1..Len(q) - 1 : x \in Span(q[k + 1])
        BY <3>4
      <4>3. (\E k \in 1..Len(q) : x \in Span(q[k]))
              => x \in Span(q[1]) \/ \E k \in 1..Len(q) - 1 : x \in Span(q[k + 1])
        BY <3>2
      <4>4. QED
        BY <3>3, <4>1, <4>2, <4>3
    <3>6. QED
      BY <3>5
  <2>10. QED
    BY <1>2, <2>5, <2>7, <2>8, <2>9 DEF next
<1>3. QED
  BY <1>1, <1>2

LEMMA RowsAreFinite ==
  ASSUME NEW job \in Job, QueueSound(job), NEW S, S \subseteq 1..Len(job.tasks)
  PROVE  IsFiniteSet(S) /\ Cardinality(S) \in Nat
<1>1. Len(job.tasks) \in Nat
  BY JobFields
<1>2. \A n \in Nat : IsFiniteSet(1..n)
  BY FS_Interval
<1>3. IsFiniteSet(1..Len(job.tasks))
  BY <1>1, <1>2
<1>4. QED
  BY <1>3, FS_Subset, FS_CardinalityType

LEMMA OpenRows ==
  ASSUME NEW job \in Job, QueueSound(job)
  PROVE  /\ Waiting(job) \subseteq 1..Len(job.tasks)
         /\ BatchSound(job) => /\ Span(job.batch) \subseteq 1..Len(job.tasks)
                               /\ Span(job.batch) \cap Waiting(job) = {}
<1>1. ASSUME NEW b \in Batch, Within(b, job) PROVE Span(b) \subseteq 1..Len(job.tasks)
  BY <1>1, BatchType, JobFields DEF Within, Span
<1>2. Waiting(job) \subseteq 1..Len(job.tasks)
  BY <1>1, JobFields DEF Waiting, QueueSound
<1>3. BatchSound(job) => Span(job.batch) \subseteq 1..Len(job.tasks)
  BY <1>1, JobFields DEF BatchSound
<1>4. QED
  BY <1>2, <1>3 DEF BatchSound, Waiting

(* The rows of a batch leave the open ones, which counts.                   *)
LEMMA OpenCount ==
  ASSUME NEW job \in Job, QueueSound(job), BatchSound(job)
  PROVE  Cardinality(Open(job)) = Cardinality(Span(job.batch)) + Cardinality(Waiting(job))
<1>1. IsFiniteSet(Span(job.batch)) /\ IsFiniteSet(Waiting(job))
  BY OpenRows, RowsAreFinite
<1>2. Cardinality(Open(job)) = Cardinality(Span(job.batch)) + Cardinality(Waiting(job))
                                 - Cardinality(Span(job.batch) \cap Waiting(job))
  BY <1>1, FS_Union DEF Open
<1>3. Cardinality(Span(job.batch) \cap Waiting(job)) = 0
  BY OpenRows, FS_EmptySet
<1>4. Cardinality(Span(job.batch)) \in Nat /\ Cardinality(Waiting(job)) \in Nat
  BY OpenRows, RowsAreFinite
<1>5. QED
  BY <1>2, <1>3, <1>4

\* What a command has to embed, by its program counter.
JobInv(pc, job) ==
  /\ pc \in {"request", "store"} =>
       QueueSound(job) /\ BatchSound(job) /\ Accounted(job, Open(job))
  /\ pc = "record" => Accounted(job, {})
  /\ pc \notin {"request", "store", "record"} => job = Embedding

NextPc(job) == IF job.queue = <<>> THEN "record" ELSE "request"

LEMMA NextSound ==
  ASSUME NEW job \in Job, QueueSound(job), Accounted(job, Waiting(job))
  PROVE  JobInv(NextPc(job), NextJob(job))
<1> DEFINE next == NextJob(job)
<1>1. /\ next \in Job /\ next.tasks = job.tasks /\ next.embedded = job.embedded
      /\ next.failed = job.failed
      /\ job.queue = <<>> => Waiting(job) = {}
      /\ job.queue # <<>> => QueueSound(next) /\ BatchSound(next) /\ Open(next) = Waiting(job)
  BY NextTaken
<1> HIDE DEF next
<1>2. CASE job.queue = <<>>
  BY <1>1, <1>2 DEF JobInv, NextPc, Accounted, next
<1>3. CASE job.queue # <<>>
  BY <1>1, <1>3 DEF JobInv, NextPc, Accounted, next
<1>4. QED
  BY <1>2, <1>3

(* The threads of a batch are no more than its rows.                        *)
LEMMA BatchCount ==
  ASSUME NEW job \in Job, QueueSound(job), BatchSound(job)
  PROVE  /\ IsFiniteSet(BatchThreads(job)) /\ BatchThreads(job) \subseteq Threads
         /\ Cardinality(BatchThreads(job)) <= Cardinality(Span(job.batch))
<1> DEFINE S == Span(job.batch)
           T == BatchThreads(job)
           f == [i \in S |-> job.tasks[i].thread]
<1>1. S \subseteq 1..Len(job.tasks) /\ IsFiniteSet(S)
  BY OpenRows, RowsAreFinite
<1>2. T = {job.tasks[i].thread : i \in S}
  BY DEF BatchThreads, Span
<1>3. f \in Surjection(S, T)
  BY <1>2 DEF Surjection
<1>4. T \subseteq Threads
  BY <1>1, <1>2, JobFields
<1> HIDE DEF S, T, f
<1>5. QED
  BY <1>1, <1>3, <1>4, FS_Surjection DEF S, T

LEMMA FailSound ==
  ASSUME NEW job \in Job, QueueSound(job), BatchSound(job), Accounted(job, Open(job))
  PROVE  LET next == FailBatch(job)
         IN /\ next \in Job /\ QueueSound(next) /\ Accounted(next, Waiting(next))
            /\ next.tasks = job.tasks /\ next.embedded = job.embedded
            /\ next.interrupted = job.interrupted /\ Waiting(next) = Waiting(job)
            /\ next.failed = job.failed \cup BatchThreads(job)
<1> DEFINE next == FailBatch(job)
           T == BatchThreads(job)
<1>1. IsFiniteSet(T) /\ T \subseteq Threads /\ Cardinality(T) <= Cardinality(Span(job.batch))
  BY BatchCount
<1>2. /\ next \in Job /\ next.tasks = job.tasks /\ next.queue = job.queue
      /\ next.embedded = job.embedded /\ next.failed = job.failed \cup T
      /\ next.interrupted = job.interrupted
  <2>1. next = [job EXCEPT !.failed = @ \cup T]
    BY DEF FailBatch
  <2> HIDE DEF T, next
  <2>2. QED
    BY <1>1, <2>1 DEF Job
<1> HIDE DEF T, next
<1>3. IsFiniteSet(job.failed)
  BY JobFields, EmbeddingAssumption, FS_Subset
<1>4. Cardinality(job.failed \cup T) <= Cardinality(job.failed) + Cardinality(T)
  <2>1. Cardinality(job.failed \cup T) =
          Cardinality(job.failed) + Cardinality(T) - Cardinality(job.failed \cap T)
    BY <1>1, <1>3, FS_Union
  <2>2. /\ Cardinality(job.failed \cap T) \in Nat /\ Cardinality(T) \in Nat
        /\ Cardinality(job.failed) \in Nat
    BY <1>1, <1>3, FS_Intersection, FS_CardinalityType
  <2>3. QED
    BY <2>1, <2>2
<1>5. QueueSound(next) /\ Waiting(next) = Waiting(job)
  BY <1>2 DEF QueueSound, Waiting, Within
<1>6. Accounted(next, Waiting(next))
  <2>1. Cardinality(Open(job)) = Cardinality(Span(job.batch)) + Cardinality(Waiting(job))
    BY OpenCount
  <2>2. /\ Cardinality(Waiting(job)) \in Nat /\ Cardinality(Span(job.batch)) \in Nat
        /\ Cardinality(T) \in Nat /\ Cardinality(job.failed) \in Nat
        /\ Cardinality(job.failed \cup T) \in Nat
    BY <1>1, <1>3, OpenRows, RowsAreFinite, FS_CardinalityType, FS_Union
  <2>3. job.embedded \in Nat /\ Len(job.tasks) \in Nat
    BY JobFields
  <2>4. QED
    BY SMTT(30), <1>1, <1>2, <1>4, <1>5, <2>1, <2>2, <2>3 DEF Accounted
<1>7. QED
  BY <1>2, <1>5, <1>6 DEF next, T

LEMMA RequeueSound ==
  ASSUME NEW job \in Job, QueueSound(job), BatchSound(job), Accounted(job, Open(job)),
         MayRequeue(job)
  PROVE  LET next == Requeue(job)
         IN next \in Job /\ QueueSound(next) /\ Waiting(next) = Open(job)
            /\ Accounted(next, Waiting(next)) /\ next.failed = job.failed
            /\ next.tasks = job.tasks /\ next.embedded = job.embedded
            /\ next.interrupted = job.interrupted
<1> DEFINE next == Requeue(job)
           q == job.queue
           n == Len(q)
<1>1. /\ n \in Nat /\ q \in Seq(Batch) /\ job.batch \in Batch
      /\ Append(q, job.batch) \in Seq(Batch)
      /\ Len(Append(q, job.batch)) = n + 1 /\ Append(q, job.batch)[n + 1] = job.batch
      /\ \A k \in 1..n : Append(q, job.batch)[k] = q[k]
  BY JobFields
<1>2. /\ next \in Job /\ next.tasks = job.tasks /\ next.queue = Append(q, job.batch)
      /\ next.embedded = job.embedded /\ next.failed = job.failed
      /\ next.interrupted = job.interrupted
  <2>1. next = [job EXCEPT !.queue = Append(@, job.batch)]
    BY DEF Requeue
  <2> HIDE DEF next
  <2>2. QED
    BY <1>1, <2>1 DEF Job
<1> HIDE DEF next, n
<1>3. /\ Len(next.queue) = n + 1 /\ next.queue[n + 1] = job.batch
      /\ \A k \in 1..n : next.queue[k] = q[k]
      /\ \A k \in 1..(n + 1) : k = n + 1 \/ k \in 1..n
  BY <1>1, <1>2
<1>4. QueueSound(next)
  <2>1. ASSUME NEW k \in 1..Len(next.queue)
        PROVE  Within(next.queue[k], next) /\ next.queue[k].tries < MaxBatchAttempts
    <3>1. CASE k = n + 1
      BY <1>2, <1>3, <3>1 DEF BatchSound, Within, MayRequeue
    <3>2. CASE k \in 1..n
      BY <1>2, <1>3, <3>2 DEF QueueSound, Within, n
    <3>3. QED
      BY <1>3, <2>1, <3>1, <3>2
  <2>2. ASSUME NEW k \in 1..Len(next.queue), NEW l \in 1..Len(next.queue), k # l
        PROVE  Span(next.queue[k]) \cap Span(next.queue[l]) = {}
    <3>1. CASE k = n + 1
      BY <1>3, <2>2, <3>1 DEF BatchSound, n
    <3>2. CASE l = n + 1
      BY <1>3, <2>2, <3>2 DEF BatchSound, n
    <3>3. CASE k \in 1..n /\ l \in 1..n
      BY <1>3, <2>2, <3>3 DEF QueueSound, n
    <3>4. QED
      BY <1>3, <2>2, <3>1, <3>2, <3>3
  <2>3. QED
    BY <2>1, <2>2 DEF QueueSound
<1>5. Waiting(next) = Open(job)
  <2>1. ASSUME NEW x PROVE x \in Waiting(next) <=> x \in Open(job)
    <3>1. x \in Waiting(next) <=> \E k \in 1..(n + 1) : x \in Span(next.queue[k])
      BY <1>3 DEF Waiting
    <3>2. x \in Open(job) <=> x \in Span(job.batch) \/ \E k \in 1..n : x \in Span(q[k])
      BY DEF Open, Waiting, n
    <3>3. n + 1 \in 1..(n + 1) /\ \A k \in 1..n : k \in 1..(n + 1)
      BY <1>1 DEF n
    <3>4. QED
      BY <1>3, <3>1, <3>2, <3>3
  <2>2. QED
    BY <2>1
<1>6. QED
  BY <1>2, <1>4, <1>5 DEF Accounted, next

LEMMA InterruptSound ==
  ASSUME NEW job \in Job, QueueSound(job), BatchSound(job), Accounted(job, Open(job))
  PROVE  LET next == [job EXCEPT !.interrupted = TRUE, !.queue = <<>>]
         IN next \in Job /\ QueueSound(next) /\ Accounted(next, Waiting(next))
            /\ next.interrupted /\ next.tasks = job.tasks /\ next.embedded = job.embedded
<1> DEFINE next == [job EXCEPT !.interrupted = TRUE, !.queue = <<>>]
<1>1. /\ next \in Job /\ next.tasks = job.tasks /\ next.queue = <<>> /\ next.interrupted
      /\ next.embedded = job.embedded /\ next.failed = job.failed
  <2>1. <<>> \in Seq(Batch)
    OBVIOUS
  <2>2. QED
    BY <2>1 DEF Job
<1> HIDE DEF next
<1>2. QueueSound(next) /\ Waiting(next) = {}
  BY <1>1 DEF QueueSound, Waiting
<1>3. Cardinality(Open(job)) \in Nat /\ Cardinality(job.failed) \in Nat
  <2>1. Open(job) \subseteq 1..Len(job.tasks)
    BY OpenRows DEF Open
  <2>2. IsFiniteSet(job.failed)
    BY JobFields, EmbeddingAssumption, FS_Subset
  <2>3. QED
    BY <2>1, <2>2, RowsAreFinite, FS_CardinalityType
<1>4. Accounted(next, Waiting(next))
  BY <1>1, <1>2, <1>3, FS_EmptySet, JobFields DEF Accounted
<1>5. QED
  BY <1>1, <1>2, <1>4 DEF next

(* A stored row is counted once, too.                                       *)
LEMMA StoreSound ==
  ASSUME NEW job \in Job, QueueSound(job), BatchSound(job), Accounted(job, Open(job))
  PROVE  LET stored == [job EXCEPT !.embedded = @ + 1]
             next == [stored EXCEPT !.batch.from = @ + 1]
             row == job.batch.from
         IN /\ row \in 1..Len(job.tasks) /\ row \in Open(job)
            /\ stored \in Job /\ QueueSound(stored)
            /\ row = job.batch.to => /\ Waiting(stored) = Open(job) \ {row}
                                     /\ Accounted(stored, Waiting(stored))
            /\ row < job.batch.to =>
                 /\ next \in Job /\ QueueSound(next) /\ BatchSound(next)
                 /\ Open(next) = Open(job) \ {row} /\ Accounted(next, Open(next))
<1> DEFINE stored == [job EXCEPT !.embedded = @ + 1]
           next == [stored EXCEPT !.batch.from = @ + 1]
           row == job.batch.from
           b == job.batch
<1>1. /\ stored \in Job /\ stored.tasks = job.tasks /\ stored.queue = job.queue
      /\ stored.embedded = job.embedded + 1 /\ stored.failed = job.failed /\ stored.batch = b
  BY JobFields DEF Job
<1>2. /\ b.from \in Nat /\ b.to \in Nat /\ b.tries \in 0..2 /\ Len(job.tasks) \in Nat
      /\ 1 <= b.from /\ b.from <= b.to /\ b.to <= Len(job.tasks)
  BY JobFields, BatchType DEF BatchSound, Within
<1>3. row \in 1..Len(job.tasks) /\ row \in Span(b) /\ row \in Open(job)
  BY <1>2 DEF Span, Open
<1>4. QueueSound(stored) /\ Waiting(stored) = Waiting(job)
  BY <1>1 DEF QueueSound, Waiting, Within
<1>5. /\ IsFiniteSet(Open(job)) /\ Cardinality(Open(job)) \in Nat
      /\ Cardinality(Open(job) \ {row}) = Cardinality(Open(job)) - 1
  <2>1. Open(job) \subseteq 1..Len(job.tasks)
    BY OpenRows DEF Open
  <2>2. IsFiniteSet(Open(job)) /\ Cardinality(Open(job)) \in Nat
    BY <2>1, RowsAreFinite
  <2>3. QED
    BY <1>3, <2>2, FS_RemoveElement
<1>6. Cardinality(job.failed) \in Nat
  BY JobFields, EmbeddingAssumption, FS_Subset, FS_CardinalityType
<1> HIDE DEF stored
<1>7. ASSUME row = b.to
      PROVE  Waiting(stored) = Open(job) \ {row} /\ Accounted(stored, Waiting(stored))
  <2>1. Span(b) = {row}
    BY <1>2, <1>7 DEF Span
  <2>2. Span(b) \cap Waiting(job) = {}
    BY OpenRows
  <2>3. Waiting(stored) = Open(job) \ {row}
    BY <1>4, <2>1, <2>2 DEF Open
  <2>4. QED
    BY <1>1, <1>2, <1>5, <1>6, <2>3, JobFields DEF Accounted
<1>8. ASSUME row < b.to
      PROVE  /\ next \in Job /\ QueueSound(next) /\ BatchSound(next)
             /\ Open(next) = Open(job) \ {row} /\ Accounted(next, Open(next))
  <2> DEFINE rest == [b EXCEPT !.from = @ + 1]
  <2>1. rest \in Batch /\ rest.from = b.from + 1 /\ rest.to = b.to /\ rest.tries = b.tries
    BY <1>2, JobFields DEF Batch
  <2>2. next = [stored EXCEPT !.batch = rest]
    BY <1>1 DEF Job
  <2> HIDE DEF rest, next
  <2>3. /\ next \in Job /\ next.tasks = job.tasks /\ next.queue = job.queue
        /\ next.embedded = job.embedded + 1 /\ next.failed = job.failed /\ next.batch = rest
    BY <1>1, <2>1, <2>2 DEF Job
  <2>4. QueueSound(next) /\ Waiting(next) = Waiting(job)
    BY <2>3 DEF QueueSound, Waiting, Within
  <2>5. Span(rest) = Span(b) \ {row}
    BY <1>2, <1>8, <2>1 DEF Span
  <2>6. BatchSound(next)
    BY <1>2, <1>8, <2>1, <2>3, <2>5 DEF BatchSound, Within
  <2>7. Span(b) \cap Waiting(job) = {}
    BY OpenRows
  <2>8. Open(next) = Open(job) \ {row}
    BY <1>3, <2>3, <2>4, <2>5, <2>7 DEF Open
  <2>9. QED
    BY <1>2, <1>5, <1>6, <2>3, <2>4, <2>6, <2>8, JobFields DEF Accounted
<1>9. QED
  BY <1>1, <1>3, <1>4, <1>7, <1>8 DEF stored, next

(* Every row is in one batch.                                               *)
LEMMA QueueCovers ==
  ASSUME NEW tasks \in Seq([thread : Threads, text : Texts \ {NoText}]),
         NEW size \in BatchSizes
  PROVE  LET job == [Embedding EXCEPT !.tasks = tasks, !.queue = Queue(Len(tasks), size)]
         IN job \in Job /\ QueueSound(job) /\ Waiting(job) = 1..Len(tasks)
            /\ Accounted(job, Waiting(job)) /\ job.failed = {} /\ job.tasks = tasks
            /\ job.embedded = 0
<1> DEFINE n == Len(tasks)
           q == Queue(n, size)
           m == (n + size - 1) \div size
           job == [Embedding EXCEPT !.tasks = tasks, !.queue = q]
           At(i) == [from |-> (i - 1) * size + 1,
                     to |-> IF i * size < n THEN i * size ELSE n, tries |-> 0]
<1>1. n \in Nat /\ size \in Nat \ {0}
  BY EmbeddingAssumption
<1>2. /\ m \in Nat /\ n <= m * size
      /\ m # 0 => (m - 1) * size < n
  <2>1. m \in Nat /\ n + size - 1 = m * size + ((n + size - 1) % size)
    BY <1>1
  <2>2. (n + size - 1) % size \in 0..(size - 1)
    BY <1>1
  <2>3. m * size \in Nat /\ (m # 0 => (m - 1) * size = m * size - size)
    BY <1>1, <2>1
  <2>4. QED
    BY <1>1, <2>1, <2>2, <2>3
<1>3. q = [i \in 1..m |-> At(i)]
  BY DEF Queue
<1> HIDE DEF m, n, q
<1>4. ASSUME NEW i \in 1..m
      PROVE  /\ (i - 1) * size \in Nat /\ i * size = (i - 1) * size + size
             /\ (i - 1) * size < n /\ At(i) \in Batch
             /\ At(i).from = (i - 1) * size + 1
             /\ At(i).to = IF i * size < n THEN i * size ELSE n
             /\ At(i).tries = 0
  <2>1. (i - 1) * size \in Nat /\ i * size = (i - 1) * size + size
    BY <1>1, <1>2
  <2>2. (i - 1) * size <= (m - 1) * size
    BY <1>1, <1>2
  <2>3. (i - 1) * size < n
    BY <1>1, <1>2, <2>1, <2>2
  <2>4. i * size \in Nat
    BY <1>1, <2>1
  <2>5. QED
    BY <1>1, <2>1, <2>3, <2>4 DEF Batch, MaxBatchAttempts
<1>5. q \in Seq(Batch) /\ Len(q) = m /\ \A i \in 1..m : q[i] = At(i)
  BY <1>2, <1>3, <1>4
<1> HIDE DEF At
<1>6. /\ job \in Job /\ job.tasks = tasks /\ job.queue = q /\ job.embedded = 0 /\ job.failed = {}
  <2>1. Embedding \in Job /\ Embedding.embedded = 0 /\ Embedding.failed = {}
    BY BatchType DEF Embedding
  <2>2. QED
    BY <1>5, <2>1 DEF Job
<1> HIDE DEF job
<1>7. QueueSound(job)
  <2>1. ASSUME NEW i \in 1..m
        PROVE  Within(q[i], job) /\ q[i].tries < MaxBatchAttempts
    <3>1. /\ (i - 1) * size \in Nat /\ i * size = (i - 1) * size + size /\ (i - 1) * size < n
          /\ q[i].from = (i - 1) * size + 1 /\ q[i].to = IF i * size < n THEN i * size ELSE n
          /\ q[i].tries = 0
      BY <1>4, <1>5
    <3>2. QED
      BY <1>1, <1>6, <3>1 DEF Within, MaxBatchAttempts, n
  <2>2. ASSUME NEW k \in 1..m, NEW l \in 1..m, k < l
        PROVE  Span(q[k]) \cap Span(q[l]) = {}
    <3>1. k * size <= (l - 1) * size
      BY <1>1, <1>2, <2>2
    <3>2. q[k].to <= k * size /\ q[k].to \in Nat /\ k * size \in Nat
      <4>1. /\ (k - 1) * size \in Nat /\ k * size = (k - 1) * size + size
            /\ q[k].to = IF k * size < n THEN k * size ELSE n
        BY <1>4, <1>5
      <4>2. k * size \in Nat
        BY <1>1, <4>1
      <4>3. QED
        BY <1>1, <4>1, <4>2
    <3>3. q[l].from = (l - 1) * size + 1 /\ (l - 1) * size \in Nat /\ q[k].from \in Nat
      BY <1>4, <1>5
    <3>4. QED
      BY <3>1, <3>2, <3>3 DEF Span
  <2>3. ASSUME NEW k \in 1..m, NEW l \in 1..m, k # l
        PROVE  Span(q[k]) \cap Span(q[l]) = {}
    <3>1. k \in Nat /\ l \in Nat
      BY <1>2
    <3>2. CASE k < l
      BY <2>2, <3>2
    <3>3. CASE l < k
      BY <2>2, <3>3
    <3>4. QED
      BY <2>3, <3>1, <3>2, <3>3
  <2>4. QED
    BY <1>5, <1>6, <2>1, <2>3 DEF QueueSound
<1>8. Waiting(job) = 1..n
  <2>1. Waiting(job) \subseteq 1..n
    BY <1>6, <1>7, OpenRows DEF n
  <2>2. ASSUME NEW x \in 1..n PROVE x \in Waiting(job)
    <3> DEFINE i == ((x - 1) \div size) + 1
    <3>1. x - 1 \in Nat
      BY <1>1
    <3>2. /\ (x - 1) \div size \in Nat
          /\ x - 1 = ((x - 1) \div size) * size + ((x - 1) % size)
          /\ (x - 1) % size \in 0..(size - 1)
      BY <1>1, <3>1
    <3>3. /\ i \in Nat /\ 1 <= i /\ (i - 1) * size \in Nat /\ (i - 1) * size <= x - 1
          /\ x - 1 < (i - 1) * size + size
      <4>1. i - 1 = (x - 1) \div size /\ ((x - 1) \div size) * size \in Nat
        BY <1>1, <3>2
      <4> HIDE DEF i
      <4>2. (i - 1) * size = ((x - 1) \div size) * size
        BY <4>1
      <4>3. i \in Nat /\ 1 <= i
        BY <3>2 DEF i
      <4>4. QED
        BY <1>1, <3>1, <3>2, <4>1, <4>2, <4>3
    <3> HIDE DEF i
    <3>4. i <= m
      <4>1. SUFFICES ASSUME m < i PROVE FALSE
        BY <1>2, <3>3
      <4>2. m * size <= (i - 1) * size
        BY <1>1, <1>2, <3>3, <4>1
      <4>3. m * size \in Nat
        BY <1>1, <1>2
      <4>4. QED
        BY <1>1, <1>2, <3>3, <4>2, <4>3
    <3>5. i \in 1..m
      BY <1>2, <3>3, <3>4
    <3>6. /\ q[i].from = (i - 1) * size + 1 /\ i * size = (i - 1) * size + size
          /\ q[i].to = IF i * size < n THEN i * size ELSE n
      BY <1>4, <1>5, <3>5
    <3>7. x \in Span(q[i])
      BY <1>1, <3>3, <3>6 DEF Span
    <3>8. QED
      BY <1>5, <1>6, <3>5, <3>7 DEF Waiting
  <2>3. QED
    BY <2>1, <2>2
<1>9. Accounted(job, Waiting(job))
  <2>1. Cardinality(1..n) = n
    BY <1>1, FS_Interval
  <2>2. Cardinality(job.failed) = 0 /\ Len(job.tasks) = n
    BY <1>6, FS_EmptySet DEF n
  <2>3. QED
    BY <1>1, <1>6, <1>8, <2>1, <2>2 DEF Accounted
<1>10. QED
  BY <1>6, <1>7, <1>8, <1>9 DEF n, job, q

-----------------------------------------------------------------------------
(* The inductive invariant                                                  *)

Embeds == {"request", "store", "record"}

\* What a command has seen of a thread, and that it saw every thread open.
Saw(r, t, text) == \E s \in r.seen[t] : s.text = text
SawClosed(r, t) == \E s \in r.seen[t] : ~s.open
SawAllOpen(r) == \A t \in Threads : ~SawClosed(r, t)

Searches(r) == r.opts.stages[1] = "neighbors"

\* Vectors that clusters are made of.
VectorsSound(r, pc, cover) ==
  LET vectors == cover.vectors
  IN /\ \A v \in vectors : v.hash = v.of
     /\ pc \in {"count", "coverage"} => \A v, w \in vectors :
          v.config = r.config /\ (v.thread = w.thread => v = w)
     /\ pc = "coverage" /\ ~r.opts.closed /\ SawAllOpen(r)
          => cover.eligible = Cardinality(Threads)
     /\ pc = "fallback" => vectors = {} /\ ~cover.fallback
     /\ pc = "group" => cover.fallback
     /\ (/\ pc \in {"fallback", "save"} /\ cover.complete /\ ~cover.fallback
         /\ ~r.opts.closed /\ SawAllOpen(r)) => {v.thread : v \in vectors} = Threads
     /\ pc = "group" => \A v \in vectors :
          v.config \in Unsupported \cup cover.groups \/ Saw(r, v.thread, v.of)
     /\ pc = "save" => \A v \in vectors : v.config \in Unsupported \/ Saw(r, v.thread, v.of)

CoverInv(r) == VectorsSound(r, r.pc, r.cover)

\* A search for neighbors that was not disturbed has its thread embedded anew.
Refreshed(r, vec) ==
  (/\ r.alone /\ r.steady /\ Searches(r) /\ r.opts.number \in Threads
   /\ \/ r.pc \in Embeds /\ r.job.embedded > 0
      \/ r.pc = "find" /\ r.backfill # "none")
  => Saw(r, r.opts.number, vec[r.config][r.opts.number].of)

\* The text of a target is one the thread had, or it cannot be embedded anew.
Answerable(r) ==
  r.alone /\ r.steady /\ r.config \notin Unsupported =>
    \A v \in r.cover.vectors : v.thread = r.opts.number =>
      Saw(r, v.thread, v.of) \/ Saw(r, v.thread, NoText) \/ SawClosed(r, v.thread)

\* Every row is of a thread and a text that the command has seen.
TasksSeen(r, job) ==
  \A i \in 1..Len(job.tasks) :
    /\ Saw(r, job.tasks[i].thread, job.tasks[i].text)
    /\ r.opts.number \in {0, job.tasks[i].thread}

TargetInv(r, vec) ==
  /\ r.pc \in {"find", "check", "answer", "rows"} => Searches(r)
  /\ r.pc \in Embeds => TasksSeen(r, r.job)
  /\ Refreshed(r, vec)
  /\ r.pc \in {"check", "answer"} => \A v \in r.cover.vectors :
       v.thread = r.opts.number /\ (r.config \notin Unsupported => v.config = r.config)
  /\ r.pc = "check" => /\ \A v, w \in r.cover.vectors : v = w
                       /\ r.alone => \A v \in r.cover.vectors :
                            v.of = vec[v.config][v.thread].of
  /\ r.pc \in {"answer", "rows"} => Answerable(r)

\* A command that nothing disturbed accounts for its rows.
Quiet(r) == r.alone /\ \A t \in Threads : Cardinality(r.seen[t]) = 1

Picks(r, t, th) == (r.opts.closed \/ th[t].open) /\ r.opts.number \in {0, t}

\* The rows that are not open are stored or counted as failed.
RowsCounted(r, job, open, th, vec) ==
  \A i \in 1..Len(job.tasks) :
    LET task == job.tasks[i]
    IN /\ task.text = th[task.thread].text
       /\ \/ vec[r.config][task.thread].of = task.text
          \/ task.thread \in job.failed
          \/ i \in open

\* Every thread that was to be embedded is a row, or needs no embedding.
AllPicked(r, job, th, vec) ==
  ~Searches(r) /\ r.opts.limit = 0 => \A t \in Threads : Picks(r, t, th) =>
    \/ th[t].text = NoText
    \/ vec[r.config][t].of = th[t].text
    \/ \E i \in 1..Len(job.tasks) : job.tasks[i].thread = t

AccountInv(r, th, vec) ==
  r.pc \in Embeds /\ ~r.job.interrupted /\ Quiet(r) =>
    /\ RowsCounted(r, r.job, IF r.pc = "record" THEN {} ELSE Open(r.job), th, vec)
    /\ AllPicked(r, r.job, th, vec)

\* What holds of a command, given the threads, the configuration and vectors.
CommandInv(r, th, cfg, vec) ==
  /\ r \in Running
  /\ \A t \in Threads : th[t] \in r.seen[t]
  /\ r.steady => r.config = cfg
  /\ JobInv(r.pc, r.job)
  /\ CoverInv(r)
  /\ TargetInv(r, vec)
  /\ AccountInv(r, th, vec)

\* The hash of a vector tells the text it was made of.
Hashed(vec) == \A c \in Configs, t \in Threads : vec[c][t].hash = vec[c][t].of

ArchiveTyped ==
  /\ thread \in [Threads -> State]
  /\ config \in Configs
  /\ vector \in [Configs -> [Threads -> Vector]]
  /\ updated \in [Threads -> SUBSET (Configs \X Configs)]
  /\ clustered \subseteq Threads
  /\ edits \in 0..MaxEdits /\ runs \in 0..MaxRuns /\ faults \in 0..MaxFaults

EmbedInv ==
  /\ ArchiveTyped
  /\ Hashed(vector)
  /\ cmd \in [Procs -> Running \cup {Idle}]
  /\ \A p \in Procs : cmd[p] # Idle => CommandInv(cmd[p], thread, config, vector)
  /\ \A p, q \in Procs : p # q /\ cmd[p] # Idle /\ cmd[p].alone => cmd[q] = Idle

-----------------------------------------------------------------------------
(* Commands                                                                 *)

LEMMA RunningFields ==
  ASSUME NEW r \in Running
  PROVE  /\ r.pc \in Steps /\ r.opts \in Command /\ r.config \in Configs /\ r.job \in Job
         /\ r.cover \in Cover /\ r.backfill \in {"none", "missing", "stale"}
         /\ r.alone \in BOOLEAN /\ r.steady \in BOOLEAN
         /\ r.seen \in [Threads -> SUBSET State]
         /\ r # Idle /\ r.pc # "ended"
<1>1. /\ r.pc \in Steps /\ r.opts \in Command /\ r.config \in Configs /\ r.job \in Job
      /\ r.cover \in Cover /\ r.backfill \in {"none", "missing", "stale"}
      /\ r.alone \in BOOLEAN /\ r.steady \in BOOLEAN
      /\ r.seen \in [Threads -> SUBSET State]
  BY DEF Running
<1>2. r.pc # "ended"
  BY <1>1 DEF Steps
<1>3. Idle.pc = "ended"
  BY DEF Idle
<1>4. QED
  BY <1>1, <1>2, <1>3

LEMMA CoverFields ==
  ASSUME NEW c \in Cover
  PROVE  /\ c.vectors \subseteq VectorRow /\ c.groups \subseteq Configs /\ c.eligible \in Nat
         /\ c.complete \in BOOLEAN /\ c.fallback \in BOOLEAN
BY DEF Cover

LEMMA CommandFields ==
  ASSUME NEW c \in Command
  PROVE  /\ c.closed \in BOOLEAN /\ c.force \in BOOLEAN /\ c.strict \in BOOLEAN
         /\ c.limit \in Nat /\ c.number \in Threads \cup {0}
         /\ c.stages \in {<<"embed">>, <<"cluster">>, <<"embed", "cluster">>, <<"neighbors">>}
BY DEF Command

(* Where a stage starts.                                                    *)
LEMMA StageStarts ==
  ASSUME NEW c \in Command
  PROVE  /\ FirstStep[c.stages[1]] \in {"list", "vectors", "find"}
         /\ FirstStep[c.stages[1]] = "find" => c.stages[1] = "neighbors"
         /\ Tail(c.stages) # <<>> =>
              LET d == [c EXCEPT !.stages = Tail(c.stages), !.limit = 0]
              IN d \in Command /\ d.stages[1] = "cluster"
<1>1. c.stages \in {<<"embed">>, <<"cluster">>, <<"embed", "cluster">>, <<"neighbors">>}
  BY CommandFields
<1>2. CASE c.stages = <<"embed">>
  BY <1>2 DEF FirstStep
<1>3. CASE c.stages = <<"cluster">>
  BY <1>3 DEF FirstStep
<1>4. CASE c.stages = <<"neighbors">>
  BY <1>4 DEF FirstStep
<1>5. CASE c.stages = <<"embed", "cluster">>
  <2>1. Tail(c.stages) = <<"cluster">>
    BY <1>5
  <2>2. FirstStep[c.stages[1]] = "list"
    BY <1>5 DEF FirstStep
  <2>3. [c EXCEPT !.stages = <<"cluster">>, !.limit = 0] \in Command
    BY DEF Command
  <2>4. [c EXCEPT !.stages = <<"cluster">>, !.limit = 0].stages = <<"cluster">>
    BY DEF Command
  <2> DEFINE d == [c EXCEPT !.stages = Tail(c.stages), !.limit = 0]
  <2>5. d \in Command /\ d.stages = <<"cluster">>
    BY <2>1, <2>3, <2>4
  <2>6. <<"cluster">>[1] = "cluster"
    OBVIOUS
  <2> HIDE DEF d
  <2>7. d.stages[1] = "cluster"
    BY <2>5, <2>6
  <2>8. QED
    BY <2>2, <2>5, <2>7 DEF d
<1>6. QED
  BY <1>1, <1>2, <1>3, <1>4, <1>5

(* A command that moves, with what it has to embed,                         *)
LEMMA MovedJob ==
  ASSUME NEW r \in Running, NEW pc \in Steps, NEW job \in Job
  PROVE  LET n == [r EXCEPT !.pc = pc, !.job = job]
         IN /\ n \in Running /\ n.pc = pc /\ n.job = job
            /\ n.opts = r.opts /\ n.config = r.config /\ n.cover = r.cover
            /\ n.backfill = r.backfill /\ n.alone = r.alone /\ n.steady = r.steady
            /\ n.seen = r.seen
BY DEF Running

(* or with its vectors.                                                     *)
LEMMA MovedCover ==
  ASSUME NEW r \in Running, NEW pc \in Steps, NEW cover \in Cover
  PROVE  LET n == [r EXCEPT !.pc = pc, !.cover = cover]
         IN /\ n \in Running /\ n.pc = pc /\ n.cover = cover
            /\ n.opts = r.opts /\ n.config = r.config /\ n.job = r.job
            /\ n.backfill = r.backfill /\ n.alone = r.alone /\ n.steady = r.steady
            /\ n.seen = r.seen
BY DEF Running

(* While one command moves, no other one is alone.                          *)
LEMMA CommandMoves ==
  ASSUME EmbedInv, NEW p \in Procs, cmd[p] # Idle, NEW r,
         cmd' = [cmd EXCEPT ![p] = r],
         thread' = thread, config' = config, ArchiveTyped', Hashed(vector'),
         r # Idle => CommandInv(r, thread, config, vector') /\ (r.alone => cmd[p].alone)
  PROVE  EmbedInv'
<1>1. r = Idle \/ r \in Running
  BY DEF CommandInv
<1>2. cmd' \in [Procs -> Running \cup {Idle}]
  BY <1>1 DEF EmbedInv
<1>3. cmd'[p] = r /\ \A q \in Procs : q # p => cmd'[q] = cmd[q]
  BY DEF EmbedInv
<1>4. ASSUME NEW q \in Procs, cmd'[q] # Idle
      PROVE  CommandInv(cmd'[q], thread', config', vector')
  <2>1. CASE q = p
    BY <1>3, <1>4, <2>1
  <2>2. CASE q # p
    <3> DEFINE c == cmd[q]
    <3>1. c # Idle /\ cmd'[q] = c /\ ~c.alone /\ CommandInv(c, thread, config, vector)
      BY <1>3, <1>4, <2>2 DEF EmbedInv
    <3> HIDE DEF c
    <3>2. TargetInv(c, vector')
      BY <3>1 DEF CommandInv, TargetInv, Refreshed
    <3>3. AccountInv(c, thread, vector')
      BY <3>1 DEF CommandInv, AccountInv, Quiet
    <3>4. QED
      BY <3>1, <3>2, <3>3 DEF CommandInv
  <2>3. QED
    BY <2>1, <2>2
<1>5. ASSUME NEW q \in Procs, NEW s \in Procs, q # s, cmd'[q] # Idle, cmd'[q].alone
      PROVE  cmd'[s] = Idle
  BY <1>3, <1>5 DEF EmbedInv
<1>6. QED
  BY <1>2, <1>4, <1>5 DEF EmbedInv

(* The command ends.                                                        *)
LEMMA CommandEnds ==
  ASSUME EmbedInv, NEW p \in Procs, cmd[p] # Idle, End(p),
         thread' = thread, config' = config, ArchiveTyped', Hashed(vector')
  PROVE  EmbedInv'
BY CommandMoves DEF End

LEMMA ActiveCommand ==
  ASSUME EmbedInv, NEW p \in Procs
  PROVE  /\ Active(p) <=> cmd[p] # Idle
         /\ cmd[p].pc \in Steps => cmd[p] # Idle
         /\ cmd[p] # Idle => cmd[p] \in Running /\ CommandInv(cmd[p], thread, config, vector)
<1>1. Idle.pc = "ended" /\ "ended" \notin Steps
  BY DEF Idle, Steps
<1>2. cmd[p] \in Running => cmd[p] # Idle /\ cmd[p].pc # "ended"
  BY RunningFields
<1>3. QED
  BY <1>1, <1>2 DEF EmbedInv, Active

-----------------------------------------------------------------------------
(* The world changes                                                        *)

LEMMA StatesAreFinite == IsFiniteSet(State)
<1> DEFINE At(open) == {s \in State : s.open = open}
           f(open) == [x \in Texts |-> [text |-> x, open |-> open]]
<1>1. IsFiniteSet(Texts)
  BY EmbeddingAssumption, FS_Interval DEF Texts
<1>2. ASSUME NEW open \in BOOLEAN PROVE IsFiniteSet(At(open))
  <2>1. f(open) \in Surjection(Texts, At(open))
    <3>1. \A s \in At(open) : s.text \in Texts /\ f(open)[s.text] = s
      BY DEF State
    <3>2. \A x \in Texts : f(open)[x] \in At(open)
      BY DEF State
    <3>3. QED
      BY <3>1, <3>2 DEF Surjection
  <2>2. QED
    BY <1>1, <2>1, FS_Surjection
<1>3. State = At(TRUE) \cup At(FALSE)
  BY DEF State
<1>4. IsFiniteSet(At(TRUE)) /\ IsFiniteSet(At(FALSE))
  BY <1>2
<1> HIDE DEF At
<1>5. QED
  BY <1>3, <1>4, FS_Union

(* What a quiet command saw is how the threads are.                         *)
LEMMA QuietSees ==
  ASSUME NEW r \in Running, NEW t \in Threads, Cardinality(r.seen[t]) = 1, NEW x \in r.seen[t]
  PROVE  r.seen[t] = {x}
<1>1. r.seen[t] \subseteq State
  BY RunningFields
<1>2. IsFiniteSet(r.seen[t])
  BY <1>1, StatesAreFinite, FS_Subset
<1>3. PICK y : r.seen[t] = {y}
  BY <1>2, FS_Singleton
<1>4. QED
  BY <1>3

(* A command that is running sees what a thread becomes.                    *)
LEMMA CommandSees ==
  ASSUME NEW r \in Running, NEW th \in [Threads -> State], NEW cfg, NEW vec,
         CommandInv(r, th, cfg, vec),
         NEW t \in Threads, NEW state \in State, state # th[t]
  PROVE  LET n == [r EXCEPT !.seen[t] = @ \cup {state}]
         IN n \in Running /\ n.alone = r.alone
            /\ CommandInv(n, [th EXCEPT ![t] = state], cfg, vec)
<1> DEFINE n == [r EXCEPT !.seen[t] = @ \cup {state}]
           now == [th EXCEPT ![t] = state]
<1>1. /\ n \in Running /\ n.pc = r.pc /\ n.opts = r.opts /\ n.config = r.config
      /\ n.job = r.job /\ n.cover = r.cover /\ n.backfill = r.backfill
      /\ n.alone = r.alone /\ n.steady = r.steady
      /\ n.seen = [r.seen EXCEPT ![t] = @ \cup {state}]
  <2>1. [r.seen EXCEPT ![t] = @ \cup {state}] \in [Threads -> SUBSET State]
    BY RunningFields
  <2>2. QED
    BY <2>1 DEF Running
<1>2. /\ \A u \in Threads : r.seen[u] \subseteq n.seen[u]
      /\ n.seen[t] = r.seen[t] \cup {state}
      /\ now[t] = state /\ \A u \in Threads : u # t => now[u] = th[u]
  BY <1>1, RunningFields
<1>3. \A u \in Threads : now[u] \in n.seen[u]
  BY <1>2 DEF CommandInv
<1> HIDE DEF n, now
<1>4. /\ \A x : \A u \in Threads : Saw(r, u, x) => Saw(n, u, x)
      /\ \A u \in Threads : SawClosed(r, u) => SawClosed(n, u)
      /\ SawAllOpen(n) => SawAllOpen(r)
  BY <1>2 DEF Saw, SawClosed, SawAllOpen
<1>5. ~Quiet(n)
  <2>1. SUFFICES ASSUME Cardinality(n.seen[t]) = 1 PROVE FALSE
    BY DEF Quiet
  <2>2. state \in n.seen[t] /\ th[t] \in n.seen[t]
    BY <1>2 DEF CommandInv
  <2>3. n.seen[t] = {state}
    BY <1>1, <2>1, <2>2, QuietSees
  <2>4. QED
    BY <2>2, <2>3
<1>6. \A v \in r.cover.vectors : v.thread \in Threads
  BY RunningFields, CoverFields DEF VectorRow
<1>7. CoverInv(n)
  BY <1>1, <1>4, <1>6 DEF CommandInv, CoverInv, VectorsSound
<1>8. TargetInv(n, vec)
  <2>1. Refreshed(n, vec)
    BY <1>1, <1>4 DEF CommandInv, TargetInv, Refreshed, Searches
  <2>2. n.pc \in Embeds => TasksSeen(n, n.job)
    BY <1>1, <1>4, RunningFields, JobFields DEF CommandInv, TargetInv, TasksSeen
  <2>3. n.pc \in {"answer", "rows"} => Answerable(n)
    BY <1>1, <1>4, <1>6 DEF CommandInv, TargetInv, Answerable
  <2>4. QED
    BY <1>1, <2>1, <2>2, <2>3 DEF CommandInv, TargetInv, Searches
<1>9. AccountInv(n, now, vec)
  BY <1>5 DEF AccountInv
<1>10. QED
  BY <1>1, <1>3, <1>7, <1>8, <1>9 DEF CommandInv, n, now

LEMMA SyncKeeps ==
  ASSUME EmbedInv, NEW t \in Threads, Sync(t)
  PROVE  EmbedInv'
<1>1. PICK state \in {[thread[t] EXCEPT !.open = ~@]}
                 \cup {[thread[t] EXCEPT !.text = x] : x \in Texts \ {thread[t].text}} :
        /\ thread' = [thread EXCEPT ![t] = state]
        /\ cmd' = [p \in Procs |-> IF Active(p) THEN Observe(p, t, state) ELSE cmd[p]]
  BY DEF Sync
<1>2. thread \in [Threads -> State] /\ thread[t] \in State
  BY DEF EmbedInv, ArchiveTyped
<1>3. state \in State /\ state # thread[t]
  <2>1. CASE state = [thread[t] EXCEPT !.open = ~@]
    BY <1>2, <2>1 DEF State
  <2>2. CASE \E x \in Texts \ {thread[t].text} : state = [thread[t] EXCEPT !.text = x]
    BY <1>2, <2>2 DEF State
  <2>3. QED
    BY <1>1, <2>1, <2>2
<1>4. UNCHANGED <<config, vector, updated, clustered, runs, faults>> /\ edits' \in 0..MaxEdits
  BY EmbeddingAssumption DEF Sync, EmbedInv, ArchiveTyped
<1>5. ArchiveTyped'
  BY <1>1, <1>2, <1>3, <1>4 DEF EmbedInv, ArchiveTyped
<1>6. Hashed(vector')
  BY <1>4 DEF EmbedInv
<1>7. ASSUME NEW p \in Procs
      PROVE  /\ cmd[p] = Idle => cmd'[p] = Idle
             /\ cmd[p] # Idle => /\ cmd'[p] \in Running /\ cmd'[p].alone = cmd[p].alone
                                 /\ CommandInv(cmd'[p], thread', config', vector')
  <2>1. CASE cmd[p] = Idle
    BY <1>1, <2>1, ActiveCommand
  <2>2. CASE cmd[p] # Idle
    <3>1. cmd'[p] = [cmd[p] EXCEPT !.seen[t] = @ \cup {state}]
      BY <1>1, <2>2, ActiveCommand DEF Observe
    <3>2. cmd[p] \in Running /\ CommandInv(cmd[p], thread, config, vector)
      BY <2>2, ActiveCommand
    <3>3. LET n == [cmd[p] EXCEPT !.seen[t] = @ \cup {state}]
          IN n \in Running /\ n.alone = cmd[p].alone
             /\ CommandInv(n, [thread EXCEPT ![t] = state], config, vector)
      BY <1>2, <1>3, <3>2, CommandSees
    <3>4. cmd'[p] \in Running /\ cmd'[p].alone = cmd[p].alone
      BY <3>1, <3>3
    <3>5. CommandInv(cmd'[p], [thread EXCEPT ![t] = state], config, vector)
      BY <3>1, <3>3
    <3>6. QED
      BY <1>1, <1>4, <2>2, <3>4, <3>5
  <2>3. QED
    BY <2>1, <2>2
<1>8. cmd' \in [Procs -> Running \cup {Idle}]
  BY <1>1, <1>7
<1>9. QED
  BY <1>5, <1>6, <1>7, <1>8 DEF EmbedInv

(* A command remembers that the configuration changed.                      *)
LEMMA CommandUnsteady ==
  ASSUME NEW r \in Running, NEW th, NEW cfg, NEW new, NEW vec, CommandInv(r, th, cfg, vec)
  PROVE  LET n == [r EXCEPT !.steady = FALSE]
         IN n \in Running /\ n.alone = r.alone /\ CommandInv(n, th, new, vec)
<1> DEFINE n == [r EXCEPT !.steady = FALSE]
<1>1. /\ n \in Running /\ n.pc = r.pc /\ n.opts = r.opts /\ n.config = r.config
      /\ n.job = r.job /\ n.cover = r.cover /\ n.backfill = r.backfill
      /\ n.alone = r.alone /\ n.steady = FALSE /\ n.seen = r.seen
  BY DEF Running
<1> HIDE DEF n
<1>2. CoverInv(n)
  BY <1>1 DEF CommandInv, CoverInv, VectorsSound, Saw, SawAllOpen, SawClosed
<1>3. TargetInv(n, vec)
  BY <1>1 DEF CommandInv, TargetInv, TasksSeen, Refreshed, Answerable, Saw, SawClosed, Searches
<1>4. AccountInv(n, th, vec)
  BY SMTT(30), <1>1 DEF CommandInv, AccountInv, RowsCounted, AllPicked, Quiet, Picks, Searches
<1>5. QED
  BY <1>1, <1>2, <1>3, <1>4 DEF CommandInv, n

LEMMA ConfigureKeeps ==
  ASSUME EmbedInv, Configure
  PROVE  EmbedInv'
<1>1. /\ config' \in Configs
      /\ cmd' = [p \in Procs |-> IF Active(p) THEN [cmd[p] EXCEPT !.steady = FALSE] ELSE cmd[p]]
      /\ UNCHANGED <<thread, vector, updated, clustered, runs, faults>>
      /\ edits' \in 0..MaxEdits
  BY EmbeddingAssumption DEF Configure, EmbedInv, ArchiveTyped
<1>2. ArchiveTyped' /\ Hashed(vector')
  BY <1>1 DEF EmbedInv, ArchiveTyped
<1>3. ASSUME NEW p \in Procs
      PROVE  /\ cmd[p] = Idle => cmd'[p] = Idle
             /\ cmd[p] # Idle => /\ cmd'[p] \in Running /\ cmd'[p].alone = cmd[p].alone
                                 /\ CommandInv(cmd'[p], thread', config', vector')
  <2>1. CASE cmd[p] = Idle
    BY <1>1, <2>1, ActiveCommand
  <2>2. CASE cmd[p] # Idle
    <3>1. cmd'[p] = [cmd[p] EXCEPT !.steady = FALSE]
      BY <1>1, <2>2, ActiveCommand
    <3>2. cmd[p] \in Running /\ CommandInv(cmd[p], thread, config, vector)
      BY <2>2, ActiveCommand
    <3>3. QED
      BY <1>1, <2>2, <3>1, <3>2, CommandUnsteady
  <2>3. QED
    BY <2>1, <2>2
<1>4. cmd' \in [Procs -> Running \cup {Idle}]
  BY <1>1, <1>3
<1>5. QED
  BY <1>2, <1>3, <1>4 DEF EmbedInv

-----------------------------------------------------------------------------
(* Commands and their stages start and end                                  *)

(* At the start of a stage there is nothing to say of it.                   *)
LEMMA StageSound ==
  ASSUME NEW n \in Running, NEW th, NEW cfg, NEW vec,
         \A t \in Threads : th[t] \in n.seen[t],
         n.steady => n.config = cfg,
         n.job = Embedding, n.cover = Clustering,
         \/ n.pc \in {"list", "vectors"}
         \/ n.pc = "find" /\ n.backfill = "none" /\ Searches(n)
  PROVE  CommandInv(n, th, cfg, vec)
<1>1. n.pc \notin Embeds
  BY DEF Embeds
<1>2. JobInv(n.pc, n.job)
  BY <1>1 DEF JobInv, Embeds
<1>3. CoverInv(n)
  BY DEF CoverInv, VectorsSound, Clustering
<1>4. TargetInv(n, vec)
  BY <1>1 DEF TargetInv, Refreshed
<1>5. AccountInv(n, th, vec)
  BY <1>1 DEF AccountInv
<1>6. QED
  BY <1>2, <1>3, <1>4, <1>5 DEF CommandInv

LEMMA InitSound == Init => EmbedInv
<1>1. SUFFICES ASSUME Init PROVE EmbedInv
  OBVIOUS
<1>2. NoText \in Texts /\ 1 \in Texts
  BY EmbeddingAssumption DEF NoText, Texts
<1>3. \A p \in Procs : cmd[p] = Idle
  BY <1>1 DEF Init
<1>4. cmd \in [Procs -> Running \cup {Idle}]
  BY <1>1 DEF Init
<1>5. PICK done \in {{}, Threads} :
        /\ vector = [c \in Configs |-> [t \in Threads |->
                       IF c = config /\ t \in done
                       THEN [of |-> 1, hash |-> ContentHash(1)] ELSE NoVector]]
        /\ updated = [t \in Threads |-> IF t \in done THEN Touched({}, config) ELSE {}]
        /\ clustered = done
  BY <1>1 DEF Init
<1>6. thread \in [Threads -> State]
  BY <1>1, <1>2 DEF Init, State
<1>7. /\ [of |-> 1, hash |-> ContentHash(1)] \in Vector /\ NoVector \in Vector
      /\ [of |-> 1, hash |-> ContentHash(1)].hash = 1 /\ [of |-> 1, hash |-> ContentHash(1)].of = 1
      /\ NoVector.hash = NoVector.of
  BY <1>2 DEF Vector, NoVector, ContentHash
<1>8. vector \in [Configs -> [Threads -> Vector]] /\ Hashed(vector)
  BY <1>5, <1>7 DEF Hashed
<1>9. config \in Configs /\ Touched({}, config) \subseteq Configs \X Configs
  BY <1>1 DEF Init, Touched
<1>10. ArchiveTyped
  BY <1>1, <1>5, <1>6, <1>8, <1>9, EmbeddingAssumption DEF Init, ArchiveTyped
<1>11. QED
  BY <1>3, <1>4, <1>8, <1>10 DEF EmbedInv

LEMMA StartKeeps ==
  ASSUME EmbedInv, NEW p \in Procs, NEW c \in Commands, Start(p, c)
  PROVE  EmbedInv'
<1> DEFINE alone == \A q \in Procs : ~Active(q)
           w == Work(c, alone)
<1>1. /\ cmd[p] = Idle /\ UNCHANGED <<thread, config, vector, updated, clustered, edits, faults>>
      /\ runs' \in 0..MaxRuns
      /\ cmd' = [q \in Procs |-> IF q = p THEN w
                   ELSE IF Active(q) THEN [cmd[q] EXCEPT !.alone = FALSE] ELSE cmd[q]]
  BY EmbeddingAssumption, ActiveCommand DEF Start, archive, EmbedInv, ArchiveTyped
<1>2. ArchiveTyped' /\ Hashed(vector')
  BY <1>1 DEF EmbedInv, ArchiveTyped
<1>3. c \in Command
  BY CommandAssumption
<1>4. alone \in BOOLEAN
  OBVIOUS
<1> HIDE DEF alone
<1>5. /\ w \in Running /\ w.job = Embedding /\ w.cover = Clustering /\ w.config = config
      /\ w.opts = c /\ w.pc = FirstStep[c.stages[1]] /\ w.backfill = "none" /\ w.alone = alone
      /\ \A t \in Threads : thread[t] \in w.seen[t]
  <2>1. FirstStep[c.stages[1]] \in Steps
    BY <1>3, StageStarts DEF Steps
  <2>2. [t \in Threads |-> {thread[t]}] \in [Threads -> SUBSET State]
    BY DEF EmbedInv, ArchiveTyped
  <2>3. Embedding \in Job /\ Clustering \in Cover /\ config \in Configs
    BY BatchType DEF EmbedInv, ArchiveTyped
  <2>4. QED
    BY <1>3, <1>4, <2>1, <2>2, <2>3 DEF Work, Running
<1>6. CommandInv(w, thread, config, vector)
  <2>1. \/ w.pc \in {"list", "vectors"}
        \/ w.pc = "find" /\ w.backfill = "none" /\ Searches(w)
    <3>1. /\ FirstStep[c.stages[1]] \in {"list", "vectors", "find"}
          /\ FirstStep[c.stages[1]] = "find" => c.stages[1] = "neighbors"
      BY <1>3, StageStarts
    <3>2. QED
      BY <1>5, <3>1 DEF Searches
  <2>2. QED
    BY <1>5, <2>1, StageSound
<1> HIDE DEF w
<1>7. ASSUME NEW q \in Procs, q # p, cmd[q] # Idle
      PROVE  /\ cmd'[q] \in Running /\ ~cmd'[q].alone
             /\ CommandInv(cmd'[q], thread, config, vector)
  <2> DEFINE r == cmd[q]
             n == [r EXCEPT !.alone = FALSE]
  <2>1. cmd'[q] = n
    BY <1>1, <1>7, ActiveCommand
  <2>2. r \in Running /\ CommandInv(r, thread, config, vector)
    BY <1>7, ActiveCommand
  <2> HIDE DEF r
  <2>3. /\ n \in Running /\ n.pc = r.pc /\ n.opts = r.opts /\ n.config = r.config
        /\ n.job = r.job /\ n.cover = r.cover /\ n.backfill = r.backfill
        /\ n.alone = FALSE /\ n.steady = r.steady /\ n.seen = r.seen
    BY <2>2 DEF Running
  <2> HIDE DEF n
  <2>4. CoverInv(n)
    BY <2>2, <2>3 DEF CommandInv, CoverInv, VectorsSound, Saw, SawAllOpen, SawClosed
  <2>5. TargetInv(n, vector)
    BY <2>2, <2>3 DEF CommandInv, TargetInv, TasksSeen, Refreshed, Answerable, Saw, SawClosed, Searches
  <2>6. AccountInv(n, thread, vector)
    BY <2>3 DEF AccountInv, Quiet
  <2>7. CommandInv(n, thread, config, vector)
    BY <2>2, <2>3, <2>4, <2>5, <2>6 DEF CommandInv
  <2>8. QED
    BY <2>1, <2>3, <2>7
<1>8. /\ cmd'[p] = w
      /\ \A q \in Procs : q # p /\ cmd[q] = Idle => cmd'[q] = Idle
  BY <1>1, ActiveCommand
<1>9. cmd' \in [Procs -> Running \cup {Idle}]
  <2>1. \A q \in Procs : cmd'[q] \in Running \cup {Idle}
    BY <1>5, <1>7, <1>8
  <2>2. QED
    BY <1>1, <2>1
<1>10. ASSUME NEW q \in Procs, NEW s \in Procs, q # s, cmd'[q] # Idle, cmd'[q].alone
       PROVE  cmd'[s] = Idle
  <2>1. q = p
    BY <1>7, <1>8, <1>10
  <2>2. alone
    BY <1>5, <1>8, <1>10, <2>1
  <2>3. cmd[s] = Idle
    BY <2>2, ActiveCommand DEF alone
  <2>4. QED
    BY <1>8, <1>10, <2>1, <2>3
<1>11. \A q \in Procs : cmd'[q] # Idle => CommandInv(cmd'[q], thread', config', vector')
  BY <1>1, <1>6, <1>7, <1>8
<1>12. QED
  BY <1>2, <1>9, <1>10, <1>11 DEF EmbedInv

(* A stage is done.                                                         *)
LEMMA StageDoneKeeps ==
  ASSUME EmbedInv, NEW p \in Procs, cmd[p] # Idle, StageDone(p),
         thread' = thread, config' = config, vector' = vector, ArchiveTyped'
  PROVE  EmbedInv'
<1> DEFINE r == cmd[p]
           c == [r.opts EXCEPT !.stages = Tail(r.opts.stages), !.limit = 0]
           n == Stage(r, c)
<1>1. Hashed(vector')
  BY DEF EmbedInv
<1>2. CASE Tail(r.opts.stages) = <<>>
  BY <1>1, <1>2, CommandEnds DEF StageDone
<1>3. CASE Tail(r.opts.stages) # <<>>
  <2>1. cmd' = [cmd EXCEPT ![p] = n]
    BY <1>3 DEF StageDone, Set
  <2>2. r \in Running /\ CommandInv(r, thread, config, vector)
    BY ActiveCommand
  <2>3. c \in Command /\ c.stages[1] = "cluster"
    BY <1>3, <2>2, RunningFields, StageStarts
  <2> HIDE DEF r, c
  <2>4. /\ n \in Running /\ n.job = Embedding /\ n.cover = Clustering /\ n.config = config
        /\ n.pc = "vectors" /\ n.alone = r.alone /\ n.seen = r.seen
    <3>1. FirstStep[c.stages[1]] = "vectors" /\ "vectors" \in Steps
      BY <2>3 DEF FirstStep, Steps
    <3>2. Embedding \in Job /\ Clustering \in Cover /\ config \in Configs
      BY BatchType DEF EmbedInv, ArchiveTyped
    <3>3. QED
      BY <2>2, <2>3, <3>1, <3>2 DEF Stage, Running
  <2> HIDE DEF n
  <2>5. \A t \in Threads : thread[t] \in n.seen[t]
    BY <2>2, <2>4 DEF CommandInv
  <2>6. CommandInv(n, thread, config, vector)
    BY <2>4, <2>5, StageSound
  <2>7. QED
    BY <1>1, <2>1, <2>4, <2>6, CommandMoves DEF r
<1>4. QED
  BY <1>2, <1>3

-----------------------------------------------------------------------------
(* embed                                                                    *)

\* What the vector of its thread means to a search that embedded it.
RefreshedBy(r, job, vec) ==
  r.alone /\ r.steady /\ Searches(r) /\ r.opts.number \in Threads /\ job.embedded > 0
    => Saw(r, r.opts.number, vec[r.config][r.opts.number].of)

\* What a quiet command knows of its rows.
Accounts(r, job, open, th, vec) ==
  ~job.interrupted /\ Quiet(r) =>
    RowsCounted(r, job, open, th, vec) /\ AllPicked(r, job, th, vec)

(* What is accounted for is a matter of the rows, of those that failed and  *)
(* of the interruption.                                                     *)
LEMMA SameAccounts ==
  ASSUME NEW r, NEW job, NEW next, NEW open, NEW th, NEW vec,
         next.tasks = job.tasks, next.failed = job.failed,
         next.interrupted = job.interrupted, Accounts(r, job, open, th, vec)
  PROVE  Accounts(r, next, open, th, vec)
<1>1. RowsCounted(r, job, open, th, vec) => RowsCounted(r, next, open, th, vec)
  BY DEF RowsCounted
<1>2. AllPicked(r, job, th, vec) => AllPicked(r, next, th, vec)
  BY DEF AllPicked
<1>3. QED
  BY <1>1, <1>2 DEF Accounts

(* The command goes on embedding.                                           *)
LEMMA JobMoves ==
  ASSUME EmbedInv, NEW p \in Procs, cmd[p] # Idle, NEW pc \in Embeds, NEW job \in Job,
         cmd' = [cmd EXCEPT ![p] = [cmd[p] EXCEPT !.pc = pc, !.job = job]],
         thread' = thread, config' = config, ArchiveTyped', Hashed(vector'),
         JobInv(pc, job), TasksSeen(cmd[p], job), RefreshedBy(cmd[p], job, vector'),
         Accounts(cmd[p], job, IF pc = "record" THEN {} ELSE Open(job), thread, vector')
  PROVE  EmbedInv'
<1> DEFINE r == cmd[p]
           n == [r EXCEPT !.pc = pc, !.job = job]
<1>1. r \in Running /\ CommandInv(r, thread, config, vector)
  BY ActiveCommand
<1>2. pc \in Steps /\ pc \in {"request", "store", "record"}
  BY DEF Embeds, Steps
<1>3. /\ n \in Running /\ n.pc = pc /\ n.job = job /\ n.opts = r.opts /\ n.config = r.config
      /\ n.cover = r.cover /\ n.alone = r.alone /\ n.steady = r.steady /\ n.seen = r.seen
  <2> HIDE DEF r
  <2>1. QED
    BY <1>1, <1>2 DEF Running
<1> HIDE DEF n
<1>4. CoverInv(n)
  BY <1>1, <1>2, <1>3 DEF CommandInv, CoverInv, VectorsSound
<1>5. TargetInv(n, vector')
  <2>1. Refreshed(n, vector')
    BY <1>2, <1>3 DEF RefreshedBy, Refreshed, Searches, Saw
  <2>2. TasksSeen(n, n.job)
    BY <1>3 DEF TasksSeen, Saw
  <2>3. QED
    BY <1>2, <1>3, <2>1, <2>2 DEF TargetInv
<1>6. AccountInv(n, thread, vector')
  <2>1. Quiet(n) <=> Quiet(r)
    BY <1>3 DEF Quiet
  <2>2. \A open : RowsCounted(n, job, open, thread, vector')
                  <=> RowsCounted(r, job, open, thread, vector')
    BY <1>3 DEF RowsCounted
  <2>3. AllPicked(n, job, thread, vector') <=> AllPicked(r, job, thread, vector')
    BY <1>3 DEF AllPicked, Searches, Picks
  <2>4. QED
    BY <1>3, <2>1, <2>2, <2>3 DEF AccountInv, Accounts
<1>7. CommandInv(n, thread, config, vector')
  BY <1>1, <1>3, <1>4, <1>5, <1>6 DEF CommandInv
<1>8. QED
  BY <1>3, <1>7, CommandMoves DEF n

(* The command takes its next batch.                                        *)
LEMMA NextKeeps ==
  ASSUME EmbedInv, NEW p \in Procs, cmd[p] # Idle, NEW job \in Job, NextBatch(p, job),
         thread' = thread, config' = config, ArchiveTyped', Hashed(vector'),
         QueueSound(job), Accounted(job, Waiting(job)),
         TasksSeen(cmd[p], job), RefreshedBy(cmd[p], job, vector'),
         Accounts(cmd[p], job, Waiting(job), thread, vector')
  PROVE  EmbedInv'
<1> DEFINE next == NextJob(job)
           pc == NextPc(job)
<1>1. cmd' = [cmd EXCEPT ![p] = [cmd[p] EXCEPT !.pc = pc, !.job = next]]
  BY DEF NextBatch, Set, NextPc
<1>2. /\ next \in Job /\ next.tasks = job.tasks /\ next.embedded = job.embedded
      /\ next.failed = job.failed /\ next.interrupted = job.interrupted
      /\ job.queue = <<>> => Waiting(job) = {}
      /\ job.queue # <<>> => Open(next) = Waiting(job)
  BY NextTaken
<1>3. pc \in Embeds /\ (pc = "record" <=> job.queue = <<>>)
  BY DEF NextPc, Embeds
<1>4. JobInv(pc, next)
  BY NextSound
<1> HIDE DEF next, pc
<1>5. (IF pc = "record" THEN {} ELSE Open(next)) = Waiting(job)
  BY <1>2, <1>3
<1>6. TasksSeen(cmd[p], next) /\ RefreshedBy(cmd[p], next, vector')
  BY <1>2 DEF TasksSeen, RefreshedBy
<1>7. Accounts(cmd[p], next, Waiting(job), thread, vector')
  BY <1>2, SameAccounts
<1>8. Accounts(cmd[p], next, IF pc = "record" THEN {} ELSE Open(next), thread, vector')
  BY <1>5, <1>7
<1>9. QED
  BY <1>1, <1>2, <1>3, <1>4, <1>6, <1>8, JobMoves

(* What is known of a command that waits for an answer or stores vectors.   *)
LEMMA EmbeddingKnown ==
  ASSUME EmbedInv, NEW p \in Procs, cmd[p] # Idle, cmd[p].pc \in {"request", "store"}
  PROVE  LET job == cmd[p].job
         IN /\ job \in Job /\ QueueSound(job) /\ BatchSound(job) /\ Accounted(job, Open(job))
            /\ TasksSeen(cmd[p], job) /\ RefreshedBy(cmd[p], job, vector)
            /\ Accounts(cmd[p], job, Open(job), thread, vector)
<1> DEFINE r == cmd[p]
<1>1. r \in Running /\ CommandInv(r, thread, config, vector)
  BY ActiveCommand
<1>2. r.job \in Job
  BY <1>1, RunningFields
<1> HIDE DEF r
<1>3. QueueSound(r.job) /\ BatchSound(r.job) /\ Accounted(r.job, Open(r.job))
  BY <1>1 DEF CommandInv, JobInv, r
<1>4. TasksSeen(r, r.job) /\ RefreshedBy(r, r.job, vector)
  BY <1>1 DEF CommandInv, TargetInv, Refreshed, RefreshedBy, Embeds, r
<1>5. Accounts(r, r.job, Open(r.job), thread, vector)
  BY <1>1 DEF CommandInv, AccountInv, Accounts, Embeds, r
<1>6. QED
  BY <1>2, <1>3, <1>4, <1>5 DEF r

(* A call that is answered, or repeated, leaves the rows as they are.       *)
LEMMA AttemptKeeps ==
  ASSUME EmbedInv, NEW p \in Procs, cmd[p] # Idle, cmd[p].pc = "request",
         NEW pc \in {"request", "store"}, NEW attempt \in 0..MaxAttempts - 1,
         cmd' = [cmd EXCEPT ![p] = [cmd[p] EXCEPT !.pc = pc, !.job.attempt = attempt]],
         UNCHANGED <<archive, bounds>>
  PROVE  EmbedInv'
<1> DEFINE job == cmd[p].job
           next == [job EXCEPT !.attempt = attempt]
<1>1. /\ job \in Job /\ QueueSound(job) /\ BatchSound(job) /\ Accounted(job, Open(job))
      /\ TasksSeen(cmd[p], job) /\ RefreshedBy(cmd[p], job, vector)
      /\ Accounts(cmd[p], job, Open(job), thread, vector)
  BY EmbeddingKnown
<1>2. cmd' = [cmd EXCEPT ![p] = [cmd[p] EXCEPT !.pc = pc, !.job = next]]
  BY ActiveCommand DEF Running
<1> HIDE DEF job
<1>3. /\ next \in Job /\ next.tasks = job.tasks /\ next.embedded = job.embedded
      /\ next.failed = job.failed /\ next.interrupted = job.interrupted
      /\ next.queue = job.queue /\ next.batch = job.batch
  BY <1>1 DEF Job
<1> HIDE DEF next
<1>4. Open(next) = Open(job)
  BY <1>3 DEF Open, Waiting
<1>5. QueueSound(next) /\ BatchSound(next) /\ Accounted(next, Open(next))
  BY <1>1, <1>3, <1>4 DEF QueueSound, BatchSound, Accounted, Within
<1>6. JobInv(pc, next)
  BY <1>5 DEF JobInv
<1>7. TasksSeen(cmd[p], next) /\ RefreshedBy(cmd[p], next, vector)
  BY <1>1, <1>3 DEF TasksSeen, RefreshedBy
<1>8. Accounts(cmd[p], next, Open(next), thread, vector)
  BY <1>1, <1>3, <1>4, SameAccounts
<1>9. /\ thread' = thread /\ config' = config /\ vector' = vector
      /\ ArchiveTyped' /\ Hashed(vector') /\ pc \in Embeds /\ pc # "record"
  BY DEF archive, bounds, EmbedInv, ArchiveTyped, Embeds
<1>10. QED
  BY <1>2, <1>3, <1>6, <1>7, <1>8, <1>9, JobMoves

LEMMA ArchiveStays ==
  ASSUME EmbedInv, UNCHANGED archive, UNCHANGED edits, UNCHANGED runs, faults' \in 0..MaxFaults
  PROVE  /\ thread' = thread /\ config' = config /\ vector' = vector
         /\ updated' = updated /\ clustered' = clustered
         /\ ArchiveTyped' /\ Hashed(vector')
BY DEF archive, EmbedInv, ArchiveTyped

LEMMA AnswerKeeps ==
  ASSUME EmbedInv, NEW p \in Procs, Answer(p)
  PROVE  EmbedInv'
<1>1. cmd[p].pc = "request" /\ cmd[p] # Idle
  BY ActiveCommand DEF Answer, Steps
<1>2. 0 \in 0..MaxAttempts - 1
  BY EmbeddingAssumption
<1>3. QED
  BY <1>1, <1>2, AttemptKeeps DEF Answer, Set

LEMMA RetryKeeps ==
  ASSUME EmbedInv, NEW p \in Procs, Retry(p)
  PROVE  EmbedInv'
<1>1. cmd[p].pc = "request" /\ cmd[p] # Idle
  BY ActiveCommand DEF Retry, Steps
<1>2. cmd[p].job.attempt \in 0..MaxAttempts - 1
  BY <1>1, ActiveCommand, RunningFields, JobFields
<1>3. cmd[p].job.attempt + 1 \in 0..MaxAttempts - 1
  BY <1>2, EmbeddingAssumption DEF Retry
<1>4. cmd' = [cmd EXCEPT ![p] = [cmd[p] EXCEPT !.pc = "request",
                                              !.job.attempt = cmd[p].job.attempt + 1]]
  <2> DEFINE r == cmd[p]
  <2>1. r \in Running /\ r.pc = "request"
    BY <1>1, ActiveCommand
  <2>2. cmd' = [cmd EXCEPT ![p] = [r EXCEPT !.job.attempt = r.job.attempt + 1]]
    BY DEF Retry, Set
  <2> HIDE DEF r
  <2>3. [r EXCEPT !.job.attempt = r.job.attempt + 1]
          = [r EXCEPT !.pc = "request", !.job.attempt = r.job.attempt + 1]
    BY <2>1 DEF Running
  <2>4. QED
    BY <2>2, <2>3 DEF r
<1>5. QED
  BY <1>1, <1>3, <1>4, AttemptKeeps DEF Retry

(* A batch that failed is counted, with all its rows;                       *)
LEMMA FailedKeeps ==
  ASSUME EmbedInv, NEW p \in Procs, cmd[p] # Idle, cmd[p].pc = "request",
         NextBatch(p, FailBatch(cmd[p].job)), UNCHANGED <<archive, bounds>>
  PROVE  EmbedInv'
<1> DEFINE job == cmd[p].job
           next == FailBatch(job)
<1>1. /\ job \in Job /\ QueueSound(job) /\ BatchSound(job) /\ Accounted(job, Open(job))
      /\ TasksSeen(cmd[p], job) /\ RefreshedBy(cmd[p], job, vector)
      /\ Accounts(cmd[p], job, Open(job), thread, vector)
  BY EmbeddingKnown
<1>2. NextBatch(p, next)
  OBVIOUS
<1> HIDE DEF job
<1>3. /\ next \in Job /\ QueueSound(next) /\ Accounted(next, Waiting(next))
      /\ next.tasks = job.tasks /\ next.embedded = job.embedded
      /\ next.interrupted = job.interrupted /\ Waiting(next) = Waiting(job)
      /\ next.failed = job.failed \cup BatchThreads(job)
  BY <1>1, FailSound
<1> HIDE DEF next
<1>4. TasksSeen(cmd[p], next) /\ RefreshedBy(cmd[p], next, vector)
  BY <1>1, <1>3 DEF TasksSeen, RefreshedBy
<1>5. \A i \in Span(job.batch) : job.tasks[i].thread \in next.failed
  BY <1>3 DEF BatchThreads, Span
<1>6. Accounts(cmd[p], next, Waiting(next), thread, vector)
  BY SMTT(30), <1>1, <1>3, <1>5 DEF Accounts, RowsCounted, AllPicked, Open
<1>7. /\ thread' = thread /\ config' = config /\ vector' = vector
      /\ ArchiveTyped' /\ Hashed(vector')
  BY ArchiveStays DEF bounds, EmbedInv, ArchiveTyped
<1>8. QED
  BY <1>2, <1>3, <1>4, <1>6, <1>7, NextKeeps

(* one that is queued again is open, as it was.                             *)
LEMMA RequeueKeeps ==
  ASSUME EmbedInv, NEW p \in Procs, cmd[p] # Idle, cmd[p].pc = "request",
         MayRequeue(cmd[p].job), NextBatch(p, Requeue(cmd[p].job)),
         UNCHANGED <<archive, bounds>>
  PROVE  EmbedInv'
<1> DEFINE job == cmd[p].job
           next == Requeue(job)
<1>1. /\ job \in Job /\ QueueSound(job) /\ BatchSound(job) /\ Accounted(job, Open(job))
      /\ TasksSeen(cmd[p], job) /\ RefreshedBy(cmd[p], job, vector)
      /\ Accounts(cmd[p], job, Open(job), thread, vector)
  BY EmbeddingKnown
<1>2. NextBatch(p, next) /\ MayRequeue(job)
  OBVIOUS
<1> HIDE DEF job
<1>3. /\ next \in Job /\ QueueSound(next) /\ Waiting(next) = Open(job)
      /\ Accounted(next, Waiting(next)) /\ next.failed = job.failed
      /\ next.tasks = job.tasks /\ next.embedded = job.embedded
      /\ next.interrupted = job.interrupted
  BY <1>1, <1>2, RequeueSound
<1> HIDE DEF next
<1>4. TasksSeen(cmd[p], next) /\ RefreshedBy(cmd[p], next, vector)
  BY <1>1, <1>3 DEF TasksSeen, RefreshedBy
<1>5. Accounts(cmd[p], next, Waiting(next), thread, vector)
  BY <1>1, <1>3, SameAccounts
<1>6. /\ thread' = thread /\ config' = config /\ vector' = vector
      /\ ArchiveTyped' /\ Hashed(vector')
  BY ArchiveStays DEF bounds, EmbedInv, ArchiveTyped
<1>7. QED
  BY <1>2, <1>3, <1>4, <1>5, <1>6, NextKeeps

LEMMA GiveUpKeeps ==
  ASSUME EmbedInv, NEW p \in Procs, GiveUp(p)
  PROVE  EmbedInv'
<1>1. cmd[p].pc = "request" /\ cmd[p] # Idle /\ UNCHANGED <<archive, bounds>>
  BY ActiveCommand DEF GiveUp, Steps
<1>2. CASE MayRequeue(cmd[p].job)
  BY <1>1, <1>2, RequeueKeeps DEF GiveUp
<1>3. CASE ~MayRequeue(cmd[p].job)
  BY <1>1, <1>3, FailedKeeps DEF GiveUp
<1>4. QED
  BY <1>2, <1>3

LEMMA RejectKeeps ==
  ASSUME EmbedInv, NEW p \in Procs, Reject(p)
  PROVE  EmbedInv'
<1>1. cmd[p].pc = "request" /\ cmd[p] # Idle /\ UNCHANGED <<archive, bounds>>
  BY ActiveCommand DEF Reject, Steps
<1>2. QED
  BY <1>1, FailedKeeps DEF Reject

LEMMA InterruptKeeps ==
  ASSUME EmbedInv, NEW p \in Procs, Interrupt(p)
  PROVE  EmbedInv'
<1> DEFINE job == cmd[p].job
           next == [job EXCEPT !.interrupted = TRUE, !.queue = <<>>]
<1>1. cmd[p].pc = "request" /\ cmd[p] # Idle
  BY ActiveCommand DEF Interrupt, Steps
<1>2. /\ job \in Job /\ QueueSound(job) /\ BatchSound(job) /\ Accounted(job, Open(job))
      /\ TasksSeen(cmd[p], job) /\ RefreshedBy(cmd[p], job, vector)
  BY <1>1, EmbeddingKnown
<1>3. NextBatch(p, next)
  BY DEF Interrupt
<1> HIDE DEF job
<1>4. /\ next \in Job /\ QueueSound(next) /\ Accounted(next, Waiting(next))
      /\ next.interrupted /\ next.tasks = job.tasks /\ next.embedded = job.embedded
  BY <1>2, InterruptSound
<1> HIDE DEF next
<1>5. TasksSeen(cmd[p], next) /\ RefreshedBy(cmd[p], next, vector)
  BY <1>2, <1>4 DEF TasksSeen, RefreshedBy
<1>6. Accounts(cmd[p], next, Waiting(next), thread, vector)
  BY <1>4 DEF Accounts
<1>7. faults' \in 0..MaxFaults
  BY EmbeddingAssumption DEF Interrupt, EmbedInv, ArchiveTyped
<1>8. /\ thread' = thread /\ config' = config /\ vector' = vector
      /\ ArchiveTyped' /\ Hashed(vector')
  BY <1>7, ArchiveStays DEF Interrupt
<1>9. QED
  BY <1>1, <1>3, <1>4, <1>5, <1>6, <1>8, NextKeeps

(* The vector of the row is stored, with the text it was made of.           *)
LEMMA VectorStored ==
  ASSUME EmbedInv, NEW p \in Procs, StoreVector(p)
  PROVE  LET c == cmd[p].config
             task == cmd[p].job.tasks[cmd[p].job.batch.from]
         IN /\ c \in Configs /\ task.thread \in Threads
            /\ vector'[c][task.thread].of = task.text
            /\ \A u \in Threads : u # task.thread => vector'[c][u] = vector[c][u]
            /\ ArchiveTyped' /\ Hashed(vector') /\ thread' = thread /\ config' = config
<1> DEFINE job == cmd[p].job
           stored == [job EXCEPT !.embedded = @ + 1]
           task == job.tasks[job.batch.from]
           c == cmd[p].config
           t == task.thread
           v == [of |-> task.text, hash |-> task.text]
<1>1. cmd[p].pc = "store" /\ cmd[p] # Idle /\ c \in Configs
  BY ActiveCommand, RunningFields DEF StoreVector, Steps
<1>2. job \in Job /\ QueueSound(job) /\ BatchSound(job) /\ Accounted(job, Open(job))
  BY <1>1, EmbeddingKnown
<1>3. stored.batch = job.batch /\ stored.tasks = job.tasks
  <2> HIDE DEF job
  <2>1. QED
    BY <1>2 DEF Job
<1>4. /\ vector' = [vector EXCEPT ![c][t] = v]
      /\ updated' = [updated EXCEPT ![t] = Touched(@, c)]
      /\ UNCHANGED <<thread, config, clustered, bounds>>
  BY <1>3 DEF StoreVector, StoredHash, ContentHash
<1> HIDE DEF job, stored
<1>5. t \in Threads /\ task.text \in Texts
  BY <1>2, StoreSound, JobFields
<1>6. v \in Vector /\ v.of = task.text /\ v.hash = task.text
  <2> HIDE DEF task
  <2>1. QED
    BY <1>5 DEF Vector
<1> HIDE DEF v, c, t
<1>7. vector \in [Configs -> [Threads -> Vector]]
  BY DEF EmbedInv, ArchiveTyped
<1>8. /\ vector' \in [Configs -> [Threads -> Vector]] /\ vector'[c][t] = v
      /\ \A d \in Configs, u \in Threads : d # c \/ u # t => vector'[d][u] = vector[d][u]
  BY <1>1, <1>4, <1>5, <1>6, <1>7
<1>9. Hashed(vector')
  BY <1>1, <1>5, <1>6, <1>8 DEF EmbedInv, Hashed
<1>10. updated' \in [Threads -> SUBSET (Configs \X Configs)]
  <2>1. updated[t] \subseteq Configs \X Configs
    BY <1>5 DEF EmbedInv, ArchiveTyped
  <2>2. Touched(updated[t], c) \subseteq Configs \X Configs
    BY <1>1, <2>1 DEF Touched
  <2>3. QED
    BY <1>4, <1>5, <2>2 DEF EmbedInv, ArchiveTyped
<1>11. ArchiveTyped'
  BY <1>4, <1>8, <1>10 DEF EmbedInv, ArchiveTyped, bounds
<1>12. QED
  BY <1>1, <1>4, <1>5, <1>6, <1>8, <1>9, <1>11 DEF c, t, job

(* The row that was stored is accounted for; the others are as they were.   *)
LEMMA RowAccounted ==
  ASSUME EmbedInv, NEW p \in Procs, StoreVector(p), NEW next,
         next.tasks = cmd[p].job.tasks, next.failed = cmd[p].job.failed,
         next.interrupted = cmd[p].job.interrupted
  PROVE  /\ TasksSeen(cmd[p], next) /\ RefreshedBy(cmd[p], next, vector')
         /\ Accounts(cmd[p], next, Open(cmd[p].job) \ {cmd[p].job.batch.from}, thread, vector')
<1> DEFINE r == cmd[p]
           job == r.job
           row == job.batch.from
           open == Open(job)
           task == job.tasks[row]
           c == r.config
<1>1. r.pc = "store" /\ r # Idle
  BY ActiveCommand DEF StoreVector, Steps
<1>2. /\ job \in Job /\ QueueSound(job) /\ BatchSound(job) /\ Accounted(job, Open(job))
      /\ TasksSeen(r, job) /\ Accounts(r, job, open, thread, vector)
  BY <1>1, EmbeddingKnown
<1>3. /\ task.thread \in Threads /\ vector'[c][task.thread].of = task.text
      /\ \A u \in Threads : u # task.thread => vector'[c][u] = vector[c][u]
  BY VectorStored
<1>4. next.tasks = job.tasks /\ next.failed = job.failed /\ next.interrupted = job.interrupted
  OBVIOUS
<1> HIDE DEF r, job, open
<1>5. /\ row \in 1..Len(job.tasks)
      /\ \A i \in 1..Len(job.tasks) : job.tasks[i].thread \in Threads
  BY <1>2, StoreSound, JobFields
<1>6. TasksSeen(r, next)
  BY <1>2, <1>4 DEF TasksSeen
<1>7. Saw(r, task.thread, task.text) /\ r.opts.number \in {0, task.thread}
  BY <1>2, <1>5 DEF TasksSeen
<1>8. RefreshedBy(r, next, vector')
  BY <1>3, <1>7, EmbeddingAssumption DEF RefreshedBy
<1>9. ASSUME ~next.interrupted, Quiet(r)
      PROVE  /\ RowsCounted(r, next, open \ {row}, thread, vector')
             /\ AllPicked(r, next, thread, vector')
  <2>1. RowsCounted(r, job, open, thread, vector) /\ AllPicked(r, job, thread, vector)
    BY <1>2, <1>4, <1>9 DEF Accounts
  <2>2. task.text = thread[task.thread].text
    BY <1>5, <2>1 DEF RowsCounted
  <2>3. ASSUME NEW i \in 1..Len(job.tasks)
        PROVE  /\ job.tasks[i].text = thread[job.tasks[i].thread].text
               /\ \/ vector'[c][job.tasks[i].thread].of = job.tasks[i].text
                  \/ job.tasks[i].thread \in job.failed
                  \/ i \in open \ {row}
    <3>1. /\ job.tasks[i].text = thread[job.tasks[i].thread].text
          /\ \/ vector[c][job.tasks[i].thread].of = job.tasks[i].text
             \/ job.tasks[i].thread \in job.failed
             \/ i \in open
      BY <2>1 DEF RowsCounted
    <3>2. CASE job.tasks[i].thread = task.thread
      BY <1>3, <2>2, <3>1, <3>2
    <3>3. CASE job.tasks[i].thread # task.thread
      BY <1>3, <1>5, <3>1, <3>3
    <3>4. QED
      BY <3>2, <3>3
  <2>4. AllPicked(r, next, thread, vector')
    <3>1. ASSUME NEW t \in Threads, vector[c][t].of = thread[t].text
          PROVE  vector'[c][t].of = thread[t].text
      <4>1. CASE t = task.thread
        BY <1>3, <2>2, <4>1
      <4>2. CASE t # task.thread
        BY <1>3, <3>1, <4>2
      <4>3. QED
        BY <4>1, <4>2
    <3> HIDE DEF task
    <3>2. QED
      BY <1>4, <2>1, <3>1 DEF AllPicked
  <2>5. QED
    BY <1>4, <2>3, <2>4 DEF RowsCounted
<1>10. QED
  BY <1>6, <1>8, <1>9 DEF Accounts, r, job, open

LEMMA StoreKeeps ==
  ASSUME EmbedInv, NEW p \in Procs, StoreVector(p)
  PROVE  EmbedInv'
<1> DEFINE r == cmd[p]
           job == r.job
           stored == [job EXCEPT !.embedded = @ + 1]
           next == [stored EXCEPT !.batch.from = @ + 1]
           row == job.batch.from
           last == job.batch.to
<1>1. r.pc = "store" /\ r # Idle /\ r \in Running
  BY ActiveCommand, RunningFields DEF StoreVector, Steps
<1>2. job \in Job /\ QueueSound(job) /\ BatchSound(job) /\ Accounted(job, Open(job))
  BY <1>1, EmbeddingKnown
<1>3. /\ stored.batch.from = row /\ stored.batch.to = last /\ stored.tasks = job.tasks
      /\ stored.failed = job.failed /\ stored.interrupted = job.interrupted
      /\ next.tasks = job.tasks /\ next.failed = job.failed
      /\ next.interrupted = job.interrupted
  <2> HIDE DEF job
  <2>1. QED
    BY <1>2 DEF Job
<1>4. IF row < last THEN cmd' = [cmd EXCEPT ![p] = [r EXCEPT !.job = next]]
      ELSE NextBatch(p, stored)
  BY <1>3 DEF StoreVector, Set
<1>5. /\ thread' = thread /\ config' = config /\ ArchiveTyped' /\ Hashed(vector')
  BY VectorStored
<1>6. /\ stored \in Job /\ QueueSound(stored)
      /\ row = last => /\ Waiting(stored) = Open(job) \ {row}
                       /\ Accounted(stored, Waiting(stored))
      /\ row < last => /\ next \in Job /\ QueueSound(next) /\ BatchSound(next)
                       /\ Open(next) = Open(job) \ {row} /\ Accounted(next, Open(next))
  <2> HIDE DEF job
  <2>1. QED
    BY <1>2, StoreSound
<1>7. row \in Nat /\ last \in Nat /\ row <= last
  <2> HIDE DEF job
  <2>1. QED
    BY <1>2, JobFields, BatchType DEF BatchSound, Within
<1> HIDE DEF stored, next
<1>8. /\ TasksSeen(r, next) /\ RefreshedBy(r, next, vector')
      /\ Accounts(r, next, Open(job) \ {row}, thread, vector')
  BY <1>3, RowAccounted
<1>9. /\ TasksSeen(r, stored) /\ RefreshedBy(r, stored, vector')
      /\ Accounts(r, stored, Open(job) \ {row}, thread, vector')
  BY <1>3, RowAccounted
<1>10. CASE row < last
  <2>1. cmd' = [cmd EXCEPT ![p] = [r EXCEPT !.pc = "store", !.job = next]]
    <3>1. [r EXCEPT !.job = next] = [r EXCEPT !.pc = "store", !.job = next]
      <4> HIDE DEF r
      <4>1. QED
        BY <1>1 DEF Running
    <3>2. QED
      BY <1>4, <1>10, <3>1
  <2>2. JobInv("store", next)
    BY <1>6, <1>10 DEF JobInv
  <2>3. "store" \in Embeds
    BY DEF Embeds
  <2>4. Accounts(r, next, IF "store" = "record" THEN {} ELSE Open(next), thread, vector')
    BY <1>6, <1>8, <1>10
  <2>5. QED
    BY <1>1, <1>5, <1>6, <1>8, <1>10, <2>1, <2>2, <2>3, <2>4, JobMoves
<1>11. CASE row = last
  <2>1. NextBatch(p, stored)
    BY <1>4, <1>7, <1>11
  <2>2. Accounts(r, stored, Waiting(stored), thread, vector')
    BY <1>6, <1>9, <1>11
  <2>3. QED
    BY <1>1, <1>5, <1>6, <1>9, <1>11, <2>1, <2>2, NextKeeps
<1>12. QED
  BY <1>7, <1>10, <1>11

(* Every element of a set is at some place of an ordering of it.            *)
LEMMA OrderingCovers ==
  ASSUME NEW S, IsFiniteSet(S), NEW order \in SetToSeqs(S)
  PROVE  /\ order \in Seq(S) /\ Len(order) = Cardinality(S)
         /\ DOMAIN order = 1..Len(order)
         /\ \A x \in S : \E i \in 1..Len(order) : order[i] = x
<1> DEFINE D == 1..Cardinality(S)
<1>1. Cardinality(S) \in Nat
  BY FS_CardinalityType
<1>2. order \in [D -> S] /\ \A i, j \in D : i # j => order[i] # order[j]
  BY DEF SetToSeqs
<1>3. order \in Seq(S) /\ Len(order) = Cardinality(S) /\ DOMAIN order = D
  BY <1>1, <1>2
<1>4. order \in Injection(D, S)
  BY <1>2 DEF Injection, IsInjective
<1>5. Cardinality(D) = Cardinality(S)
  BY <1>1, FS_Interval
<1> HIDE DEF D
<1>6. order \in Surjection(D, S)
  BY <1>4, <1>5, FS_Injection
<1>7. \A x \in S : \E i \in D : order[i] = x
  BY <1>6 DEF Surjection
<1>8. QED
  BY <1>3, <1>7 DEF D

(* The rows are of threads that were selected, with their texts now;        *)
(* without a limit every thread that needs an embedding is one.             *)
LEMMA TasksListed ==
  ASSUME EmbedInv, NEW p \in Procs, NEW c \in Configs, NEW tasks \in EmbeddingTasks(p, c)
  PROVE  /\ tasks \in Seq([thread : Threads, text : Texts \ {NoText}])
         /\ \A i \in 1..Len(tasks) : /\ tasks[i].thread \in Selected(p)
                                     /\ tasks[i].text = thread[tasks[i].thread].text
         /\ Limit(p) = 0 => \A t \in Selected(p) : NeedsEmbedding(p, c, t) =>
              \E i \in 1..Len(tasks) : tasks[i].thread = t
<1> DEFINE Orders(first) == SetToSeqs({t \in first : NeedsEmbedding(p, c, t)})
<1>1. PICK order \in UNION {Orders(first) : first \in Limited(Limit(p), Selected(p))} :
        tasks = [i \in DOMAIN order |-> [thread |-> order[i], text |-> thread[order[i]].text]]
  BY ZenonT(30) DEF EmbeddingTasks
<1>2. PICK first \in Limited(Limit(p), Selected(p)) : order \in Orders(first)
  <2> HIDE DEF Orders
  <2>1. QED
    OBVIOUS
<1> DEFINE S == {t \in first : NeedsEmbedding(p, c, t)}
<1>3. order \in SetToSeqs(S)
  BY <1>2
<1>4. first \subseteq Selected(p) /\ (Limit(p) = 0 => first = Selected(p))
  BY DEF Limited
<1>5. Selected(p) \subseteq Threads
  BY DEF Selected, Scope
<1>6. IsFiniteSet(S)
  BY <1>4, <1>5, EmbeddingAssumption, FS_Subset
<1> HIDE DEF S, Orders
<1>7. /\ order \in Seq(S) /\ DOMAIN order = 1..Len(order) /\ Len(order) \in Nat
      /\ \A x \in S : \E i \in 1..Len(order) : order[i] = x
  BY <1>6, <1>3, OrderingCovers
<1>8. ASSUME NEW i \in 1..Len(order)
      PROVE  /\ order[i] \in Selected(p) /\ order[i] \in Threads
             /\ thread[order[i]].text \in Texts \ {NoText}
  <2>1. order[i] \in S
    BY <1>7
  <2>2. order[i] \in Selected(p) /\ NeedsEmbedding(p, c, order[i])
    BY <1>4, <2>1 DEF S
  <2>3. thread[order[i]] \in State
    BY <1>5, <2>2 DEF EmbedInv, ArchiveTyped
  <2>4. QED
    BY <1>5, <2>2, <2>3 DEF NeedsEmbedding, State
<1>9. /\ tasks \in Seq([thread : Threads, text : Texts \ {NoText}])
      /\ Len(tasks) = Len(order)
      /\ \A i \in 1..Len(order) : /\ tasks[i].thread = order[i]
                                  /\ tasks[i].text = thread[order[i]].text
  BY <1>1, <1>7, <1>8
<1>10. ASSUME Limit(p) = 0, NEW t \in Selected(p), NeedsEmbedding(p, c, t)
      PROVE  \E i \in 1..Len(tasks) : tasks[i].thread = t
  <2>1. t \in S
    BY <1>4, <1>10 DEF S
  <2>2. QED
    BY <1>7, <1>9, <2>1
<1>11. QED
  BY <1>8, <1>9, <1>10

LEMMA ListKeeps ==
  ASSUME EmbedInv, NEW p \in Procs, List(p)
  PROVE  EmbedInv'
<1> DEFINE r == cmd[p]
<1>1. /\ r.pc = "list" /\ r # Idle /\ r \in Running /\ r.config \in Configs
      /\ r.opts \in Command /\ CommandInv(r, thread, config, vector)
  BY ActiveCommand, RunningFields DEF List, Steps
<1>2. /\ thread' = thread /\ config' = config /\ vector' = vector
      /\ ArchiveTyped' /\ Hashed(vector')
  BY ArchiveStays DEF List, bounds, EmbedInv, ArchiveTyped
<1>3. CASE r.config \in Unsupported
  BY <1>1, <1>2, <1>3, CommandEnds DEF List
<1>4. CASE r.config \notin Unsupported
  <2>1. PICK tasks \in EmbeddingTasks(p, r.config), size \in BatchSizes :
          NextBatch(p, [Embedding EXCEPT !.tasks = tasks, !.queue = Queue(Len(tasks), size)])
    BY <1>4 DEF List
  <2> DEFINE job == [Embedding EXCEPT !.tasks = tasks, !.queue = Queue(Len(tasks), size)]
  <2>2. /\ tasks \in Seq([thread : Threads, text : Texts \ {NoText}])
        /\ \A i \in 1..Len(tasks) : /\ tasks[i].thread \in Selected(p)
                                    /\ tasks[i].text = thread[tasks[i].thread].text
        /\ Limit(p) = 0 => \A t \in Selected(p) : NeedsEmbedding(p, r.config, t) =>
             \E i \in 1..Len(tasks) : tasks[i].thread = t
    BY <1>1, TasksListed
  <2>3. /\ job \in Job /\ QueueSound(job) /\ Waiting(job) = 1..Len(tasks)
        /\ Accounted(job, Waiting(job)) /\ job.failed = {} /\ job.tasks = tasks
        /\ job.embedded = 0
    BY ZenonT(60), <2>2, QueueCovers
  <2> HIDE DEF job
  <2>4. \A i \in 1..Len(tasks) : tasks[i].thread \in Threads
    BY <2>2 DEF Selected, Scope
  <2>5. TasksSeen(r, job)
    BY <1>1, <2>2, <2>3, <2>4 DEF TasksSeen, Saw, CommandInv, Selected, Number
  <2>6. RefreshedBy(r, job, vector)
    BY <2>3 DEF RefreshedBy
  <2>7. AllPicked(r, job, thread, vector)
    <3>1. ASSUME ~Searches(r), r.opts.limit = 0, NEW t \in Threads, Picks(r, t, thread),
                 thread[t].text # NoText, vector[r.config][t].of # thread[t].text
          PROVE  \E i \in 1..Len(tasks) : tasks[i].thread = t
      <4>1. Limit(p) = 0
        BY <3>1 DEF Limit, Searches
      <4>2. t \in Selected(p)
        BY <3>1 DEF Picks, Selected, Scope, Number
      <4>3. vector[r.config][t].hash = vector[r.config][t].of
        BY <1>1 DEF EmbedInv, Hashed
      <4>4. NeedsEmbedding(p, r.config, t)
        BY <3>1, <4>3 DEF NeedsEmbedding, ContentHash
      <4>5. QED
        BY <2>2, <4>1, <4>2, <4>4
    <3>2. QED
      BY <2>3, <3>1 DEF AllPicked
  <2>8. RowsCounted(r, job, Waiting(job), thread, vector)
    BY <2>2, <2>3 DEF RowsCounted
  <2>9. Accounts(r, job, Waiting(job), thread, vector)
    BY <2>7, <2>8 DEF Accounts
  <2>10. NextBatch(p, job)
    BY <2>1 DEF job
  <2>11. QED
    BY <1>1, <1>2, <2>3, <2>5, <2>6, <2>9, <2>10, NextKeeps
<1>5. QED
  BY <1>3, <1>4

(* A search goes on with the configuration there is now, which is the one   *)
(* its thread was embedded for when the configuration stayed.               *)
LEMMA RecordKeeps ==
  ASSUME EmbedInv, NEW p \in Procs, Record(p)
  PROVE  EmbedInv'
<1> DEFINE r == cmd[p]
           n == [r EXCEPT !.pc = "find", !.config = config, !.job = Embedding]
<1>1. r.pc = "record" /\ r # Idle /\ r \in Running /\ CommandInv(r, thread, config, vector)
  BY ActiveCommand DEF Record, Steps
<1>2. /\ thread' = thread /\ config' = config /\ vector' = vector
      /\ ArchiveTyped' /\ Hashed(vector')
  BY ArchiveStays DEF Record, bounds, EmbedInv, ArchiveTyped
<1>3. CASE End(p)
  BY <1>1, <1>2, <1>3, CommandEnds
<1>4. CASE StageDone(p)
  BY <1>1, <1>2, <1>4, StageDoneKeeps
<1>5. CASE r.opts.stages[1] = "neighbors" /\ r.job.embedded # 0 /\ cmd' = [cmd EXCEPT ![p] = n]
  <2> HIDE DEF r
  <2>1. /\ n \in Running /\ n.pc = "find" /\ n.config = config /\ n.job = Embedding
        /\ n.opts = r.opts /\ n.cover = r.cover /\ n.backfill = r.backfill
        /\ n.alone = r.alone /\ n.steady = r.steady /\ n.seen = r.seen
    <3>1. "find" \in Steps /\ config \in Configs /\ Embedding \in Job
      BY BatchType DEF Steps, EmbedInv, ArchiveTyped
    <3>2. QED
      BY <1>1, <3>1 DEF Running
  <2> HIDE DEF n
  <2>2. JobInv(n.pc, n.job) /\ n.pc \notin Embeds
    BY <2>1 DEF JobInv, Embeds
  <2>3. CoverInv(n)
    BY <1>1, <2>1 DEF CommandInv, CoverInv, VectorsSound
  <2>4. Refreshed(n, vector)
    <3>1. r.job.embedded > 0
      BY <1>1, <1>5, RunningFields, JobFields
    <3>2. r.steady => r.config = config
      BY <1>1 DEF CommandInv
    <3>3. Refreshed(r, vector) /\ r.pc \in Embeds
      BY <1>1 DEF CommandInv, TargetInv, Embeds
    <3>4. QED
      BY <2>1, <2>2, <3>1, <3>2, <3>3 DEF Refreshed, Searches, Saw
  <2>5. TargetInv(n, vector)
    BY <1>5, <2>1, <2>2, <2>4 DEF TargetInv, Searches
  <2>6. AccountInv(n, thread, vector)
    BY <2>2 DEF AccountInv
  <2>7. CommandInv(n, thread, config, vector)
    BY <1>1, <2>1, <2>2, <2>3, <2>5, <2>6 DEF CommandInv
  <2>8. QED
    BY <1>1, <1>2, <1>5, <2>1, <2>7, CommandMoves DEF r
<1>6. QED
  BY <1>3, <1>4, <1>5 DEF Record, Set

-----------------------------------------------------------------------------
(* cluster                                                                  *)

(* A clustering command goes on with the vectors it has.                    *)
LEMMA ClusterMoves ==
  ASSUME EmbedInv, NEW p \in Procs, cmd[p] # Idle, cmd[p].pc \notin Embeds,
         NEW pc \in {"count", "coverage", "fallback", "group", "save"}, NEW cover \in Cover,
         SetCover(p, pc, cover), UNCHANGED <<archive, bounds>>, VectorsSound(cmd[p], pc, cover)
  PROVE  EmbedInv'
<1> DEFINE r == cmd[p]
           n == [r EXCEPT !.pc = pc, !.cover = cover]
<1>1. r \in Running /\ CommandInv(r, thread, config, vector) /\ r.job = Embedding
  BY ActiveCommand DEF CommandInv, JobInv, Embeds
<1>2. cmd' = [cmd EXCEPT ![p] = n]
  BY DEF SetCover, Set
<1>3. VectorsSound(r, pc, cover)
  OBVIOUS
<1>4. pc \in Steps
  BY DEF Steps
<1> HIDE DEF r
<1>5. /\ n \in Running /\ n.pc = pc /\ n.cover = cover /\ n.opts = r.opts
      /\ n.config = r.config /\ n.job = r.job /\ n.backfill = r.backfill
      /\ n.alone = r.alone /\ n.steady = r.steady /\ n.seen = r.seen
  BY <1>1, <1>4 DEF Running
<1> HIDE DEF n
<1>6. CoverInv(n)
  BY <1>3, <1>5 DEF CoverInv, VectorsSound, SawAllOpen, SawClosed, Saw
<1>7. n.pc \notin Embeds
  BY <1>5 DEF Embeds
<1>8. JobInv(n.pc, n.job)
  BY <1>1, <1>5 DEF JobInv
<1>9. TargetInv(n, vector)
  BY <1>5, <1>7 DEF TargetInv, Refreshed
<1>10. AccountInv(n, thread, vector)
  BY <1>7 DEF AccountInv
<1>11. CommandInv(n, thread, config, vector)
  BY <1>1, <1>5, <1>6, <1>8, <1>9, <1>10 DEF CommandInv
<1>12. /\ thread' = thread /\ config' = config /\ vector' = vector
       /\ ArchiveTyped' /\ Hashed(vector')
  BY ArchiveStays DEF bounds, EmbedInv, ArchiveTyped
<1>13. QED
  BY <1>2, <1>5, <1>11, <1>12, CommandMoves DEF r

(* What the statements of a command find.                                   *)
LEMMA FoundRows ==
  ASSUME EmbedInv, NEW p \in Procs, NEW c \in Configs
  PROVE  /\ Found(p, c) \subseteq VectorRow
         /\ \A v \in Found(p, c) : v.config = c /\ v.hash = v.of /\ v.of = vector[c][v.thread].of
         /\ \A v, w \in Found(p, c) : v.thread = w.thread => v = w
<1> DEFINE Row(t) == [config |-> c, thread |-> t, of |-> vector[c][t].of,
                      hash |-> vector[c][t].hash]
<1>1. ASSUME NEW t \in Threads
      PROVE  Row(t) \in VectorRow /\ Row(t).config = c /\ Row(t).thread = t
             /\ Row(t).of = vector[c][t].of /\ Row(t).hash = vector[c][t].hash
             /\ vector[c][t].hash = vector[c][t].of
  <2>1. vector[c][t] \in Vector /\ vector[c][t].hash = vector[c][t].of
    BY DEF EmbedInv, ArchiveTyped, Hashed
  <2>2. QED
    BY <2>1 DEF Vector, VectorRow
<1>2. Found(p, c) = {Row(t) : t \in {u \in Scope(p) : HasVector(c, u)}}
  BY DEF Found
<1>3. \A v \in Found(p, c) : \E t \in Threads : v = Row(t)
  BY <1>2 DEF Scope
<1> HIDE DEF Row
<1>4. QED
  BY <1>1, <1>3

(* A current vector is of a text that the command has seen.                 *)
LEMMA FreshSeen ==
  ASSUME EmbedInv, NEW p \in Procs, cmd[p] # Idle, NEW vectors \in SUBSET VectorRow,
         \A v \in vectors : v.hash = v.of
  PROVE  /\ Fresh(p, vectors) \subseteq vectors
         /\ \A v \in Fresh(p, vectors) : v.config \in Unsupported \/ Saw(cmd[p], v.thread, v.of)
<1>1. \A t \in Threads : thread[t] \in cmd[p].seen[t]
  BY ActiveCommand DEF CommandInv
<1>2. \A v \in vectors : v.thread \in Threads
  BY DEF VectorRow
<1>3. QED
  BY <1>1, <1>2 DEF Fresh, ContentHash, Saw

LEMMA ReadVectorsKeeps ==
  ASSUME EmbedInv, NEW p \in Procs, ReadVectors(p)
  PROVE  EmbedInv'
<1> DEFINE found == Found(p, cmd[p].config)
           cover == [Clustering EXCEPT !.vectors = found]
<1>1. cmd[p].pc = "vectors" /\ cmd[p] # Idle /\ cmd[p].config \in Configs
  BY ActiveCommand, RunningFields DEF ReadVectors, Steps
<1>2. /\ found \subseteq VectorRow
      /\ \A v \in found : v.config = cmd[p].config /\ v.hash = v.of
      /\ \A v, w \in found : v.thread = w.thread => v = w
  BY <1>1, FoundRows
<1> HIDE DEF found
<1>3. cover \in Cover /\ cover.vectors = found
  BY <1>2, BatchType DEF Cover
<1>4. VectorsSound(cmd[p], "count", cover)
  <2> HIDE DEF cover
  <2>1. QED
    BY <1>2, <1>3 DEF VectorsSound
<1>5. SetCover(p, "count", cover)
  BY DEF ReadVectors, found
<1>6. cmd[p].pc \notin Embeds
  BY <1>1 DEF Embeds
<1>7. QED
  BY <1>1, <1>3, <1>4, <1>5, <1>6, ClusterMoves DEF ReadVectors

LEMMA CountScopeKeeps ==
  ASSUME EmbedInv, NEW p \in Procs, CountScope(p)
  PROVE  EmbedInv'
<1> DEFINE r == cmd[p]
           cover == [r.cover EXCEPT !.eligible = Cardinality(Scope(p))]
<1>1. /\ r.pc = "count" /\ r # Idle /\ r.cover \in Cover
      /\ CommandInv(r, thread, config, vector)
  BY ActiveCommand, RunningFields DEF CountScope, Steps
<1>2. Cardinality(Scope(p)) \in Nat
  <2>1. IsFiniteSet(Scope(p))
    BY EmbeddingAssumption, FS_Subset DEF Scope
  <2>2. QED
    BY <2>1, FS_CardinalityType
<1>3. /\ cover \in Cover /\ cover.vectors = r.cover.vectors
      /\ cover.eligible = Cardinality(Scope(p))
  <2> HIDE DEF r
  <2>1. QED
    BY <1>1, <1>2 DEF Cover
<1> HIDE DEF cover
<1>4. ~r.opts.closed /\ SawAllOpen(r) => Scope(p) = Threads
  BY <1>1 DEF Scope, SawAllOpen, SawClosed, CommandInv
<1>5. VectorsSound(r, "coverage", cover)
  BY <1>1, <1>3, <1>4 DEF CommandInv, CoverInv, VectorsSound
<1>6. SetCover(p, "coverage", cover)
  BY DEF CountScope, cover
<1>7. r.pc \notin Embeds
  BY <1>1 DEF Embeds
<1>8. QED
  BY <1>1, <1>3, <1>5, <1>6, <1>7, ClusterMoves DEF CountScope

(* As many vectors as there are threads, one of each, are of all threads.   *)
LEMMA OneVectorEach ==
  ASSUME NEW vectors \in SUBSET VectorRow,
         \A v, w \in vectors : v.thread = w.thread => v = w,
         Cardinality(vectors) = Cardinality(Threads)
  PROVE  {v.thread : v \in vectors} = Threads
<1> DEFINE f == [v \in vectors |-> v.thread]
<1>1. \A v \in vectors : v.thread \in Threads
  BY DEF VectorRow
<1>2. f \in Injection(vectors, Threads)
  BY <1>1 DEF Injection, IsInjective
<1>3. f \in Surjection(vectors, Threads)
  <2> HIDE DEF f
  <2>1. QED
    BY <1>2, EmbeddingAssumption, FS_Injection
<1>4. \A t \in Threads : \E v \in vectors : v.thread = t
  BY <1>3 DEF Surjection
<1>5. QED
  BY <1>1, <1>4

LEMMA CoverageKeeps ==
  ASSUME EmbedInv, NEW p \in Procs, Coverage(p)
  PROVE  EmbedInv'
<1> DEFINE r == cmd[p]
           vectors == r.cover.vectors
           fresh == Fresh(p, vectors)
           complete == CoverageComplete(p, vectors, fresh)
           cover == [Clustering EXCEPT !.vectors = fresh, !.complete = complete]
           pc == IF fresh = {} /\ ~r.opts.strict THEN "fallback" ELSE "save"
<1>1. /\ r.pc = "coverage" /\ r # Idle /\ vectors \subseteq VectorRow
      /\ CommandInv(r, thread, config, vector)
  BY ActiveCommand, RunningFields, CoverFields DEF Coverage, Steps
<1>2. /\ \A v \in vectors : v.hash = v.of
      /\ \A v, w \in vectors : v.thread = w.thread => v = w
      /\ ~r.opts.closed /\ SawAllOpen(r) => r.cover.eligible = Cardinality(Threads)
  BY <1>1 DEF CommandInv, CoverInv, VectorsSound
<1>3. /\ fresh \subseteq vectors
      /\ \A v \in fresh : v.config \in Unsupported \/ Saw(r, v.thread, v.of)
  BY <1>1, <1>2, FreshSeen
<1>4. complete \in BOOLEAN /\ (complete => Cardinality(fresh) = r.cover.eligible)
  BY DEF CoverageComplete
<1>5. \/ End(p)
      \/ SetCover(p, pc, cover)
  BY DEF Coverage
<1> HIDE DEF fresh, complete
<1>6. /\ cover \in Cover /\ cover.vectors = fresh /\ cover.complete = complete
      /\ cover.fallback = FALSE
  <2>1. fresh \subseteq VectorRow
    BY <1>1, <1>3
  <2>2. QED
    BY <1>4, <2>1 DEF Cover, Clustering
<1> HIDE DEF cover, vectors
<1>7. VectorsSound(r, pc, cover)
  <2>1. ASSUME complete, ~r.opts.closed, SawAllOpen(r)
        PROVE  {v.thread : v \in fresh} = Threads
    <3>1. Cardinality(fresh) = Cardinality(Threads)
      BY <1>2, <1>4, <2>1
    <3>2. /\ fresh \in SUBSET VectorRow
          /\ \A v, w \in fresh : v.thread = w.thread => v = w
      BY <1>1, <1>2, <1>3
    <3>3. QED
      BY <3>1, <3>2, OneVectorEach
  <2>2. \A v \in fresh : v.hash = v.of
    BY <1>2, <1>3
  <2>3. QED
    BY <1>3, <1>6, <2>1, <2>2 DEF VectorsSound
<1>8. pc \in {"fallback", "save"} /\ r.pc \notin Embeds
  BY <1>1 DEF Embeds
<1>9. /\ thread' = thread /\ config' = config /\ vector' = vector
      /\ ArchiveTyped' /\ Hashed(vector') /\ UNCHANGED <<archive, bounds>>
  BY ArchiveStays DEF Coverage, bounds, EmbedInv, ArchiveTyped
<1>10. CASE End(p)
  BY <1>1, <1>9, <1>10, CommandEnds
<1>11. CASE SetCover(p, pc, cover)
  <2> HIDE DEF pc
  <2>1. QED
    BY <1>1, <1>6, <1>7, <1>8, <1>9, <1>11, ClusterMoves
<1>12. QED
  BY <1>5, <1>10, <1>11

LEMMA ReadFallbackKeeps ==
  ASSUME EmbedInv, NEW p \in Procs, ReadFallback(p)
  PROVE  EmbedInv'
<1> DEFINE r == cmd[p]
           found == UNION {Found(p, c) : c \in Configs}
           groups == {v.config : v \in found} \ Unsupported
           cover == [r.cover EXCEPT !.vectors = found, !.fallback = found # {},
                                    !.groups = groups]
           pc == IF found = {} THEN "save" ELSE "group"
<1>1. /\ r.pc = "fallback" /\ r # Idle /\ r.cover \in Cover
      /\ CommandInv(r, thread, config, vector)
  BY ActiveCommand, RunningFields DEF ReadFallback, Steps
<1>2. found \subseteq VectorRow /\ \A v \in found : v.hash = v.of
  <2>1. ASSUME NEW v \in found PROVE v \in VectorRow /\ v.hash = v.of
    <3>1. PICK c \in Configs : v \in Found(p, c)
      BY <2>1
    <3>2. QED
      BY <3>1, FoundRows
  <2>2. QED
    BY <2>1
<1>3. SetCover(p, pc, cover)
  BY DEF ReadFallback
<1> HIDE DEF found
<1>4. groups \subseteq Configs /\ \A v \in found : v.config \in Unsupported \cup groups
  BY <1>2 DEF VectorRow
<1> HIDE DEF groups
<1>5. /\ cover \in Cover /\ cover.vectors = found /\ cover.complete = r.cover.complete
      /\ cover.fallback = (found # {}) /\ cover.groups = groups
  <2> HIDE DEF r
  <2>1. QED
    BY <1>1, <1>2, <1>4 DEF Cover
<1> HIDE DEF cover
<1>6. VectorsSound(r, pc, cover)
  <2>1. r.cover.vectors = {} /\ ~r.cover.fallback
    BY <1>1 DEF CommandInv, CoverInv, VectorsSound
  <2>2. CASE found = {}
    <3>1. r.cover.complete /\ ~r.opts.closed /\ SawAllOpen(r) => Threads = {}
      BY <1>1, <2>1 DEF CommandInv, CoverInv, VectorsSound
    <3>2. pc = "save" /\ cover.vectors = {}
      BY <1>5, <2>2
    <3>3. QED
      BY <1>5, <3>1, <3>2 DEF VectorsSound
  <2>3. CASE found # {}
    BY <1>2, <1>4, <1>5, <2>3 DEF VectorsSound
  <2>4. QED
    BY <2>2, <2>3
<1>7. pc \in {"save", "group"} /\ r.pc \notin Embeds
  BY <1>1 DEF Embeds
<1> HIDE DEF pc
<1>8. QED
  BY <1>1, <1>3, <1>5, <1>6, <1>7, ClusterMoves DEF ReadFallback

LEMMA FallbackGroupKeeps ==
  ASSUME EmbedInv, NEW p \in Procs, FallbackGroup(p)
  PROVE  EmbedInv'
<1> DEFINE r == cmd[p]
           old == r.cover
<1>1. /\ r.pc = "group" /\ r # Idle /\ old \in Cover /\ r.pc \notin Embeds
      /\ CommandInv(r, thread, config, vector) /\ UNCHANGED <<archive, bounds>>
  BY ActiveCommand, RunningFields DEF FallbackGroup, Steps, Embeds
<1>2. /\ old.vectors \subseteq VectorRow /\ old.groups \subseteq Configs /\ old.fallback
      /\ \A v \in old.vectors : v.hash = v.of
      /\ \A v \in old.vectors :
           v.config \in Unsupported \cup old.groups \/ Saw(r, v.thread, v.of)
  BY <1>1, CoverFields DEF CommandInv, CoverInv, VectorsSound
<1>3. CASE old.groups = {}
  <2> DEFINE kept == Preferred(old.vectors)
             cover == [old EXCEPT !.vectors = kept]
  <2>1. SetCover(p, "save", cover)
    BY <1>3 DEF FallbackGroup
  <2>2. kept \subseteq old.vectors
    BY DEF Preferred
  <2> HIDE DEF kept, old
  <2>3. cover \in Cover /\ cover.vectors = kept /\ cover.fallback
    BY <1>1, <1>2, <2>2 DEF Cover
  <2> HIDE DEF cover
  <2>4. VectorsSound(r, "save", cover)
    BY <1>2, <1>3, <2>2, <2>3 DEF VectorsSound
  <2>5. QED
    BY <1>1, <2>1, <2>3, <2>4, ClusterMoves
<1>4. CASE old.groups # {}
  <2>1. PICK c \in old.groups :
          LET group == {v \in old.vectors : v.config = c}
          IN SetCover(p, "group", [old EXCEPT !.groups = @ \ {c},
                                     !.vectors = (@ \ group) \cup Fresh(p, group)])
    BY <1>4 DEF FallbackGroup
  <2> DEFINE group == {v \in old.vectors : v.config = c}
             fresh == Fresh(p, group)
             kept == (old.vectors \ group) \cup fresh
             cover == [old EXCEPT !.groups = @ \ {c}, !.vectors = kept]
  <2>2. SetCover(p, "group", cover)
    BY <2>1
  <2>3. group \in SUBSET VectorRow /\ \A v \in group : v.hash = v.of
    BY <1>2
  <2>4. /\ fresh \subseteq group
        /\ \A v \in fresh : v.config \in Unsupported \/ Saw(r, v.thread, v.of)
    BY <1>1, <2>3, FreshSeen
  <2>5. kept \subseteq old.vectors
    BY <2>4
  <2>6. \A v \in kept : v.config \in Unsupported \cup (old.groups \ {c}) \/ Saw(r, v.thread, v.of)
    BY <1>2, <2>4
  <2> HIDE DEF kept, old
  <2>7. /\ cover \in Cover /\ cover.vectors = kept /\ cover.groups = old.groups \ {c}
        /\ cover.fallback
    BY <1>1, <1>2, <2>5 DEF Cover
  <2> HIDE DEF cover
  <2>8. VectorsSound(r, "group", cover)
    BY <1>2, <2>5, <2>6, <2>7 DEF VectorsSound
  <2>9. QED
    BY <1>1, <2>2, <2>7, <2>8, ClusterMoves
<1>5. QED
  BY <1>3, <1>4

LEMMA SaveClustersKeeps ==
  ASSUME EmbedInv, NEW p \in Procs, SaveClusters(p)
  PROVE  EmbedInv'
<1>1. /\ cmd[p].pc = "save" /\ cmd[p] # Idle
      /\ cmd[p].cover.vectors \subseteq VectorRow
  BY ActiveCommand, RunningFields, CoverFields DEF SaveClusters, Steps
<1>2. {v.thread : v \in LimitedVectors(p)} \subseteq Threads
  BY <1>1 DEF LimitedVectors, VectorRow
<1>3. clustered' \subseteq Threads
  BY <1>2 DEF SaveClusters, EmbedInv, ArchiveTyped
<1>4. /\ thread' = thread /\ config' = config /\ vector' = vector /\ ArchiveTyped'
  BY <1>3 DEF SaveClusters, bounds, EmbedInv, ArchiveTyped
<1>5. QED
  BY <1>1, <1>4, StageDoneKeeps DEF SaveClusters

LEMMA FailKeeps ==
  ASSUME EmbedInv, NEW p \in Procs, Fail(p)
  PROVE  EmbedInv'
<1>1. faults' \in 0..MaxFaults
  BY EmbeddingAssumption DEF Fail, EmbedInv, ArchiveTyped
<1>2. /\ thread' = thread /\ config' = config /\ vector' = vector
      /\ ArchiveTyped' /\ Hashed(vector')
  BY <1>1, ArchiveStays DEF Fail
<1>3. cmd[p] # Idle
  BY ActiveCommand DEF Fail
<1>4. QED
  BY <1>2, <1>3, CommandEnds DEF Fail

-----------------------------------------------------------------------------
(* neighbors                                                                *)

(* A vector that was found is the target's, as it is stored.                *)
LEMMA TargetFound ==
  ASSUME EmbedInv, NEW p \in Procs, cmd[p] # Idle, NEW v \in TargetVectors(p)
  PROVE  /\ v \in VectorRow /\ v.hash = v.of /\ v.thread = Number(p)
         /\ v.of = vector[v.config][v.thread].of
         /\ cmd[p].config \notin Unsupported => v.config = cmd[p].config
<1> DEFINE target(c) == {w \in Found(p, c) : w.thread = Number(p)}
<1>1. cmd[p].config \in Configs
  BY ActiveCommand, RunningFields
<1>2. PICK c \in Configs : /\ v \in target(c)
                           /\ cmd[p].config \notin Unsupported => c = cmd[p].config
  <2>1. CASE v \in target(cmd[p].config)
    BY <1>1, <2>1
  <2>2. CASE v \notin target(cmd[p].config)
    <3>1. /\ v \in UNION {target(c) : c \in Configs}
          /\ cmd[p].config \in Unsupported
      BY <2>2 DEF TargetVectors
    <3> HIDE DEF target
    <3>2. QED
      BY <3>1
  <2>3. QED
    BY <2>1, <2>2
<1>3. v \in Found(p, c) /\ v.thread = Number(p)
  BY <1>2
<1>4. QED
  BY <1>2, <1>3, FoundRows

(* A search embeds its thread anew, from the start.                         *)
LEMMA BackfillKeeps ==
  ASSUME EmbedInv, NEW p \in Procs, cmd[p] # Idle, cmd[p].pc \notin Embeds,
         NEW reason \in {"missing", "stale"}, Backfill(p, reason), UNCHANGED <<archive, bounds>>
  PROVE  EmbedInv'
<1> DEFINE r == cmd[p]
           n == [r EXCEPT !.pc = "list", !.config = config, !.backfill = reason,
                          !.cover = Clustering]
<1>1. r \in Running /\ CommandInv(r, thread, config, vector) /\ r.job = Embedding
  BY ActiveCommand DEF CommandInv, JobInv, Embeds
<1>2. cmd' = [cmd EXCEPT ![p] = n]
  BY DEF Backfill, Set
<1> HIDE DEF r
<1>3. /\ n \in Running /\ n.pc = "list" /\ n.config = config /\ n.job = Embedding
      /\ n.cover = Clustering /\ n.alone = r.alone /\ n.seen = r.seen
  <2>1. config \in Configs /\ Clustering \in Cover /\ "list" \in Steps
    BY BatchType DEF EmbedInv, ArchiveTyped, Steps
  <2>2. QED
    BY <1>1, <2>1 DEF Running
<1> HIDE DEF n
<1>4. \A t \in Threads : thread[t] \in n.seen[t]
  BY <1>1, <1>3 DEF CommandInv
<1>5. CommandInv(n, thread, config, vector)
  BY <1>3, <1>4, StageSound
<1>6. /\ thread' = thread /\ config' = config /\ vector' = vector
      /\ ArchiveTyped' /\ Hashed(vector')
  BY ArchiveStays DEF bounds, EmbedInv, ArchiveTyped
<1>7. QED
  BY <1>2, <1>3, <1>5, <1>6, CommandMoves DEF r

(* A search goes on with the vector of its target, or with what that is     *)
(* ranked against.                                                          *)
LEMMA TargetMoves ==
  ASSUME EmbedInv, NEW p \in Procs, cmd[p] # Idle, cmd[p].pc \in {"find", "check", "answer"},
         NEW pc \in {"check", "answer", "rows"}, NEW cover \in Cover,
         SetCover(p, pc, cover), UNCHANGED <<archive, bounds>>,
         \A v \in cover.vectors : v.hash = v.of,
         pc # "rows" => \A v \in cover.vectors :
           /\ v.thread = Number(p)
           /\ cmd[p].config \notin Unsupported => v.config = cmd[p].config,
         pc = "check" => /\ \A v, w \in cover.vectors : v = w
                         /\ \A v \in cover.vectors : v.of = vector[v.config][v.thread].of,
         pc # "check" /\ cmd[p].alone /\ cmd[p].steady /\ cmd[p].config \notin Unsupported =>
           \A v \in cover.vectors : v.thread = Number(p) =>
             \/ Saw(cmd[p], v.thread, v.of)
             \/ Saw(cmd[p], v.thread, NoText)
             \/ SawClosed(cmd[p], v.thread)
  PROVE  EmbedInv'
<1> DEFINE r == cmd[p]
           n == [r EXCEPT !.pc = pc, !.cover = cover]
<1>1. r \in Running /\ CommandInv(r, thread, config, vector) /\ r.job = Embedding
  BY ActiveCommand DEF CommandInv, JobInv, Embeds
<1>2. cmd' = [cmd EXCEPT ![p] = n]
  BY DEF SetCover, Set
<1>3. Searches(r)
  BY <1>1 DEF CommandInv, TargetInv
<1>4. pc \in Steps
  BY DEF Steps
<1>5. /\ \A v \in cover.vectors : v.hash = v.of
      /\ pc # "rows" => \A v \in cover.vectors :
           /\ v.thread = r.opts.number
           /\ r.config \notin Unsupported => v.config = r.config
  BY DEF Number
<1>6. pc # "check" /\ r.alone /\ r.steady /\ r.config \notin Unsupported =>
        \A v \in cover.vectors : v.thread = r.opts.number =>
          Saw(r, v.thread, v.of) \/ Saw(r, v.thread, NoText) \/ SawClosed(r, v.thread)
  BY DEF Number
<1> HIDE DEF r
<1>7. /\ n \in Running /\ n.pc = pc /\ n.cover = cover /\ n.opts = r.opts
      /\ n.config = r.config /\ n.job = r.job /\ n.backfill = r.backfill
      /\ n.alone = r.alone /\ n.steady = r.steady /\ n.seen = r.seen
  BY <1>1, <1>4 DEF Running
<1> HIDE DEF n
<1>8. n.pc \notin Embeds /\ JobInv(n.pc, n.job) /\ AccountInv(n, thread, vector)
  BY <1>1, <1>7 DEF Embeds, JobInv, AccountInv
<1>9. CoverInv(n)
  BY <1>5, <1>7 DEF CoverInv, VectorsSound
<1>10. n.pc \in {"answer", "rows"} => Answerable(n)
  BY <1>6, <1>7 DEF Answerable, Saw, SawClosed
<1>11. TargetInv(n, vector)
  BY <1>3, <1>5, <1>7, <1>8, <1>10 DEF TargetInv, Refreshed, Searches
<1>12. CommandInv(n, thread, config, vector)
  BY <1>1, <1>7, <1>8, <1>9, <1>11 DEF CommandInv
<1>13. /\ thread' = thread /\ config' = config /\ vector' = vector
       /\ ArchiveTyped' /\ Hashed(vector')
  BY ArchiveStays DEF bounds, EmbedInv, ArchiveTyped
<1>14. QED
  BY <1>2, <1>7, <1>12, <1>13, CommandMoves DEF r

LEMMA FindTargetKeeps ==
  ASSUME EmbedInv, NEW p \in Procs, FindTarget(p)
  PROVE  EmbedInv'
<1> DEFINE r == cmd[p]
<1>1. /\ r.pc = "find" /\ r # Idle /\ r \in Running /\ r.pc \notin Embeds
      /\ CommandInv(r, thread, config, vector) /\ UNCHANGED <<archive, bounds>>
  BY ActiveCommand DEF FindTarget, Steps, Embeds
<1>2. CASE TargetVectors(p) = {}
  <2>1. Backfill(p, "missing") \/ End(p)
    BY <1>2 DEF FindTarget
  <2>2. CASE Backfill(p, "missing")
    BY <1>1, <2>2, BackfillKeeps
  <2>3. CASE End(p)
    <3>1. /\ thread' = thread /\ config' = config /\ ArchiveTyped' /\ Hashed(vector')
      BY <1>1, ArchiveStays DEF bounds, EmbedInv, ArchiveTyped
    <3>2. QED
      BY <1>1, <2>3, <3>1, CommandEnds
  <2>4. QED
    BY <2>1, <2>2, <2>3
<1>3. CASE TargetVectors(p) # {}
  <2> DEFINE pc == IF r.backfill = "stale" THEN "answer" ELSE "check"
  <2>1. PICK v \in TargetVectors(p) : SetCover(p, pc, [Clustering EXCEPT !.vectors = {v}])
    BY <1>3 DEF FindTarget
  <2> DEFINE cover == [Clustering EXCEPT !.vectors = {v}]
  <2>2. /\ v \in VectorRow /\ v.hash = v.of /\ v.thread = Number(p)
        /\ v.of = vector[v.config][v.thread].of
        /\ r.config \notin Unsupported => v.config = r.config
    BY <1>1, TargetFound
  <2>3. cover \in Cover /\ cover.vectors = {v} /\ SetCover(p, pc, cover)
    BY <2>1, <2>2 DEF Cover, Clustering
  <2>4. ASSUME pc = "answer", r.alone, r.steady, r.config \notin Unsupported
        PROVE  Saw(r, v.thread, v.of)
    <3>1. r.backfill = "stale" /\ Searches(r) /\ Refreshed(r, vector)
      BY <1>1, <2>4 DEF CommandInv, TargetInv
    <3>2. r.opts.number = v.thread /\ v.thread \in Threads
      BY <2>2 DEF Number, VectorRow
    <3>3. Saw(r, r.opts.number, vector[r.config][r.opts.number].of)
      BY <1>1, <2>4, <3>1, <3>2 DEF Refreshed
    <3>4. QED
      BY <2>2, <2>4, <3>2, <3>3
  <2>5. pc \in {"check", "answer"}
    OBVIOUS
  <2> HIDE DEF cover, pc
  <2>6. QED
    BY <1>1, <2>2, <2>3, <2>4, <2>5, TargetMoves
<1>4. QED
  BY <1>2, <1>3

(* A target that is not stale has the text its thread has, if it has one    *)
(* and is selected at all.                                                  *)
LEMMA CheckTargetKeeps ==
  ASSUME EmbedInv, NEW p \in Procs, CheckTarget(p)
  PROVE  EmbedInv'
<1> DEFINE r == cmd[p]
           cover == r.cover
<1>1. /\ r.pc = "check" /\ r # Idle /\ r \in Running /\ r.pc \notin Embeds
      /\ CommandInv(r, thread, config, vector) /\ UNCHANGED <<archive, bounds>>
  BY ActiveCommand DEF CheckTarget, Steps, Embeds
<1>2. PICK v \in cover.vectors :
        IF Stale(p, v) THEN Backfill(p, "stale") ELSE Goto(p, "answer")
  BY DEF CheckTarget
<1>3. /\ cover \in Cover /\ cover.vectors \subseteq VectorRow
      /\ \A w \in cover.vectors : w.hash = w.of
      /\ \A w \in cover.vectors : w = v
      /\ v.thread = Number(p) /\ (r.config \notin Unsupported => v.config = r.config)
      /\ r.alone => v.of = vector[v.config][v.thread].of
  BY <1>1, RunningFields, CoverFields DEF CommandInv, CoverInv, VectorsSound, TargetInv, Number
<1>4. CASE Stale(p, v)
  BY <1>1, <1>2, <1>4, BackfillKeeps
<1>5. CASE ~Stale(p, v)
  <2>1. SetCover(p, "answer", cover)
    <3>1. Goto(p, "answer")
      BY <1>2, <1>5
    <3>2. [r EXCEPT !.pc = "answer"] = [r EXCEPT !.pc = "answer", !.cover = r.cover]
      <4> HIDE DEF r
      <4>1. QED
        BY <1>1 DEF Running
    <3>3. QED
      BY <3>1, <3>2 DEF Goto, SetCover, Set
  <2>2. ASSUME r.alone, r.config \notin Unsupported
        PROVE  Saw(r, v.thread, v.of) \/ Saw(r, v.thread, NoText) \/ SawClosed(r, v.thread)
    <3>1. /\ v.thread \in Threads /\ v.config \in Configs /\ v.config \notin Unsupported
          /\ thread[v.thread] \in r.seen[v.thread]
      BY <1>1, <1>3, <2>2 DEF CommandInv, VectorRow
    <3>2. CASE v.thread \notin Selected(p)
      <4>1. ~thread[v.thread].open
        BY <1>3, <3>1, <3>2 DEF Selected, Scope
      <4>2. QED
        BY <3>1, <4>1 DEF SawClosed
    <3>3. CASE thread[v.thread].text = NoText
      BY <3>1, <3>3 DEF Saw
    <3>4. CASE vector[v.config][v.thread].hash = thread[v.thread].text
      <4>1. v.of = thread[v.thread].text
        BY <1>3, <2>2, <3>1, <3>4 DEF EmbedInv, Hashed
      <4>2. QED
        BY <3>1, <4>1 DEF Saw
    <3>5. QED
      BY <1>5, <3>1, <3>2, <3>3, <3>4 DEF Stale, NeedsEmbedding, ContentHash
  <2>3. QED
    BY <1>1, <1>3, <2>1, <2>2, TargetMoves
<1>6. QED
  BY <1>4, <1>5

(* No vector but the target's is of its thread.                             *)
LEMMA ReadCandidatesKeeps ==
  ASSUME EmbedInv, NEW p \in Procs, ReadCandidates(p)
  PROVE  EmbedInv'
<1> DEFINE r == cmd[p]
<1>1. /\ r.pc = "answer" /\ r # Idle /\ r \in Running /\ UNCHANGED <<archive, bounds>>
      /\ CommandInv(r, thread, config, vector)
  BY ActiveCommand DEF ReadCandidates, Steps
<1>2. PICK target \in r.cover.vectors :
        SetCover(p, "rows", [Clustering EXCEPT !.vectors = {target} \cup Candidates(p, target)])
  BY DEF ReadCandidates
<1> DEFINE cover == [Clustering EXCEPT !.vectors = {target} \cup Candidates(p, target)]
<1>3. /\ target \in VectorRow /\ target.config \in Configs /\ target.hash = target.of
      /\ target.thread = r.opts.number
  <2>1. r.cover.vectors \subseteq VectorRow
    BY <1>1, RunningFields, CoverFields
  <2>2. target.hash = target.of /\ target.thread = r.opts.number
    BY <1>1 DEF CommandInv, CoverInv, VectorsSound, TargetInv
  <2>3. QED
    BY <2>1, <2>2 DEF VectorRow
<1>4. /\ Candidates(p, target) \subseteq VectorRow
      /\ \A v \in Candidates(p, target) : v.hash = v.of /\ v.thread # target.thread
  BY <1>3, FoundRows DEF Candidates
<1>5. cover \in Cover /\ cover.vectors = {target} \cup Candidates(p, target)
  BY <1>3, <1>4 DEF Cover, Clustering
<1>6. Answerable(r)
  BY <1>1 DEF CommandInv, TargetInv
<1> HIDE DEF cover, r
<1>7. SetCover(p, "rows", cover) /\ \A v \in cover.vectors : v.hash = v.of
  BY <1>2, <1>3, <1>4, <1>5 DEF cover
<1>8. r.alone /\ r.steady /\ r.config \notin Unsupported =>
        \A v \in cover.vectors : v.thread = r.opts.number =>
          Saw(r, v.thread, v.of) \/ Saw(r, v.thread, NoText) \/ SawClosed(r, v.thread)
  BY <1>3, <1>4, <1>5, <1>6 DEF Answerable
<1>9. QED
  BY <1>1, <1>5, <1>7, <1>8, TargetMoves DEF r, Number

LEMMA ReadNeighborsKeeps ==
  ASSUME EmbedInv, NEW p \in Procs, ReadNeighbors(p)
  PROVE  EmbedInv'
<1>1. cmd[p] # Idle /\ End(p)
  BY ActiveCommand DEF ReadNeighbors, Steps
<1>2. /\ thread' = thread /\ config' = config /\ ArchiveTyped' /\ Hashed(vector')
  BY ArchiveStays DEF ReadNeighbors, bounds, EmbedInv, ArchiveTyped
<1>3. QED
  BY <1>1, <1>2, CommandEnds

-----------------------------------------------------------------------------
(* The theorems                                                             *)

LEMMA StepKeeps == EmbedInv /\ [Next]_vars => EmbedInv'
<1> SUFFICES ASSUME EmbedInv, [Next]_vars PROVE EmbedInv'
  OBVIOUS
<1>1. CASE \E t \in Threads : Sync(t)
  BY <1>1, SyncKeeps
<1>2. CASE Configure
  BY <1>2, ConfigureKeeps
<1>3. ASSUME NEW p \in Procs, NEW c \in Commands, Start(p, c) PROVE EmbedInv'
  BY <1>3, StartKeeps
<1>4. ASSUME NEW p \in Procs, Step(p) PROVE EmbedInv'
  <2>1. CASE List(p) \/ ReadVectors(p) \/ CountScope(p) \/ Coverage(p)
    BY <2>1, ListKeeps, ReadVectorsKeeps, CountScopeKeeps, CoverageKeeps
  <2>2. CASE ReadFallback(p) \/ FallbackGroup(p) \/ SaveClusters(p)
    BY <2>2, ReadFallbackKeeps, FallbackGroupKeeps, SaveClustersKeeps
  <2>3. CASE FindTarget(p) \/ CheckTarget(p) \/ ReadCandidates(p) \/ ReadNeighbors(p)
    BY <2>3, FindTargetKeeps, CheckTargetKeeps, ReadCandidatesKeeps, ReadNeighborsKeeps
  <2>4. CASE Answer(p) \/ Retry(p) \/ GiveUp(p) \/ Reject(p)
    BY <2>4, AnswerKeeps, RetryKeeps, GiveUpKeeps, RejectKeeps
  <2>5. CASE StoreVector(p) \/ Record(p)
    BY <2>5, StoreKeeps, RecordKeeps
  <2>6. QED
    BY <1>4, <2>1, <2>2, <2>3, <2>4, <2>5 DEF Step
<1>5. ASSUME NEW p \in Procs, Interrupt(p) \/ Fail(p) PROVE EmbedInv'
  BY <1>5, InterruptKeeps, FailKeeps
<1>6. CASE UNCHANGED vars
  BY <1>6 DEF vars, EmbedInv, ArchiveTyped
<1>7. QED
  BY <1>1, <1>2, <1>3, <1>4, <1>5, <1>6 DEF Next

LEMMA EmbedInvariant == Spec => []EmbedInv
<1>1. Init => EmbedInv
  BY InitSound
<1>2. EmbedInv /\ [Next]_vars => EmbedInv'
  BY StepKeeps
<1>3. QED
  BY <1>1, <1>2, PTL DEF Spec

(* A row is stored or counted as failed, never both and never twice,        *)
(* whatever batches are queued again.                                       *)
LEMMA RowsCountedOnce ==
  ASSUME EmbedInv, NEW p \in Procs, cmd[p] # Idle
  PROVE  cmd[p].job.embedded + Cardinality(cmd[p].job.failed) <= Len(cmd[p].job.tasks)
<1> DEFINE pc == cmd[p].pc
           job == cmd[p].job
<1>1. job \in Job /\ JobInv(pc, job)
  BY ActiveCommand, RunningFields DEF CommandInv
<1> HIDE DEF pc, job
<1>2. /\ job.embedded \in Nat /\ Len(job.tasks) \in Nat /\ Cardinality(job.failed) \in Nat
  BY <1>1, JobFields, EmbeddingAssumption, FS_Subset, FS_CardinalityType
<1>3. CASE pc \in {"request", "store"}
  <2>1. QueueSound(job) /\ BatchSound(job) /\ Accounted(job, Open(job))
    BY <1>1, <1>3 DEF JobInv
  <2>2. Cardinality(Open(job)) \in Nat
    BY <1>1, <2>1, OpenRows, RowsAreFinite DEF Open
  <2>3. QED
    BY <1>2, <2>1, <2>2 DEF Accounted, pc, job
<1>4. CASE pc = "record"
  BY <1>1, <1>2, <1>4, FS_EmptySet DEF JobInv, Accounted, pc, job
<1>5. CASE pc \notin {"request", "store", "record"}
  <2>1. job = Embedding
    BY <1>1, <1>5 DEF JobInv
  <2>2. job.embedded = 0 /\ Cardinality(job.failed) = 0
    BY <2>1, FS_EmptySet DEF Embedding
  <2>3. QED
    BY <1>2, <2>2 DEF job
<1>6. QED
  BY <1>3, <1>4, <1>5

(* The types of embedRepository, clusterRepository and runNeighbors; the    *)
(* counts of an embedding run (stats.Embedded, stats.Failed) never exceed   *)
(* its rows, though failed batches are queued again.                        *)
THEOREM EmbeddingTypes == Spec => []TypeOK
<1>1. EmbedInv => TypeOK
  <2>1. SUFFICES ASSUME EmbedInv PROVE TypeOK
    OBVIOUS
  <2>2. ASSUME NEW p \in Procs, Active(p)
        PROVE  cmd[p].job.embedded + Cardinality(cmd[p].job.failed) <= Len(cmd[p].job.tasks)
    BY <2>1, <2>2, ActiveCommand, RowsCountedOnce
  <2>3. QED
    BY <2>1, <2>2 DEF EmbedInv, ArchiveTyped, TypeOK
<1>2. QED
  BY <1>1, EmbedInvariant, PTL

(* Clusters are made of texts that the threads had while the command ran:   *)
(* evaluateClusterVectorCoverage and freshFallbackClusterVectors drop the   *)
(* vectors of others.                                                       *)
LEMMA ClustersAreCurrent == Spec => []ClustersFromCurrentTexts
<1>1. EmbedInv => ClustersFromCurrentTexts
  <2> SUFFICES ASSUME EmbedInv, NEW p \in Procs, cmd[p].pc = "save",
                      NEW v \in cmd[p].cover.vectors
               PROVE  v.config \in Unsupported \/ SeenText(p, v.thread, v.of)
    BY DEF ClustersFromCurrentTexts
  <2>1. CoverInv(cmd[p])
    BY ActiveCommand DEF CommandInv, Steps
  <2>2. QED
    BY <2>1 DEF CoverInv, VectorsSound, Saw, SeenText
<1>2. QED
  BY <1>1, EmbedInvariant, PTL

(* runNeighbors starts from a target that it embedded anew when its text    *)
(* had changed (neighborEmbeddingNeedsRefresh).  The stored vectors it is   *)
(* ranked against are not checked; by their hash they pass for vectors of   *)
(* their threads' texts only if they are.                                   *)
LEMMA TargetsAreCurrent == Spec => []SearchesFromCurrentTarget
<1>1. EmbedInv => SearchesFromCurrentTarget
  <2> SUFFICES ASSUME EmbedInv, NEW p \in Procs, cmd[p].pc \in {"answer", "rows"},
                      NEW v \in cmd[p].cover.vectors
               PROVE  /\ v.hash = ContentHash(thread[v.thread].text) => v.of = thread[v.thread].text
                      /\ (/\ v.thread = Number(p) /\ cmd[p].config \notin Unsupported
                          /\ cmd[p].alone /\ cmd[p].steady) =>
                           \/ SeenText(p, v.thread, v.of) \/ SeenText(p, v.thread, NoText)
                           \/ \E s \in cmd[p].seen[v.thread] : ~s.open
    BY DEF SearchesFromCurrentTarget
  <2>1. CoverInv(cmd[p]) /\ TargetInv(cmd[p], vector)
    BY ActiveCommand DEF CommandInv, Steps
  <2>2. v.hash = v.of
    BY <2>1 DEF CoverInv, VectorsSound
  <2>3. Answerable(cmd[p])
    BY <2>1 DEF TargetInv
  <2>4. QED
    BY <2>2, <2>3 DEF ContentHash, Answerable, Number, Saw, SawClosed, SeenText
<1>2. QED
  BY <1>1, EmbedInvariant, PTL

(* The members of clusters and the targets of searches are of texts that    *)
(* their threads had while runCluster or runNeighbors ran.                  *)
THEOREM MembersAndTargets == Spec => []MembersAndTargetsAreCurrent
BY ClustersAreCurrent, TargetsAreCurrent, PTL DEF MembersAndTargetsAreCurrent

(* An embedding run that nothing disturbed leaves every selected thread     *)
(* with a vector of its text, or counted as failed: embedRepository loses   *)
(* no row between ListEmbeddingTasks, the batches and their second try.     *)
THEOREM NoRowIsDropped == Spec => []NoRowDroppedSilently
<1>1. EmbedInv => NoRowDroppedSilently
  <2> SUFFICES ASSUME EmbedInv, NEW p \in Procs, cmd[p].pc = "record",
                      ~cmd[p].job.interrupted, Limit(p) = 0, Undisturbed(p),
                      NEW t \in Selected(p)
               PROVE  \/ vector[cmd[p].config][t].of = thread[t].text
                      \/ thread[t].text = NoText
                      \/ t \in cmd[p].job.failed
    BY DEF NoRowDroppedSilently
  <2> DEFINE r == cmd[p]
  <2>1. AccountInv(r, thread, vector) /\ "record" \in Embeds
    BY ActiveCommand DEF CommandInv, Steps, Embeds
  <2>2. /\ RowsCounted(r, r.job, {}, thread, vector)
        /\ AllPicked(r, r.job, thread, vector)
    BY <2>1 DEF AccountInv, Quiet, Undisturbed
  <2>3. ~Searches(r) /\ r.opts.limit = 0
    BY DEF Limit, Searches
  <2>4. t \in Threads /\ Picks(r, t, thread)
    BY DEF Selected, Scope, Number, Picks
  <2>5. \/ thread[t].text = NoText
        \/ vector[r.config][t].of = thread[t].text
        \/ \E i \in 1..Len(r.job.tasks) : r.job.tasks[i].thread = t
    BY <2>2, <2>3, <2>4 DEF AllPicked
  <2>6. ASSUME NEW i \in 1..Len(r.job.tasks), r.job.tasks[i].thread = t
        PROVE  vector[r.config][t].of = thread[t].text \/ t \in r.job.failed
    BY <2>2, <2>6 DEF RowsCounted
  <2>7. QED
    BY <2>5, <2>6
<1>2. QED
  BY <1>1, EmbedInvariant, PTL

(* The only step that drops a thread from the clusters is that of a         *)
(* complete run (clusterRepository with retireMissing), and a complete run  *)
(* that saw every thread open has a vector of every thread.                 *)
LEMMA OpenThreadsStay ==
  ASSUME EmbedInv, NEW p \in Procs, SaveClusters(p), NEW t \in clustered \ clustered'
  PROVE  \E u \in Threads : SawClosed(cmd[p], u)
<1> DEFINE r == cmd[p]
           vectors == r.cover.vectors
<1>1. SUFFICES ASSUME SawAllOpen(r) PROVE FALSE
  BY DEF SawAllOpen
<1>2. r.pc = "save" /\ CoverInv(r)
  BY ActiveCommand DEF SaveClusters, CommandInv, Steps
<1>3. RetireMissing(p) /\ clustered' = {v.thread : v \in LimitedVectors(p)}
  BY DEF SaveClusters
<1>4. LimitedVectors(p) = vectors
  BY <1>3 DEF RetireMissing, LimitedVectors
<1>5. {v.thread : v \in vectors} = Threads
  BY <1>1, <1>2, <1>3 DEF CoverInv, VectorsSound, RetireMissing
<1>6. t \in Threads
  BY DEF EmbedInv, ArchiveTyped
<1>7. QED
  BY <1>3, <1>4, <1>5, <1>6

(* A clustering run retires an open thread only if some thread was closed   *)
(* meanwhile: completeness is decided by counting vectors and threads that  *)
(* were read at different moments (evaluateClusterVectorCoverage).          *)
THEOREM OpenThreadsAreNotRetired == Spec => RetiresOnlyClosedThreads
<1> DEFINE Retires == \A t \in clustered \ clustered' :
             \E p \in Procs, u \in Threads : /\ cmd[p].pc = "save"
                                             /\ \E s \in cmd[p].seen[u] : ~s.open
<1>1. EmbedInv /\ [Next]_vars => [Retires]_vars
  <2>1. SUFFICES ASSUME EmbedInv, Next PROVE Retires
    BY DEF vars
  <2>2. ASSUME NEW p \in Procs, SaveClusters(p) PROVE Retires
    <3>1. cmd[p].pc = "save"
      BY <2>2 DEF SaveClusters
    <3>2. \A t \in clustered \ clustered' : \E u \in Threads : SawClosed(cmd[p], u)
      BY <2>1, <2>2, OpenThreadsStay
    <3>3. QED
      BY <3>1, <3>2 DEF SawClosed
  <2>3. CASE clustered' = clustered
    BY <2>3
  <2>4. \/ clustered' = clustered
        \/ \E p \in Procs : SaveClusters(p)
    BY ZenonT(60), <2>1 DEF Next, Step, Sync, Configure, Start, List, ReadVectors, CountScope, Coverage,
         ReadFallback, FallbackGroup, FindTarget, CheckTarget, ReadCandidates, ReadNeighbors, Answer, Retry,
         GiveUp, Reject, StoreVector, Record, Interrupt, Fail, archive
  <2>5. QED
    BY <2>2, <2>3, <2>4
<1>2. QED
  BY <1>1, EmbedInvariant, PTL DEF Spec, RetiresOnlyClosedThreads

==================================================

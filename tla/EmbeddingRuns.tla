--------------------------- MODULE EmbeddingRuns ---------------------------
(***************************************************************************)
(* The commands that make and use embeddings: "embed" queues the threads    *)
(* whose text changed in batches, sends each batch to the embedding service *)
(* and stores the vectors one by one; "cluster" decides how much of the     *)
(* repository has current vectors before it saves clusters and retires      *)
(* others; "refresh" runs both; "neighbors" embeds one thread when its      *)
(* vector is missing or out of date (internal/cli/app.go,                   *)
(* internal/store/embedding_tasks.go and vectors.go, internal/openai).      *)
(*                                                                         *)
(* Every statement sees the archive as it is at that moment, and syncs and  *)
(* other commands commit in between.  The text of a thread is a number,     *)
(* NoText when the configured basis finds nothing to embed; its content     *)
(* hash tells texts apart.  A configuration is a model and a basis.         *)
(***************************************************************************)
EXTENDS Naturals, SequencesExt, FiniteSets

CONSTANTS
  Threads,      \* thread numbers
  Procs,        \* processes that run commands
  Configs,      \* embedding models and bases
  Unsupported,  \* those whose basis gitcrawl cannot derive, as title_summary
  Commands,     \* the commands given, with their options
  BatchSizes,   \* values of rt.Config.OpenAI.BatchSize
  MaxAttempts,  \* RetryConfig.MaxAttempts
  MaxText,      \* bound on the texts of a thread
  MaxEdits,     \* bound on changes of threads and of the configuration
  MaxRuns,      \* bound on commands
  MaxFaults     \* bound on commands killed or interrupted

ASSUME EmbeddingAssumption ==
  /\ Threads \subseteq Nat \ {0} /\ IsFiniteSet(Threads)
  /\ Unsupported \subseteq Configs
  /\ BatchSizes \subseteq Nat \ {0} /\ MaxAttempts \in Nat \ {0}
  /\ MaxText \in Nat \ {0} /\ MaxEdits \in Nat /\ MaxRuns \in Nat /\ MaxFaults \in Nat

VARIABLES
  thread,    \* text and state of each thread
  config,    \* the configured model and basis
  vector,    \* thread_vectors, by configuration and thread
  updated,   \* which vector of a thread was updated before which, by configuration
  clustered, \* threads in the clusters that are not retired
  cmd,       \* the command of each process
  edits, runs, faults

vars == <<thread, config, vector, updated, clustered, cmd, edits, runs, faults>>
archive == <<thread, config, vector, updated, clustered>>
bounds == <<edits, runs, faults>>

NoText == 0
Texts == 0..MaxText

(* maxBatchAttempts                                                         *)
MaxBatchAttempts == 2

-----------------------------------------------------------------------------
(* The commands *)

(* "stages" are still to run; "closed" is --include-closed, or --state all; *)
(* "number" restricts to a thread, 0 to none.                               *)
Command == [stages : {<<"embed">>, <<"cluster">>, <<"embed", "cluster">>,
                      <<"neighbors">>},
            closed : BOOLEAN, force : BOOLEAN, strict : BOOLEAN,
            limit : Nat, number : Threads \cup {0}]

ASSUME CommandAssumption == Commands \subseteq Command

Batch == [from : Nat, to : Nat, tries : 0..MaxBatchAttempts]

NoBatch == [from |-> 0, to |-> 0, tries |-> 0]

(* What a command keeps between its statements: to embed,                   *)
Embedding == [tasks |-> <<>>, queue |-> <<>>, batch |-> NoBatch, attempt |-> 0,
              embedded |-> 0, failed |-> {}, interrupted |-> FALSE]

(* to cluster or to find neighbors,                                         *)
Clustering == [vectors |-> {}, groups |-> {}, eligible |-> 0, complete |-> FALSE,
               fallback |-> FALSE]

FirstStep == [embed |-> "list", cluster |-> "vectors", neighbors |-> "find"]

(* and for the properties what the threads have been, whether it ran alone  *)
(* and whether the configuration stayed.                                    *)
Work(c, alone) ==
  [pc |-> FirstStep[c.stages[1]], opts |-> c, config |-> config, job |-> Embedding,
   cover |-> Clustering, backfill |-> "none", alone |-> alone, steady |-> TRUE,
   seen |-> [t \in Threads |-> {thread[t]}]]

(* The next stage opens the runtime and reads the configuration again.      *)
Stage(r, c) ==
  [r EXCEPT !.pc = FirstStep[c.stages[1]], !.opts = c, !.config = config,
            !.job = Embedding, !.cover = Clustering]

Idle == [pc |-> "ended"]

Active(p) == cmd[p].pc # "ended"

(* The command moves on.                                                    *)
Set(p, r) == cmd' = [cmd EXCEPT ![p] = r]
Goto(p, pc) == Set(p, [cmd[p] EXCEPT !.pc = pc])
SetCover(p, pc, cover) == Set(p, [cmd[p] EXCEPT !.pc = pc, !.cover = cover])

(* The options of the stage that runs: neighbors embeds its thread alone.   *)
Number(p) == cmd[p].opts.number
Limit(p) == IF cmd[p].opts.stages[1] = "neighbors" THEN 1 ELSE cmd[p].opts.limit

(* threadVectorWhere, CountThreadVectorScope: the threads in scope.         *)
Scope(p) == {t \in Threads : cmd[p].opts.closed \/ thread[t].open}
Selected(p) == {t \in Scope(p) : Number(p) \in {0, t}}

NoVector == [of |-> NoText, hash |-> NoText]
HasVector(c, t) == vector[c][t].hash # NoText

(* The vectors of configuration c that a statement of p finds.              *)
Found(p, c) ==
  {[config |-> c, thread |-> t, of |-> vector[c][t].of, hash |-> vector[c][t].hash] :
     t \in {u \in Scope(p) : HasVector(c, u)}}

(* embeddingContentHash tells the texts of one configuration apart.         *)
ContentHash(text) == text

(* What the threads of a running command have been, for the properties.     *)
Observe(p, t, state) == [cmd[p] EXCEPT !.seen[t] = @ \cup {state}]

-----------------------------------------------------------------------------
(* The world changes: a sync commits, a summary is stored, threads close,   *)
(* the maintainer configures another model.                                 *)
Sync(t) ==
  /\ edits < MaxEdits /\ edits' = edits + 1
  /\ \E state \in {[thread[t] EXCEPT !.open = ~@]}
               \cup {[thread[t] EXCEPT !.text = x] : x \in Texts \ {thread[t].text}} :
       /\ thread' = [thread EXCEPT ![t] = state]
       /\ cmd' = [p \in Procs |-> IF Active(p) THEN Observe(p, t, state) ELSE cmd[p]]
  /\ UNCHANGED <<config, vector, updated, clustered, runs, faults>>

Configure ==
  /\ edits < MaxEdits /\ edits' = edits + 1
  /\ config' \in Configs \ {config}
  /\ cmd' = [p \in Procs |-> IF Active(p) THEN [cmd[p] EXCEPT !.steady = FALSE] ELSE cmd[p]]
  /\ UNCHANGED <<thread, vector, updated, clustered, runs, faults>>

Start(p, c) ==
  /\ ~Active(p)
  /\ runs < MaxRuns /\ runs' = runs + 1
  /\ LET alone == \A q \in Procs : ~Active(q)
     IN cmd' = [q \in Procs |->
          IF q = p THEN Work(c, alone)
          ELSE IF Active(q) THEN [cmd[q] EXCEPT !.alone = FALSE] ELSE cmd[q]]
  /\ UNCHANGED <<archive, edits, faults>>

End(p) == cmd' = [cmd EXCEPT ![p] = Idle]

(* The stage succeeded; the next one runs, or the command ends.  The limit  *)
(* of refresh is one of its embedding stage.                                *)
StageDone(p) ==
  LET rest == Tail(cmd[p].opts.stages)
  IN IF rest = <<>> THEN End(p)
     ELSE Set(p, Stage(cmd[p], [cmd[p].opts EXCEPT !.stages = rest, !.limit = 0]))

-----------------------------------------------------------------------------
(* embed: embedRepository *)

(* ListEmbeddingTasks: the first threads in the order of their activity,    *)
(* which may be any, and of these the ones with a text that is not embedded *)
(* yet.                                                                     *)
NeedsEmbedding(p, c, t) ==
  /\ thread[t].text # NoText
  /\ cmd[p].opts.force \/ vector[c][t].hash # ContentHash(thread[t].text)

Limited(limit, threads) ==
  IF limit = 0 \/ Cardinality(threads) <= limit THEN {threads}
  ELSE {s \in SUBSET threads : Cardinality(s) = limit}

EmbeddingTasks(p, c) ==
  {[i \in DOMAIN order |-> [thread |-> order[i], text |-> thread[order[i]].text]] :
     order \in UNION {SetToSeqs({t \in first : NeedsEmbedding(p, c, t)}) :
                        first \in Limited(Limit(p), Selected(p))}}

(* n tasks in batches of a size.                                            *)
Queue(n, size) ==
  [i \in 1 .. (n + size - 1) \div size |->
     [from |-> (i - 1) * size + 1,
      to |-> IF i * size < n THEN i * size ELSE n, tries |-> 0]]

(* The loop takes the next batch of the queue, or ends with the record.     *)
NextJob(job) ==
  IF job.queue = <<>> THEN [job EXCEPT !.batch = NoBatch, !.attempt = 0]
  ELSE [job EXCEPT !.queue = Tail(@), !.attempt = 0,
                   !.batch = [Head(job.queue) EXCEPT !.tries = @ + 1]]

NextBatch(p, job) ==
  Set(p, [cmd[p] EXCEPT !.pc = IF job.queue = <<>> THEN "record" ELSE "request",
                        !.job = NextJob(job)])

List(p) ==
  /\ cmd[p].pc = "list"
  /\ IF cmd[p].config \in Unsupported THEN End(p)
     ELSE \E tasks \in EmbeddingTasks(p, cmd[p].config), size \in BatchSizes :
            NextBatch(p, [Embedding EXCEPT !.tasks = tasks, !.queue = Queue(Len(tasks), size)])
  /\ UNCHANGED <<archive, bounds>>

(* Client.Embed: the service answers with the vectors,                      *)
Answer(p) ==
  /\ cmd[p].pc = "request"
  /\ Set(p, [cmd[p] EXCEPT !.pc = "store", !.job.attempt = 0])
  /\ UNCHANGED <<archive, bounds>>

(* or with an error worth another attempt, after a pause;                   *)
Retry(p) ==
  /\ cmd[p].pc = "request"
  /\ cmd[p].job.attempt + 1 < MaxAttempts
  /\ Set(p, [cmd[p] EXCEPT !.job.attempt = @ + 1])
  /\ UNCHANGED <<archive, bounds>>

BatchThreads(job) == {job.tasks[i].thread : i \in job.batch.from .. job.batch.to}

(* Mutant: rows of a failed batch are not counted.                          *)
DropBatch(job) == job

FailBatch(job) == [job EXCEPT !.failed = @ \cup BatchThreads(job)]

(* Mutant: a failed batch is queued again every time.                       *)
AlwaysRequeue(job) == TRUE

(* A batch is queued again, at the end, unless it was before.               *)
MayRequeue(job) == job.batch.tries < MaxBatchAttempts
Requeue(job) == [job EXCEPT !.queue = Append(@, job.batch)]

(* when the attempts, or the time for them, are spent the call fails and    *)
(* its batch is queued again once;                                          *)
GiveUp(p) ==
  /\ cmd[p].pc = "request"
  /\ LET job == cmd[p].job
     IN NextBatch(p, IF MayRequeue(job) THEN Requeue(job) ELSE FailBatch(job))
  /\ UNCHANGED <<archive, bounds>>

(* an error that is not worth it fails the batch.                           *)
Reject(p) ==
  /\ cmd[p].pc = "request"
  /\ NextBatch(p, FailBatch(cmd[p].job))
  /\ UNCHANGED <<archive, bounds>>

(* A call that the user cancels, or that outlasts the timeout of the HTTP   *)
(* client, ends the loop; the run is still recorded.                        *)
Interrupt(p) ==
  /\ cmd[p].pc = "request"
  /\ faults < MaxFaults /\ faults' = faults + 1
  /\ LET job == cmd[p].job
     IN NextBatch(p, [job EXCEPT !.interrupted = TRUE, !.queue = <<>>])
  /\ UNCHANGED <<archive, edits, runs>>

(* Mutant: the vector is stored with the hash of the thread as it is now.    *)
CurrentHash(p, task) == ContentHash(thread[task.thread].text)

(* UpsertThreadVector, of the next vector of the batch.                     *)
StoredHash(p, task) == ContentHash(task.text)

(* The vector of a thread for configuration c is now the last updated.      *)
Touched(before, c) ==
  {e \in before : e[1] # c} \cup ((Configs \ {c}) \X {c})

StoreVector(p) ==
  /\ cmd[p].pc = "store"
  /\ LET stored == [cmd[p].job EXCEPT !.embedded = @ + 1]
         batch == stored.batch
         task == stored.tasks[batch.from]
         c == cmd[p].config
     IN /\ vector' = [vector EXCEPT ![c][task.thread] =
              [of |-> task.text, hash |-> StoredHash(p, task)]]
        /\ updated' = [updated EXCEPT ![task.thread] = Touched(@, c)]
        /\ IF batch.from < batch.to
           THEN Set(p, [cmd[p] EXCEPT !.job = [stored EXCEPT !.batch.from = @ + 1]])
           ELSE NextBatch(p, stored)
  /\ UNCHANGED <<thread, config, clustered, bounds>>

RunStatus(job) ==
  IF job.interrupted THEN "cancelled"
  ELSE IF job.failed = {} THEN "success"
  ELSE IF job.embedded = 0 THEN "error" ELSE "partial"

(* The run is recorded.  A search for neighbors goes on in the runtime it   *)
(* opens anew, if it has embedded its thread.                               *)
Record(p) ==
  /\ cmd[p].pc = "record"
  /\ IF RunStatus(cmd[p].job) \in {"cancelled", "error"} THEN End(p)
     ELSE IF cmd[p].opts.stages[1] # "neighbors" THEN StageDone(p)
     ELSE IF cmd[p].job.embedded = 0 THEN End(p)
     ELSE Set(p, [cmd[p] EXCEPT !.pc = "find", !.config = config, !.job = Embedding])
  /\ UNCHANGED <<archive, bounds>>

-----------------------------------------------------------------------------
(* cluster: runCluster and the last stage of runRefresh *)

ReadVectors(p) ==
  /\ cmd[p].pc = "vectors"
  /\ SetCover(p, "count", [Clustering EXCEPT !.vectors = Found(p, cmd[p].config)])
  /\ UNCHANGED <<archive, bounds>>

(* evaluateClusterVectorCoverage: how many threads there are ...            *)
CountScope(p) ==
  /\ cmd[p].pc = "count"
  /\ SetCover(p, "coverage", [cmd[p].cover EXCEPT !.eligible = Cardinality(Scope(p))])
  /\ UNCHANGED <<archive, bounds>>

(* ... and what each of them would be embedded as.                          *)
WithText(p) == {t \in Scope(p) : thread[t].text # NoText}

Fresh(p, vectors) ==
  {v \in vectors : \/ v.config \in Unsupported
                   \/ v.thread \in WithText(p) /\ v.hash = ContentHash(thread[v.thread].text)}

(* Mutant: coverage is complete as soon as every vector is fresh.           *)
AllFresh(p, vectors, fresh) == cmd[p].config \notin Unsupported /\ fresh = vectors

(* Complete is decided by counting.                                         *)
CoverageComplete(p, vectors, fresh) ==
  LET eligible == cmd[p].cover.eligible
  IN /\ cmd[p].config \notin Unsupported
     /\ Cardinality(fresh) = eligible
     /\ eligible <= Cardinality(vectors)
     /\ eligible <= Cardinality(WithText(p))
     /\ fresh = vectors

(* requireCompleteClusterVectorCoverage                                     *)
StrictlyCovered(p, fresh, complete) ==
  /\ cmd[p].config \notin Unsupported
  /\ \/ cmd[p].cover.eligible = 0
     \/ fresh # {} /\ (complete \/ Limit(p) > 0)

Coverage(p) ==
  /\ cmd[p].pc = "coverage"
  /\ LET vectors == cmd[p].cover.vectors
         fresh == Fresh(p, vectors)
         complete == CoverageComplete(p, vectors, fresh)
         strict == cmd[p].opts.strict
     IN IF strict /\ ~StrictlyCovered(p, fresh, complete)
        THEN End(p)
        ELSE SetCover(p, IF fresh = {} /\ ~strict THEN "fallback" ELSE "save",
                      [Clustering EXCEPT !.vectors = fresh, !.complete = complete])
  /\ UNCHANGED <<archive, bounds>>

(* Without one current vector, the current ones of any configuration.       *)
ReadFallback(p) ==
  /\ cmd[p].pc = "fallback"
  /\ LET found == UNION {Found(p, c) : c \in Configs}
     IN SetCover(p, IF found = {} THEN "save" ELSE "group",
                 [cmd[p].cover EXCEPT !.vectors = found, !.fallback = found # {},
                                      !.groups = {v.config : v \in found} \ Unsupported])
  /\ UNCHANGED <<archive, bounds>>

(* dedupeThreadVectorsByThread: the vector updated last.                    *)
Preferred(vectors) ==
  {v \in vectors : \A w \in vectors :
     w.thread = v.thread => <<v.config, w.config>> \notin updated[v.thread]}

(* freshFallbackClusterVectors, of one configuration after the other.       *)
FallbackGroup(p) ==
  /\ cmd[p].pc = "group"
  /\ LET cover == cmd[p].cover
     IN IF cover.groups = {}
        THEN SetCover(p, "save", [cover EXCEPT !.vectors = Preferred(@)])
        ELSE \E c \in cover.groups :
               LET group == {v \in cover.vectors : v.config = c}
               IN SetCover(p, "group", [cover EXCEPT !.groups = @ \ {c},
                              !.vectors = (@ \ group) \cup Fresh(p, group)])
  /\ UNCHANGED <<archive, bounds>>

(* The first vectors by thread.                                             *)
LimitedVectors(p) ==
  LET vectors == cmd[p].cover.vectors
  IN {v \in vectors : \/ Limit(p) = 0
        \/ Cardinality({w \in vectors : w.thread <= v.thread}) <= Limit(p)}

(* clusterRepository: the threads of the vectors are clustered; a complete  *)
(* run retires the clusters of all others.                                  *)
RetireMissing(p) ==
  /\ cmd[p].cover.complete /\ ~cmd[p].cover.fallback
  /\ Limit(p) = 0 /\ ~cmd[p].opts.closed

SaveClusters(p) ==
  /\ cmd[p].pc = "save"
  /\ LET members == {v.thread : v \in LimitedVectors(p)}
     IN clustered' = IF RetireMissing(p) THEN members ELSE clustered \cup members
  /\ StageDone(p)
  /\ UNCHANGED <<thread, config, vector, updated, bounds>>

-----------------------------------------------------------------------------
(* neighbors: runNeighbors *)

(* configuredNeighborTargetVector; fallbackNeighborTargetVector, of any     *)
(* configuration, when the configured basis is not supported.               *)
TargetVectors(p) ==
  LET of(c) == {v \in Found(p, c) : v.thread = Number(p)}
  IN IF of(cmd[p].config) = {} /\ cmd[p].config \in Unsupported /\ cmd[p].backfill = "none"
     THEN UNION {of(c) : c \in Configs} ELSE of(cmd[p].config)

(* backfillNeighborEmbedding                                                *)
Backfill(p, reason) ==
  Set(p, [cmd[p] EXCEPT !.pc = "list", !.config = config, !.backfill = reason,
                        !.cover = Clustering])

(* A missing vector is made, once; one that was made again is not checked.  *)
FindTarget(p) ==
  /\ cmd[p].pc = "find"
  /\ IF TargetVectors(p) = {}
     THEN IF cmd[p].backfill = "none" /\ cmd[p].config \notin Unsupported
          THEN Backfill(p, "missing")
          ELSE End(p)
     ELSE \E v \in TargetVectors(p) :
            SetCover(p, IF cmd[p].backfill = "stale" THEN "answer" ELSE "check",
                     [Clustering EXCEPT !.vectors = {v}])
  /\ UNCHANGED <<archive, bounds>>

(* Mutant: a target that has a vector is taken for embedded.                *)
NeverStale(p, v) == FALSE

(* neighborEmbeddingNeedsRefresh                                            *)
Stale(p, v) ==
  /\ v.config \notin Unsupported
  /\ v.thread \in Selected(p) /\ NeedsEmbedding(p, v.config, v.thread)

CheckTarget(p) ==
  /\ cmd[p].pc = "check"
  /\ \E v \in cmd[p].cover.vectors :
       IF Stale(p, v) THEN Backfill(p, "stale") ELSE Goto(p, "answer")
  /\ UNCHANGED <<archive, bounds>>

(* ListThreadVectorsFiltered: what the target is ranked against is every    *)
(* vector of its model and basis that is stored now, of whatever text.      *)
Candidates(p, target) == {v \in Found(p, target.config) : v.thread # target.thread}

ReadCandidates(p) ==
  /\ cmd[p].pc = "answer"
  /\ \E target \in cmd[p].cover.vectors :
       SetCover(p, "rows", [Clustering EXCEPT !.vectors = {target} \cup Candidates(p, target)])
  /\ UNCHANGED <<archive, bounds>>

(* ThreadsByIDs: the rows of those that rank highest are the answer.        *)
ReadNeighbors(p) ==
  /\ cmd[p].pc = "rows"
  /\ End(p)
  /\ UNCHANGED <<archive, bounds>>

-----------------------------------------------------------------------------
(* A command is killed or cancelled, a statement fails, or a key is missing. *)
Fail(p) ==
  /\ Active(p)
  /\ faults < MaxFaults /\ faults' = faults + 1
  /\ End(p)
  /\ UNCHANGED <<archive, edits, runs>>

(* A new archive, or one that was embedded and clustered.                   *)
Init ==
  /\ thread = [t \in Threads |-> [text |-> 1, open |-> TRUE]]
  /\ config \in Configs \ Unsupported
  /\ \E done \in {{}, Threads} :
       /\ vector = [c \in Configs |-> [t \in Threads |->
                      IF c = config /\ t \in done
                      THEN [of |-> 1, hash |-> ContentHash(1)] ELSE NoVector]]
       /\ updated = [t \in Threads |-> IF t \in done THEN Touched({}, config) ELSE {}]
       /\ clustered = done
  /\ cmd = [p \in Procs |-> Idle]
  /\ edits = 0 /\ runs = 0 /\ faults = 0

Step(p) ==
  \/ List(p) \/ ReadVectors(p) \/ CountScope(p) \/ Coverage(p)
  \/ ReadFallback(p) \/ FallbackGroup(p) \/ SaveClusters(p)
  \/ FindTarget(p) \/ CheckTarget(p) \/ ReadCandidates(p) \/ ReadNeighbors(p)
  \/ Answer(p) \/ Retry(p) \/ GiveUp(p) \/ Reject(p)
  \/ StoreVector(p) \/ Record(p)

Next ==
  \/ \E t \in Threads : Sync(t)
  \/ Configure
  \/ \E p \in Procs : \/ \E c \in Commands : Start(p, c)
                      \/ Step(p) \/ Interrupt(p) \/ Fail(p)

Spec == Init /\ [][Next]_vars

-----------------------------------------------------------------------------
(* Properties *)

Steps == {"list", "request", "store", "record", "vectors", "count",
          "coverage", "fallback", "group", "save", "find", "check", "answer", "rows"}

Vector == [of : Texts, hash : Texts]

(* A vector as a statement finds it.                                        *)
VectorRow == [config : Configs, thread : Threads, of : Texts, hash : Texts]

State == [text : Texts, open : BOOLEAN]

Job == [tasks : Seq([thread : Threads, text : Texts \ {NoText}]), queue : Seq(Batch),
        batch : Batch, attempt : 0 .. MaxAttempts - 1, embedded : Nat,
        failed : SUBSET Threads, interrupted : BOOLEAN]

Cover == [vectors : SUBSET VectorRow, groups : SUBSET Configs, eligible : Nat,
          complete : BOOLEAN, fallback : BOOLEAN]

Running == [pc : Steps, opts : Command, config : Configs, job : Job, cover : Cover,
            backfill : {"none", "missing", "stale"}, alone : BOOLEAN, steady : BOOLEAN,
            seen : [Threads -> SUBSET State]]

TypeOK ==
  /\ thread \in [Threads -> State]
  /\ config \in Configs
  /\ vector \in [Configs -> [Threads -> Vector]]
  /\ updated \in [Threads -> SUBSET (Configs \X Configs)]
  /\ clustered \subseteq Threads
  /\ edits \in 0..MaxEdits /\ runs \in 0..MaxRuns /\ faults \in 0..MaxFaults
  /\ cmd \in [Procs -> Running \cup {Idle}]
  /\ \A p \in Procs : Active(p) =>
       cmd[p].job.embedded + Cardinality(cmd[p].job.failed) <= Len(cmd[p].job.tasks)

(* A text of the thread since the command was started.                      *)
SeenText(p, t, text) == \E s \in cmd[p].seen[t] : s.text = text
Undisturbed(p) == cmd[p].alone /\ \A t \in Threads : Cardinality(cmd[p].seen[t]) = 1

(* Clusters are made of vectors of texts the threads had while the command  *)
(* ran, whatever else stored vectors meanwhile (unsupported ones excepted). *)
ClustersFromCurrentTexts ==
  \A p \in Procs : cmd[p].pc = "save" =>
    \A v \in cmd[p].cover.vectors :
      v.config \in Unsupported \/ SeenText(p, v.thread, v.of)

(* A search for neighbors starts from a vector of a text its thread had     *)
(* while the search ran, when no other command ran and the configuration    *)
(* stayed, unless the thread was closed or without a text meanwhile and so  *)
(* not embedded again.  It ranks this target against vectors that may be of *)
(* old texts; but none of them, whichever commands stored it and when,      *)
(* carries the hash of its thread's text without being of it, so that embed *)
(* finds and replaces the old ones.                                         *)
SearchesFromCurrentTarget ==
  \A p \in Procs : cmd[p].pc \in {"answer", "rows"} =>
    \A v \in cmd[p].cover.vectors :
      /\ v.hash = ContentHash(thread[v.thread].text) => v.of = thread[v.thread].text
      /\ (/\ v.thread = Number(p) /\ cmd[p].config \notin Unsupported
          /\ cmd[p].alone /\ cmd[p].steady) =>
           \/ SeenText(p, v.thread, v.of) \/ SeenText(p, v.thread, NoText)
           \/ \E s \in cmd[p].seen[v.thread] : ~s.open

(* What becomes the members of clusters, and what a search starts from, is  *)
(* of texts their threads had while the command ran, as the two parts say;  *)
(* nothing is promised of the age of what a search is ranked against.       *)
MembersAndTargetsAreCurrent ==
  ClustersFromCurrentTexts /\ SearchesFromCurrentTarget

(* A clustering run drops an open thread from the clusters, because its     *)
(* vector is missing or stale, only if the open threads changed meanwhile.  *)
RetiresOnlyClosedThreads ==
  [][\A t \in clustered \ clustered' :
       \E p \in Procs, u \in Threads : /\ cmd[p].pc = "save"
                                       /\ \E s \in cmd[p].seen[u] : ~s.open]_vars

(* An embedding run that comes to its record, undisturbed and without a     *)
(* limit, leaves every thread with a current vector or counts it as failed. *)
NoRowDroppedSilently ==
  \A p \in Procs :
    (/\ cmd[p].pc = "record" /\ ~cmd[p].job.interrupted
     /\ Limit(p) = 0 /\ Undisturbed(p))
    => /\ \A t \in Selected(p) :
            \/ vector[cmd[p].config][t].of = thread[t].text
            \/ thread[t].text = NoText
            \/ t \in cmd[p].job.failed

=============================================================================

-------------------------- MODULE TestRunnerProofs --------------------------
(***************************************************************************)
(* Theorems about TestRunner: its safety invariants hold, and it           *)
(* implements TestReport, for any number of jobs and workers, whichever    *)
(* jobs are examples or skipped, and whether or not a worker may die.      *)
(*                                                                         *)
(* The inductive invariant says where a job can be (at one place, and only *)
(* after it was dispatched), that the break jobs are the end of the input  *)
(* queue and as many as there are workers still to be ended, what a job    *)
(* knows of its process at each place, and that the counters of the main   *)
(* thread are the sizes of sets of jobs.                                   *)
(***************************************************************************)
EXTENDS TestRunner, SequenceTheorems, FiniteSetTheorems, TLAPS

Ended == {t \in Workers : worker[t].pc = "ended"}

Collected == {j \in Jobs : ~Pending(j)}

\* The jobs that are counted as passed or skipped.
Good == {j \in Collected : ~job[j].isBreak /\ Status(j) \in {"PASS", "SKIP"}}

\* What a worker holds goes with where it is.
WorkerInv ==
  \A t \in Workers :
    /\ worker[t].pc \in {"check", "run", "died"} => worker[t].job \in Jobs
    /\ worker[t].pc \in {"get", "ended"} => worker[t].job = NoJob
    /\ worker[t].pc \in {"run", "died"} => worker[t].job \notin Skipped

\* A job is nowhere before it is dispatched.
DispatchedInv ==
  /\ \A j \in InQueue(input) \cup InQueue(output) : j <= main.dispatched
  /\ \A t \in Workers : \A j \in Held(t) : j <= main.dispatched

PlaceInv == JobAtOnePlace /\ DispatchedInv

\* The break jobs are the last of the input queue, one for each worker that
\* was to be ended and is not; once a worker is ended there is nothing else.
BreakInv ==
  LET n == main.breaks - Cardinality(Ended) IN
  /\ n \in 0..Len(input)
  /\ \A i \in 1..Len(input) : input[i] = Break <=> i > Len(input) - n
  /\ Ended # {} => Len(input) = n
  /\ main.breaks > 0 => main.dispatched = NumJobs

\* What a job knows of its process.
ProcessInv ==
  \A j \in Jobs :
    /\ job[j].exit = "none" => job[j].returncode = "0" /\ job[j].file = "none"
    /\ job[j].exit # "none" =>
         /\ j \notin Skipped
         /\ job[j].returncode \in {job[j].exit, "1"}
         /\ job[j].file \in IF j \in Examples THEN {"none"} ELSE FilesOf(job[j].exit)

\* A job has run once it is behind the workers, unless it was skipped or
\* broken off, and not before.
Waiting(j) == j \in InQueue(input) \/ \E t \in Workers : j \in Held(t)

RunInv ==
  \A j \in Jobs :
    /\ j > main.dispatched \/ Waiting(j) => job[j].exit = "none" /\ ~job[j].isBreak
    /\ j <= main.dispatched /\ ~Waiting(j) =>
         job[j].isBreak \/ j \in Skipped \/ job[j].exit # "none"

\* Where the main thread is.
MainInv ==
  /\ main.pc # "dispatch" =>
       main.dispatched = NumJobs /\ main.breaks = Cardinality(Workers)
  /\ main.pc \in {"join", "returned"} => main.collected = NumJobs
  /\ \A t \in main.joined : worker[t].pc \in {"ended", "died"}
  /\ main.pc = "returned" => main.joined = Workers
  /\ main.exit = IF main.pc = "returned" THEN ExitCode(main.count) ELSE "none"

\* The counters are sizes of sets of jobs.
CountInv ==
  /\ Cardinality(Collected) = main.collected
  /\ Cardinality(Good) = main.count["PASS"] + main.count["SKIP"]
  /\ \A s \in Statuses : main.count[s] <= main.collected

\* The results file holds the entries of the jobs that were collected and not
\* broken off.
ResultInv ==
  /\ \A r \in main.results :
       r[1] \in Collected /\ ~job[r[1]].isBreak /\ r = <<r[1], Entry(r[1])>>
  /\ main.pc # "raised" =>
       \A j \in Collected : ~job[j].isBreak => <<j, Entry(j)>> \in main.results

IInv ==
  /\ TypeOK /\ WorkerInv /\ PlaceInv /\ BreakInv /\ ProcessInv /\ RunInv
  /\ MainInv /\ CountInv /\ ResultInv

-----------------------------------------------------------------------------
(* Queues *)

Entries == Jobs \cup {Break}

OnceIn(q) == \A a, b \in DOMAIN q : q[a] = q[b] /\ q[a] # Break => a = b

\* The special jobs are not jobs, and there are finitely many jobs.
LEMMA Constants ==
  /\ NumJobs \in Nat /\ Jobs \subseteq Nat /\ Break \notin Jobs /\ NoJob \notin Jobs
  /\ IsFiniteSet(Jobs) /\ Cardinality(Jobs) = NumJobs
  /\ IsFiniteSet(Workers) /\ Cardinality(Workers) \in Nat
<1>1. NumJobs \in Nat /\ IsFiniteSet(Workers)
  BY RunnerAssumption
<1>2. IsFiniteSet(1..NumJobs) /\ Cardinality(1..NumJobs) = NumJobs
  BY <1>1, FS_Interval
<1>3. Cardinality(Workers) \in Nat
  BY <1>1, FS_CardinalityType
<1> QED
  BY <1>1, <1>2, <1>3 DEF Jobs, Break, NoJob

\* Appending an entry that is not in the queue adds it, if it is a job.
LEMMA QueueAppend ==
  ASSUME NEW q \in Seq(Entries), NEW e \in Entries, OnceIn(q), e \notin InQueue(q)
  PROVE  /\ Append(q, e) \in Seq(Entries)
         /\ OnceIn(Append(q, e))
         /\ InQueue(Append(q, e)) = InQueue(q) \cup ({e} \cap Jobs)
<1>1. /\ Append(q, e) \in Seq(Entries) /\ Len(q) \in Nat
      /\ DOMAIN q = 1..Len(q) /\ DOMAIN Append(q, e) = 1..(Len(q) + 1)
      /\ \A i \in 1..Len(q) : Append(q, e)[i] = q[i] /\ q[i] \in Entries
      /\ Append(q, e)[Len(q) + 1] = e
  BY AppendProperties, LenProperties, ElementOfSeq
<1>2. InQueue(Append(q, e)) = InQueue(q) \cup ({e} \cap Jobs)
  BY <1>1 DEF InQueue
<1>3. \A i \in 1..Len(q) : q[i] = e => e = Break
  BY <1>1 DEF InQueue, Entries
<1>4. OnceIn(Append(q, e))
  BY <1>1, <1>3 DEF OnceIn
<1> QED
  BY <1>1, <1>2, <1>4

\* Taking the first entry removes it, if it is a job.
LEMMA QueueTail ==
  ASSUME NEW q \in Seq(Entries), q # << >>, OnceIn(q)
  PROVE  /\ Tail(q) \in Seq(Entries)
         /\ OnceIn(Tail(q))
         /\ InQueue(Tail(q)) = InQueue(q) \ {Head(q)}
         /\ Head(q) \in Entries
         /\ Head(q) \in Jobs => Head(q) \in InQueue(q)
<1>1. /\ Tail(q) \in Seq(Entries) /\ Len(q) \in Nat /\ Len(q) > 0
      /\ DOMAIN q = 1..Len(q) /\ DOMAIN Tail(q) = 1..(Len(q) - 1)
      /\ \A i \in 1..(Len(q) - 1) : Tail(q)[i] = q[i + 1]
      /\ Head(q) = q[1] /\ Head(q) \in Entries
  BY HeadTailProperties, LenProperties, EmptySeq
<1>2. \A i \in 1..(Len(q) - 1) : i \in DOMAIN q /\ i + 1 \in DOMAIN q
  BY <1>1
<1>3. \A i \in DOMAIN q : i = 1 \/ (i - 1 \in 1..(Len(q) - 1) /\ (i - 1) + 1 = i)
  BY <1>1
<1>4. OnceIn(Tail(q))
  <2> SUFFICES ASSUME NEW a \in 1..(Len(q) - 1), NEW b \in 1..(Len(q) - 1),
                      q[a + 1] = q[b + 1], q[a + 1] # Break
               PROVE  a = b
    BY <1>1 DEF OnceIn
  <2>1. a + 1 = b + 1
    BY <1>2 DEF OnceIn
  <2> QED
    BY <1>1, <2>1
<1>5. InQueue(Tail(q)) \subseteq InQueue(q) \ {Head(q)}
  <2> SUFFICES ASSUME NEW i \in 1..(Len(q) - 1), q[i + 1] \in Jobs
               PROVE  q[i + 1] \in InQueue(q) /\ q[i + 1] # q[1]
    BY <1>1 DEF InQueue
  <2>1. q[i + 1] \in InQueue(q)
    BY <1>2 DEF InQueue
  <2>2. q[i + 1] # Break
    BY Constants
  <2>3. 1 \in DOMAIN q /\ i + 1 \in DOMAIN q /\ i + 1 # 1
    BY <1>1
  <2> QED
    BY <2>1, <2>2, <2>3 DEF OnceIn
<1>6. InQueue(q) \ {Head(q)} \subseteq InQueue(Tail(q))
  <2> SUFFICES ASSUME NEW i \in DOMAIN q, q[i] \in Jobs, q[i] # q[1]
               PROVE  q[i] \in InQueue(Tail(q))
    BY <1>1 DEF InQueue
  <2>1. i - 1 \in DOMAIN Tail(q) /\ Tail(q)[i - 1] = q[i]
    BY <1>1, <1>3
  <2> QED
    BY <2>1 DEF InQueue
<1>7. Head(q) \in Jobs => Head(q) \in InQueue(q)
  BY <1>1 DEF InQueue
<1> QED
  BY <1>1, <1>4, <1>5, <1>6, <1>7

-----------------------------------------------------------------------------
(* A step moves at most one job, from one place to the next. *)

SameHeld(t) == \A u \in Workers \ {t} : Held(u)' = Held(u)

\* No job moves.
Stays ==
  /\ InQueue(input') = InQueue(input) /\ InQueue(output') = InQueue(output)
  /\ \A u \in Workers : Held(u)' = Held(u)
  /\ main'.dispatched = main.dispatched
  /\ job' = job

\* Main puts the next job into the input queue.
Put(j) ==
  /\ j = main.dispatched + 1 /\ main'.dispatched = j
  /\ InQueue(input') = InQueue(input) \cup {j} /\ InQueue(output') = InQueue(output)
  /\ \A u \in Workers : Held(u)' = Held(u)
  /\ job' = job

\* Worker t takes it.
Taken(t, j) ==
  /\ j \in InQueue(input)
  /\ InQueue(input') = InQueue(input) \ {j} /\ InQueue(output') = InQueue(output)
  /\ Held(t) = {} /\ Held(t)' = {j} /\ SameHeld(t)
  /\ main'.dispatched = main.dispatched
  /\ job' = job

\* Worker t puts it into the output queue.
Back(t, j) ==
  /\ InQueue(input') = InQueue(input) /\ InQueue(output') = InQueue(output) \cup {j}
  /\ Held(t) = {j} /\ Held(t)' = {} /\ SameHeld(t)
  /\ main'.dispatched = main.dispatched
  /\ \A k \in Jobs \ {j} : job'[k] = job[k]

\* Main takes it from the output queue.
Out(j) ==
  /\ j \in InQueue(output)
  /\ InQueue(input') = InQueue(input) /\ InQueue(output') = InQueue(output) \ {j}
  /\ \A u \in Workers : Held(u)' = Held(u)
  /\ main'.dispatched = main.dispatched
  /\ job' = job

Queues == OnceIn(input) /\ OnceIn(output)

\* What the move lemmas start from.
PlacesKnown == TypeOK /\ WorkerInv /\ Queues

\* The invariant gives what the move lemmas start from.
LEMMA PlacesAreKnown == IInv => PlacesKnown
  BY DEF IInv, PlaceInv, JobAtOnePlace, PlacesKnown, Queues, OnceIn

\* The queues' types as the queue lemmas want them.
LEMMA QueueTypes ==
  ASSUME TypeOK
  PROVE  input \in Seq(Entries) /\ output \in Seq(Entries) /\ output \in Seq(Jobs)
<1>1. input \in Seq(Entries) /\ output \in Seq(Jobs)
  BY DEF TypeOK, Entries
<1>2. output \in Seq(Entries)
  <2>1. Len(output) \in Nat /\ output \in [1..Len(output) -> Jobs]
    BY <1>1, LenProperties, ElementOfSeq
  <2>2. output \in [1..Len(output) -> Entries]
    BY <2>1 DEF Entries
  <2> QED
    BY <2>1, <2>2, SeqDef
<1> QED
  BY <1>1, <1>2

\* GetJob moves the first job of the input queue to the worker.
LEMMA GetJobMoves ==
  ASSUME PlacesKnown, NEW t \in Workers, GetJob(t)
  PROVE  Head(input) \in Jobs /\ Taken(t, Head(input)) /\ Queues'
<1>1. /\ InQueue(Tail(input)) = InQueue(input) \ {Head(input)}
      /\ OnceIn(Tail(input))
      /\ Head(input) \in Entries
      /\ Head(input) \in Jobs => Head(input) \in InQueue(input)
  BY QueueTypes, QueueTail DEF PlacesKnown, Queues, GetJob
<1>2. Head(input) \in Jobs
  BY <1>1 DEF GetJob, Entries
<1>3. worker \in [Workers -> [pc : {"get", "check", "run", "ended", "died"},
                              job : Jobs \cup {NoJob}]]
  BY DEF PlacesKnown, TypeOK
<1>4. /\ worker'[t].job = Head(input)
      /\ \A u \in Workers \ {t} : worker'[u] = worker[u]
      /\ worker[t].job = NoJob
  BY <1>3 DEF GetJob, PlacesKnown, WorkerInv
<1>5. Held(t) = {} /\ Held(t)' = {Head(input)} /\ SameHeld(t)
  BY <1>2, <1>4, Constants DEF Held, SameHeld
<1> QED
  BY <1>1, <1>2, <1>5 DEF GetJob, Taken, Queues, PlacesKnown

\* GetBreak moves no job.
LEMMA GetBreakMoves ==
  ASSUME PlacesKnown, NEW t \in Workers, GetBreak(t)
  PROVE  Stays /\ Queues'
<1>1. /\ InQueue(Tail(input)) = InQueue(input) \ {Head(input)}
      /\ OnceIn(Tail(input))
  BY QueueTypes, QueueTail DEF PlacesKnown, Queues, GetBreak
<1>2. InQueue(Tail(input)) = InQueue(input)
  BY <1>1, Constants DEF GetBreak, InQueue
<1>3. worker \in [Workers -> [pc : {"get", "check", "run", "ended", "died"},
                              job : Jobs \cup {NoJob}]]
  BY DEF PlacesKnown, TypeOK
<1>4. \A u \in Workers : worker'[u].job = worker[u].job
  BY <1>3 DEF GetBreak
<1>5. \A u \in Workers : Held(u)' = Held(u)
  BY <1>4 DEF Held
<1> QED
  BY <1>1, <1>2, <1>5 DEF GetBreak, Stays, Queues, PlacesKnown

\* A worker that only goes from one point to another keeps its job.
LEMMA GoesOnMoves ==
  ASSUME PlacesKnown, NEW t \in Workers, Launch(t) \/ LaunchFails(t)
  PROVE  Stays /\ Queues'
<1>1. worker \in [Workers -> [pc : {"get", "check", "run", "ended", "died"},
                              job : Jobs \cup {NoJob}]]
  BY DEF PlacesKnown, TypeOK
<1>2. \A u \in Workers : worker'[u].job = worker[u].job
  BY <1>1 DEF Launch, LaunchFails
<1>3. \A u \in Workers : Held(u)' = Held(u)
  BY <1>2 DEF Held
<1> QED
  BY <1>3 DEF Launch, LaunchFails, Stays, Queues, PlacesKnown

\* HandBack moves the worker's job to the output queue.
LEMMA HandBackMoves ==
  ASSUME PlacesKnown, NEW t \in Workers, worker[t].job \in Jobs,
         worker[t].job \notin InQueue(output), HandBack(t),
         UNCHANGED <<input, main>>,
         \A k \in Jobs \ {worker[t].job} : job'[k] = job[k]
  PROVE  Back(t, worker[t].job) /\ Queues'
<1> DEFINE j == worker[t].job
<1>1. /\ InQueue(Append(output, j)) = InQueue(output) \cup ({j} \cap Jobs)
      /\ OnceIn(Append(output, j))
  <2>1. j \in Entries
    BY DEF Entries
  <2> QED
    BY <2>1, QueueTypes, QueueAppend DEF PlacesKnown, Queues
<1>2. worker \in [Workers -> [pc : {"get", "check", "run", "ended", "died"},
                              job : Jobs \cup {NoJob}]]
  BY DEF PlacesKnown, TypeOK
<1>3. worker'[t].job = NoJob /\ \A u \in Workers \ {t} : worker'[u] = worker[u]
  BY <1>2 DEF HandBack
<1>4. Held(t) = {j} /\ Held(t)' = {} /\ SameHeld(t)
  BY <1>3, Constants DEF Held, SameHeld
<1> QED
  BY <1>1, <1>4 DEF HandBack, Back, Queues, PlacesKnown

\* Dispatch puts a job that is nowhere into the input queue.
LEMMA DispatchMoves ==
  ASSUME PlacesKnown, DispatchedInv, Dispatch
  PROVE  main.dispatched + 1 \in Jobs /\ Put(main.dispatched + 1) /\ Queues'
<1> DEFINE j == main.dispatched + 1
<1>1. main.dispatched \in 0..NumJobs /\ main'.dispatched = j
  BY DEF PlacesKnown, TypeOK, Dispatch
<1>2. j \in Jobs
  BY <1>1, Constants DEF Dispatch, Jobs
<1>3. j \notin InQueue(input)
  BY <1>1, Constants DEF DispatchedInv
<1>4. /\ InQueue(Append(input, j)) = InQueue(input) \cup ({j} \cap Jobs)
      /\ OnceIn(Append(input, j))
  <2>1. j \in Entries
    BY <1>2 DEF Entries
  <2> QED
    BY <1>3, <2>1, QueueTypes, QueueAppend DEF PlacesKnown, Queues
<1>5. \A u \in Workers : Held(u)' = Held(u)
  BY DEF Held, Dispatch
<1> QED
  BY <1>1, <1>2, <1>4, <1>5 DEF Dispatch, Put, Queues, PlacesKnown

\* DispatchBreak moves no job.
LEMMA DispatchBreakMoves ==
  ASSUME PlacesKnown, DispatchBreak
  PROVE  Stays /\ Queues'
<1>1. /\ InQueue(Append(input, Break)) = InQueue(input) \cup ({Break} \cap Jobs)
      /\ OnceIn(Append(input, Break))
  <2>1. Break \in Entries /\ Break \notin InQueue(input)
    BY Constants DEF Entries, InQueue
  <2> QED
    BY <2>1, QueueTypes, QueueAppend DEF PlacesKnown, Queues
<1>2. InQueue(Append(input, Break)) = InQueue(input)
  BY <1>1, Constants
<1>3. main'.dispatched = main.dispatched
  BY DEF DispatchBreak, PlacesKnown, TypeOK
<1>4. \A u \in Workers : Held(u)' = Held(u)
  BY DEF Held, DispatchBreak
<1> QED
  BY <1>1, <1>2, <1>3, <1>4 DEF DispatchBreak, Stays, Queues, PlacesKnown

\* Collect takes the first job of the output queue.
LEMMA CollectMoves ==
  ASSUME PlacesKnown, Collect
  PROVE  Head(output) \in Jobs /\ Out(Head(output)) /\ Queues'
<1>1. output # << >> /\ output' = Tail(output) /\ UNCHANGED <<input, worker, job>>
  BY DEF Collect
<1>2. /\ InQueue(Tail(output)) = InQueue(output) \ {Head(output)}
      /\ OnceIn(Tail(output))
      /\ Head(output) \in Jobs => Head(output) \in InQueue(output)
  BY <1>1, QueueTypes, QueueTail DEF PlacesKnown, Queues
<1>3. Head(output) \in Jobs
  BY <1>1, QueueTypes, HeadTailProperties DEF PlacesKnown
<1>4. main'.dispatched = main.dispatched
  BY DEF Collect, PlacesKnown, TypeOK
<1>5. \A u \in Workers : Held(u)' = Held(u)
  BY <1>1 DEF Held
<1> QED
  BY <1>1, <1>2, <1>3, <1>4, <1>5 DEF Out, Queues, PlacesKnown

\* The steps of the main thread that touch no queue, and the signal.
Quiet == AllDispatched \/ AllCollected \/ (\E t \in Workers : Join(t)) \/ Return \/ Interrupt

\* They move no job.
LEMMA QuietMoves ==
  ASSUME PlacesKnown, Quiet \/ UNCHANGED vars
  PROVE  Stays /\ Queues'
<1>1. UNCHANGED <<input, output, worker, job>>
  BY DEF Quiet, AllDispatched, AllCollected, Join, Return, Interrupt, vars
<1>2. main'.dispatched = main.dispatched
  BY DEF Quiet, AllDispatched, AllCollected, Join, Return, Interrupt, vars, PlacesKnown, TypeOK
<1>3. \A u \in Workers : Held(u)' = Held(u)
  BY <1>1 DEF Held
<1> QED
  BY <1>1, <1>2, <1>3 DEF Stays, Queues, PlacesKnown

\* What a worker at a point past "get" holds.
LEMMA HoldsJob ==
  ASSUME IInv, NEW t \in Workers, worker[t].pc \in {"check", "run", "died"}
  PROVE  /\ worker[t].job \in Jobs /\ Held(t) = {worker[t].job}
         /\ worker[t].job \notin InQueue(output)
<1>1. worker[t].job \in Jobs
  BY DEF IInv, WorkerInv
<1>2. Held(t) = {worker[t].job}
  BY <1>1 DEF Held
<1> QED
  BY <1>1, <1>2 DEF IInv, PlaceInv, JobAtOnePlace

\* The three ways to hand a job back.
BackStep(t) ==
  \/ SeeThreadExit(t) \/ SkipJob(t)
  \/ \E e \in Codes, d \in BOOLEAN, f \in Files : ProcessEnds(t, e, d, f)

\* Each of them moves the worker's job to the output queue.
LEMMA BackMoves ==
  ASSUME IInv, NEW t \in Workers, BackStep(t)
  PROVE  /\ worker[t].pc \in {"check", "run"} /\ worker[t].job \in Jobs
         /\ HandBack(t) /\ UNCHANGED <<input, threadExit, main>>
         /\ Back(t, worker[t].job) /\ Queues'
<1>1. worker[t].pc \in {"check", "run"}
  BY ZenonT(60) DEF BackStep, SeeThreadExit, SkipJob, ProcessEnds
<1>2. worker[t].job \in Jobs /\ worker[t].job \notin InQueue(output)
  BY <1>1, HoldsJob, SMTT(40)
<1>3. HandBack(t) /\ UNCHANGED <<input, threadExit, main>>
  BY ZenonT(60) DEF BackStep, SeeThreadExit, SkipJob, ProcessEnds
<1>4. DOMAIN job = Jobs
  BY DEF IInv, TypeOK
<1>5. \A k \in Jobs \ {worker[t].job} : job'[k] = job[k]
  BY <1>4, ZenonT(60) DEF BackStep, SeeThreadExit, SkipJob, ProcessEnds
<1>6. PlacesKnown
  BY PlacesAreKnown
<1> QED
  BY <1>1, <1>2, <1>3, <1>5, <1>6, HandBackMoves

Moves ==
  \/ Stays
  \/ \E j \in Jobs : \/ Put(j)
                     \/ \E t \in Workers : Taken(t, j)
                     \/ Collect /\ j = Head(output) /\ Out(j)
  \/ \E t \in Workers : BackStep(t) /\ worker[t].job \in Jobs /\ Back(t, worker[t].job)

\* Every step of the runner is one of the moves.
LEMMA StepMoves ==
  ASSUME IInv, [Next]_vars
  PROVE  Moves /\ Queues'
<1>0. PlacesKnown /\ DispatchedInv
  BY PlacesAreKnown DEF IInv, PlaceInv
<1>1. CASE Quiet \/ UNCHANGED vars
  BY <1>0, <1>1, QuietMoves DEF Moves
<1>2. CASE Dispatch
  BY <1>0, <1>2, DispatchMoves DEF Moves
<1>3. CASE DispatchBreak
  BY <1>0, <1>3, DispatchBreakMoves DEF Moves
<1>4. CASE Collect
  BY <1>0, <1>4, CollectMoves DEF Moves
<1>5. ASSUME NEW t \in Workers, GetJob(t) PROVE Moves /\ Queues'
  BY <1>0, <1>5, GetJobMoves DEF Moves
<1>6. ASSUME NEW t \in Workers, GetBreak(t) PROVE Moves /\ Queues'
  BY <1>0, <1>6, GetBreakMoves DEF Moves
<1>7. ASSUME NEW t \in Workers, Launch(t) \/ LaunchFails(t) PROVE Moves /\ Queues'
  BY <1>0, <1>7, GoesOnMoves DEF Moves
<1>8. ASSUME NEW t \in Workers, BackStep(t) PROVE Moves /\ Queues'
  <2>1. worker[t].job \in Jobs /\ Back(t, worker[t].job) /\ Queues'
    BY <1>8, BackMoves
  <2> QED
    BY <1>8, <2>1 DEF Moves
<1> QED
  BY <1>1, <1>2, <1>3, <1>4, <1>5, <1>6, <1>7, <1>8 DEF Next, Main, Worker, Quiet, BackStep

\* JobAtOnePlace, said without the queues' positions.
LEMMA OnePlaceParts ==
  JobAtOnePlace <=>
    /\ Queues
    /\ InQueue(input) \cap InQueue(output) = {}
    /\ \A t \in Workers :
         /\ Held(t) \cap (InQueue(input) \cup InQueue(output)) = {}
         /\ \A u \in Workers \ {t} : Held(t) \cap Held(u) = {}
  BY DEF JobAtOnePlace, Queues, OnceIn

\* A move keeps every job at one place, and no job comes from nowhere.
LEMMA MovesKeepPlaces ==
  ASSUME IInv, Moves, Queues'
  PROVE  PlaceInv'
<1> DEFINE In == InQueue(input)
           Ou == InQueue(output)
<1>1. /\ In \cap Ou = {}
      /\ \A t \in Workers : Held(t) \cap (In \cup Ou) = {}
      /\ \A t, u \in Workers : t # u => Held(t) \cap Held(u) = {}
  BY OnePlaceParts DEF IInv, PlaceInv
<1>2. /\ \A j \in In \cup Ou : j <= main.dispatched
      /\ \A t \in Workers : \A j \in Held(t) : j <= main.dispatched
  BY DEF IInv, PlaceInv, DispatchedInv
<1> DEFINE Placed ==
      /\ InQueue(input') \cap InQueue(output') = {}
      /\ \A t \in Workers : Held(t)' \cap (InQueue(input') \cup InQueue(output')) = {}
      /\ \A t, u \in Workers : t # u => Held(t)' \cap Held(u)' = {}
      /\ \A j \in InQueue(input') \cup InQueue(output') : j <= main'.dispatched
      /\ \A t \in Workers : \A j \in Held(t)' : j <= main'.dispatched
<1>3. ASSUME Placed PROVE PlaceInv'
  <2>1. /\ InQueue(input)' = InQueue(input') /\ InQueue(output)' = InQueue(output')
    BY DEF InQueue
  <2>2. DispatchedInv'
    BY <1>3, <2>1 DEF DispatchedInv
  <2>3. JobAtOnePlace'
    BY <1>3, Queues' DEF JobAtOnePlace, Queues, OnceIn
  <2> QED
    BY <2>2, <2>3 DEF PlaceInv
<1>4. ASSUME Stays PROVE Placed
  BY <1>1, <1>2, <1>4 DEF Stays
<1>5. ASSUME NEW j \in Jobs, Put(j) PROVE Placed
  <2>0. main.dispatched \in Nat /\ In \subseteq Nat /\ Ou \subseteq Nat
        /\ \A t \in Workers : Held(t) \subseteq Nat
    <3>1. main.dispatched \in Nat
      BY Constants DEF IInv, TypeOK
    <3>2. In \subseteq Jobs /\ Ou \subseteq Jobs /\ \A t \in Workers : Held(t) \subseteq Jobs
      BY DEF InQueue, Held
    <3> QED
      BY <3>1, <3>2, Constants
  <2>1. j \notin In \cup Ou /\ \A t \in Workers : j \notin Held(t)
    BY <1>2, <1>5, <2>0 DEF Put
  <2>2. \A k \in Nat : k <= main.dispatched => k <= main'.dispatched
    BY <1>5, <2>0 DEF Put
  <2>3. j <= main'.dispatched
    BY <1>5, <2>0 DEF Put
  <2> QED
    BY <1>1, <1>2, <1>5, <2>0, <2>1, <2>2, <2>3 DEF Put
<1>6. ASSUME NEW j \in Jobs, NEW t \in Workers, Taken(t, j) PROVE Placed
  BY <1>1, <1>2, <1>6 DEF Taken, SameHeld
<1>7. ASSUME NEW j \in Jobs, NEW t \in Workers, Back(t, j) PROVE Placed
  BY <1>1, <1>2, <1>7 DEF Back, SameHeld
<1>8. ASSUME NEW j \in Jobs, Out(j) PROVE Placed
  BY <1>1, <1>2, <1>8 DEF Out
<1> QED
  BY <1>3, <1>4, <1>5, <1>6, <1>7, <1>8 DEF Moves

\* Only a job that main takes from the output queue stops being pending, and
\* one that is not pending does not change.
LEMMA MovesPending ==
  ASSUME IInv, Moves
  PROVE  \/ Collect /\ Head(output) \in Jobs /\ Out(Head(output))
         \/ \A k \in Jobs : /\ Pending(k)' <=> Pending(k)
                            /\ ~Pending(k) => job'[k] = job[k]
<1>0. main.dispatched \in Nat /\ Jobs \subseteq Nat
  BY Constants DEF IInv, TypeOK
<1>1. \A k \in Jobs : Pending(k) <=> \/ k > main.dispatched \/ k \in InQueue(input)
                                     \/ k \in InQueue(output)
                                     \/ \E u \in Workers : k \in Held(u)
  BY DEF Pending
<1>2. \A k \in Jobs : Pending(k)' <=> \/ k > main'.dispatched \/ k \in InQueue(input')
                                      \/ k \in InQueue(output')
                                      \/ \E u \in Workers : k \in Held(u)'
  BY DEF Pending, InQueue
<1>3. CASE Stays
  BY <1>1, <1>2, <1>3 DEF Stays
<1>4. ASSUME NEW j \in Jobs, Put(j), NEW k \in Jobs
      PROVE  (Pending(k)' <=> Pending(k)) /\ job'[k] = job[k]
  <2>1. k > main.dispatched <=> k > main'.dispatched \/ k = j
    BY <1>0, <1>4 DEF Put
  <2> QED
    BY <1>1, <1>2, <1>4, <2>1 DEF Put
<1>5. ASSUME NEW j \in Jobs, NEW t \in Workers, Taken(t, j), NEW k \in Jobs
      PROVE  (Pending(k)' <=> Pending(k)) /\ job'[k] = job[k]
  BY <1>1, <1>2, <1>5 DEF Taken, SameHeld
<1>6. ASSUME NEW t \in Workers, worker[t].job \in Jobs, Back(t, worker[t].job), NEW k \in Jobs
      PROVE  (Pending(k)' <=> Pending(k)) /\ (~Pending(k) => job'[k] = job[k])
  BY <1>1, <1>2, <1>6 DEF Back, SameHeld
<1> QED
  BY <1>3, <1>4, <1>5, <1>6 DEF Moves

\* A job that main takes was pending, and is the only one to change.
LEMMA OutPending ==
  ASSUME IInv, NEW j \in Jobs, Out(j)
  PROVE  /\ Pending(j) /\ ~Pending(j)'
         /\ \A k \in Jobs \ {j} : Pending(k)' <=> Pending(k)
<1>0. main.dispatched \in Nat /\ Jobs \subseteq Nat
  BY Constants DEF IInv, TypeOK
<1>1. \A k \in Jobs : Pending(k)' <=> \/ k > main'.dispatched \/ k \in InQueue(input')
                                      \/ k \in InQueue(output')
                                      \/ \E u \in Workers : k \in Held(u)'
  BY DEF Pending, InQueue
<1>2. j \notin InQueue(input) /\ j \notin InQueue(output')
      /\ \A t \in Workers : j \notin Held(t)
  BY DEF Out, IInv, PlaceInv, JobAtOnePlace
<1>3. ~(j > main.dispatched)
  BY <1>0 DEF Out, IInv, PlaceInv, DispatchedInv
<1> QED
  BY <1>1, <1>2, <1>3 DEF Out, Pending

-----------------------------------------------------------------------------
(* Types *)

WorkerType == [pc : {"get", "check", "run", "ended", "died"}, job : Jobs \cup {NoJob}]

JobType == [isBreak : BOOLEAN, returncode : Codes,
            exit : Codes \cup {"none"}, file : Files]

MainType ==
  [pc : {"dispatch", "collect", "join", "returned", "raised"},
   dispatched : 0..NumJobs, breaks : 0..Cardinality(Workers),
   collected : 0..NumJobs, count : [Statuses -> 0..NumJobs],
   results : SUBSET (Jobs \X (Statuses \cup {"partial"})),
   joined : SUBSET Workers, exit : {"none", "0", "1"}]

\* TypeOK in terms of the records' types.
LEMMA TypeParts ==
  TypeOK <=>
    /\ input \in Seq(Entries) /\ output \in Seq(Jobs)
    /\ worker \in [Workers -> WorkerType] /\ job \in [Jobs -> JobType]
    /\ threadExit \in BOOLEAN /\ main \in MainType
  BY DEF TypeOK, Entries, WorkerType, JobType, MainType

\* Every job has a status that is counted.
LEMMA StatusType ==
  ASSUME NEW j \in Jobs
  PROVE  Status(j) \in Statuses
  BY DEF Status, Statuses

\* A job that is written to the results file has an entry.
LEMMA EntryType ==
  ASSUME TypeOK, NEW j \in Jobs, ~CannotOpen(j)
  PROVE  Entry(j) \in Statuses \cup {"partial"}
<1>1. job[j].file \in Files
  BY TypeParts DEF JobType
<1>2. CASE j \in Examples \/ Status(j) \in {"SKIP", "CRASH"}
  BY <1>2, StatusType DEF Entry
<1>3. CASE ~(j \in Examples \/ Status(j) \in {"SKIP", "CRASH"})
  <2>1. j \notin Skipped
    BY <1>3 DEF Status
  <2>2. job[j].file # "none"
    BY <1>3, <2>1 DEF CannotOpen
  <2> QED
    BY <1>1, <1>3, <2>2 DEF Entry, Files, Statuses
<1> QED
  BY <1>2, <1>3

\* One turn of the loop over the results, field by field.
LEMMA CollectMain ==
  ASSUME IInv, Collect
  PROVE  LET j == Head(output) IN
         /\ j \in Jobs /\ main.pc = "collect" /\ main.collected < NumJobs
         /\ main' \in MainType
         /\ main'.collected = main.collected + 1
         /\ main'.dispatched = main.dispatched /\ main'.breaks = main.breaks
         /\ main'.joined = main.joined /\ main'.exit = main.exit
         /\ main'.count = IF job[j].isBreak THEN main.count
                          ELSE [main.count EXCEPT ![Status(j)] = @ + 1]
         /\ main'.pc = IF ~job[j].isBreak /\ CannotOpen(j) THEN "raised" ELSE "collect"
         /\ main'.results = IF job[j].isBreak \/ CannotOpen(j) THEN main.results
                            ELSE main.results \cup {<<j, Entry(j)>>}
<1> DEFINE j == Head(output)
<1>1. TypeOK /\ main \in MainType /\ j \in Jobs
  BY TypeParts, CollectMoves, PlacesAreKnown DEF IInv
<1>2. main.pc = "collect" /\ main.collected < NumJobs
  BY DEF Collect
<1>3. main.collected \in 0..NumJobs /\ main.collected + 1 \in 0..NumJobs
  BY <1>1, <1>2, Constants DEF MainType
<1>4. Status(j) \in Statuses
  BY <1>1, StatusType
<1>5. [main.count EXCEPT ![Status(j)] = @ + 1] \in [Statuses -> 0..NumJobs]
  <2>1. main.count \in [Statuses -> 0..NumJobs]
    BY <1>1 DEF MainType
  <2>2. main.count[Status(j)] <= main.collected
    BY <1>4 DEF IInv, CountInv
  <2>3. main.count[Status(j)] + 1 \in 0..NumJobs
    BY <1>2, <1>3, <1>4, <2>1, <2>2, Constants
  <2> QED
    BY <2>1, <2>3
<1>6. ~CannotOpen(j) => main.results \cup {<<j, Entry(j)>>}
                          \in SUBSET (Jobs \X (Statuses \cup {"partial"}))
  BY <1>1, EntryType DEF MainType
<1> DEFINE counted == [main EXCEPT !.collected = @ + 1, !.count[Status(j)] = @ + 1]
<1>7. main' = IF job[j].isBreak THEN [main EXCEPT !.collected = @ + 1]
              ELSE IF CannotOpen(j) THEN [counted EXCEPT !.pc = "raised"]
              ELSE [counted EXCEPT !.results = @ \cup {<<j, Entry(j)>>}]
  BY DEF Collect
<1>8. CASE job[j].isBreak
  <2>1. main' = [main EXCEPT !.collected = @ + 1]
    BY <1>7, <1>8
  <2> QED
    BY <1>1, <1>2, <1>3, <1>8, <2>1 DEF MainType
<1>9. CASE ~job[j].isBreak /\ CannotOpen(j)
  <2>1. main' = [counted EXCEPT !.pc = "raised"]
    BY <1>7, <1>9
  <2> QED
    BY <1>1, <1>2, <1>3, <1>5, <1>9, <2>1 DEF MainType
<1>10. CASE ~job[j].isBreak /\ ~CannotOpen(j)
  <2>1. main' = [counted EXCEPT !.results = @ \cup {<<j, Entry(j)>>}]
    BY <1>7, <1>10
  <2> QED
    BY <1>1, <1>2, <1>3, <1>5, <1>6, <1>10, <2>1 DEF MainType
<1> QED
  BY <1>8, <1>9, <1>10

\* What the three ways to hand a job back do to it.
LEMMA BackJob ==
  ASSUME IInv, NEW t \in Workers, BackStep(t)
  PROVE  LET j == worker[t].job IN
         /\ job' \in [Jobs -> JobType]
         /\ \/ job'[j].isBreak /\ job'[j].returncode = job[j].returncode
               /\ job'[j].exit = job[j].exit /\ job'[j].file = job[j].file
            \/ j \in Skipped /\ job' = job
            \/ \E e \in Codes :
                 /\ worker[t].pc = "run" /\ ~job'[j].isBreak /\ job'[j].exit = e
                 /\ job'[j].returncode \in {e, "1"}
                 /\ job'[j].file \in IF j \in Examples THEN {"none"} ELSE FilesOf(e)
<1> DEFINE j == worker[t].job
<1>1. job \in [Jobs -> JobType] /\ worker[t].job \in Jobs
  BY BackMoves, TypeParts DEF IInv
<1>2. Held(t) = {j} /\ ~job[j].isBreak
  <2>1. Held(t) = {j}
    BY <1>1 DEF Held
  <2> QED
    BY <1>1, <2>1 DEF IInv, RunInv, Waiting
<1>3. CASE SeeThreadExit(t)
  <2>1. job' = [job EXCEPT ![j].isBreak = TRUE]
    BY <1>3 DEF SeeThreadExit
  <2> QED
    BY <1>1, <2>1, ZenonT(60) DEF JobType
<1>4. CASE SkipJob(t)
  BY <1>1, <1>4 DEF SkipJob
<1>5. ASSUME NEW e \in Codes, NEW d \in BOOLEAN, NEW f \in Files, ProcessEnds(t, e, d, f)
      PROVE  /\ job' \in [Jobs -> JobType]
             /\ worker[t].pc = "run" /\ ~job'[j].isBreak /\ job'[j].exit = e
             /\ job'[j].returncode \in {e, "1"}
             /\ job'[j].file \in IF j \in Examples THEN {"none"} ELSE FilesOf(e)
  <2>1. /\ job' = [job EXCEPT ![j].returncode = Returncode(e, d),
                              ![j].exit = e, ![j].file = f]
        /\ worker[t].pc = "run"
        /\ f \in IF j \in Examples THEN {"none"} ELSE FilesOf(e)
    BY <1>5 DEF ProcessEnds
  <2>2. Returncode(e, d) \in {e, "1"} /\ Returncode(e, d) \in Codes
    BY DEF Returncode, Codes
  <2> HIDE DEF j
  <2>3. job'[j] = [job[j] EXCEPT !.returncode = Returncode(e, d), !.exit = e, !.file = f]
        /\ \A k \in Jobs \ {j} : job'[k] = job[k]
        /\ DOMAIN job' = Jobs
    BY <1>1, <2>1 DEF j
  <2>4. job'[j] \in JobType
    BY <1>1, <2>2, <2>3 DEF JobType, j
  <2>5. job' \in [Jobs -> JobType]
    BY <1>1, <2>1, <2>3, <2>4
  <2>6. ~job'[j].isBreak /\ job'[j].exit = e /\ job'[j].file = f
        /\ job'[j].returncode = Returncode(e, d)
    BY <1>1, <1>2, <2>3 DEF JobType, j
  <2> QED
    BY <2>1, <2>2, <2>5, <2>6
<1> QED
  BY <1>3, <1>4, <1>5 DEF BackStep

\* Every step keeps the types.
LEMMA TypeStep ==
  ASSUME IInv, [Next]_vars
  PROVE  TypeOK'
<1>0. /\ input \in Seq(Entries) /\ output \in Seq(Jobs)
      /\ worker \in [Workers -> WorkerType] /\ job \in [Jobs -> JobType]
      /\ threadExit \in BOOLEAN /\ main \in MainType
      /\ PlacesKnown
  BY TypeParts, PlacesAreKnown DEF IInv
<1> DEFINE Typed ==
      /\ input' \in Seq(Entries) /\ output' \in Seq(Jobs)
      /\ worker' \in [Workers -> WorkerType] /\ job' \in [Jobs -> JobType]
      /\ threadExit' \in BOOLEAN /\ main' \in MainType
<1>1. ASSUME UNCHANGED vars PROVE Typed
  BY <1>0, <1>1 DEF vars
<1>2. ASSUME Dispatch PROVE Typed
  <2>1. main.dispatched + 1 \in Jobs
    BY <1>0, <1>2, DispatchMoves DEF IInv, PlaceInv
  <2>2. main.dispatched + 1 \in 0..NumJobs
    BY <2>1, Constants DEF Jobs
  <2>3. main' \in MainType
    BY <1>0, <1>2, <2>2 DEF Dispatch, MainType
  <2>4. input' \in Seq(Entries)
    BY <1>0, <1>2, <2>1, AppendProperties DEF Dispatch, Entries
  <2> QED
    BY <1>0, <1>2, <2>3, <2>4 DEF Dispatch
<1>3. ASSUME DispatchBreak PROVE Typed
  <2>1. main.breaks + 1 \in 0..Cardinality(Workers)
    BY <1>0, <1>3, Constants DEF DispatchBreak, MainType
  <2>2. main' \in MainType
    BY <1>0, <1>3, <2>1 DEF DispatchBreak, MainType
  <2>3. input' \in Seq(Entries)
    BY <1>0, <1>3, AppendProperties DEF DispatchBreak, Entries
  <2> QED
    BY <1>0, <1>3, <2>2, <2>3 DEF DispatchBreak
<1>4. ASSUME Collect PROVE Typed
  <2>1. main' \in MainType
    BY <1>4, CollectMain
  <2>2. output' \in Seq(Jobs)
    BY <1>0, <1>4, HeadTailProperties DEF Collect
  <2> QED
    BY <1>0, <1>4, <2>1, <2>2 DEF Collect
<1>5. ASSUME AllDispatched \/ AllCollected PROVE Typed
  BY <1>0, <1>5 DEF AllDispatched, AllCollected, MainType
<1>6. ASSUME NEW t \in Workers, Join(t) PROVE Typed
  BY <1>0, <1>6 DEF Join, MainType
<1>7. ASSUME Return PROVE Typed
  <2>1. ExitCode(main.count) \in {"0", "1"}
    BY DEF ExitCode
  <2> QED
    BY <1>0, <1>7, <2>1 DEF Return, MainType
<1>8. ASSUME Interrupt PROVE Typed
  BY <1>0, <1>8 DEF Interrupt
<1>9. ASSUME NEW t \in Workers, GetJob(t) PROVE Typed
  <2>1. Head(input) \in Jobs
    BY <1>0, <1>9, GetJobMoves
  <2>2. worker' \in [Workers -> WorkerType]
    BY <1>0, <1>9, <2>1 DEF GetJob, WorkerType
  <2>3. input' \in Seq(Entries)
    BY <1>0, <1>9, HeadTailProperties DEF GetJob
  <2> QED
    BY <1>0, <1>9, <2>2, <2>3 DEF GetJob
<1>10. ASSUME NEW t \in Workers, GetBreak(t) PROVE Typed
  <2>1. worker' \in [Workers -> WorkerType]
    BY <1>0, <1>10 DEF GetBreak, WorkerType
  <2>2. input' \in Seq(Entries)
    BY <1>0, <1>10, HeadTailProperties DEF GetBreak
  <2> QED
    BY <1>0, <1>10, <2>1, <2>2 DEF GetBreak
<1>11. ASSUME NEW t \in Workers, Launch(t) \/ LaunchFails(t) PROVE Typed
  BY <1>0, <1>11, ZenonT(60) DEF Launch, LaunchFails, WorkerType
<1>12. ASSUME NEW t \in Workers, BackStep(t) PROVE Typed
  <2>1. worker[t].job \in Jobs /\ HandBack(t) /\ UNCHANGED <<input, threadExit, main>>
    BY <1>12, BackMoves
  <2>2. output' \in Seq(Jobs)
    BY <1>0, <2>1, AppendProperties DEF HandBack
  <2>3. worker' \in [Workers -> WorkerType]
    BY <1>0, <2>1 DEF HandBack, WorkerType
  <2>4. job' \in [Jobs -> JobType]
    BY <1>12, BackJob
  <2> QED
    BY <1>0, <2>1, <2>2, <2>3, <2>4
<1>13. Typed
  BY <1>1, <1>2, <1>3, <1>4, <1>5, <1>6, <1>7, <1>8, <1>9, <1>10, <1>11, <1>12
  DEF Next, Main, Worker, BackStep
<1> QED
  BY <1>13 DEF TypeOK, Entries, WorkerType, JobType, MainType

\* Every step keeps what a worker holds in line with where it is.
LEMMA WorkerStep ==
  ASSUME IInv, [Next]_vars
  PROVE  WorkerInv'
<1>0. worker \in [Workers -> WorkerType] /\ WorkerInv /\ PlacesKnown
  BY TypeParts, PlacesAreKnown DEF IInv
<1>1. CASE UNCHANGED worker
  BY <1>0, <1>1 DEF WorkerInv
<1>2. ASSUME NEW t \in Workers, GetJob(t) PROVE WorkerInv'
  <2>1. Head(input) \in Jobs
    BY <1>0, <1>2, GetJobMoves
  <2> QED
    BY <1>0, <1>2, <2>1 DEF GetJob, WorkerInv, WorkerType
<1>3. ASSUME NEW t \in Workers, GetBreak(t) PROVE WorkerInv'
  BY <1>0, <1>3 DEF GetBreak, WorkerInv, WorkerType
<1>4. ASSUME NEW t \in Workers, Launch(t) \/ LaunchFails(t) PROVE WorkerInv'
  BY <1>0, <1>4 DEF Launch, LaunchFails, WorkerInv, WorkerType
<1>5. ASSUME NEW t \in Workers, BackStep(t) PROVE WorkerInv'
  <2>1. HandBack(t)
    BY <1>5, BackMoves
  <2> QED
    BY <1>0, <2>1 DEF HandBack, WorkerInv, WorkerType
<1> QED
  BY <1>1, <1>2, <1>3, <1>4, <1>5
  DEF Next, Main, Worker, BackStep, vars, Dispatch, DispatchBreak, AllDispatched, Collect,
      AllCollected, Join, Return, Interrupt

-----------------------------------------------------------------------------
(* Break jobs *)

\* How many workers are ended is a number.
LEMMA EndedNat ==
  IsFiniteSet(Ended) /\ Cardinality(Ended) \in Nat /\ Cardinality(Ended) <= Cardinality(Workers)
  BY Constants, FS_Subset, FS_CardinalityType DEF Ended

\* Only GetBreak ends a worker.
LEMMA EndedStep ==
  ASSUME IInv, [Next]_vars
  PROVE  \/ Ended' = Ended
         \/ \E t \in Workers : /\ GetBreak(t) /\ t \notin Ended
                               /\ Ended' = Ended \cup {t}
<1>0. worker \in [Workers -> WorkerType]
  BY TypeParts DEF IInv
<1>1. CASE UNCHANGED worker
  BY <1>1 DEF Ended
<1>2. ASSUME NEW t \in Workers, GetJob(t) PROVE Ended' = Ended
  BY <1>0, <1>2 DEF GetJob, Ended, WorkerType
<1>3. ASSUME NEW t \in Workers, GetBreak(t)
      PROVE  t \notin Ended /\ Ended' = Ended \cup {t}
  BY <1>0, <1>3 DEF GetBreak, Ended, WorkerType
<1>4. ASSUME NEW t \in Workers, Launch(t) \/ LaunchFails(t) PROVE Ended' = Ended
  BY <1>0, <1>4 DEF Launch, LaunchFails, Ended, WorkerType
<1>5. ASSUME NEW t \in Workers, BackStep(t) PROVE Ended' = Ended
  <2>1. HandBack(t) /\ worker[t].pc \in {"check", "run"}
    BY <1>5, BackMoves
  <2> QED
    BY <1>0, <2>1 DEF HandBack, Ended, WorkerType
<1> QED
  BY <1>1, <1>2, <1>3, <1>4, <1>5
  DEF Next, Main, Worker, BackStep, vars, Dispatch, DispatchBreak, AllDispatched, Collect,
      AllCollected, Join, Return, Interrupt

\* The break jobs stay at the end of the queue and are used one by one.
LEMMA BreakStep ==
  ASSUME IInv, [Next]_vars
  PROVE  BreakInv'
<1> DEFINE n == main.breaks - Cardinality(Ended)
           m == main'.breaks - Cardinality(Ended')
<1>0. /\ input \in Seq(Entries) /\ Len(input) \in Nat
      /\ main.breaks \in Nat /\ main \in MainType /\ main.dispatched \in 0..NumJobs
      /\ Cardinality(Ended) \in Nat
  BY TypeParts, EndedNat, Constants, LenProperties DEF IInv, MainType
<1>1. /\ n \in 0..Len(input)
      /\ \A i \in 1..Len(input) : input[i] = Break <=> i > Len(input) - n
      /\ Ended # {} => Len(input) = n
      /\ main.breaks > 0 => main.dispatched = NumJobs
  BY DEF IInv, BreakInv
<1> DEFINE Last ==
      /\ m \in 0..Len(input')
      /\ \A i \in 1..Len(input') : input'[i] = Break <=> i > Len(input') - m
      /\ Ended' # {} => Len(input') = m
      /\ main'.breaks > 0 => main'.dispatched = NumJobs
<1>2. ASSUME Last PROVE BreakInv'
  BY <1>2 DEF BreakInv
<1>3. ASSUME input' = input, Ended' = Ended, main'.breaks = main.breaks,
             main'.dispatched = main.dispatched
      PROVE  Last
  BY <1>1, <1>3
<1>4. ASSUME Dispatch PROVE Last
  <2>1. Ended' = Ended /\ main'.breaks = main.breaks
    BY <1>0, <1>4 DEF Dispatch, Ended, MainType
  <2>2. main.breaks = 0 /\ n = 0 /\ m = 0 /\ Cardinality(Ended) = 0 /\ Ended = {}
    <3>1. main.breaks = 0 /\ n = 0 /\ m = 0 /\ Cardinality(Ended) = 0
      BY <1>0, <1>1, <1>4, <2>1, Constants DEF Dispatch
    <3> QED
      BY <3>1, EndedNat, FS_EmptySet
  <2>3. main.dispatched + 1 # Break
    BY <1>0, Constants DEF Break
  <2>4. main.dispatched + 1 \in Entries
    BY <1>0, <1>4, Constants DEF Dispatch, Entries, Jobs
  <2>5. /\ Len(input') = Len(input) + 1
        /\ \A i \in 1..Len(input) : input'[i] = input[i]
        /\ input'[Len(input) + 1] = main.dispatched + 1
    BY <1>0, <1>4, <2>4, AppendProperties DEF Dispatch
  <2> HIDE DEF n
  <2>6. \A i \in 1..Len(input) : input[i] # Break
    BY <1>0, <1>1, <2>2
  <2>7. \A i \in 1..Len(input') : input'[i] # Break
    BY <1>0, <2>3, <2>5, <2>6
  <2> HIDE DEF m
  <2> QED
    BY <1>0, <2>1, <2>2, <2>5, <2>7
<1>5. ASSUME DispatchBreak PROVE Last
  <2>1. /\ Ended' = Ended /\ main'.breaks = main.breaks + 1
        /\ main'.dispatched = NumJobs
    BY <1>0, <1>5 DEF DispatchBreak, Ended, MainType
  <2>2. m = n + 1
    BY <1>0, <2>1
  <2>3. Break \in Entries
    BY DEF Entries
  <2>4. /\ Len(input') = Len(input) + 1
        /\ \A i \in 1..Len(input) : input'[i] = input[i]
        /\ input'[Len(input) + 1] = Break
    BY <1>0, <1>5, <2>3, AppendProperties DEF DispatchBreak
  <2> HIDE DEF n, m
  <2>5. Len(input') - m = Len(input) - n
    BY <1>0, <1>1, <2>2, <2>4
  <2>6. \A i \in 1..Len(input') : input'[i] = Break <=> i > Len(input) - n
    BY <1>0, <1>1, <2>4
  <2>7. m \in 0..Len(input')
    BY <1>0, <1>1, <2>2, <2>4
  <2>8. Ended' # {} => Len(input') = m
    <3>1. Ended # {} => Len(input) + 1 = n + 1
      BY <1>1
    <3> QED
      BY <2>1, <2>2, <2>4, <3>1
  <2> QED
    BY <2>1, <2>5, <2>6, <2>7, <2>8
<1>6. ASSUME NEW t \in Workers, GetJob(t), Ended' = Ended PROVE Last
  <2>1. input # << >> /\ Head(input) # Break /\ input' = Tail(input) /\ main' = main
    BY <1>6 DEF GetJob
  <2>2. /\ Len(input') = Len(input) - 1 /\ Len(input) > 0 /\ Head(input) = input[1]
        /\ \A i \in 1..(Len(input) - 1) : input'[i] = input[i + 1]
    BY <1>0, <2>1, HeadTailProperties, EmptySeq
  <2>3. m = n
    BY <1>6, <2>1
  <2> HIDE DEF n, m
  <2>4. n \in Nat /\ n < Len(input) /\ Ended = {}
    <3>1. n \in Nat /\ n <= Len(input) /\ 1 \in 1..Len(input)
      BY <1>0, <1>1, <2>2, SMTT(40)
    <3>2. ~(1 > Len(input) - n)
      BY <1>1, <2>1, <2>2, <3>1, ZenonT(60)
    <3>3. n < Len(input)
      BY <1>0, <3>1, <3>2
    <3> QED
      BY <1>0, <1>1, <3>1, <3>3
  <2>5. \A i \in 1..Len(input') : input'[i] = Break <=> i + 1 > Len(input) - n
    BY <1>0, <1>1, <2>2
  <2>6. m \in 0..Len(input')
    BY <1>0, <2>2, <2>3, <2>4
  <2>7. \A i \in 1..Len(input') : i + 1 > Len(input) - n <=> i > Len(input') - m
    BY <1>0, <2>2, <2>3, <2>4
  <2> QED
    BY <1>1, <1>6, <2>1, <2>4, <2>5, <2>6, <2>7
<1>7. ASSUME NEW t \in Workers, GetBreak(t), t \notin Ended, Ended' = Ended \cup {t}
      PROVE  Last
  <2>1. input # << >> /\ Head(input) = Break /\ input' = Tail(input) /\ main' = main
    BY <1>7 DEF GetBreak
  <2>2. /\ Len(input') = Len(input) - 1 /\ Len(input) > 0 /\ Head(input) = input[1]
        /\ \A i \in 1..(Len(input) - 1) : input'[i] = input[i + 1]
    BY <1>0, <2>1, HeadTailProperties, EmptySeq
  <2>3. Cardinality(Ended') = Cardinality(Ended) + 1
    BY <1>7, EndedNat, FS_AddElement
  <2>4. m = n - 1 /\ n \in Int
    BY <1>0, <2>1, <2>3, SMTT(40)
  <2> HIDE DEF n, m
  <2>5. n = Len(input)
    <3>1. n \in Nat /\ n <= Len(input) /\ 1 \in 1..Len(input)
      BY <1>0, <1>1, <2>2
    <3>2. 1 > Len(input) - n
      BY <1>1, <2>1, <2>2, <3>1, ZenonT(60)
    <3> QED
      BY <1>0, <3>1, <3>2
  <2>6. \A i \in 1..Len(input') : input'[i] = Break
    BY <1>0, <1>1, <2>2, <2>5
  <2> QED
    BY <1>0, <1>1, <2>1, <2>2, <2>4, <2>5, <2>6
<1>8. ASSUME Collect PROVE input' = input /\ main'.breaks = main.breaks
                           /\ main'.dispatched = main.dispatched
  BY <1>8, CollectMain DEF Collect
<1>9. ASSUME Quiet \/ UNCHANGED vars
      PROVE  input' = input /\ main'.breaks = main.breaks
             /\ main'.dispatched = main.dispatched
  BY <1>0, <1>9 DEF Quiet, AllDispatched, AllCollected, Join, Return, Interrupt, vars, MainType
<1>10. ASSUME NEW t \in Workers, Launch(t) \/ LaunchFails(t) \/ BackStep(t)
       PROVE  input' = input /\ main' = main
  BY <1>10, BackMoves DEF Launch, LaunchFails
<1>11. ASSUME NEW t \in Workers, GetBreak(t)
       PROVE  t \notin Ended /\ Ended' = Ended \cup {t}
  <2>1. worker \in [Workers -> WorkerType]
    BY TypeParts DEF IInv
  <2> QED
    BY <1>11, <2>1 DEF GetBreak, Ended, WorkerType
<1>12. ASSUME ~\E t \in Workers : GetBreak(t) PROVE Ended' = Ended
  BY <1>12, EndedStep
<1>13. CASE \E t \in Workers : GetBreak(t)
  BY <1>2, <1>7, <1>11, <1>13
<1>14. CASE ~\E t \in Workers : GetBreak(t)
  BY <1>2, <1>3, <1>4, <1>5, <1>6, <1>8, <1>9, <1>10, <1>12, <1>14
  DEF Next, Main, Worker, BackStep, Quiet
<1> QED
  BY <1>13, <1>14

-----------------------------------------------------------------------------
(* Jobs and their processes *)

\* Only a worker that hands a job back changes it.
LEMMA JobStep ==
  ASSUME IInv, [Next]_vars
  PROVE  job' = job \/ \E t \in Workers : BackStep(t) /\ Back(t, worker[t].job)
  BY StepMoves DEF Moves, Stays, Put, Taken, Out

\* What a job knows of its process is right when it is handed back.
LEMMA ProcessStep ==
  ASSUME IInv, [Next]_vars
  PROVE  ProcessInv'
<1>0. ProcessInv /\ job \in [Jobs -> JobType]
  BY TypeParts DEF IInv
<1>1. CASE job' = job
  BY <1>0, <1>1 DEF ProcessInv
<1>2. ASSUME NEW t \in Workers, BackStep(t), Back(t, worker[t].job)
      PROVE  ProcessInv'
  <2> DEFINE j == worker[t].job
  <2>1. j \in Jobs /\ \A k \in Jobs \ {j} : job'[k] = job[k]
    BY <1>2, BackMoves DEF Back
  <2>2. worker[t].pc = "run" => j \notin Skipped
    BY DEF IInv, WorkerInv
  <2>3. \/ job'[j].isBreak /\ job'[j].returncode = job[j].returncode
           /\ job'[j].exit = job[j].exit /\ job'[j].file = job[j].file
        \/ job' = job
        \/ \E e \in Codes :
             /\ worker[t].pc = "run" /\ job'[j].exit = e
             /\ job'[j].returncode \in {e, "1"}
             /\ job'[j].file \in IF j \in Examples THEN {"none"} ELSE FilesOf(e)
    BY <1>2, BackJob
  <2> HIDE DEF j
  <2>4. ASSUME NEW k \in Jobs, k # j
        PROVE  /\ job'[k].exit = "none" => job'[k].returncode = "0" /\ job'[k].file = "none"
               /\ job'[k].exit # "none" =>
                    /\ k \notin Skipped
                    /\ job'[k].returncode \in {job'[k].exit, "1"}
                    /\ job'[k].file \in IF k \in Examples THEN {"none"}
                                        ELSE FilesOf(job'[k].exit)
    BY <1>0, <2>1, <2>4 DEF ProcessInv
  <2>5. /\ job'[j].exit = "none" => job'[j].returncode = "0" /\ job'[j].file = "none"
        /\ job'[j].exit # "none" =>
             /\ j \notin Skipped
             /\ job'[j].returncode \in {job'[j].exit, "1"}
             /\ job'[j].file \in IF j \in Examples THEN {"none"}
                                 ELSE FilesOf(job'[j].exit)
    <3>1. CASE job'[j].returncode = job[j].returncode
               /\ job'[j].exit = job[j].exit /\ job'[j].file = job[j].file
      BY <1>0, <2>1, <3>1 DEF ProcessInv
    <3>2. ASSUME NEW e \in Codes, worker[t].pc = "run", job'[j].exit = e,
                 job'[j].returncode \in {e, "1"},
                 job'[j].file \in IF j \in Examples THEN {"none"} ELSE FilesOf(e)
          PROVE  /\ j \notin Skipped /\ job'[j].exit # "none"
                 /\ job'[j].returncode \in {job'[j].exit, "1"}
                 /\ job'[j].file \in IF j \in Examples THEN {"none"}
                                     ELSE FilesOf(job'[j].exit)
      BY <2>2, <3>2 DEF Codes
    <3> QED
      BY <2>3, <3>1, <3>2
  <2> QED
    BY <2>4, <2>5 DEF ProcessInv, FilesOf
<1> QED
  BY <1>1, <1>2, JobStep

\* A job is behind the workers only when it has run, was skipped or broken off.
LEMMA RunStep ==
  ASSUME IInv, [Next]_vars
  PROVE  RunInv'
<1>0. /\ main.dispatched \in Nat /\ Jobs \subseteq Nat
      /\ \A k \in Jobs :
           /\ k > main.dispatched \/ Waiting(k) => job[k].exit = "none" /\ ~job[k].isBreak
           /\ k <= main.dispatched /\ ~Waiting(k) =>
                job[k].isBreak \/ k \in Skipped \/ job[k].exit # "none"
  BY Constants DEF IInv, TypeOK, RunInv
<1> DEFINE W(k) == k \in InQueue(input') \/ \E u \in Workers : k \in Held(u)'
           Right(k) ==
             /\ k > main'.dispatched \/ W(k) => job'[k].exit = "none" /\ ~job'[k].isBreak
             /\ k <= main'.dispatched /\ ~W(k) =>
                  job'[k].isBreak \/ k \in Skipped \/ job'[k].exit # "none"
<1>1. ASSUME \A k \in Jobs : Right(k) PROVE RunInv'
  BY <1>1 DEF RunInv, Waiting, InQueue
<1>2. ASSUME Stays, NEW k \in Jobs PROVE Right(k)
  BY <1>0, <1>2 DEF Stays, Waiting
<1>3. ASSUME NEW j \in Jobs, Put(j), NEW k \in Jobs PROVE Right(k)
  <2>1. k > main.dispatched <=> k > main'.dispatched \/ k = j
    BY <1>0, <1>3 DEF Put
  <2>2. k <= main.dispatched <=> k <= main'.dispatched /\ k # j
    BY <1>0, <1>3 DEF Put
  <2> QED
    BY <1>0, <1>3, <2>1, <2>2 DEF Put, Waiting
<1>4. ASSUME NEW j \in Jobs, NEW t \in Workers, Taken(t, j), NEW k \in Jobs PROVE Right(k)
  BY <1>0, <1>4 DEF Taken, SameHeld, Waiting
<1>5. ASSUME NEW j \in Jobs, Out(j), NEW k \in Jobs PROVE Right(k)
  BY <1>0, <1>5 DEF Out, Waiting
<1>6. ASSUME NEW t \in Workers, BackStep(t), worker[t].job \in Jobs,
             Back(t, worker[t].job), NEW k \in Jobs
      PROVE  Right(k)
  <2> DEFINE j == worker[t].job
  <2>1. CASE k # j
    BY <1>0, <1>6, <2>1 DEF Back, SameHeld, Waiting
  <2>2. CASE k = j
    <3>1. /\ j \notin InQueue(input)
          /\ \A u \in Workers \ {t} : j \notin Held(u)
          /\ j <= main.dispatched
      BY <1>6 DEF Back, IInv, PlaceInv, JobAtOnePlace, DispatchedInv
    <3>2. ~W(j) /\ ~(j > main'.dispatched)
      BY <1>0, <1>6, <3>1 DEF Back, SameHeld
    <3>3. job'[j].isBreak \/ j \in Skipped \/ job'[j].exit \in Codes
      BY <1>6, BackJob
    <3> QED
      BY <2>2, <3>2, <3>3 DEF Codes
  <2> QED
    BY <2>1, <2>2
<1> HIDE DEF Right
<1> QED
  BY <1>1, <1>2, <1>3, <1>4, <1>5, <1>6, StepMoves DEF Moves

-----------------------------------------------------------------------------
(* The main thread *)

\* A thread that is over stays over.
LEMMA OverStep ==
  ASSUME IInv, [Next]_vars, NEW t \in Workers, worker[t].pc \in {"ended", "died"}
  PROVE  worker'[t] = worker[t]
<1>0. worker \in [Workers -> WorkerType]
  BY TypeParts DEF IInv
<1>1. CASE UNCHANGED worker
  BY <1>1
<1>2. ASSUME NEW u \in Workers, GetJob(u) \/ GetBreak(u) \/ Launch(u) \/ LaunchFails(u)
      PROVE  worker'[t] = worker[t]
  BY <1>0, <1>2 DEF GetJob, GetBreak, Launch, LaunchFails
<1>3. ASSUME NEW u \in Workers, BackStep(u) PROVE worker'[t] = worker[t]
  <2>1. HandBack(u) /\ worker[u].pc \in {"check", "run"}
    BY <1>3, BackMoves
  <2> QED
    BY <1>0, <2>1 DEF HandBack
<1> QED
  BY <1>1, <1>2, <1>3
  DEF Next, Main, Worker, BackStep, vars, Dispatch, DispatchBreak, AllDispatched, Collect,
      AllCollected, Join, Return, Interrupt

\* A step that is not Collect leaves the counters and the results alone, and
\* a main thread that has raised stays there.
LEMMA OthersKeepCounts ==
  ASSUME IInv, [Next]_vars, ~Collect
  PROVE  /\ main'.collected = main.collected /\ main'.count = main.count
         /\ main'.results = main.results
         /\ main.pc = "raised" => main'.pc = "raised"
<1>0. main \in MainType
  BY TypeParts DEF IInv
<1>1. CASE Dispatch \/ DispatchBreak
  BY <1>0, <1>1 DEF Dispatch, DispatchBreak, MainType
<1>2. CASE Quiet
  BY <1>0, <1>2 DEF Quiet, AllDispatched, AllCollected, Join, Return, Interrupt, MainType
<1>3. CASE UNCHANGED main
  BY <1>3
<1>4. ASSUME NEW t \in Workers, BackStep(t) PROVE UNCHANGED main
  BY <1>4, BackMoves
<1> QED
  BY <1>1, <1>2, <1>3, <1>4
  DEF Next, Main, Worker, BackStep, vars, Quiet, GetJob, GetBreak, Launch, LaunchFails

\* Every step keeps what is known of where the main thread is.
LEMMA MainStep ==
  ASSUME IInv, [Next]_vars
  PROVE  MainInv'
<1>0. main \in MainType /\ MainInv
  BY TypeParts DEF IInv
<1>1. \A t \in main.joined : t \in Workers /\ worker'[t].pc \in {"ended", "died"}
  BY <1>0, OverStep DEF MainInv, MainType
<1>2. CASE UNCHANGED main
  BY <1>0, <1>1, <1>2 DEF MainInv
<1>3. CASE Dispatch \/ DispatchBreak
  BY <1>0, <1>1, <1>3 DEF MainInv, Dispatch, DispatchBreak, MainType
<1>4. CASE AllDispatched \/ AllCollected
  BY <1>0, <1>1, <1>4 DEF MainInv, AllDispatched, AllCollected, MainType
<1>5. CASE Collect
  BY <1>0, <1>1, <1>5, CollectMain DEF MainInv
<1>6. ASSUME NEW t \in Workers, Join(t) PROVE MainInv'
  <2>1. /\ main.pc = "join" /\ main' = [main EXCEPT !.joined = @ \cup {t}]
        /\ worker'[t].pc \in {"ended", "died"}
    BY <1>6 DEF Join
  <2> QED
    BY <1>0, <1>1, <2>1 DEF MainInv, MainType
<1>7. CASE Return
  <2>1. /\ main.pc = "join" /\ main.joined = Workers
        /\ main' = [main EXCEPT !.pc = "returned", !.exit = ExitCode(main.count)]
    BY <1>7 DEF Return
  <2>2. /\ main'.pc = "returned" /\ main'.exit = ExitCode(main.count)
        /\ main'.count = main.count /\ main'.joined = main.joined
        /\ main'.dispatched = main.dispatched /\ main'.breaks = main.breaks
        /\ main'.collected = main.collected
    BY <1>0, <2>1 DEF MainType
  <2> QED
    BY <1>0, <1>1, <2>1, <2>2 DEF MainInv
<1>8. ASSUME NEW t \in Workers, BackStep(t) PROVE UNCHANGED main
  BY <1>8, BackMoves
<1> QED
  BY <1>2, <1>3, <1>4, <1>5, <1>6, <1>7, <1>8
  DEF Next, Main, Worker, BackStep, vars, GetJob, GetBreak, Launch, LaunchFails, Interrupt

\* Only Collect changes which jobs are collected and what is known of them.
LEMMA CollectedKept ==
  ASSUME IInv, [Next]_vars, ~Collect
  PROVE  /\ Collected' = Collected
         /\ \A j \in Collected : job'[j] = job[j] /\ Status(j)' = Status(j)
                                 /\ Entry(j)' = Entry(j)
         /\ Good' = Good
<1>1. \A k \in Jobs : /\ Pending(k)' <=> Pending(k)
                      /\ ~Pending(k) => job'[k] = job[k]
  BY StepMoves, MovesPending
<1>2. Collected' = Collected
  BY <1>1 DEF Collected
<1>3. \A j \in Collected : job'[j] = job[j]
  BY <1>1 DEF Collected
<1>4. \A j \in Collected : Status(j)' = Status(j)
  BY <1>3 DEF Status
<1>5. \A j \in Collected : Entry(j)' = Entry(j)
  BY <1>3, <1>4 DEF Entry
<1>6. Good' = Good
  BY <1>2, <1>3, <1>4 DEF Good
<1> QED
  BY <1>2, <1>3, <1>4, <1>5, <1>6

\* Collect adds the job it takes.
LEMMA CollectedGrows ==
  ASSUME IInv, Collect
  PROVE  LET j == Head(output) IN
         /\ j \in Jobs /\ j \notin Collected /\ Collected' = Collected \cup {j}
         /\ job' = job
         /\ \A k \in Jobs : Status(k)' = Status(k) /\ Entry(k)' = Entry(k)
         /\ Good' = IF ~job[j].isBreak /\ Status(j) \in {"PASS", "SKIP"}
                    THEN Good \cup {j} ELSE Good
<1>1. PICK j \in Jobs : j = Head(output) /\ Out(j)
  BY CollectMoves, PlacesAreKnown
<1>2. Pending(j) /\ ~Pending(j)' /\ \A k \in Jobs \ {j} : Pending(k)' <=> Pending(k)
  BY <1>1, OutPending
<1>3. j \notin Collected /\ Collected' = Collected \cup {j}
  BY <1>1, <1>2 DEF Collected
<1>4. job' = job
  BY <1>1 DEF Out
<1>5. \A k \in Jobs : Status(k)' = Status(k)
  BY <1>4 DEF Status
<1>6. \A k \in Jobs : Entry(k)' = Entry(k)
  BY <1>4, <1>5 DEF Entry
<1>7. Good' = {k \in Collected' : ~job'[k].isBreak /\ Status(k)' \in {"PASS", "SKIP"}}
  BY DEF Good
<1>8. Collected \subseteq Jobs
  BY DEF Collected
<1>9. Good' = IF ~job[j].isBreak /\ Status(j) \in {"PASS", "SKIP"}
              THEN Good \cup {j} ELSE Good
  BY <1>1, <1>3, <1>4, <1>5, <1>7, <1>8 DEF Good
<1> QED
  BY <1>1, <1>3, <1>4, <1>5, <1>6, <1>9

\* The sets of jobs that are counted are finite.
LEMMA SetsFinite ==
  /\ Collected \subseteq Jobs /\ Good \subseteq Collected
  /\ IsFiniteSet(Collected) /\ IsFiniteSet(Good)
<1>1. Collected \subseteq Jobs /\ Good \subseteq Collected
  BY DEF Collected, Good
<1> QED
  BY <1>1, Constants, FS_Subset

\* Every step keeps the counters the sizes of the sets of jobs.
LEMMA CountStep ==
  ASSUME IInv, [Next]_vars
  PROVE  CountInv'
<1>0. CountInv /\ main \in MainType
  BY TypeParts DEF IInv
<1>1. CASE ~Collect
  BY <1>0, <1>1, CollectedKept, OthersKeepCounts DEF CountInv
<1>2. CASE Collect
  <2> DEFINE j == Head(output)
             b == job[j].isBreak
  <2>1. /\ j \in Jobs /\ j \notin Collected /\ Collected' = Collected \cup {j}
        /\ Good' = IF ~b /\ Status(j) \in {"PASS", "SKIP"} THEN Good \cup {j} ELSE Good
    BY <1>2, CollectedGrows
  <2>2. /\ main'.collected = main.collected + 1
        /\ main'.count = IF b THEN main.count
                         ELSE [main.count EXCEPT ![Status(j)] = @ + 1]
    BY <1>2, CollectMain
  <2>3. Status(j) \in Statuses
    BY <2>1, StatusType
  <2>4. /\ main.count \in [Statuses -> 0..NumJobs] /\ main.collected \in Nat
        /\ \A s \in Statuses : main.count[s] \in Nat
    BY <1>0, Constants DEF MainType
  <2> HIDE DEF j, b
  <2>5. Cardinality(Collected') = main'.collected
    BY <1>0, <2>1, <2>2, SetsFinite, FS_AddElement DEF CountInv
  <2>6. Cardinality(Good') = main'.count["PASS"] + main'.count["SKIP"]
    <3>1. {"PASS", "SKIP"} \subseteq Statuses
      BY DEF Statuses
    <3>2. CASE b \/ Status(j) \notin {"PASS", "SKIP"}
      <4>1. main'.count["PASS"] = main.count["PASS"] /\ main'.count["SKIP"] = main.count["SKIP"]
        BY <2>2, <2>3, <2>4, <3>1, <3>2
      <4> QED
        BY <1>0, <2>1, <3>2, <4>1 DEF CountInv
    <3>3. CASE ~b /\ Status(j) \in {"PASS", "SKIP"}
      <4>1. Cardinality(Good') = Cardinality(Good) + 1
        BY <2>1, <3>3, SetsFinite, FS_AddElement
      <4>2. main'.count["PASS"] + main'.count["SKIP"]
              = main.count["PASS"] + main.count["SKIP"] + 1
        <5>1. CASE Status(j) = "PASS"
          BY <2>2, <2>4, <3>1, <3>3, <5>1
        <5>2. CASE Status(j) = "SKIP"
          BY <2>2, <2>4, <3>1, <3>3, <5>2
        <5> QED
          BY <3>3, <5>1, <5>2
      <4> QED
        BY <1>0, <4>1, <4>2 DEF CountInv
    <3> QED
      BY <3>2, <3>3
  <2>7. \A s \in Statuses : main'.count[s] <= main'.collected
    BY <1>0, <2>2, <2>3, <2>4 DEF CountInv
  <2> QED
    BY <2>5, <2>6, <2>7 DEF CountInv
<1> QED
  BY <1>1, <1>2

\* Every step keeps the results file in line with the jobs.
LEMMA ResultStep ==
  ASSUME IInv, [Next]_vars
  PROVE  ResultInv'
<1>0. /\ \A r \in main.results :
           r[1] \in Collected /\ ~job[r[1]].isBreak /\ r = <<r[1], Entry(r[1])>>
      /\ main.pc # "raised" =>
           \A j \in Collected : ~job[j].isBreak => <<j, Entry(j)>> \in main.results
  BY DEF IInv, ResultInv
<1> DEFINE R == /\ \A r \in main'.results :
                     r[1] \in Collected' /\ ~job'[r[1]].isBreak /\ r = <<r[1], Entry(r[1])'>>
                /\ main'.pc # "raised" =>
                     \A j \in Collected' : ~job'[j].isBreak => <<j, Entry(j)'>> \in main'.results
<1>1. ASSUME ~Collect PROVE R
  <2>1. /\ Collected' = Collected
        /\ \A j \in Collected : job'[j] = job[j] /\ Entry(j)' = Entry(j)
    BY <1>1, CollectedKept
  <2>2. main'.results = main.results /\ (main.pc = "raised" => main'.pc = "raised")
    BY <1>1, OthersKeepCounts
  <2>3. ASSUME NEW r \in main'.results
        PROVE  r[1] \in Collected' /\ ~job'[r[1]].isBreak /\ r = <<r[1], Entry(r[1])'>>
    <3>1. r[1] \in Collected /\ ~job[r[1]].isBreak /\ r = <<r[1], Entry(r[1])>>
      BY <1>0, <2>2
    <3>2. job'[r[1]] = job[r[1]] /\ Entry(r[1])' = Entry(r[1])
      BY <2>1, <3>1
    <3> QED
      BY <2>1, <3>1, <3>2
  <2>4. ASSUME NEW j \in Collected, main'.pc # "raised", ~job'[j].isBreak
        PROVE  <<j, Entry(j)'>> \in main'.results
    <3>1. main.pc # "raised" /\ ~job[j].isBreak /\ Entry(j)' = Entry(j)
      BY <2>1, <2>2, <2>4
    <3> QED
      BY <1>0, <2>2, <3>1
  <2> QED
    BY <2>1, <2>3, <2>4
<1>2. ASSUME Collect PROVE R
  <2> DEFINE j == Head(output)
  <2>1. /\ j \in Jobs /\ j \notin Collected /\ Collected' = Collected \cup {j}
        /\ job' = job /\ \A k \in Jobs : Entry(k)' = Entry(k)
    BY <1>2, CollectedGrows
  <2>2. /\ main'.pc = IF ~job[j].isBreak /\ CannotOpen(j) THEN "raised" ELSE "collect"
        /\ main.pc = "collect"
        /\ main'.results = IF job[j].isBreak \/ CannotOpen(j) THEN main.results
                           ELSE main.results \cup {<<j, Entry(j)>>}
    BY <1>2, CollectMain
  <2> HIDE DEF j
  <2>3. \A k \in Collected : k \in Jobs
    BY SetsFinite
  <2>4. \A r \in main'.results :
          r[1] \in Collected' /\ ~job'[r[1]].isBreak /\ r = <<r[1], Entry(r[1])'>>
    BY <1>0, <2>1, <2>2, <2>3
  <2>5. main'.pc # "raised" =>
          \A k \in Collected' : ~job'[k].isBreak => <<k, Entry(k)'>> \in main'.results
    BY <1>0, <2>1, <2>2, <2>3
  <2> QED
    BY <2>4, <2>5
<1>3. R
  BY <1>1, <1>2
<1> QED
  BY <1>3 DEF ResultInv

-----------------------------------------------------------------------------
(* The invariant and what follows from it *)

\* The invariant holds before the first job is dispatched.
LEMMA InitInv ==
  ASSUME Init
  PROVE  IInv
<1>0. /\ input = << >> /\ output = << >> /\ Len(input) = 0
      /\ main.pc = "dispatch" /\ main.dispatched = 0 /\ main.breaks = 0
      /\ main.collected = 0 /\ main.count = [s \in Statuses |-> 0]
      /\ main.results = {} /\ main.joined = {} /\ main.exit = "none"
      /\ \A t \in Workers : worker[t].pc = "get" /\ worker[t].job = NoJob
      /\ \A j \in Jobs : /\ ~job[j].isBreak /\ job[j].returncode = "0"
                         /\ job[j].exit = "none" /\ job[j].file = "none"
  BY DEF Init
<1>1. /\ Ended = {} /\ Cardinality(Ended) = 0
      /\ InQueue(input) = {} /\ InQueue(output) = {} /\ \A t \in Workers : Held(t) = {}
  <2>1. Ended = {}
    BY <1>0 DEF Ended
  <2>2. InQueue(input) = {} /\ InQueue(output) = {}
    BY <1>0 DEF InQueue
  <2>3. \A t \in Workers : Held(t) = {}
    BY <1>0, Constants DEF Held
  <2> QED
    BY <2>1, <2>2, <2>3, FS_EmptySet
<1>2. Collected = {} /\ Good = {}
  BY <1>0, Constants DEF Collected, Good, Pending, Jobs
<1>3. TypeOK
  <2>1. worker \in [Workers -> WorkerType]
    BY DEF Init, WorkerType
  <2>2. job \in [Jobs -> JobType]
    BY DEF Init, JobType, Codes, Files
  <2>3. main \in MainType
    BY Constants DEF Init, MainType, Statuses
  <2>4. input \in Seq(Entries) /\ output \in Seq(Jobs)
    BY <1>0, EmptySeq
  <2> QED
    BY <2>1, <2>2, <2>3, <2>4, TypeParts DEF Init
<1>4. WorkerInv
  BY <1>0 DEF WorkerInv
<1>5. PlaceInv
  BY <1>0, <1>1 DEF PlaceInv, JobAtOnePlace, DispatchedInv
<1>6. BreakInv
  BY <1>0, <1>1 DEF BreakInv
<1>7. ProcessInv
  BY <1>0 DEF ProcessInv
<1>8. RunInv
  BY <1>0, Constants DEF RunInv, Jobs
<1>9. MainInv
  BY <1>0 DEF MainInv
<1>10. CountInv
  BY <1>0, <1>2, FS_EmptySet DEF CountInv, Statuses
<1>11. ResultInv
  BY <1>0, <1>2 DEF ResultInv
<1> QED
  BY <1>3, <1>4, <1>5, <1>6, <1>7, <1>8, <1>9, <1>10, <1>11 DEF IInv

\* Every step keeps the invariant.
LEMMA StepInv ==
  ASSUME IInv, [Next]_vars
  PROVE  IInv'
<1>1. PlaceInv'
  BY StepMoves, MovesKeepPlaces
<1> QED
  BY <1>1, TypeStep, WorkerStep, BreakStep, ProcessStep, RunStep, MainStep, CountStep,
     ResultStep
  DEF IInv

\* The inductive invariant holds in every reachable state of the runner,
\* whatever the jobs do, whenever a signal arrives and whichever workers die.
THEOREM RunnerInv == Spec => []IInv
<1>1. Init => IInv
  BY InitInv
<1>2. IInv /\ [Next]_vars => IInv'
  BY StepInv
<1> QED
  BY <1>1, <1>2, PTL DEF Spec

\* Types are kept for every number of jobs and workers.
THEOREM TypeCorrect == Spec => []TypeOK
<1>1. IInv => TypeOK
  BY DEF IInv
<1> QED
  BY <1>1, RunnerInv, PTL

\* Main has all the jobs once it has counted as many as there are.
LEMMA AllAreCollected ==
  ASSUME IInv, main.collected = NumJobs
  PROVE  Collected = Jobs
  BY SetsFinite, Constants, FS_Subset DEF IInv, CountInv

\* Once it has them, no job is anywhere, and every thread that is over was
\* ended by a break job.
LEMMA NothingLeft ==
  ASSUME IInv, main.collected = NumJobs
  PROVE  /\ InQueue(input) = {} /\ InQueue(output) = {}
         /\ \A t \in Workers : worker[t].pc \in {"get", "ended"}
<1>1. \A j \in Jobs : ~Pending(j)
  BY AllAreCollected DEF Collected
<1>2. InQueue(input) \subseteq Jobs /\ InQueue(output) \subseteq Jobs
  BY DEF InQueue
<1>3. \A t \in Workers : Held(t) = {}
  BY <1>1 DEF Pending, Held
<1>4. \A t \in Workers : worker[t].pc \notin {"check", "run", "died"}
  BY <1>3, HoldsJob
<1>5. worker \in [Workers -> WorkerType]
  BY TypeParts DEF IInv
<1> QED
  BY <1>1, <1>2, <1>4, <1>5 DEF Pending, WorkerType

\* A job is in one queue, or with one worker, or not handed out.
THEOREM JobAtOnePlaceHolds == Spec => []JobAtOnePlace
<1>1. IInv => JobAtOnePlace
  BY DEF IInv, PlaceInv
<1> QED
  BY <1>1, RunnerInv, PTL

\* A worker is ended only when the work is handed out, and nothing is left in
\* the queues when main returns.
THEOREM BreaksLastHolds == Spec => []BreaksLast
<1>1. ASSUME IInv PROVE BreaksLast
  <2> DEFINE n == main.breaks - Cardinality(Ended)
  <2>0. /\ input \in Seq(Entries) /\ Len(input) \in Nat /\ output \in Seq(Jobs)
        /\ main.breaks \in Nat /\ main.breaks <= Cardinality(Workers)
        /\ Cardinality(Ended) \in Nat /\ Cardinality(Workers) \in Nat
        /\ DOMAIN input = 1..Len(input)
    BY <1>1, TypeParts, EndedNat, Constants, LenProperties DEF IInv, MainType
  <2>1. /\ n \in 0..Len(input)
        /\ \A i \in 1..Len(input) : input[i] = Break <=> i > Len(input) - n
        /\ Ended # {} => Len(input) = n
    BY <1>1 DEF IInv, BreakInv
  <2>2. ASSUME NEW t \in Workers, worker[t].pc = "ended" PROVE InQueue(input) = {}
    <3>1. Ended # {}
      BY <2>2 DEF Ended
    <3>2. \A i \in 1..Len(input) : input[i] = Break
      BY <2>0, <2>1, <3>1
    <3> QED
      BY <2>0, <3>2, Constants DEF InQueue
  <2>3. ASSUME main.pc = "returned" PROVE input = << >> /\ output = << >>
    <3>1. /\ main.collected = NumJobs /\ main.joined = Workers
          /\ \A t \in Workers : worker[t].pc \in {"ended", "died"}
      BY <1>1, <2>3 DEF IInv, MainInv
    <3>2. /\ InQueue(input) = {} /\ InQueue(output) = {}
          /\ \A t \in Workers : worker[t].pc \in {"get", "ended"}
      BY <1>1, <3>1, NothingLeft
    <3>3. Ended = Workers
      BY <3>1, <3>2 DEF Ended
    <3>4. n = 0
      BY <2>0, <2>1, <3>3
    <3>5. Len(input) = 0
      <4>1. SUFFICES ASSUME Len(input) # 0 PROVE FALSE
        OBVIOUS
      <4>2. 1 \in 1..Len(input)
        BY <2>0, <4>1
      <4> HIDE DEF n
      <4>3. input[1] # Break /\ input[1] \in Entries
        BY <2>0, <2>1, <3>4, <4>2, ElementOfSeq
      <4> QED
        BY <2>0, <3>2, <4>2, <4>3 DEF InQueue, Entries
    <3>6. Len(output) = 0
      <4>1. SUFFICES ASSUME Len(output) # 0 PROVE FALSE
        OBVIOUS
      <4>2. 1 \in DOMAIN output /\ output[1] \in Jobs
        BY <2>0, <4>1, LenProperties, ElementOfSeq
      <4> QED
        BY <3>2, <4>2 DEF InQueue
    <3> QED
      BY <2>0, <3>5, <3>6, EmptySeq
  <2> QED
    BY <2>2, <2>3 DEF BreaksLast
<1> QED
  BY <1>1, RunnerInv, PTL

\* A job that main has taken has run, or was skipped or broken off.
LEMMA CollectedHasRun ==
  ASSUME IInv, NEW j \in Collected
  PROVE  j \in Jobs /\ (job[j].isBreak \/ j \in Skipped \/ job[j].exit # "none")
<1>1. j \in Jobs /\ ~Waiting(j) /\ ~(j > main.dispatched)
  BY DEF Collected, Pending, Waiting
<1>2. j <= main.dispatched
  <2>1. j \in Nat /\ main.dispatched \in Nat
    BY <1>1, Constants DEF IInv, TypeOK
  <2> QED
    BY <1>1, <2>1
<1> QED
  BY <1>1, <1>2 DEF IInv, RunInv

\* The exit code is 0 exactly when all jobs are counted as passed or skipped.
LEMMA ExitCodeRight ==
  ASSUME IInv
  PROVE  (ExitCode(main.count) = "0" <=> Good = Jobs) /\ ExitCode(main.count) \in {"0", "1"}
<1>1. Cardinality(Good) = main.count["PASS"] + main.count["SKIP"]
  BY DEF IInv, CountInv
<1>2. Cardinality(Good) = NumJobs <=> Good = Jobs
  BY SetsFinite, Constants, FS_Subset
<1> QED
  BY <1>1, <1>2 DEF ExitCode

\* Exit code 0 means that every job was skipped or ran and ended with 0, also
\* when a signal breaks jobs off.
THEOREM SuccessMeansPassedHolds == Spec => []SuccessMeansPassed
<1>1. ASSUME IInv PROVE SuccessMeansPassed
  <2>1. SUFFICES ASSUME main.exit = "0", NEW j \in Jobs
                 PROVE  ~job[j].isBreak /\ (j \in Skipped \/ job[j].exit = "0")
    BY DEF SuccessMeansPassed
  <2>2. ExitCode(main.count) = "0"
    BY <1>1, <2>1 DEF IInv, MainInv
  <2>3. j \in Good
    BY <1>1, <2>2, ExitCodeRight
  <2>4. j \in Collected /\ ~job[j].isBreak /\ Status(j) \in {"PASS", "SKIP"}
    BY <2>3 DEF Good
  <2>5. CASE j \notin Skipped
    <3>1. job[j].returncode = "0"
      BY <2>4, <2>5 DEF Status
    <3>2. job[j].exit # "none"
      BY <1>1, <2>4, <2>5, CollectedHasRun
    <3>3. job[j].returncode \in {job[j].exit, "1"}
      BY <1>1, <3>2 DEF IInv, ProcessInv
    <3> QED
      BY <2>4, <3>1, <3>3
  <2> QED
    BY <2>4, <2>5
<1> QED
  BY <1>1, RunnerInv, PTL

\* The entry of a job that is counted as passed or skipped says so, if there is
\* one: a suite that returned 0 has written PASS or nothing.
LEMMA EntryPasses ==
  ASSUME IInv, NEW j \in Collected, ~job[j].isBreak, Status(j) \in {"PASS", "SKIP"}, Entry(j) # "none"
  PROVE  Entry(j) = IF j \in Skipped THEN "SKIP" ELSE "PASS"
<1>1. j \in Jobs
  BY CollectedHasRun
<1>2. CASE j \in Skipped
  BY <1>2 DEF Entry, Status
<1>3. CASE j \notin Skipped
  <2>1. /\ job[j].exit # "none"
        /\ job[j].returncode \in {job[j].exit, "1"}
        /\ job[j].file \in IF j \in Examples THEN {"none"} ELSE FilesOf(job[j].exit)
    BY <1>1, <1>3, CollectedHasRun DEF IInv, ProcessInv
  <2>2. Status(j) = "PASS" /\ job[j].returncode = "0"
    BY <1>3 DEF Status
  <2>3. CASE j \in Examples
    BY <1>3, <2>2, <2>3 DEF Entry
  <2>4. CASE j \notin Examples
    <3>1. Entry(j) = job[j].file
      BY <2>2, <2>4 DEF Entry
    <3>2. job[j].exit = "0" /\ job[j].file \in FilesOf("0")
      BY <2>1, <2>2, <2>4
    <3> QED
      BY <1>3, <3>1, <3>2 DEF FilesOf
  <2> QED
    BY <2>3, <2>4
<1> QED
  BY <1>2, <1>3

\* The results file agrees with the run: one entry for each job that was not
\* broken off, and no entry but PASS and SKIP after a success.
THEOREM ResultsAgreeHolds == Spec => []ResultsAgree
<1>1. ASSUME IInv PROVE ResultsAgree
  <2>0. /\ \A r \in main.results :
             r[1] \in Collected /\ ~job[r[1]].isBreak /\ r = <<r[1], Entry(r[1])>>
        /\ main.pc # "raised" =>
             \A j \in Collected : ~job[j].isBreak => <<j, Entry(j)>> \in main.results
    BY <1>1 DEF IInv, ResultInv
  <2>1. ASSUME NEW r \in main.results, NEW s \in main.results, r[1] = s[1]
        PROVE  r = s
    <3>1. r = <<r[1], Entry(r[1])>> /\ s = <<s[1], Entry(s[1])>>
      BY <2>0
    <3> QED
      BY <2>1, <3>1
  <2>2. ASSUME main.pc = "returned", NEW j \in Jobs
        PROVE  job[j].isBreak <=> \A r \in main.results : r[1] # j
    <3>1. j \in Collected
      BY <1>1, <2>2, AllAreCollected DEF IInv, MainInv
    <3>2. job[j].isBreak => \A r \in main.results : r[1] # j
      BY <2>0
    <3>3. ASSUME ~job[j].isBreak PROVE \E r \in main.results : r[1] = j
      <4>1. <<j, Entry(j)>> \in main.results
        BY <2>0, <2>2, <3>1, <3>3
      <4> QED
        BY <4>1
    <3>4. job[j].isBreak \in BOOLEAN
      BY <1>1, TypeParts DEF IInv, JobType
    <3> QED
      BY <3>2, <3>3, <3>4
  <2>3. ASSUME main.exit = "0", NEW r \in main.results
        PROVE  r[2] = IF r[1] \in Skipped THEN "SKIP" ELSE "PASS"
    <3>1. r[1] \in Collected /\ ~job[r[1]].isBreak /\ r[2] = Entry(r[1])
      BY <2>0
    <3>2. r[2] # "none" /\ r[1] \in Jobs
      <4>1. main.results \subseteq Jobs \X (Statuses \cup {"partial"})
        BY <1>1, TypeParts DEF IInv, MainType
      <4> QED
        BY <4>1 DEF Statuses
    <3>3. ExitCode(main.count) = "0"
      BY <1>1, <2>3 DEF IInv, MainInv
    <3>4. r[1] \in Good
      BY <1>1, <3>2, <3>3, ExitCodeRight
    <3>5. Status(r[1]) \in {"PASS", "SKIP"}
      BY <3>4 DEF Good
    <3> QED
      BY <1>1, <3>1, <3>2, <3>5, EntryPasses
  <2> QED
    BY <2>1, <2>2, <2>3 DEF ResultsAgree
<1> QED
  BY <1>1, RunnerInv, PTL

-----------------------------------------------------------------------------
(* TestRunner implements TestReport *)

Outcomes == Statuses \cup {"interrupted"}
AllOutcomes == [j \in Jobs |-> Outcome(j)]

\* A step that is not Collect keeps every job's outcome.
LEMMA OutcomeKept ==
  ASSUME IInv, [Next]_vars, ~Collect
  PROVE  AllOutcomes' = AllOutcomes
<1>1. \A k \in Jobs : /\ Pending(k)' <=> Pending(k)
                      /\ ~Pending(k) => job'[k] = job[k]
  BY StepMoves, MovesPending
<1>2. \A k \in Jobs : ~Pending(k) => Status(k)' = Status(k)
  BY <1>1 DEF Status
<1>3. \A k \in Jobs : Outcome(k)' = Outcome(k)
  BY <1>1, <1>2 DEF Outcome
<1> QED
  BY <1>3 DEF AllOutcomes

\* Collect reports the job it takes.
LEMMA CollectReports ==
  ASSUME IInv, Collect
  PROVE  \E j \in Jobs, o \in Outcomes :
           /\ AllOutcomes[j] = "pending" /\ main.exit = "none" /\ main'.exit = main.exit
           /\ AllOutcomes' = [AllOutcomes EXCEPT ![j] = o]
<1>1. PICK j \in Jobs : j = Head(output) /\ Out(j)
  BY CollectMoves, PlacesAreKnown
<1>2. Pending(j) /\ ~Pending(j)' /\ \A k \in Jobs \ {j} : Pending(k)' <=> Pending(k)
  BY <1>1, OutPending
<1>3. job' = job
  BY <1>1 DEF Out
<1>4. \A k \in Jobs : Status(k)' = Status(k)
  BY <1>3 DEF Status
<1>5. \A k \in Jobs \ {j} : Outcome(k)' = Outcome(k)
  BY <1>2, <1>3, <1>4 DEF Outcome
<1>6. Outcome(j) = "pending" /\ Outcome(j)' \in Outcomes
  BY <1>2, <1>3, <1>4, StatusType DEF Outcome, Outcomes
<1>7. AllOutcomes' = [AllOutcomes EXCEPT ![j] = Outcome(j)']
  BY <1>5 DEF AllOutcomes
<1>8. AllOutcomes[j] = "pending"
  BY <1>6 DEF AllOutcomes
<1>9. main.exit = "none" /\ main'.exit = main.exit
  BY CollectMain DEF IInv, MainInv
<1> QED
  BY <1>6, <1>7, <1>8, <1>9

\* When main returns, all outcomes are known and the exit code fits them.
LEMMA ReturnFinishes ==
  ASSUME IInv, Return
  PROVE  /\ main.exit = "none" /\ \A j \in Jobs : AllOutcomes[j] # "pending"
         /\ main'.exit = IF \A j \in Jobs : AllOutcomes[j] \in {"PASS", "SKIP"}
                         THEN "0" ELSE "1"
<1>1. main.pc = "join" /\ main \in MainType /\ main.exit = "none"
  BY TypeParts DEF Return, IInv, MainInv
<1>2. main'.exit = ExitCode(main.count)
  BY <1>1 DEF Return, MainType
<1>3. Collected = Jobs
  BY <1>1, AllAreCollected DEF IInv, MainInv
<1>4. \A j \in Jobs : ~Pending(j)
  BY <1>3 DEF Collected
<1>5. \A j \in Jobs : AllOutcomes[j] = IF job[j].isBreak THEN "interrupted" ELSE Status(j)
  BY <1>4 DEF AllOutcomes, Outcome
<1>6. \A j \in Jobs : AllOutcomes[j] # "pending"
  BY <1>5, StatusType DEF Statuses
<1>7. \A j \in Jobs : AllOutcomes[j] \in {"PASS", "SKIP"} <=> j \in Good
  BY <1>3, <1>5 DEF Good
<1>8. Good = Jobs <=> \A j \in Jobs : AllOutcomes[j] \in {"PASS", "SKIP"}
  BY <1>7, SetsFinite
<1> QED
  BY <1>1, <1>2, <1>6, <1>8, ExitCodeRight

\* No step but Return sets the exit code.
LEMMA ExitKept ==
  ASSUME IInv, [Next]_vars, ~Return
  PROVE  main'.exit = main.exit
<1>0. main \in MainType
  BY TypeParts DEF IInv
<1>1. CASE Collect
  BY <1>1, CollectMain
<1>2. CASE Dispatch \/ DispatchBreak \/ AllDispatched \/ AllCollected
  BY <1>0, <1>2 DEF Dispatch, DispatchBreak, AllDispatched, AllCollected, MainType
<1>3. ASSUME NEW t \in Workers, Join(t) PROVE main'.exit = main.exit
  BY <1>0, <1>3 DEF Join, MainType
<1>4. ASSUME NEW t \in Workers, BackStep(t) PROVE UNCHANGED main
  BY <1>4, BackMoves
<1> QED
  BY <1>1, <1>2, <1>3, <1>4
  DEF Next, Main, Worker, BackStep, vars, Interrupt, GetJob, GetBreak, Launch, LaunchFails

\* Threads, queues, counters and signals implement the abstract promise: each
\* job gets one outcome that never changes, and the exit code is the one the
\* outcomes call for.
THEOREM TestReportImplemented == Spec => ImplementsTestReport
<1>1. ASSUME Init PROVE Report!Init
  <2>1. main.dispatched = 0 /\ main.exit = "none"
    BY <1>1 DEF Init
  <2>2. \A j \in Jobs : Pending(j)
    BY <2>1, Constants DEF Pending, Jobs
  <2> QED
    BY <2>1, <2>2 DEF Report!Init, Outcome
<1>2. ASSUME IInv, [Next]_vars
      PROVE  Report!Next \/ (AllOutcomes' = AllOutcomes /\ main'.exit = main.exit)
  <2>1. CASE Collect
    <3>1. PICK j \in Jobs, o \in Outcomes :
            /\ AllOutcomes[j] = "pending" /\ main.exit = "none" /\ main'.exit = main.exit
            /\ AllOutcomes' = [AllOutcomes EXCEPT ![j] = o]
      BY <1>2, <2>1, CollectReports
    <3>2. Report!Report(j, o)
      BY <3>1 DEF Report!Report, AllOutcomes
    <3> QED
      BY <3>2 DEF Report!Next, Outcomes
  <2>2. CASE Return
    <3>1. AllOutcomes' = AllOutcomes
      BY <1>2, <2>2, OutcomeKept DEF Return, Collect
    <3>2. Report!Finish
      BY <1>2, <2>2, <3>1, ReturnFinishes DEF Report!Finish, AllOutcomes
    <3> QED
      BY <3>2 DEF Report!Next
  <2>3. CASE ~Collect /\ ~Return
    BY <1>2, <2>3, OutcomeKept, ExitKept
  <2> QED
    BY <2>1, <2>2, <2>3
<1>3. IInv /\ [Next]_vars => [Report!Next]_<<[j \in Jobs |-> Outcome(j)], main.exit>>
  BY <1>2 DEF AllOutcomes
<1> QED
  BY <1>1, <1>3, RunnerInv, PTL DEF Spec, ImplementsTestReport, Report!Spec

=============================================================================

----------------------------- MODULE TestRunner -----------------------------
(***************************************************************************)
(* test.py: the program that runs the test suites and examples in parallel *)
(* and tells by its exit code whether they passed.  The main thread puts a *)
(* job per test into a queue, then one "break" job per worker, takes as    *)
(* many results from a second queue as it put jobs, and joins the workers. *)
(* A signal sets thread_exit, after which workers hand jobs back unrun.    *)
(*                                                                         *)
(* Every access to a queue or to thread_exit is a step of its own.  What a *)
(* job runs is a process that ends with some code, writes its results file *)
(* or not, and may print what cannot be decoded.                           *)
(***************************************************************************)
EXTENDS Naturals, Sequences, FiniteSets

CONSTANTS
  NumJobs,      \* jobs dispatched
  Examples,     \* the ones that are examples; the others are test suites
  Skipped,      \* the ones with is_skip
  Workers,      \* one worker thread per processor
  MayFailLaunch \* may starting a process raise in the worker

Jobs == 1..NumJobs
Break == 0      \* the special job that ends a worker
NoJob == NumJobs + 1

ASSUME RunnerAssumption ==
  /\ NumJobs \in Nat /\ Examples \subseteq Jobs /\ Skipped \subseteq Jobs
  /\ IsFiniteSet(Workers) /\ MayFailLaunch \in BOOLEAN

VARIABLES
  input, output,  \* input_queue and output_queue
  worker,         \* each worker thread
  job,            \* each Job: is_break, returncode, and its process
  threadExit,     \* thread_exit
  main            \* the main thread, its counters and the results file

vars == <<input, output, worker, job, threadExit, main>>

Codes == {"0", "1", "2", "other"}
Files == {"none", "partial", "PASS", "FAIL"}
Statuses == {"SKIP", "PASS", "FAIL", "VALGR", "CRASH"}

TypeOK ==
  /\ input \in Seq(Jobs \cup {Break}) /\ output \in Seq(Jobs)
  /\ worker \in [Workers -> [pc : {"get", "check", "run", "ended", "died"},
                             job : Jobs \cup {NoJob}]]
  /\ job \in [Jobs -> [isBreak : BOOLEAN, returncode : Codes,
                       exit : Codes \cup {"none"}, file : Files]]
  /\ threadExit \in BOOLEAN
  /\ main \in [pc : {"dispatch", "collect", "join", "returned", "raised"},
               dispatched : 0..NumJobs, breaks : 0..Cardinality(Workers),
               collected : 0..NumJobs, count : [Statuses -> 0..NumJobs],
               results : SUBSET (Jobs \X (Statuses \cup {"partial"})),
               joined : SUBSET Workers, exit : {"none", "0", "1"}]

\* returncode begins as False, which equals 0.
Init ==
  /\ input = << >> /\ output = << >> /\ threadExit = FALSE
  /\ worker = [t \in Workers |-> [pc |-> "get", job |-> NoJob]]
  /\ job = [j \in Jobs |-> [isBreak |-> FALSE, returncode |-> "0",
                            exit |-> "none", file |-> "none"]]
  /\ main = [pc |-> "dispatch", dispatched |-> 0, breaks |-> 0,
             collected |-> 0, count |-> [s \in Statuses |-> 0],
             results |-> {}, joined |-> {}, exit |-> "none"]

-----------------------------------------------------------------------------
(* The worker threads *)

\* A faulty GetJob: is_break is not looked at.
GetAnyJob(t) ==
  /\ worker[t].pc = "get" /\ input # << >>
  /\ input' = Tail(input)
  /\ worker' = [worker EXCEPT ![t] = [pc |-> "check", job |-> Head(input)]]
  /\ UNCHANGED <<output, job, threadExit, main>>

GetJob(t) ==
  /\ worker[t].pc = "get" /\ input # << >> /\ Head(input) # Break
  /\ input' = Tail(input)
  /\ worker' = [worker EXCEPT ![t] = [pc |-> "check", job |-> Head(input)]]
  /\ UNCHANGED <<output, job, threadExit, main>>

GetBreak(t) ==
  /\ worker[t].pc = "get" /\ input # << >> /\ Head(input) = Break
  /\ input' = Tail(input)
  /\ worker' = [worker EXCEPT ![t].pc = "ended"]
  /\ UNCHANGED <<output, job, threadExit, main>>

\* The job is put into the output queue and the worker asks for the next.
HandBack(t) ==
  /\ output' = Append(output, worker[t].job)
  /\ worker' = [worker EXCEPT ![t] = [pc |-> "get", job |-> NoJob]]

\* A faulty SeeThreadExit: without the "continue" the job is run as well.
SeeThreadExitGoesOn(t) ==
  /\ worker[t].pc = "check" /\ threadExit
  /\ job' = [job EXCEPT ![worker[t].job].isBreak = TRUE]
  /\ output' = Append(output, worker[t].job)
  /\ worker' = [worker EXCEPT ![t].pc = "run"]
  /\ UNCHANGED <<input, threadExit, main>>

\* A faulty SeeThreadExit: the job is dropped.
SeeThreadExitDrops(t) ==
  /\ worker[t].pc = "check" /\ threadExit
  /\ job' = [job EXCEPT ![worker[t].job].isBreak = TRUE]
  /\ worker' = [worker EXCEPT ![t] = [pc |-> "get", job |-> NoJob]]
  /\ UNCHANGED <<input, output, threadExit, main>>

SeeThreadExit(t) ==
  /\ worker[t].pc = "check" /\ threadExit
  /\ job' = [job EXCEPT ![worker[t].job].isBreak = TRUE]
  /\ HandBack(t)
  /\ UNCHANGED <<input, threadExit, main>>

SkipJob(t) ==
  /\ worker[t].pc = "check" /\ ~threadExit /\ worker[t].job \in Skipped
  /\ HandBack(t)
  /\ UNCHANGED <<input, job, threadExit, main>>

Launch(t) ==
  /\ worker[t].pc = "check" /\ ~threadExit /\ worker[t].job \notin Skipped
  /\ worker' = [worker EXCEPT ![t].pc = "run"]
  /\ UNCHANGED <<input, output, job, threadExit, main>>

\* Popen raises and nothing catches it: the thread is gone with its job.
LaunchFails(t) ==
  /\ MayFailLaunch /\ worker[t].pc = "run"
  /\ worker' = [worker EXCEPT ![t].pc = "died"]
  /\ UNCHANGED <<input, output, job, threadExit, main>>

\* run_job_synchronously: output that cannot be decoded makes the code 1.
Returncode(exit, decodable) == IF decodable THEN exit ELSE "1"

\* The results file of a suite.  That it can be opened is never looked at; with
\* no matching test it stays empty; valgrind's 2 takes the place of 0 or 1; a
\* crash may come before, while or after the report is written.
FilesOf(exit) ==
  CASE exit = "0" -> {"PASS", "none"}
    [] exit = "1" -> {"FAIL", "partial", "none"}
    [] OTHER -> Files

ProcessEnds(t, exit, decodable, file) ==
  LET j == worker[t].job IN
  /\ worker[t].pc = "run"
  /\ file \in IF j \in Examples THEN {"none"} ELSE FilesOf(exit)
  /\ job' = [job EXCEPT ![j].returncode = Returncode(exit, decodable),
                        ![j].exit = exit, ![j].file = file]
  /\ HandBack(t)
  /\ UNCHANGED <<input, threadExit, main>>

Worker(t) ==
  \/ GetJob(t) \/ GetBreak(t) \/ SeeThreadExit(t) \/ SkipJob(t) \/ Launch(t)
  \/ \E e \in Codes, d \in BOOLEAN, f \in Files : ProcessEnds(t, e, d, f)

-----------------------------------------------------------------------------
(* The main thread *)

Dispatch ==
  /\ main.pc = "dispatch" /\ main.dispatched < NumJobs
  /\ input' = Append(input, main.dispatched + 1)
  /\ main' = [main EXCEPT !.dispatched = @ + 1]
  /\ UNCHANGED <<output, worker, job, threadExit>>

\* A faulty DispatchBreak: the break jobs do not wait for the others.
DispatchBreakEarly ==
  /\ main.pc = "dispatch" /\ main.breaks < Cardinality(Workers)
  /\ input' = Append(input, Break)
  /\ main' = [main EXCEPT !.breaks = @ + 1]
  /\ UNCHANGED <<output, worker, job, threadExit>>

DispatchBreak ==
  /\ main.pc = "dispatch" /\ main.dispatched = NumJobs
  /\ main.breaks < Cardinality(Workers)
  /\ input' = Append(input, Break)
  /\ main' = [main EXCEPT !.breaks = @ + 1]
  /\ UNCHANGED <<output, worker, job, threadExit>>

AllDispatched ==
  /\ main.pc = "dispatch" /\ main.dispatched = NumJobs
  /\ main.breaks = Cardinality(Workers)
  /\ main' = [main EXCEPT !.pc = "collect"]
  /\ UNCHANGED <<input, output, worker, job, threadExit>>

Status(j) ==
  IF j \in Skipped THEN "SKIP"
  ELSE CASE job[j].returncode = "0" -> "PASS"
         [] job[j].returncode = "1" -> "FAIL"
         [] job[j].returncode = "2" -> "VALGR"
         [] OTHER -> "CRASH"

\* What is written to the results file: for a suite that returned 0, 1 or 2
\* the file it wrote.
Entry(j) ==
  IF j \in Examples \/ Status(j) \in {"SKIP", "CRASH"} THEN Status(j)
  ELSE job[j].file

\* The file of a suite that returned 0, 1 or 2 is opened, and must exist.
CannotOpen(j) ==
  j \notin Examples \cup Skipped /\ job[j].file = "none" /\ Status(j) # "CRASH"

\* A faulty Collect: jobs that were broken off are counted.
CollectBroken ==
  LET j == Head(output)
      counted == [main EXCEPT !.collected = @ + 1, !.count[Status(j)] = @ + 1]
  IN /\ main.pc = "collect" /\ main.collected < NumJobs /\ output # << >>
     /\ output' = Tail(output)
     /\ main' = counted
     /\ UNCHANGED <<input, worker, job, threadExit>>

\* A faulty Collect: thread_exit is taken for is_break.
CollectUnlessExit ==
  LET j == Head(output)
      counted == [main EXCEPT !.collected = @ + 1, !.count[Status(j)] = @ + 1]
  IN /\ main.pc = "collect" /\ main.collected < NumJobs /\ output # << >>
     /\ output' = Tail(output)
     /\ main' = IF threadExit THEN [main EXCEPT !.collected = @ + 1]
                ELSE IF CannotOpen(j) THEN [counted EXCEPT !.pc = "raised"]
                ELSE [counted EXCEPT !.results = @ \cup {<<j, Entry(j)>>}]
     /\ UNCHANGED <<input, worker, job, threadExit>>

\* One turn of the loop over the results.
Collect ==
  LET j == Head(output)
      counted == [main EXCEPT !.collected = @ + 1, !.count[Status(j)] = @ + 1]
  IN /\ main.pc = "collect" /\ main.collected < NumJobs /\ output # << >>
     /\ output' = Tail(output)
     /\ main' = IF job[j].isBreak THEN [main EXCEPT !.collected = @ + 1]
                ELSE IF CannotOpen(j) THEN [counted EXCEPT !.pc = "raised"]
                ELSE [counted EXCEPT !.results = @ \cup {<<j, Entry(j)>>}]
     /\ UNCHANGED <<input, worker, job, threadExit>>

AllCollected ==
  /\ main.pc = "collect" /\ main.collected = NumJobs
  /\ main' = [main EXCEPT !.pc = "join"]
  /\ UNCHANGED <<input, output, worker, job, threadExit>>

Join(t) ==
  /\ main.pc = "join" /\ t \notin main.joined
  /\ worker[t].pc \in {"ended", "died"}
  /\ main' = [main EXCEPT !.joined = @ \cup {t}]
  /\ UNCHANGED <<input, output, worker, job, threadExit>>

ExitCode(count) == IF count["PASS"] + count["SKIP"] = NumJobs THEN "0" ELSE "1"

Return ==
  /\ main.pc = "join" /\ main.joined = Workers
  /\ main' = [main EXCEPT !.pc = "returned", !.exit = ExitCode(main.count)]
  /\ UNCHANGED <<input, output, worker, job, threadExit>>

\* sigint_hook
Interrupt ==
  /\ ~threadExit /\ main.pc # "returned"
  /\ threadExit' = TRUE
  /\ UNCHANGED <<input, output, worker, job, main>>

Main ==
  \/ Dispatch \/ DispatchBreak \/ AllDispatched \/ Collect \/ AllCollected
  \/ (\E t \in Workers : Join(t)) \/ Return

Next ==
  \/ Main \/ Interrupt
  \/ \E t \in Workers : Worker(t) \/ LaunchFails(t)

Spec == Init /\ [][Next]_vars

\* Threads are scheduled and processes end.
Fairness == WF_vars(Main) /\ \A t \in Workers : WF_vars(Worker(t))

FairSpec == Spec /\ Fairness

-----------------------------------------------------------------------------
Held(t) == {worker[t].job} \cap Jobs
InQueue(q) == {q[i] : i \in DOMAIN q} \cap Jobs

\* The program reports success only if every job was skipped or its process
\* ran and ended with code 0, also when a signal arrives while some workers
\* have taken a job and others have not (test.py:1913).
SuccessMeansPassed ==
  main.exit = "0" =>
    \A j \in Jobs : ~job[j].isBreak /\ (j \in Skipped \/ job[j].exit = "0")

\* No job is handed out, run or handed back twice: it is at one place, in a
\* queue once or with one worker.
JobAtOnePlace ==
  /\ \A q \in {input, output} : \A a, b \in DOMAIN q :
       q[a] = q[b] /\ q[a] # Break => a = b
  /\ InQueue(input) \cap InQueue(output) = {}
  /\ \A t \in Workers :
       /\ Held(t) \cap (InQueue(input) \cup InQueue(output)) = {}
       /\ \A u \in Workers \ {t} : Held(t) \cap Held(u) = {}

\* The results file agrees with the run: no job has two entries; when main
\* returns, the jobs without one are those a signal broke off; and after a
\* success every entry says so, though entries are copied from the files the
\* suites wrote and the exit code comes from counters (test.py:1700-1823, 1913).
ResultsAgree ==
  /\ \A r, s \in main.results : r[1] = s[1] => r = s
  /\ main.pc = "returned" =>
       \A j \in Jobs : job[j].isBreak <=> \A r \in main.results : r[1] # j
  /\ main.exit = "0" =>
       \A r \in main.results : r[2] = IF r[1] \in Skipped THEN "SKIP" ELSE "PASS"

\* Each worker gets its own break job, after all the work: none is ended while
\* jobs are left in the queue, and when main returns both queues are empty.
BreaksLast ==
  /\ (\E t \in Workers : worker[t].pc = "ended") => InQueue(input) = {}
  /\ main.pc = "returned" => input = << >> /\ output = << >>

\* As long as every process it starts ends, however it does, the program ends
\* with all its threads, whenever a signal arrives, unless a worker could not
\* start a process.
RunnerEnds ==
  <>(\/ \E t \in Workers : worker[t].pc = "died"
     \/ /\ main.pc \in {"returned", "raised"}
        /\ \A t \in Workers : worker[t].pc = "ended")

-----------------------------------------------------------------------------
(* The abstract promise: TestReport.  A job is pending until the main thread *)
(* has taken it from the output queue.                                       *)

Pending(j) ==
  \/ j > main.dispatched
  \/ j \in InQueue(input) \cup InQueue(output)
  \/ \E t \in Workers : j \in Held(t)

Outcome(j) ==
  IF Pending(j) THEN "pending"
  ELSE IF job[j].isBreak THEN "interrupted" ELSE Status(j)

Report == INSTANCE TestReport WITH
  Outcomes <- Statuses \cup {"interrupted"},
  outcome  <- [j \in Jobs |-> Outcome(j)],
  exit     <- main.exit

\* Threads, queues, signals and counters implement TestReport: no job is lost
\* or counted twice between the queues, and the exit code worked out from the
\* counters is the one the outcomes call for.
ImplementsTestReport == Report!Spec
=============================================================================

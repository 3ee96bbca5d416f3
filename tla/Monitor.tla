------------------------------ MODULE Monitor ------------------------------
(***************************************************************************)
(* monitor-github-labels.ts (src/.automation): a message stream, the       *)
(* sources that feed it (start-up scan, poller or webhook, workers that    *)
(* exit) and the main loop that reads it, queues issues and starts runs of *)
(* auto-implement-issue.sh (AutoImplement.tla).                            *)
(*                                                                         *)
(* A step runs from one await to the next: between two steps any other     *)
(* part of the program, a script, a person or a crash may act.             *)
(***************************************************************************)
EXTENDS AutoImplement, Sequences

CONSTANTS MaxConcurrent,   \* --max-concurrent
          Mode,            \* --mode
          MaxEpochs,       \* bound: how often the monitor is started
          MaxStream        \* bound: messages in the stream when an event comes

ASSUME MonitorAssumption ==
  /\ MaxConcurrent \in Nat \ {0}
  /\ Mode \in {"polling", "webhook"}
  /\ MaxEpochs \in Nat /\ MaxStream \in Nat
  /\ IsFiniteSet(Issues)

VARIABLES
  monitor,      \* "down", "up", or "closing" after a signal
  epoch,        \* which start of the monitor this is: the owner of its runs
  stream,       \* messages written and not yet read
  queue,        \* issues that wait for a slot
  processing,   \* issues that hold a slot
  pc,           \* where the main loop waits
  cur,          \* the issue it is at, or Null
  feed,         \* where the scanner, then the poller or the webhook, waits
  fetched,      \* the answer of `gh issue list`, see NotListed
  known,        \* the poller's knownIssues
  events,       \* `labeled` events on their way to the webhook
  waiting       \* history: approvals no run was started for

history == <<events, waiting>>
world == <<labels, locks, prs, script, history>>
process == <<monitor, epoch>>
loop == <<queue, processing, pc, cur>>
inputs == <<feed, fetched, known>>
memory == <<stream, loop, inputs>>
vars == <<world, process, memory>>

Message(type, issue) == [type |-> type, issue |-> issue]

\* Everything listed has the label `approved`, so the empty set of labels can
\* stand for an issue that is not listed, and for one the poller does not know.
NotListed == [i \in Issues |-> {}]

EmptyMemory(s, q, p, c, i, f, answer, k) ==
  /\ s = <<>> /\ q = <<>> /\ p = {} /\ c = "next" /\ i = Null
  /\ f = "off" /\ answer = NotListed /\ k = NotListed

Init ==
  /\ InitScripts
  /\ monitor = "down" /\ epoch = 0
  /\ EmptyMemory(stream, queue, processing, pc, cur, feed, fetched, known)
  /\ events = {} /\ waiting = {}

\* A plausible slip: the poller is not stopped.
GoesDownButPolls ==
  /\ monitor' = "down"
  /\ EmptyMemory(stream', queue', processing', pc', cur', "off", NotListed,
                 NotListed)
  /\ UNCHANGED <<epoch, inputs>>

GoesDown ==
  /\ monitor' = "down"
  /\ EmptyMemory(stream', queue', processing', pc', cur', feed', fetched',
                 known')
  /\ UNCHANGED epoch

\* stream.push: a write after the end of the stream is an error that nothing
\* handles.
Pushes(messages) ==
  IF monitor = "closing" /\ messages # <<>>
  THEN GoesDown
  ELSE /\ stream' = stream \o messages
       /\ UNCHANGED <<process, loop>>

-----------------------------------------------------------------------------
(* The process. *)

Start ==
  /\ monitor = "down" /\ epoch < MaxEpochs
  /\ monitor' = "up" /\ epoch' = epoch + 1
  /\ feed' = "scan"
  /\ UNCHANGED <<world, stream, loop, fetched, known>>

\* SIGINT or SIGTERM.
Shutdown ==
  /\ "shutdown" \in May /\ monitor = "up" /\ epoch < MaxEpochs
  /\ monitor' = "closing"
  /\ feed' = IF feed = "listen" THEN "off" ELSE feed
  /\ UNCHANGED <<world, epoch, stream, loop, fetched, known>>

Crash ==
  /\ "crash" \in May /\ monitor # "down" /\ epoch < MaxEpochs
  /\ GoesDown
  /\ UNCHANGED world

-----------------------------------------------------------------------------
(* The main loop. *)

At(place) == monitor # "down" /\ pc = place

\* A plausible slip: one off.
HasSlotOrOneMore == Cardinality(processing) <= MaxConcurrent

HasSlot == Cardinality(processing) < MaxConcurrent

\* processing.add and startWorker, up to the await of createLock.
TakeSlot(issue) ==
  /\ processing' = processing \cup {issue}
  /\ pc' = "createLock" /\ cur' = issue

Resume == pc' = "next" /\ cur' = Null

Take ==
  /\ At("next") /\ stream # <<>>
  /\ stream' = Tail(stream)
  /\ LET m == Head(stream) IN
       \/ /\ m.type = "complete"
          /\ processing' = processing \ {m.issue}
          /\ pc' = "removeLock" /\ cur' = m.issue
       \/ /\ m.type = "approved" /\ m.issue \in processing
          /\ UNCHANGED <<processing, pc, cur>>
       \/ /\ m.type = "approved" /\ m.issue \notin processing
          /\ pc' = "isProcessing" /\ cur' = m.issue
          /\ UNCHANGED processing
  /\ UNCHANGED <<world, process, queue, inputs>>

Queued == {queue[n] : n \in DOMAIN queue}

\* A plausible slip: whether the issue is queued already is not asked.
AdmitTwice ==
  /\ At("isProcessing")
  /\ \/ cur \in locks /\ Resume /\ UNCHANGED <<queue, processing>>
     \/ cur \notin locks /\ HasSlot /\ TakeSlot(cur) /\ UNCHANGED queue
     \/ /\ cur \notin locks /\ ~HasSlot
        /\ queue' = Append(queue, cur) /\ Resume /\ UNCHANGED processing
  /\ UNCHANGED <<world, process, stream, inputs>>

\* A plausible slip: only the queue is asked, the lock file is not.
AdmitLocked ==
  /\ At("isProcessing")
  /\ \/ cur \in Queued /\ Resume /\ UNCHANGED <<queue, processing>>
     \/ cur \notin Queued /\ HasSlot /\ TakeSlot(cur) /\ UNCHANGED queue
     \/ /\ cur \notin Queued /\ ~HasSlot
        /\ queue' = Append(queue, cur) /\ Resume /\ UNCHANGED processing
  /\ UNCHANGED <<world, process, stream, inputs>>

\* isProcessing has looked for the lock file.
Admit ==
  /\ At("isProcessing")
  /\ \/ cur \in locks \cup Queued /\ Resume /\ UNCHANGED <<queue, processing>>
     \/ /\ cur \notin locks \cup Queued /\ HasSlot
        /\ TakeSlot(cur) /\ UNCHANGED queue
     \/ /\ cur \notin locks \cup Queued /\ ~HasSlot
        /\ queue' = Append(queue, cur) /\ Resume /\ UNCHANGED processing
  /\ UNCHANGED <<world, process, stream, inputs>>

\* A plausible slip: a completion does not start what is queued.
RemoveLockOnly ==
  /\ At("removeLock")
  /\ locks' = locks \ {cur}
  /\ Resume
  /\ UNCHANGED <<github, script, process, stream, queue, processing, inputs,
                 history>>

\* removeLock after a completion, which is not an error when there is none;
\* then the next issue of the queue.
RemoveLock ==
  /\ At("removeLock")
  /\ locks' = locks \ {cur}
  /\ \/ /\ queue # <<>> /\ HasSlot
        /\ TakeSlot(Head(queue)) /\ queue' = Tail(queue)
     \/ ~(queue # <<>> /\ HasSlot) /\ Resume /\ UNCHANGED <<queue, processing>>
  /\ UNCHANGED <<github, script, process, stream, inputs, history>>

CreateLock ==
  /\ At("createLock")
  /\ locks' = locks \cup {cur}
  /\ pc' = "spawn"
  /\ UNCHANGED <<github, script, process, stream, queue, processing, cur,
                 inputs, history>>

Spawn(r) ==
  /\ At("spawn") /\ script[r] = Null
  /\ script' = [script EXCEPT ![r] = Run(cur, epoch)]
  /\ waiting' = waiting \ {cur}
  /\ Resume
  /\ UNCHANGED <<github, locks, process, stream, queue, processing, inputs,
                 events>>

\* The closed stream is read to its end.
LoopEnds ==
  /\ At("next") /\ monitor = "closing" /\ stream = <<>>
  /\ GoesDown
  /\ UNCHANGED world

LoopStep ==
  \/ Take \/ Admit \/ RemoveLock \/ CreateLock \/ (\E r \in Runs : Spawn(r))
  \/ LoopEnds

-----------------------------------------------------------------------------
(* What feeds the stream. *)

\* fetchApprovedIssues: a failure is answered by an empty list.
Fetch ==
  \/ fetched' = [i \in Issues |->
                   IF "approved" \in labels[i] THEN labels[i] ELSE {}]
  \/ "ghFails" \in May /\ fetched' = NotListed

Orders(S) ==
  {s \in [1 .. Cardinality(S) -> S] :
     \A m, n \in DOMAIN s : s[m] = s[n] => m = n}

\* Messages for a list of issues, in the order of the list.
PushesApproved(S) ==
  \E s \in Orders(S) : Pushes([n \in DOMAIN s |-> Message("approved", s[n])])

ScanFetch ==
  /\ feed = "scan" /\ feed' = "scanned"
  /\ Fetch
  /\ UNCHANGED <<world, process, stream, loop, known>>

\* startupScan leaves out what is in progress.
Pending == {i \in Issues : fetched[i] # {} /\ "in-progress" \notin fetched[i]}

ScanPush ==
  /\ feed = "scanned"
  /\ PushesApproved(Pending)
  /\ monitor' # "down" =>
       /\ feed' = IF Mode = "polling" THEN "poll" ELSE "listen"
       /\ fetched' = NotListed
       /\ UNCHANGED known
  /\ UNCHANGED world

PollFetch ==
  /\ feed = "poll" /\ monitor = "up" /\ feed' = "polled"
  /\ Fetch
  /\ UNCHANGED <<world, process, stream, loop, known>>

\* A plausible slip: an issue the poller does not know is only remembered.
NewsOfKnown ==
  {i \in Issues : fetched[i] # {} /\ known[i] # {} /\ "approved" \notin known[i]}

\* An issue is news when it was not known, or was known without the label.
News == {i \in Issues : fetched[i] # {} /\ "approved" \notin known[i]}

PollPush ==
  /\ feed = "polled"
  /\ PushesApproved(News)
  /\ monitor' # "down" =>
       /\ feed' = "poll"
       /\ known' = [i \in Issues |->
                      IF fetched[i] # {} THEN fetched[i] ELSE known[i]]
       /\ fetched' = NotListed
  /\ UNCHANGED world

\* The webhook's server hears an event only while it listens.
Deliver(i) ==
  /\ i \in events /\ events' = events \ {i}
  /\ Len(stream) <= MaxStream
  /\ \/ /\ feed = "listen" /\ Pushes(<<Message("approved", i)>>)
        /\ monitor' # "down" => UNCHANGED inputs
     \/ feed # "listen" /\ UNCHANGED <<process, memory>>
  /\ UNCHANGED <<github, locks, script, waiting>>

FeedStep == ScanFetch \/ ScanPush \/ PollFetch \/ PollPush

-----------------------------------------------------------------------------
(* Runs, seen from the monitor. *)

\* Plausible slips: a worker is reported before it exits; its message and its
\* exit are both reported.
ReportEarly(r) ==
  /\ script[r] # Null /\ script[r].owner = epoch /\ monitor # "down"
  /\ Pushes(<<Message("complete", script[r].issue)>>)
  /\ UNCHANGED script
  /\ monitor' # "down" => UNCHANGED inputs
  /\ UNCHANGED <<github, locks, history>>

ReportTwice(r) ==
  /\ Is(r, "exited") /\ script[r].owner = epoch /\ monitor # "down"
  /\ LET m == Message("complete", script[r].issue) IN Pushes(<<m, m>>)
  /\ script' = [script EXCEPT ![r] = Null]
  /\ monitor' # "down" => UNCHANGED inputs
  /\ UNCHANGED <<github, locks, history>>

\* The exit of a worker this monitor started.
Report(r) ==
  /\ Is(r, "exited") /\ script[r].owner = epoch /\ monitor # "down"
  /\ Pushes(<<Message("complete", script[r].issue)>>)
  /\ script' = [script EXCEPT ![r] = Null]
  /\ monitor' # "down" => UNCHANGED inputs
  /\ UNCHANGED <<github, locks, history>>

Orphan(r) ==
  script[r] # Null /\ script[r].owner # Person
  /\ (script[r].owner # epoch \/ monitor = "down")

\* A run nobody reports.
Reap(r) ==
  /\ Is(r, "exited") /\ (script[r].owner = Person \/ Orphan(r))
  /\ script' = [script EXCEPT ![r] = Null]
  /\ UNCHANGED <<github, locks, process, memory, history>>

\* The script logs to a pipe that nobody reads any more.
Die(r) ==
  /\ Live(r) /\ Orphan(r)
  /\ Exits(r, "failed")
  /\ UNCHANGED <<github, locks, process, memory, history>>

RunStep(r) ==
  \/ ScriptStep(r) /\ UNCHANGED <<process, memory, history>>
  \/ Report(r) \/ Reap(r) \/ Die(r)

-----------------------------------------------------------------------------
(* People. *)

\* Bound: one event for an issue is on its way at a time.
Approve(i) ==
  /\ i \notin events
  /\ AddApproval(i)
  /\ events' = IF Mode = "webhook" THEN events \cup {i} ELSE events
  /\ waiting' = waiting \cup {i}
  /\ UNCHANGED <<process, memory>>

Unapprove(i) ==
  /\ Withdraw(i)
  /\ waiting' = waiting \ {i}
  /\ UNCHANGED <<process, memory, events>>

PeopleStep ==
  \/ \E i \in Issues :
       \/ Approve(i) \/ Unapprove(i)
       \/ /\ Mark(i) \/ \E r \in Runs : RunByHand(r, i)
          /\ UNCHANGED <<process, memory, history>>
  \/ Shutdown

-----------------------------------------------------------------------------
Next ==
  \/ Start \/ Crash
  \/ LoopStep
  \/ FeedStep
  \/ \E i \in Issues : Deliver(i)
  \/ \E r \in Runs : RunStep(r)
  \/ PeopleStep

Spec == Init /\ [][Next]_vars

\* The program goes on as long as it can, and is started again after it went
\* down; people and crashes are under no obligation.
Fairness ==
  /\ WF_vars(Start)
  /\ WF_vars(LoopStep)
  /\ WF_vars(FeedStep)
  /\ \A i \in Issues : WF_vars(Deliver(i))
  /\ \A r \in Runs : WF_vars(RunStep(r))

FairSpec == Spec /\ Fairness

-----------------------------------------------------------------------------
(* Properties. *)

\* Only a monitor that is up or closing has anything in its memory, and the
\* main loop knows which issue it is at exactly when it waits for one.
TypeOK ==
  /\ ScriptsTypeOK
  /\ monitor \in {"down", "up", "closing"}
  /\ epoch \in 0 .. MaxEpochs
  /\ stream \in Seq([type : {"approved", "complete"}, issue : Issues])
  /\ queue \in Seq(Issues)
  /\ processing \subseteq Issues
  /\ pc \in {"next", "isProcessing", "removeLock", "createLock", "spawn"}
  /\ cur \in Issues \cup {Null}
  /\ (cur = Null) = (pc = "next")
  /\ feed \in {"off", "scan", "scanned", "poll", "polled", "listen"}
  /\ fetched \in [Issues -> SUBSET Labels]
  /\ known \in [Issues -> SUBSET Labels]
  /\ events \subseteq Issues
  /\ waiting \subseteq Issues
  /\ monitor = "down" =>
       EmptyMemory(stream, queue, processing, pc, cur, feed, fetched, known)

\* Every slot is accounted for, by one worker of its issue: one about to be
\* started, one that runs or has exited, or a completion not yet read.  So no
\* slot leaks, none is freed twice, and no issue has two workers.
Ours(r) == script[r] # Null /\ script[r].owner = epoch /\ epoch # Person

Starting(i) == cur = i /\ pc \in {"createLock", "spawn"}

Workers(i) ==
  Cardinality({r \in Runs : Ours(r) /\ script[r].issue = i})
  + Cardinality({n \in DOMAIN stream : stream[n] = Message("complete", i)})
  + (IF Starting(i) THEN 1 ELSE 0)

SlotAccounting ==
  monitor # "down" =>
    \A i \in Issues : Workers(i) = (IF i \in processing THEN 1 ELSE 0)

\* --max-concurrent bounds the runs of the script a monitor has going.
WithinCapacity ==
  monitor # "down" =>
    Cardinality({r \in Runs : Live(r) /\ Ours(r)}) <= MaxConcurrent

\* An issue waits at most once, not while it is being worked on, and only as
\* long as there is no slot: no slot stays idle while issues wait.
QueueIsWaiting ==
  /\ \A m, n \in DOMAIN queue : queue[m] = queue[n] => m = n
  /\ Queued \cap processing = {}
  /\ queue # <<>> /\ pc # "removeLock" => ~HasSlot

\* No two runs work on one issue, those a crashed monitor left behind included:
\* what outlives a monitor is its lock files (checked where nobody runs the
\* script by hand; a person who does can start a second run).
OneRunPerIssue ==
  \A r, q \in Runs :
    Live(r) /\ Live(q) /\ script[r].issue = script[q].issue => r = q

\* The monitor takes away a lock only when nobody works on the issue.
UnlocksOnlyFinished ==
  [][RemoveLock => ~\E r \in Runs : Live(r) /\ script[r].issue = cur]_vars

\* An issue that waits gets its turn.
QueueIsServed == \A i \in Issues : i \in Queued ~> i \notin Queued

\* An approval is answered by a run of the script, or withdrawn (LABELS.md:
\* automation will detect the label; MONITOR-README.md: the scan ensures that
\* no issues are missed).
ApprovalIsServed == \A i \in Issues : i \in waiting ~> i \notin waiting

\* LABELS.md: after the approval, implementation starts automatically.
ApprovalIsImplemented ==
  \A i \in Issues :
    "approved" \in labels[i]
      ~> \E r \in Runs : Is(r, "build") /\ script[r].issue = i
=============================================================================

---------------------------- MODULE MonitorProofs ----------------------------
(***************************************************************************)
(* Theorems about Monitor, for every set of issues and processes, every    *)
(* number of slots and everything that may happen around the program.      *)
(***************************************************************************)
EXTENDS Monitor, TLAPS, FiniteSetTheorems, SequenceTheorems

Messages == [type : {"approved", "complete"}, issue : Issues]

-----------------------------------------------------------------------------
(* Runs of the script. *)

\* The same processes work on the same issues for the same monitors.
SameWorkers ==
  \A q \in Runs :
    /\ script'[q] = Null <=> script[q] = Null
    /\ script[q] # Null => /\ script'[q].issue = script[q].issue
                           /\ script'[q].owner = script[q].owner

LEMMA GoesOn ==
  ASSUME ScriptsTypeOK, NEW r \in Runs, script[r] # Null,
         NEW place \in Places, NEW code \in {"ok", "failed"}, Goes(r, place, code)
  PROVE  /\ script' \in [Runs -> Doing \cup {Null}]
         /\ SameWorkers
<1>1. script[r] \in Doing
  BY DEF ScriptsTypeOK
<1>2. [script[r] EXCEPT !.at = place, !.code = code] \in Doing
  BY <1>1 DEF Doing
<1>3. script' = [script EXCEPT ![r] = [script[r] EXCEPT !.at = place, !.code = code]]
  BY DEF Goes, ScriptsTypeOK
<1>4. Null \notin Doing
  BY DoingAssumption
<1>5. /\ [script[r] EXCEPT !.at = place, !.code = code].issue = script[r].issue
      /\ [script[r] EXCEPT !.at = place, !.code = code].owner = script[r].owner
  BY <1>1 DEF Doing
<1> QED
  BY <1>2, <1>3, <1>4, <1>5 DEF ScriptsTypeOK, SameWorkers

LEMMA Exit ==
  ASSUME ScriptsTypeOK, NEW r \in Runs, script[r] # Null,
         NEW code \in {"ok", "failed"}, Exits(r, code)
  PROVE  script' \in [Runs -> Doing \cup {Null}] /\ SameWorkers
BY GoesOn DEF Exits, Places

LEMMA Going ==
  ASSUME ScriptsTypeOK, NEW r \in Runs, script[r] # Null,
         NEW place \in Places, Goto(r, place)
  PROVE  script' \in [Runs -> Doing \cup {Null}] /\ SameWorkers
<1>1. script[r].code \in {"ok", "failed"}
  BY DEF ScriptsTypeOK, Doing
<1> QED
  BY <1>1, GoesOn DEF Goto

\* A command of the script.
LEMMA ScriptStepType ==
  ASSUME ScriptsTypeOK, NEW r \in Runs, ScriptStep(r)
  PROVE  ScriptsTypeOK' /\ SameWorkers
<1>1. script[r] # Null /\ script[r] \in Doing
  BY DEF ScriptStep, View, AddLabel, CheckLock, WriteLock, Build, CreatePr, RemoveLabel, Unlock, Is, ScriptsTypeOK
<1>2. script[r].issue \in Issues /\ script[r].code \in {"ok", "failed"}
  BY <1>1 DEF Doing
<1>3. {"label", "check", "lock", "build", "pr", "unlabel", "unlock"} \subseteq Places
  BY DEF Places
<1>4. CASE View(r)
  BY <1>1, <1>3, <1>4, Going, Exit DEF View, github, ScriptsTypeOK
<1>5. CASE AddLabel(r)
  <2>1. script' \in [Runs -> Doing \cup {Null}] /\ SameWorkers
    BY <1>1, <1>3, <1>5, Going DEF AddLabel
  <2>2. labels' \in [Issues -> SUBSET Labels]
    BY <1>2, <1>5 DEF AddLabel, ScriptsTypeOK, Labels
  <2> QED
    BY <1>5, <2>1, <2>2 DEF AddLabel, ScriptsTypeOK
<1>6. CASE CheckLock(r)
  BY <1>1, <1>3, <1>6, Going, Exit DEF CheckLock, github, ScriptsTypeOK
<1>7. CASE WriteLock(r)
  BY <1>1, <1>2, <1>3, <1>7, Going DEF WriteLock, github, ScriptsTypeOK
<1>8. CASE Build(r)
  <2>1. script' \in [Runs -> Doing \cup {Null}] /\ SameWorkers
    BY <1>1, <1>3, <1>8, Going, Exit, GoesOn DEF Build
  <2> QED
    BY <1>8, <2>1 DEF Build, github, ScriptsTypeOK
<1>9. CASE CreatePr(r)
  BY <1>1, <1>2, <1>3, <1>9, Going DEF CreatePr, ScriptsTypeOK
<1>10. CASE RemoveLabel(r)
  <2>1. script' \in [Runs -> Doing \cup {Null}] /\ SameWorkers
    BY <1>1, <1>3, <1>10, Going DEF RemoveLabel
  <2>2. labels' \in [Issues -> SUBSET Labels]
    BY <1>2, <1>10 DEF RemoveLabel, ScriptsTypeOK, Labels
  <2> QED
    BY <1>10, <2>1, <2>2 DEF RemoveLabel, ScriptsTypeOK
<1>11. CASE Unlock(r)
  <2>1. (IF script[r].issue \in locks THEN script[r].code ELSE "failed") \in {"ok", "failed"}
    BY <1>2
  <2>2. script' \in [Runs -> Doing \cup {Null}] /\ SameWorkers
    BY <1>1, <1>11, <2>1, Exit DEF Unlock
  <2> QED
    BY <1>11, <2>2 DEF Unlock, github, ScriptsTypeOK
<1> QED
  BY <1>4, <1>5, <1>6, <1>7, <1>8, <1>9, <1>10, <1>11 DEF ScriptStep

-----------------------------------------------------------------------------
(* Types. *)

Empty == EmptyMemory(stream, queue, processing, pc, cur, feed, fetched, known)

\* The part of TypeOK about the monitor.
MemoryTypeOK ==
  /\ monitor \in {"down", "up", "closing"}
  /\ epoch \in 0 .. MaxEpochs
  /\ stream \in Seq(Messages)
  /\ queue \in Seq(Issues)
  /\ processing \subseteq Issues
  /\ pc \in {"next", "isProcessing", "removeLock", "createLock", "spawn"}
  /\ cur \in Issues \cup {Null}
  /\ (cur = Null) = (pc = "next")
  /\ feed \in {"off", "scan", "scanned", "poll", "polled", "listen"}
  /\ fetched \in [Issues -> SUBSET Labels]
  /\ known \in [Issues -> SUBSET Labels]
  /\ monitor = "down" => Empty

HistoryTypeOK == events \subseteq Issues /\ waiting \subseteq Issues

TypeInv == ScriptsTypeOK /\ MemoryTypeOK /\ HistoryTypeOK

LEMMA TypeParts == TypeOK <=> TypeInv
BY DEF TypeInv, TypeOK, MemoryTypeOK, HistoryTypeOK, Messages, Empty

LEMMA DownType ==
  ASSUME MemoryTypeOK, GoesDown
  PROVE  MemoryTypeOK' /\ Empty' /\ monitor' = "down" /\ epoch' = epoch
<1>1. NotListed \in [Issues -> SUBSET Labels]
  BY DEF NotListed
<1>2. <<>> \in Seq(Messages) /\ <<>> \in Seq(Issues)
  BY EmptySeq
<1> QED
  BY <1>1, <1>2 DEF GoesDown, EmptyMemory, Empty, MemoryTypeOK

\* A message ends the program or is written.
Pushed(messages) ==
  /\ stream' = stream \o messages
  /\ UNCHANGED <<process, loop>>

LEMMA PushesType ==
  ASSUME MemoryTypeOK, monitor # "down", NEW messages \in Seq(Messages), Pushes(messages)
  PROVE  \/ /\ MemoryTypeOK' /\ Empty' /\ monitor' = "down" /\ epoch' = epoch
         \/ /\ Pushed(messages) /\ stream' \in Seq(Messages) /\ monitor' # "down"
<1>1. CASE monitor = "closing" /\ messages # <<>>
  BY <1>1, DownType DEF Pushes
<1>2. CASE ~(monitor = "closing" /\ messages # <<>>)
  <2>1. Pushed(messages)
    BY <1>2 DEF Pushes, Pushed
  <2>2. stream' \in Seq(Messages)
    BY <2>1, ConcatProperties DEF Pushed, MemoryTypeOK
  <2> QED
    BY <2>1, <2>2 DEF Pushed, process
<1> QED
  BY <1>1, <1>2

LEMMA PushedType ==
  ASSUME MemoryTypeOK, monitor # "down", NEW messages \in Seq(Messages), Pushed(messages),
         stream' \in Seq(Messages),
         feed' \in {"off", "scan", "scanned", "poll", "polled", "listen"},
         fetched' \in [Issues -> SUBSET Labels], known' \in [Issues -> SUBSET Labels]
  PROVE  MemoryTypeOK'
BY DEF Pushed, MemoryTypeOK, process, loop

\* A list of approved issues.
LEMMA OrderedType ==
  ASSUME NEW S \in SUBSET Issues, NEW s \in Orders(S)
  PROVE  /\ [n \in DOMAIN s |-> Message("approved", s[n])] \in Seq(Messages)
         /\ \A n \in DOMAIN s : s[n] \in S
         /\ \A n \in DOMAIN [m \in DOMAIN s |-> Message("approved", s[m])] :
              [m \in DOMAIN s |-> Message("approved", s[m])][n].type = "approved"
<1>1. Cardinality(S) \in Nat
  BY FS_Subset, FS_CardinalityType, MonitorAssumption
<1>2. s \in [1 .. Cardinality(S) -> S]
  BY DEF Orders
<1>3. \A n \in DOMAIN s : Message("approved", s[n]) \in Messages
  BY <1>2 DEF Message, Messages
<1>4. DOMAIN s = 1 .. Cardinality(S)
  BY <1>2
<1>5. [n \in DOMAIN s |-> Message("approved", s[n])] \in [1 .. Cardinality(S) -> Messages]
  BY <1>3, <1>4
<1>6. [n \in DOMAIN s |-> Message("approved", s[n])] \in Seq(Messages)
  BY <1>1, <1>5
<1> QED
  BY <1>2, <1>6 DEF Message

LEMMA FetchType ==
  ASSUME ScriptsTypeOK, Fetch
  PROVE  fetched' \in [Issues -> SUBSET Labels]
<1>1. \A i \in Issues : (IF "approved" \in labels[i] THEN labels[i] ELSE {}) \in SUBSET Labels
  BY DEF ScriptsTypeOK
<1> QED
  BY <1>1 DEF Fetch, NotListed

LEMMA InitType == Init => TypeInv
<1> SUFFICES ASSUME Init PROVE TypeInv
  OBVIOUS
<1>1. ScriptsTypeOK
  BY DoingAssumption DEF Init, InitScripts, ScriptsTypeOK
<1>2. NotListed \in [Issues -> SUBSET Labels]
  BY DEF NotListed
<1>3. <<>> \in Seq(Messages) /\ <<>> \in Seq(Issues)
  BY EmptySeq
<1>4. MemoryTypeOK
  BY <1>2, <1>3, MonitorAssumption DEF Init, EmptyMemory, Empty, MemoryTypeOK
<1>5. HistoryTypeOK
  BY DEF Init, HistoryTypeOK
<1> QED
  BY <1>1, <1>4, <1>5 DEF TypeInv

LEMMA ProcessType ==
  ASSUME TypeInv, Start \/ Shutdown \/ Crash
  PROVE  TypeInv'
<1> USE DEF TypeInv
<1>1. ScriptsTypeOK' /\ HistoryTypeOK'
  BY DEF Start, Shutdown, Crash, world, history, ScriptsTypeOK, HistoryTypeOK
<1>2. CASE Start
  BY <1>1, <1>2, MonitorAssumption DEF Start, MemoryTypeOK, Empty, EmptyMemory, loop
<1>3. CASE Shutdown
  BY <1>1, <1>3 DEF Shutdown, MemoryTypeOK, loop
<1>4. CASE Crash
  BY <1>1, <1>4, DownType DEF Crash
<1> QED
  BY <1>2, <1>3, <1>4

LEMMA LoopType ==
  ASSUME TypeInv, LoopStep
  PROVE  TypeInv'
<1> USE DEF TypeInv
<1>1. CASE Take
  <2>1. ScriptsTypeOK' /\ HistoryTypeOK'
    BY <1>1 DEF Take, world, history, ScriptsTypeOK, HistoryTypeOK
  <2>2. Head(stream) \in Messages /\ stream' \in Seq(Messages)
    BY <1>1, HeadTailProperties DEF Take, MemoryTypeOK
  <2>3. Head(stream).issue \in Issues
    BY <2>2 DEF Messages
  <2> QED
    BY <1>1, <2>1, <2>2, <2>3, DoingAssumption DEF Take, At, MemoryTypeOK, process, inputs
<1>2. CASE Admit
  <2>1. ScriptsTypeOK' /\ HistoryTypeOK'
    BY <1>2 DEF Admit, world, history, ScriptsTypeOK, HistoryTypeOK
  <2>2. cur \in Issues /\ Append(queue, cur) \in Seq(Issues)
    BY <1>2, AppendProperties DEF Admit, At, MemoryTypeOK
  <2> QED
    BY <1>2, <2>1, <2>2, DoingAssumption DEF Admit, At, TakeSlot, Resume, MemoryTypeOK, process, inputs
<1>3. CASE RemoveLock
  <2>1. ScriptsTypeOK' /\ HistoryTypeOK'
    BY <1>3 DEF RemoveLock, github, history, ScriptsTypeOK, HistoryTypeOK
  <2>2. queue # <<>> => Head(queue) \in Issues /\ Tail(queue) \in Seq(Issues)
    BY HeadTailProperties DEF MemoryTypeOK
  <2> QED
    BY <1>3, <2>1, <2>2, DoingAssumption DEF RemoveLock, At, TakeSlot, Resume, MemoryTypeOK, process, inputs
<1>4. CASE CreateLock
  BY <1>4 DEF CreateLock, At, github, history, process, inputs, ScriptsTypeOK, HistoryTypeOK, MemoryTypeOK
<1>5. ASSUME NEW r \in Runs, Spawn(r)
      PROVE  TypeInv'
  <2>1. cur \in Issues /\ epoch \in Nat
    BY <1>5, MonitorAssumption DEF Spawn, At, MemoryTypeOK
  <2>2. Run(cur, epoch) \in Doing
    BY <2>1 DEF Run, Doing, Places
  <2>3. ScriptsTypeOK'
    BY <1>5, <2>2 DEF Spawn, github, ScriptsTypeOK
  <2> QED
    BY <1>5, <2>3 DEF Spawn, At, Resume, process, inputs, HistoryTypeOK, MemoryTypeOK
<1>6. CASE LoopEnds
  BY <1>6, DownType DEF LoopEnds, world, history, ScriptsTypeOK, HistoryTypeOK
<1> QED
  BY <1>1, <1>2, <1>3, <1>4, <1>5, <1>6 DEF LoopStep

\* What pushes only writes to the stream and to what feeds it, or ends the
\* program.
LEMMA PushesApprovedType ==
  ASSUME MemoryTypeOK, monitor # "down", NEW S \in SUBSET Issues, PushesApproved(S),
         monitor' # "down" =>
           /\ feed' \in {"off", "scan", "scanned", "poll", "polled", "listen"}
           /\ fetched' \in [Issues -> SUBSET Labels] /\ known' \in [Issues -> SUBSET Labels]
  PROVE  MemoryTypeOK'
<1>1. PICK s \in Orders(S) : Pushes([n \in DOMAIN s |-> Message("approved", s[n])])
  BY DEF PushesApproved
<1>2. [n \in DOMAIN s |-> Message("approved", s[n])] \in Seq(Messages)
  BY OrderedType
<1> QED
  BY <1>1, <1>2, PushesType, PushedType

LEMMA FeedType ==
  ASSUME TypeInv, FeedStep
  PROVE  TypeInv'
<1> USE DEF TypeInv
<1>1. ScriptsTypeOK' /\ HistoryTypeOK'
  BY DEF FeedStep, ScanFetch, ScanPush, PollFetch, PollPush, world, history, ScriptsTypeOK, HistoryTypeOK
<1>2. monitor # "down"
  BY DEF FeedStep, ScanFetch, ScanPush, PollFetch, PollPush, MemoryTypeOK, Empty, EmptyMemory
<1>3. CASE ScanFetch
  BY <1>1, <1>2, <1>3, FetchType DEF ScanFetch, process, loop, MemoryTypeOK
<1>4. CASE PollFetch
  BY <1>1, <1>2, <1>4, FetchType DEF PollFetch, process, loop, MemoryTypeOK
<1>5. NotListed \in [Issues -> SUBSET Labels]
  BY DEF NotListed
<1>6. CASE ScanPush
  <2>1. Pending \in SUBSET Issues
    BY DEF Pending
  <2> QED
    BY <1>1, <1>2, <1>5, <1>6, <2>1, PushesApprovedType DEF ScanPush, MemoryTypeOK
<1>7. CASE PollPush
  <2>1. News \in SUBSET Issues
    BY DEF News
  <2>2. [i \in Issues |-> IF fetched[i] # {} THEN fetched[i] ELSE known[i]] \in [Issues -> SUBSET Labels]
    BY DEF MemoryTypeOK
  <2> QED
    BY <1>1, <1>2, <1>5, <1>7, <2>1, <2>2, PushesApprovedType DEF PollPush, MemoryTypeOK
<1> QED
  BY <1>3, <1>4, <1>6, <1>7 DEF FeedStep

LEMMA DeliverType ==
  ASSUME TypeInv, NEW i \in Issues, Deliver(i)
  PROVE  TypeInv'
<1> USE DEF TypeInv
<1>1. ScriptsTypeOK' /\ HistoryTypeOK'
  BY DEF Deliver, github, ScriptsTypeOK, HistoryTypeOK
<1>2. <<Message("approved", i)>> \in Seq(Messages)
  BY DEF Message, Messages
<1>3. CASE feed = "listen" /\ Pushes(<<Message("approved", i)>>) /\ (monitor' # "down" => UNCHANGED inputs)
  <2>1. monitor # "down"
    BY <1>3 DEF MemoryTypeOK, Empty, EmptyMemory
  <2> QED
    BY <1>1, <1>2, <1>3, <2>1, PushesType, PushedType DEF inputs, MemoryTypeOK
<1>4. CASE UNCHANGED <<process, memory>>
  BY <1>1, <1>4 DEF process, memory, loop, inputs, MemoryTypeOK, Empty
<1> QED
  BY <1>3, <1>4 DEF Deliver

LEMMA RunType ==
  ASSUME TypeInv, NEW r \in Runs, RunStep(r)
  PROVE  TypeInv'
<1> USE DEF TypeInv
<1>1. CASE ScriptStep(r) /\ UNCHANGED <<process, memory, history>>
  BY <1>1, ScriptStepType DEF process, memory, loop, inputs, history, MemoryTypeOK, HistoryTypeOK, Empty
<1>2. CASE Report(r)
  <2>1. script[r] # Null /\ script[r] \in Doing
    BY <1>2 DEF Report, Is, ScriptsTypeOK
  <2>2. <<Message("complete", script[r].issue)>> \in Seq(Messages)
    BY <2>1 DEF Message, Messages, Doing
  <2>3. ScriptsTypeOK' /\ HistoryTypeOK'
    BY <1>2 DEF Report, github, history, ScriptsTypeOK, HistoryTypeOK
  <2> QED
    BY <1>2, <2>2, <2>3, PushesType, PushedType DEF Report, inputs, MemoryTypeOK
<1>3. CASE Reap(r)
  BY <1>3 DEF Reap, github, process, memory, loop, inputs, history, ScriptsTypeOK, MemoryTypeOK, HistoryTypeOK, Empty
<1>4. CASE Die(r)
  <2>1. ScriptsTypeOK'
    BY <1>4, Exit DEF Die, Live, github, ScriptsTypeOK
  <2> QED
    BY <1>4, <2>1 DEF Die, process, memory, loop, inputs, history, MemoryTypeOK, HistoryTypeOK, Empty
<1> QED
  BY <1>1, <1>2, <1>3, <1>4 DEF RunStep

LEMMA PeopleType ==
  ASSUME TypeInv, PeopleStep
  PROVE  TypeInv'
<1> USE DEF TypeInv
<1>1. ASSUME NEW i \in Issues, Approve(i) \/ Unapprove(i)
      PROVE  TypeInv'
  <2>1. ScriptsTypeOK'
    BY <1>1 DEF Approve, Unapprove, AddApproval, Withdraw, ScriptsTypeOK, Labels
  <2> QED
    BY <1>1, <2>1 DEF Approve, Unapprove, process, memory, loop, inputs, MemoryTypeOK, HistoryTypeOK, Empty
<1>2. ASSUME NEW i \in Issues, Mark(i), UNCHANGED <<process, memory, history>>
      PROVE  TypeInv'
  <2>1. ScriptsTypeOK'
    BY <1>2 DEF Mark, ScriptsTypeOK, Labels
  <2> QED
    BY <1>2, <2>1 DEF process, memory, loop, inputs, history, MemoryTypeOK, HistoryTypeOK, Empty
<1>3. ASSUME NEW i \in Issues, NEW r \in Runs, RunByHand(r, i), UNCHANGED <<process, memory, history>>
      PROVE  TypeInv'
  <2>1. Run(i, Person) \in Doing
    BY DEF Run, Person, Doing, Places
  <2>2. ScriptsTypeOK'
    BY <1>3, <2>1 DEF RunByHand, github, ScriptsTypeOK
  <2> QED
    BY <1>3, <2>2 DEF process, memory, loop, inputs, history, MemoryTypeOK, HistoryTypeOK, Empty
<1>4. CASE Shutdown
  BY <1>4, ProcessType
<1> QED
  BY <1>1, <1>2, <1>3, <1>4 DEF PeopleStep

LEMMA TypeStep == TypeInv /\ [Next]_vars => TypeInv'
<1> SUFFICES ASSUME TypeInv, [Next]_vars PROVE TypeInv'
  OBVIOUS
<1>1. CASE UNCHANGED vars
  BY <1>1 DEF vars, world, history, process, memory, loop, inputs, TypeInv, ScriptsTypeOK, MemoryTypeOK, HistoryTypeOK, Empty
<1> QED
  BY <1>1, ProcessType, LoopType, FeedType, DeliverType, RunType, PeopleType DEF Next

\* The monitor, the runs and what they share are well formed whatever happens
\* around them; a monitor that is down remembers nothing.
THEOREM TypeCorrect == Spec => []TypeOK
<1>1. Spec => []TypeInv
  BY InitType, TypeStep, PTL DEF Spec
<1> QED
  BY <1>1, TypeParts, PTL

-----------------------------------------------------------------------------
(* Completions in the stream. *)

Reports(s, i) == \E n \in DOMAIN s : s[n] = Message("complete", i)

\* Nothing is reported twice.
OnceEach(s) ==
  \A m, n \in DOMAIN s : s[m].type = "complete" /\ s[m] = s[n] => m = n

OnlyApprovals(s) == \A n \in DOMAIN s : s[n].type = "approved"

LEMMA ReportsBoth ==
  ASSUME NEW s \in Seq(Messages), NEW t \in Seq(Messages), NEW i
  PROVE  Reports(s \o t, i) <=> Reports(s, i) \/ Reports(t, i)
<1>1. /\ s \o t \in Seq(Messages)
      /\ DOMAIN s = 1 .. Len(s) /\ DOMAIN t = 1 .. Len(t) /\ Len(s) \in Nat /\ Len(t) \in Nat
      /\ DOMAIN (s \o t) = 1 .. Len(s) + Len(t)
      /\ \A n \in 1 .. Len(s) + Len(t) : (s \o t)[n] = IF n <= Len(s) THEN s[n] ELSE t[n - Len(s)]
  BY ConcatProperties, LenProperties
<1>2. ASSUME Reports(s \o t, i) PROVE Reports(s, i) \/ Reports(t, i)
  <2>1. PICK n \in 1 .. Len(s) + Len(t) : (s \o t)[n] = Message("complete", i)
    BY <1>1, <1>2 DEF Reports
  <2>2. CASE n <= Len(s)
    BY <1>1, <2>1, <2>2 DEF Reports
  <2>3. CASE n > Len(s)
    <3>1. n - Len(s) \in DOMAIN t
      BY <1>1, <2>3
    <3> QED
      BY <1>1, <2>1, <2>3, <3>1 DEF Reports
  <2> QED
    BY <1>1, <2>2, <2>3
<1>3. ASSUME Reports(s, i) PROVE Reports(s \o t, i)
  BY <1>1, <1>3 DEF Reports
<1>4. ASSUME Reports(t, i) PROVE Reports(s \o t, i)
  <2>1. PICK n \in DOMAIN t : t[n] = Message("complete", i)
    BY <1>4 DEF Reports
  <2>2. n + Len(s) \in 1 .. Len(s) + Len(t) /\ ~(n + Len(s) <= Len(s)) /\ (n + Len(s)) - Len(s) = n
    BY <1>1, <2>1
  <2>3. (s \o t)[n + Len(s)] = t[n]
    BY <1>1, <2>2
  <2> QED
    BY <1>1, <2>1, <2>2, <2>3 DEF Reports
<1> QED
  BY <1>2, <1>3, <1>4

LEMMA OnceBoth ==
  ASSUME NEW s \in Seq(Messages), NEW t \in Seq(Messages), OnceEach(s), OnceEach(t),
         \A n \in DOMAIN t : t[n].type = "complete" => ~Reports(s, t[n].issue)
  PROVE  OnceEach(s \o t)
<1>1. /\ DOMAIN s = 1 .. Len(s) /\ DOMAIN t = 1 .. Len(t) /\ Len(s) \in Nat /\ Len(t) \in Nat
      /\ DOMAIN (s \o t) = 1 .. Len(s) + Len(t)
      /\ \A n \in 1 .. Len(s) + Len(t) : (s \o t)[n] = IF n <= Len(s) THEN s[n] ELSE t[n - Len(s)]
  BY ConcatProperties, LenProperties
<1>2. \A n \in DOMAIN t : t[n].type = "complete" => t[n] = Message("complete", t[n].issue)
  <2>1. \A x \in Messages : x.type = "complete" => x = Message("complete", x.issue)
    BY DEF Messages, Message
  <2>2. \A n \in DOMAIN t : t[n] \in Messages
    BY <1>1
  <2> QED
    BY <2>1, <2>2
<1>3. \A m \in DOMAIN s, n \in DOMAIN t : t[n].type = "complete" => s[m] # t[n]
  BY <1>2 DEF Reports
<1>4. \A n \in 1 .. Len(s) + Len(t) : n > Len(s) => n - Len(s) \in DOMAIN t
  BY <1>1
<1> SUFFICES ASSUME NEW m \in 1 .. Len(s) + Len(t), NEW n \in 1 .. Len(s) + Len(t),
                    (s \o t)[m].type = "complete", (s \o t)[m] = (s \o t)[n]
             PROVE  m = n
  BY <1>1 DEF OnceEach
<1>5. CASE m <= Len(s) /\ n <= Len(s)
  BY <1>1, <1>5 DEF OnceEach
<1>6. CASE m > Len(s) /\ n > Len(s)
  <2>1. m - Len(s) = n - Len(s)
    BY <1>1, <1>4, <1>6 DEF OnceEach
  <2> QED
    BY <1>1, <2>1
<1>7. CASE m <= Len(s) /\ n > Len(s)
  BY <1>1, <1>3, <1>4, <1>7
<1>8. CASE m > Len(s) /\ n <= Len(s)
  BY <1>1, <1>3, <1>4, <1>8
<1> QED
  BY <1>1, <1>5, <1>6, <1>7, <1>8

\* Approvals leave the completions alone.
LEMMA ApprovalsReportNothing ==
  ASSUME NEW s \in Seq(Messages), NEW t \in Seq(Messages), OnlyApprovals(t), OnceEach(s)
  PROVE  OnceEach(s \o t) /\ \A i : Reports(s \o t, i) <=> Reports(s, i)
<1>1. OnceEach(t) /\ \A i : ~Reports(t, i)
  BY DEF OnlyApprovals, OnceEach, Reports, Message
<1>2. OnceEach(s \o t)
  BY <1>1, OnceBoth DEF OnlyApprovals
<1> QED
  BY <1>1, <1>2, ReportsBoth

\* One more is reported.
LEMMA CompletionReports ==
  ASSUME NEW s \in Seq(Messages), NEW i \in Issues, OnceEach(s), ~Reports(s, i)
  PROVE  LET t == s \o <<Message("complete", i)>>
         IN OnceEach(t) /\ \A j : Reports(t, j) <=> Reports(s, j) \/ j = i
<1> DEFINE one == <<Message("complete", i)>>
<1>1. one \in Seq(Messages) /\ DOMAIN one = {1} /\ one[1] = Message("complete", i)
  BY DEF Message, Messages
<1> HIDE DEF one
<1>2. OnceEach(one) /\ \A j : Reports(one, j) <=> j = i
  BY <1>1 DEF OnceEach, Reports, Message
<1>3. OnceEach(s \o one)
  BY <1>1, <1>2, OnceBoth DEF Message
<1>4. \A j : Reports(s \o one, j) <=> Reports(s, j) \/ j = i
  BY <1>1, <1>2, ReportsBoth
<1> QED
  BY <1>3, <1>4 DEF one

\* One is read.
LEMMA ReadReports ==
  ASSUME NEW s \in Seq(Messages), s # <<>>, OnceEach(s)
  PROVE  /\ OnceEach(Tail(s))
         /\ \A i : Reports(Tail(s), i) <=> Reports(s, i) /\ Head(s) # Message("complete", i)
<1>1. /\ DOMAIN s = 1 .. Len(s) /\ Len(s) \in Nat \ {0} /\ Head(s) = s[1]
      /\ DOMAIN Tail(s) = 1 .. Len(s) - 1
      /\ \A n \in 1 .. Len(s) - 1 : Tail(s)[n] = s[n + 1]
  BY HeadTailProperties, LenProperties
<1>2. OnceEach(Tail(s))
  BY <1>1 DEF OnceEach
<1>3. ASSUME NEW i, Reports(Tail(s), i)
      PROVE  Reports(s, i) /\ Head(s) # Message("complete", i)
  <2>1. PICK n \in 1 .. Len(s) - 1 : s[n + 1] = Message("complete", i)
    BY <1>1, <1>3 DEF Reports
  <2>2. n + 1 \in DOMAIN s /\ n + 1 # 1 /\ 1 \in DOMAIN s
    BY <1>1, <2>1
  <2> QED
    BY <1>1, <2>1, <2>2 DEF Reports, OnceEach, Message
<1>4. ASSUME NEW i, Reports(s, i), Head(s) # Message("complete", i)
      PROVE  Reports(Tail(s), i)
  <2>1. PICK n \in 1 .. Len(s) : s[n] = Message("complete", i)
    BY <1>1, <1>4 DEF Reports
  <2>2. n # 1 /\ n - 1 \in 1 .. Len(s) - 1 /\ (n - 1) + 1 = n
    BY <1>1, <1>4, <2>1
  <2> QED
    BY <1>1, <2>1, <2>2 DEF Reports
<1> QED
  BY <1>2, <1>3, <1>4

-----------------------------------------------------------------------------
(* Slots. *)

Running(i) == \E r \in Runs : Ours(r) /\ script[r].issue = i

\* No run is of a monitor that is still to be started.
Owned == \A r \in Runs : script[r] # Null => script[r].owner <= epoch

OneRun ==
  \A r, q \in Runs : Ours(r) /\ Ours(q) /\ script[r].issue = script[q].issue => r = q

\* A slot is held by a run, by a completion or by a start, and by one of them.
Held(i) == Running(i) \/ Reports(stream, i) \/ Starting(i)

HeldOnce(i) ==
  /\ ~(Running(i) /\ Reports(stream, i))
  /\ Starting(i) => ~Running(i) /\ ~Reports(stream, i)

Slots ==
  /\ epoch # Person /\ OnceEach(stream) /\ OneRun
  /\ \A i \in Issues : (i \in processing <=> Held(i)) /\ HeldOnce(i)
  /\ pc \in {"isProcessing", "removeLock"} => cur \notin processing

SlotInv == Owned /\ (monitor # "down" => Slots)

\* The runs of this monitor are the same ones, on the same issues.
SameOurs ==
  \A r \in Runs : /\ Ours(r)' <=> Ours(r)
                  /\ Ours(r) => script'[r].issue = script[r].issue

LEMMA SameRunning ==
  ASSUME SameOurs
  PROVE  /\ \A i : Running(i)' <=> Running(i)
         /\ OneRun => OneRun'
BY DEF SameOurs, Running, OneRun

LEMMA UnchangedOurs ==
  ASSUME UNCHANGED <<script, epoch>>
  PROVE  SameOurs /\ (Owned => Owned')
BY DEF SameOurs, Ours, Owned

LEMMA WorkersOurs ==
  ASSUME SameWorkers, UNCHANGED epoch
  PROVE  SameOurs /\ (Owned => Owned')
BY DEF SameWorkers, SameOurs, Ours, Owned

\* A step that has to do with no slot.
LEMMA SlotsKept ==
  ASSUME Slots, SameOurs, UNCHANGED <<epoch, processing>>, OnceEach(stream'),
         \A i \in Issues : Reports(stream', i) <=> Reports(stream, i),
         \A i \in Issues : Starting(i)' <=> Starting(i),
         pc' \in {"isProcessing", "removeLock"} => cur' \notin processing
  PROVE  Slots'
<1>1. \A i \in Issues : Held(i)' <=> Held(i)
  BY SameRunning DEF Held
<1>2. \A i \in Issues : HeldOnce(i) => HeldOnce(i)'
  BY SameRunning DEF HeldOnce
<1>3. OneRun' /\ OnceEach(stream)'
  BY SameRunning DEF Slots, OnceEach
<1> QED
  BY <1>1, <1>2, <1>3 DEF Slots

\* A start.
LEMMA SlotTaken ==
  ASSUME Slots, SameOurs, UNCHANGED <<epoch, stream>>, pc \in {"isProcessing", "removeLock"},
         NEW j \in Issues, j \notin processing, TakeSlot(j)
  PROVE  Slots'
<1>1. processing' = processing \cup {j} /\ pc' = "createLock" /\ cur' = j
  BY DEF TakeSlot
<1>2. \A i \in Issues : ~Starting(i) /\ (Starting(i)' <=> i = j)
  BY <1>1 DEF Starting
<1>3. ~Running(j) /\ ~Reports(stream, j)
  BY DEF Slots, Held
<1>4. \A i \in Issues : Reports(stream, i)' <=> Reports(stream, i)
  BY DEF Reports
<1>5. \A i \in Issues : Held(i)' <=> Held(i) \/ i = j
  BY <1>2, <1>4, SameRunning DEF Held
<1>6. \A i \in Issues : HeldOnce(i)'
  BY <1>2, <1>3, <1>4, SameRunning DEF HeldOnce, Slots
<1>7. OneRun' /\ OnceEach(stream)' /\ epoch' # Person
  BY SameRunning DEF Slots, OnceEach
<1> QED
  BY <1>1, <1>5, <1>6, <1>7 DEF Slots

LEMMA LoopSlots ==
  ASSUME TypeInv, SlotInv, LoopStep, queue # <<>> => Head(queue) \in Issues \ processing
  PROVE  SlotInv'
<1> USE DEF SlotInv
<1>1. CASE Take
  <2>1. UNCHANGED <<script, epoch, monitor>> /\ monitor # "down" /\ pc = "next" /\ stream # <<>> /\ stream' = Tail(stream)
    BY <1>1 DEF Take, At, world, process
  <2>2. SameOurs /\ Owned'
    BY <2>1, UnchangedOurs
  <2> DEFINE m == Head(stream)
  <2>3. m \in Messages /\ stream \in Seq(Messages)
    BY <2>1, HeadTailProperties DEF TypeInv, MemoryTypeOK
  <2>4. /\ m.issue \in Issues /\ m.type \in {"approved", "complete"}
        /\ m.type = "complete" => m = Message("complete", m.issue)
        /\ m.type = "approved" => \A i : m # Message("complete", i)
        /\ \A i : m = Message("complete", i) => m.issue = i
    BY <2>3 DEF Messages, Message
  <2>5. OnceEach(stream') /\ \A i : Reports(stream', i) <=> Reports(stream, i) /\ m # Message("complete", i)
    BY <2>1, <2>3, ReadReports DEF Slots
  <2>6. \A i \in Issues : ~Starting(i)
    BY <2>1 DEF Starting
  <2>7. CASE m.type = "approved"
    <3>1. \A i \in Issues : ~Starting(i)'
      BY <1>1, <2>1, <2>7 DEF Take, Starting
    <3>2. UNCHANGED processing /\ (pc' \in {"isProcessing", "removeLock"} => cur' \notin processing)
      BY <1>1, <2>1, <2>7 DEF Take
    <3> HIDE DEF m
    <3> QED
      BY <2>1, <2>2, <2>4, <2>5, <2>6, <2>7, <3>1, <3>2, SlotsKept
  <2>8. CASE m.type = "complete"
    <3>1. processing' = processing \ {m.issue} /\ pc' = "removeLock" /\ cur' = m.issue
      BY <1>1, <2>8 DEF Take
    <3>2. \A i \in Issues : ~Starting(i)'
      BY <3>1 DEF Starting
    <3>3. Reports(stream, m.issue)
      <4>1. 1 \in DOMAIN stream /\ stream[1] = m
        BY <2>1, <2>3, HeadTailProperties, LenProperties
      <4> QED
        BY <4>1, <2>4, <2>8 DEF Reports
    <3> HIDE DEF m
    <3>4. \A i \in Issues : Held(i)' <=> Held(i) /\ i # m.issue
      <4> SUFFICES ASSUME NEW i \in Issues PROVE Held(i)' <=> Held(i) /\ i # m.issue
        OBVIOUS
      <4>1. Held(i)' <=> Running(i) \/ Reports(stream', i)
        BY <2>2, <3>2, SameRunning DEF Held
      <4>2. Held(i) <=> Running(i) \/ Reports(stream, i)
        BY <2>6 DEF Held
      <4>3. i = m.issue => ~Running(i)
        BY <2>1, <3>3 DEF Slots, HeldOnce
      <4> QED
        BY <2>4, <2>5, <2>8, <4>1, <4>2, <4>3
    <3>5. \A i \in Issues : HeldOnce(i)'
      BY <2>1, <2>2, <2>5, <3>2, SameRunning DEF HeldOnce, Slots
    <3>6. OneRun' /\ OnceEach(stream)' /\ epoch' # Person
      BY <2>1, <2>2, <2>5, SameRunning DEF Slots, OnceEach
    <3> QED
      BY <2>1, <2>2, <3>1, <3>4, <3>5, <3>6 DEF Slots
  <2> QED
    BY <2>4, <2>7, <2>8
<1>2. CASE Admit
  <2>1. UNCHANGED <<script, epoch, monitor, stream>> /\ monitor # "down" /\ pc = "isProcessing"
    BY <1>2 DEF Admit, At, world, process
  <2>2. SameOurs /\ Owned'
    BY <2>1, UnchangedOurs
  <2>3. cur \in Issues /\ cur \notin processing
    BY <2>1 DEF Slots, TypeInv, MemoryTypeOK
  <2>4. CASE TakeSlot(cur)
    BY <2>1, <2>2, <2>3, <2>4, SlotTaken
  <2>5. CASE Resume /\ UNCHANGED processing
    BY <2>1, <2>2, <2>5, SlotsKept DEF Slots, Resume, Starting, Reports, OnceEach
  <2> QED
    BY <1>2, <2>4, <2>5 DEF Admit
<1>3. CASE RemoveLock
  <2>1. UNCHANGED <<script, epoch, monitor, stream>> /\ monitor # "down" /\ pc = "removeLock"
    BY <1>3 DEF RemoveLock, At, process
  <2>2. SameOurs /\ Owned'
    BY <2>1, UnchangedOurs
  <2>3. CASE queue # <<>> /\ TakeSlot(Head(queue))
    BY <2>1, <2>2, <2>3, SlotTaken
  <2>4. CASE Resume /\ UNCHANGED processing
    BY <2>1, <2>2, <2>4, SlotsKept DEF Slots, Resume, Starting, Reports, OnceEach
  <2> QED
    BY <1>3, <2>3, <2>4 DEF RemoveLock
<1>4. CASE CreateLock
  <2>1. /\ UNCHANGED <<script, epoch, monitor, stream, processing, cur>> /\ monitor # "down"
        /\ pc = "createLock" /\ pc' = "spawn"
    BY <1>4 DEF CreateLock, At, process
  <2>2. SameOurs /\ Owned'
    BY <2>1, UnchangedOurs
  <2> QED
    BY <2>1, <2>2, SlotsKept DEF Slots, Starting, Reports, OnceEach
<1>5. ASSUME NEW r \in Runs, Spawn(r)
      PROVE  SlotInv'
  <2>1. /\ UNCHANGED <<epoch, monitor, stream, processing>> /\ monitor # "down" /\ pc = "spawn"
        /\ script[r] = Null /\ script' = [script EXCEPT ![r] = Run(cur, epoch)]
        /\ pc' = "next"
    BY <1>5 DEF Spawn, At, Resume, process
  <2>2. cur \in Issues /\ epoch \in Nat /\ script \in [Runs -> Doing \cup {Null}]
    BY <2>1, MonitorAssumption DEF TypeInv, MemoryTypeOK, ScriptsTypeOK
  <2>3. Run(cur, epoch) # Null /\ Run(cur, epoch).issue = cur /\ Run(cur, epoch).owner = epoch
    <3>1. Run(cur, epoch) \in Doing
      BY <2>2 DEF Run, Doing, Places
    <3> QED
      BY <3>1, DoingAssumption DEF Run
  <2>4. \A q \in Runs : script'[q] = IF q = r THEN Run(cur, epoch) ELSE script[q]
    BY <2>1, <2>2
  <2>5. Owned'
    BY <2>1, <2>2, <2>3, <2>4 DEF Owned
  <2>6. \A q \in Runs : Ours(q)' <=> Ours(q) \/ q = r
    BY <2>1, <2>3, <2>4 DEF Ours, Slots
  <2>7. ~Ours(r)
    BY <2>1 DEF Ours
  <2>8. Starting(cur) /\ \A i \in Issues : (Starting(i) <=> i = cur) /\ ~Starting(i)'
    BY <2>1 DEF Starting
  <2>9. ~Running(cur) /\ ~Reports(stream, cur)
    BY <2>1, <2>2, <2>8 DEF Slots, HeldOnce
  <2>10. \A i \in Issues : Running(i)' <=> Running(i) \/ i = cur
    BY <2>3, <2>4, <2>6, <2>7 DEF Running
  <2>11. OneRun'
    BY <2>1, <2>3, <2>4, <2>6, <2>7, <2>9 DEF OneRun, Running, Slots
  <2>12. \A i \in Issues : Reports(stream, i)' <=> Reports(stream, i)
    BY <2>1 DEF Reports
  <2>13. \A i \in Issues : (Held(i)' <=> Held(i)) /\ HeldOnce(i)'
    BY <2>1, <2>8, <2>9, <2>10, <2>12 DEF Held, HeldOnce, Slots
  <2> QED
    BY <2>1, <2>5, <2>11, <2>13 DEF Slots, OnceEach
<1>6. CASE LoopEnds
  <2>1. UNCHANGED <<script, epoch>> /\ monitor' = "down"
    BY <1>6 DEF LoopEnds, GoesDown, world
  <2> QED
    BY <2>1, UnchangedOurs
<1> QED
  BY <1>1, <1>2, <1>3, <1>4, <1>5, <1>6 DEF LoopStep

LEMMA InitSlots == Init => SlotInv
BY DEF Init, InitScripts, SlotInv, Owned

\* The program goes down: no run changes hands.
LEMMA DownSlots ==
  ASSUME SlotInv, GoesDown, UNCHANGED script
  PROVE  SlotInv'
BY UnchangedOurs DEF GoesDown, SlotInv

LEMMA ProcessSlots ==
  ASSUME TypeInv, SlotInv, Start \/ Shutdown \/ Crash
  PROVE  SlotInv'
<1>1. CASE Start
  <2>1. /\ monitor = "down" /\ epoch' = epoch + 1 /\ epoch \in Nat
        /\ UNCHANGED <<script, stream, processing, pc, cur>>
    BY <1>1, MonitorAssumption DEF Start, world, loop, TypeInv, MemoryTypeOK
  <2>2. stream = <<>> /\ processing = {} /\ pc = "next"
    BY <2>1 DEF TypeInv, MemoryTypeOK, Empty, EmptyMemory
  <2>3. \A r \in Runs : script[r] # Null => script[r].owner \in Nat /\ script[r].owner <= epoch
    BY DEF SlotInv, Owned, TypeInv, ScriptsTypeOK, Doing
  <2>4. Owned' /\ \A r \in Runs : ~Ours(r)'
    BY <2>1, <2>3 DEF Owned, Ours
  <2>5. \A i \in Issues : ~Held(i)' /\ HeldOnce(i)'
    BY <2>1, <2>2, <2>4 DEF Held, HeldOnce, Running, Reports, Starting
  <2>6. OnceEach(stream)' /\ OneRun'
    BY <2>1, <2>2, <2>4 DEF OnceEach, OneRun
  <2> QED
    BY <2>1, <2>2, <2>4, <2>5, <2>6 DEF SlotInv, Slots, Person
<1>2. CASE Shutdown
  <2>1. UNCHANGED <<script, epoch, stream, processing, pc, cur>> /\ monitor # "down"
    BY <1>2 DEF Shutdown, world, loop
  <2> QED
    BY <2>1, UnchangedOurs, SlotsKept DEF SlotInv, Slots, OnceEach, Reports, Starting
<1>3. CASE Crash
  BY <1>3, DownSlots DEF Crash, world
<1> QED
  BY <1>1, <1>2, <1>3

\* Approvals that are written to the stream.
LEMMA ApprovalSlots ==
  ASSUME TypeInv, SlotInv, monitor # "down", UNCHANGED script,
         NEW messages \in Seq(Messages), OnlyApprovals(messages), Pushes(messages)
  PROVE  SlotInv'
<1>1. stream \in Seq(Messages) /\ OnceEach(stream)
  BY DEF TypeInv, MemoryTypeOK, SlotInv, Slots
<1>2. CASE GoesDown
  BY <1>2, DownSlots
<1>3. CASE Pushed(messages)
  <2>1. UNCHANGED <<script, epoch, processing, pc, cur, monitor>> /\ stream' = stream \o messages
    BY <1>3 DEF Pushed, process, loop
  <2>2. OnceEach(stream') /\ \A i \in Issues : Reports(stream', i) <=> Reports(stream, i)
    BY <1>1, <2>1, ApprovalsReportNothing
  <2> QED
    BY <2>1, <2>2, UnchangedOurs, SlotsKept DEF SlotInv, Slots, Starting
<1> QED
  BY <1>2, <1>3 DEF Pushes, Pushed

LEMMA FeedSlots ==
  ASSUME TypeInv, SlotInv, FeedStep
  PROVE  SlotInv'
<1>1. UNCHANGED script /\ monitor # "down"
  BY DEF FeedStep, ScanFetch, ScanPush, PollFetch, PollPush, world, TypeInv, MemoryTypeOK, Empty, EmptyMemory
<1>2. CASE ScanFetch \/ PollFetch
  <2>1. UNCHANGED <<epoch, stream, processing, pc, cur>>
    BY <1>2 DEF ScanFetch, PollFetch, process, loop
  <2> QED
    BY <1>1, <2>1, UnchangedOurs, SlotsKept DEF SlotInv, Slots, OnceEach, Reports, Starting
<1>3. ASSUME NEW S \in SUBSET Issues, PushesApproved(S)
      PROVE  SlotInv'
  <2>1. PICK s \in Orders(S) : Pushes([n \in DOMAIN s |-> Message("approved", s[n])])
    BY <1>3 DEF PushesApproved
  <2>2. /\ [n \in DOMAIN s |-> Message("approved", s[n])] \in Seq(Messages)
        /\ OnlyApprovals([n \in DOMAIN s |-> Message("approved", s[n])])
    BY OrderedType DEF OnlyApprovals
  <2> QED
    BY <1>1, <2>1, <2>2, ApprovalSlots
<1>4. Pending \in SUBSET Issues /\ News \in SUBSET Issues
  BY DEF Pending, News
<1> QED
  BY <1>2, <1>3, <1>4 DEF FeedStep, ScanPush, PollPush

LEMMA DeliverSlots ==
  ASSUME TypeInv, SlotInv, NEW i \in Issues, Deliver(i)
  PROVE  SlotInv'
<1>1. UNCHANGED script
  BY DEF Deliver
<1>2. CASE feed = "listen" /\ Pushes(<<Message("approved", i)>>)
  <2>1. monitor # "down"
    BY <1>2 DEF TypeInv, MemoryTypeOK, Empty, EmptyMemory
  <2>2. <<Message("approved", i)>> \in Seq(Messages) /\ OnlyApprovals(<<Message("approved", i)>>)
    BY DEF Message, Messages, OnlyApprovals
  <2> QED
    BY <1>1, <1>2, <2>1, <2>2, ApprovalSlots
<1>3. CASE UNCHANGED <<process, memory>>
  BY <1>1, <1>3, UnchangedOurs, SlotsKept
     DEF process, memory, loop, SlotInv, Slots, OnceEach, Reports, Starting
<1> QED
  BY <1>2, <1>3 DEF Deliver

\* A step of a run that no monitor remembers.
LEMMA OursKept ==
  ASSUME SlotInv, SameOurs, Owned', UNCHANGED <<process, memory>>
  PROVE  SlotInv'
BY SlotsKept DEF process, memory, loop, SlotInv, Slots, OnceEach, Reports, Starting

LEMMA ReportSlots ==
  ASSUME TypeInv, SlotInv, NEW r \in Runs, Report(r)
  PROVE  SlotInv'
<1> DEFINE i == script[r].issue
<1>1. /\ script[r] # Null /\ script[r].owner = epoch /\ monitor # "down" /\ i \in Issues
      /\ script' = [script EXCEPT ![r] = Null] /\ script \in [Runs -> Doing \cup {Null}]
  BY DEF Report, Is, TypeInv, ScriptsTypeOK, Doing
<1>2. \A q \in Runs : script'[q] = IF q = r THEN Null ELSE script[q]
  BY <1>1
<1>3. epoch' = epoch => Owned'
  BY <1>2 DEF SlotInv, Owned
<1>4. CASE GoesDown
  BY <1>3, <1>4 DEF GoesDown, SlotInv
<1>5. CASE Pushed(<<Message("complete", i)>>)
  <2>1. UNCHANGED <<epoch, processing, pc, cur, monitor>> /\ stream' = stream \o <<Message("complete", i)>>
    BY <1>5 DEF Pushed, process, loop
  <2>2. Ours(r) /\ Running(i) /\ ~Reports(stream, i) /\ ~Starting(i)
    BY <1>1 DEF Ours, Running, SlotInv, Slots, HeldOnce
  <2> HIDE DEF i
  <2>3. OnceEach(stream') /\ \A j : Reports(stream', j) <=> Reports(stream, j) \/ j = i
    BY <1>1, <2>1, <2>2, CompletionReports DEF TypeInv, MemoryTypeOK, SlotInv, Slots
  <2>4. \A q \in Runs : /\ Ours(q)' <=> Ours(q) /\ q # r
                        /\ Ours(q)' => script'[q].issue = script[q].issue
    BY <1>2, <2>1 DEF Ours
  <2>5. \A j \in Issues : Running(j)' <=> Running(j) /\ j # i
    BY <1>1, <2>2, <2>4 DEF Running, SlotInv, Slots, OneRun, i
  <2>6. OneRun'
    BY <1>1, <2>4 DEF OneRun, SlotInv, Slots
  <2>7. \A j \in Issues : Starting(j)' <=> Starting(j)
    BY <2>1 DEF Starting
  <2>8. \A j \in Issues : (Held(j)' <=> Held(j)) /\ HeldOnce(j)'
    BY <1>1, <2>2, <2>3, <2>5, <2>7 DEF Held, HeldOnce, SlotInv, Slots
  <2> QED
    BY <1>1, <1>3, <2>1, <2>3, <2>6, <2>8 DEF SlotInv, Slots, OnceEach
<1> QED
  BY <1>4, <1>5 DEF Report, Pushes, Pushed

LEMMA RunSlots ==
  ASSUME TypeInv, SlotInv, NEW r \in Runs, RunStep(r)
  PROVE  SlotInv'
<1>1. CASE ScriptStep(r) /\ UNCHANGED <<process, memory, history>>
  BY <1>1, ScriptStepType, WorkersOurs, OursKept DEF TypeInv, SlotInv, process
<1>2. CASE Report(r)
  BY <1>2, ReportSlots
<1>3. CASE Reap(r) /\ monitor # "down"
  <2>1. /\ script' = [script EXCEPT ![r] = Null] /\ script \in [Runs -> Doing \cup {Null}]
        /\ UNCHANGED <<process, memory, epoch>>
    BY <1>3 DEF Reap, process, TypeInv, ScriptsTypeOK
  <2>2. \A q \in Runs : script'[q] = IF q = r THEN Null ELSE script[q]
    BY <2>1
  <2>3. ~Ours(r)
    BY <1>3 DEF Reap, Orphan, Ours, SlotInv, Slots
  <2>4. SameOurs /\ Owned'
    BY <2>1, <2>2, <2>3 DEF SameOurs, Ours, SlotInv, Owned
  <2> QED
    BY <2>1, <2>4, OursKept
<1>4. CASE Reap(r) /\ monitor = "down"
  <2>1. \A q \in Runs : script'[q] = IF q = r THEN Null ELSE script[q]
    BY <1>4 DEF Reap, TypeInv, ScriptsTypeOK
  <2> QED
    BY <1>4, <2>1 DEF Reap, process, SlotInv, Owned
<1>5. CASE Die(r)
  BY <1>5, Exit, WorkersOurs, OursKept DEF Die, Live, TypeInv, SlotInv, process
<1> QED
  BY <1>1, <1>2, <1>3, <1>4, <1>5 DEF RunStep

LEMMA PeopleSlots ==
  ASSUME TypeInv, SlotInv, PeopleStep
  PROVE  SlotInv'
<1>1. CASE Shutdown
  BY <1>1, ProcessSlots
<1>2. CASE UNCHANGED <<script, process, memory>>
  BY <1>2, UnchangedOurs, OursKept DEF SlotInv, process
<1>3. ASSUME NEW i \in Issues, NEW r \in Runs, RunByHand(r, i), UNCHANGED <<process, memory, history>>
      PROVE  SlotInv'
  <2>1. /\ script[r] = Null /\ script' = [script EXCEPT ![r] = Run(i, Person)]
        /\ script \in [Runs -> Doing \cup {Null}] /\ UNCHANGED epoch
    BY <1>3 DEF RunByHand, TypeInv, ScriptsTypeOK, process
  <2>2. \A q \in Runs : script'[q] = IF q = r THEN Run(i, Person) ELSE script[q]
    BY <2>1
  <2>3. Run(i, Person).owner = Person /\ epoch \in Nat
    BY MonitorAssumption DEF Run, TypeInv, MemoryTypeOK
  <2>4. SameOurs /\ Owned'
    BY <2>1, <2>2, <2>3 DEF SameOurs, Ours, SlotInv, Owned, Person
  <2> QED
    BY <1>3, <2>4, OursKept
<1> QED
  BY <1>1, <1>2, <1>3 DEF PeopleStep, Approve, Unapprove, Mark, AddApproval, Withdraw

-----------------------------------------------------------------------------
(* The queue. *)

Distinct(q) == \A m, n \in DOMAIN q : q[m] = q[n] => m = n

Elements(q) == {q[n] : n \in DOMAIN q}

\* While issues wait there is no slot, except for the moment between a
\* completion and the removal of its lock, when there may be one.
Waiting ==
  /\ Distinct(queue) /\ Elements(queue) \cap processing = {}
  /\ Cardinality(processing) <= MaxConcurrent
  /\ queue # <<>> =>
       Cardinality(processing) + (IF pc = "removeLock" THEN 1 ELSE 0) >= MaxConcurrent

LEMMA Slot ==
  ASSUME NEW P \in SUBSET Issues, NEW i \in Issues
  PROVE  /\ Cardinality(P) \in Nat
         /\ i \notin P => Cardinality(P \cup {i}) = Cardinality(P) + 1
         /\ i \in P => Cardinality(P \ {i}) = Cardinality(P) - 1
<1>1. IsFiniteSet(P)
  BY FS_Subset, MonitorAssumption
<1> QED
  BY <1>1, FS_CardinalityType, FS_AddElement, FS_RemoveElement

LEMMA Appended ==
  ASSUME NEW q \in Seq(Issues), NEW i \in Issues, Distinct(q), i \notin Elements(q)
  PROVE  Distinct(Append(q, i)) /\ Elements(Append(q, i)) = Elements(q) \cup {i}
<1>1. /\ Len(q) \in Nat /\ DOMAIN q = 1 .. Len(q)
      /\ DOMAIN Append(q, i) = 1 .. Len(q) + 1
      /\ \A n \in 1 .. Len(q) : Append(q, i)[n] = q[n]
      /\ Append(q, i)[Len(q) + 1] = i
  BY AppendProperties, LenProperties
<1>2. \A n \in 1 .. Len(q) + 1 : n \in 1 .. Len(q) \/ n = Len(q) + 1
  BY <1>1
<1>3. \A n \in 1 .. Len(q) : n \in 1 .. Len(q) + 1
  BY <1>1
<1>4. Len(q) + 1 \in 1 .. Len(q) + 1
  BY <1>1
<1>5. Distinct(Append(q, i))
  BY <1>1, <1>2 DEF Distinct, Elements
<1>6. Elements(Append(q, i)) = Elements(q) \cup {i}
  BY <1>1, <1>2, <1>3, <1>4 DEF Elements
<1> QED
  BY <1>5, <1>6

LEMMA TakenOff ==
  ASSUME NEW q \in Seq(Issues), q # <<>>, Distinct(q)
  PROVE  /\ Distinct(Tail(q)) /\ Head(q) \in Elements(q)
         /\ Elements(Tail(q)) = Elements(q) \ {Head(q)}
<1>1. /\ Len(q) \in Nat \ {0} /\ DOMAIN q = 1 .. Len(q) /\ Head(q) = q[1]
      /\ DOMAIN Tail(q) = 1 .. Len(q) - 1
      /\ \A n \in 1 .. Len(q) - 1 : Tail(q)[n] = q[n + 1]
  BY HeadTailProperties, LenProperties
<1>2. 1 \in DOMAIN q /\ \A n \in 1 .. Len(q) - 1 : n + 1 \in DOMAIN q /\ n + 1 # 1
  BY <1>1
<1>3. \A n \in DOMAIN q : n # 1 => n - 1 \in 1 .. Len(q) - 1 /\ (n - 1) + 1 = n
  BY <1>1
<1>4. Distinct(Tail(q))
  BY <1>1, <1>2 DEF Distinct
<1>5. Elements(Tail(q)) \subseteq Elements(q) \ {Head(q)}
  BY <1>1, <1>2 DEF Distinct, Elements
<1>6. ASSUME NEW i \in Elements(q) \ {Head(q)} PROVE i \in Elements(Tail(q))
  <2>1. PICK n \in DOMAIN q : q[n] = i
    BY DEF Elements
  <2>2. n - 1 \in DOMAIN Tail(q) /\ Tail(q)[n - 1] = i
    BY <1>1, <1>3, <2>1
  <2> QED
    BY <2>2 DEF Elements
<1> QED
  BY <1>1, <1>2, <1>4, <1>5, <1>6 DEF Elements

LEMMA NothingWaits ==
  ASSUME queue = <<>>, processing = {}
  PROVE  Waiting
<1>1. DOMAIN queue = {}
  OBVIOUS
<1> QED
  BY <1>1, FS_EmptySet, MonitorAssumption DEF Waiting, Distinct, Elements

LEMMA DownWaiting ==
  ASSUME GoesDown
  PROVE  Waiting'
<1>1. queue' = <<>> /\ processing' = {}
  BY DEF GoesDown, EmptyMemory
<1>2. DOMAIN queue' = {}
  BY <1>1
<1> QED
  BY <1>1, <1>2, FS_EmptySet, MonitorAssumption DEF Waiting, Distinct, Elements

LEMMA WaitingKept ==
  ASSUME Waiting, UNCHANGED loop
  PROVE  Waiting'
BY DEF loop, Waiting, Distinct, Elements

\* The next in the queue is not being worked on.
LEMMA NextInQueue ==
  ASSUME TypeInv, Waiting
  PROVE  queue # <<>> => Head(queue) \in Issues \ processing
BY TakenOff, HeadTailProperties DEF TypeInv, MemoryTypeOK, Waiting

LEMMA LoopWaiting ==
  ASSUME TypeInv, SlotInv, Waiting, LoopStep
  PROVE  Waiting'
<1> DEFINE N == Cardinality(processing)
<1>1. queue \in Seq(Issues) /\ processing \in SUBSET Issues /\ N \in Nat /\ MaxConcurrent \in Nat \ {0}
  BY FS_Subset, FS_CardinalityType, MonitorAssumption DEF TypeInv, MemoryTypeOK
<1> HIDE DEF N
<1>2. CASE Take
  <2>1. UNCHANGED queue /\ pc = "next" /\ stream # <<>> /\ monitor # "down"
    BY <1>2 DEF Take, At
  <2>2. CASE processing' = processing /\ pc' \in {"next", "isProcessing"}
    BY <1>1, <2>1, <2>2 DEF Waiting, Distinct, Elements
  <2>3. ASSUME Head(stream).type = "complete", processing' = processing \ {Head(stream).issue},
               pc' = "removeLock"
        PROVE  Waiting'
    <3> DEFINE i == Head(stream).issue
    <3>1. /\ 1 \in DOMAIN stream /\ stream[1] = Head(stream) /\ Head(stream) \in Messages
      BY <2>1, HeadTailProperties, LenProperties DEF TypeInv, MemoryTypeOK
    <3>2. i \in Issues /\ Head(stream) = Message("complete", i)
      BY <2>3, <3>1 DEF Messages, Message
    <3>3. i \in processing
      BY <2>1, <3>1, <3>2 DEF Reports, Held, SlotInv, Slots
    <3>4. Cardinality(processing') = N - 1
      BY <1>1, <2>3, <3>2, <3>3, Slot DEF N
    <3> QED
      BY <1>1, <2>1, <2>3, <3>4 DEF Waiting, Distinct, Elements, N
  <2> QED
    BY <1>2, <2>1, <2>2, <2>3 DEF Take
<1>3. CASE Admit
  <2>1. pc = "isProcessing" /\ cur \in Issues /\ cur \notin processing
    BY <1>3 DEF Admit, At, TypeInv, MemoryTypeOK, SlotInv, Slots
  <2>2. CASE Resume /\ UNCHANGED <<queue, processing>>
    BY <1>1, <2>1, <2>2 DEF Resume, Waiting, Distinct, Elements
  <2>3. CASE cur \notin Queued /\ HasSlot /\ TakeSlot(cur) /\ UNCHANGED queue
    <3>1. queue = <<>> /\ N < MaxConcurrent
      BY <1>1, <2>1, <2>3 DEF HasSlot, Waiting, N
    <3>2. Cardinality(processing') = N + 1
      BY <1>1, <2>1, <2>3, Slot DEF TakeSlot, N
    <3>3. DOMAIN queue' = {} /\ queue' = <<>>
      BY <2>3, <3>1
    <3> QED
      BY <1>1, <3>1, <3>2, <3>3 DEF Waiting, Distinct, Elements
  <2>4. CASE cur \notin Queued /\ ~HasSlot /\ queue' = Append(queue, cur) /\ Resume /\ UNCHANGED processing
    <3>1. Distinct(queue') /\ Elements(queue') = Elements(queue) \cup {cur}
      BY <1>1, <2>1, <2>4, Appended DEF Waiting, Queued, Elements
    <3>2. N >= MaxConcurrent
      BY <1>1, <2>4 DEF HasSlot, N
    <3> QED
      BY <1>1, <2>1, <2>4, <3>1, <3>2 DEF Resume, Waiting, N
  <2> QED
    BY <1>3, <2>2, <2>3, <2>4 DEF Admit
<1>4. CASE RemoveLock
  <2>1. pc = "removeLock"
    BY <1>4 DEF RemoveLock, At
  <2>2. CASE queue # <<>> /\ HasSlot /\ TakeSlot(Head(queue)) /\ queue' = Tail(queue)
    <3>1. /\ Distinct(queue') /\ Head(queue) \in Elements(queue)
          /\ Elements(queue') = Elements(queue) \ {Head(queue)}
      BY <1>1, <2>2, TakenOff DEF Waiting
    <3>2. Head(queue) \in Issues \ processing
      BY <2>2, NextInQueue
    <3>3. processing' = processing \cup {Head(queue)} /\ pc' = "createLock"
      BY <2>2 DEF TakeSlot
    <3>4. Cardinality(processing') = N + 1 /\ N < MaxConcurrent /\ N + 1 >= MaxConcurrent
      BY <1>1, <2>1, <2>2, <3>2, <3>3, Slot DEF HasSlot, Waiting, N
    <3> QED
      BY <1>1, <3>1, <3>3, <3>4 DEF Waiting
  <2>3. CASE ~(queue # <<>> /\ HasSlot) /\ Resume /\ UNCHANGED <<queue, processing>>
    BY <1>1, <2>1, <2>3 DEF HasSlot, Resume, Waiting, Distinct, Elements, N
  <2> QED
    BY <1>4, <2>2, <2>3 DEF RemoveLock
<1>5. CASE CreateLock
  BY <1>1, <1>5 DEF CreateLock, At, Waiting, Distinct, Elements, N
<1>6. ASSUME NEW r \in Runs, Spawn(r) PROVE Waiting'
  BY <1>1, <1>6 DEF Spawn, At, Resume, Waiting, Distinct, Elements, N
<1>7. CASE LoopEnds
  BY <1>7, DownWaiting DEF LoopEnds
<1> QED
  BY <1>2, <1>3, <1>4, <1>5, <1>6, <1>7 DEF LoopStep

\* What is not the main loop leaves the queue and the slots alone, or ends the
\* program.
LEMMA OthersWaiting ==
  ASSUME Waiting, UNCHANGED loop \/ GoesDown
  PROVE  Waiting'
BY WaitingKept, DownWaiting

-----------------------------------------------------------------------------
(* The inductive invariant. *)

Inv == TypeInv /\ SlotInv /\ Waiting

LEMMA InitInv == Init => Inv
<1> SUFFICES ASSUME Init PROVE Inv
  OBVIOUS
<1>1. queue = <<>> /\ processing = {}
  BY DEF Init, EmptyMemory
<1> QED
  BY <1>1, InitType, InitSlots, NothingWaits DEF Inv

LEMMA StepInv == Inv /\ [Next]_vars => Inv'
<1> SUFFICES ASSUME Inv, [Next]_vars PROVE Inv'
  OBVIOUS
<1>1. TypeInv /\ SlotInv /\ Waiting
  BY DEF Inv
<1>2. TypeInv'
  BY <1>1, TypeStep
<1>3. SlotInv'
  <2>1. CASE UNCHANGED vars
    <3>1. SameOurs /\ Owned' /\ UNCHANGED <<process, memory>>
      BY <1>1, <2>1, UnchangedOurs DEF vars, world, process, SlotInv
    <3> QED
      BY <1>1, <3>1, OursKept
  <2>2. CASE LoopStep
    BY <1>1, <2>2, NextInQueue, LoopSlots
  <2> QED
    BY <1>1, <2>1, <2>2, ProcessSlots, FeedSlots, DeliverSlots, RunSlots, PeopleSlots DEF Next
<1>4. Waiting'
  <2>1. CASE UNCHANGED vars
    BY <1>1, <2>1, WaitingKept DEF vars, memory
  <2>2. CASE LoopStep
    BY <1>1, <2>2, LoopWaiting
  <2>3. CASE Start \/ Crash
    BY <1>1, <2>3, OthersWaiting DEF Start, Crash, loop
  <2>4. CASE FeedStep
    BY <1>1, <2>4, OthersWaiting
       DEF FeedStep, ScanFetch, ScanPush, PollFetch, PollPush, PushesApproved, Pushes
  <2>5. ASSUME NEW i \in Issues, Deliver(i) PROVE Waiting'
    BY <1>1, <2>5, OthersWaiting DEF Deliver, Pushes, memory
  <2>6. ASSUME NEW r \in Runs, RunStep(r) PROVE Waiting'
    BY <1>1, <2>6, OthersWaiting DEF RunStep, Report, Reap, Die, Pushes, memory
  <2>7. CASE PeopleStep
    BY <1>1, <2>7, OthersWaiting DEF PeopleStep, Approve, Unapprove, Shutdown, memory
  <2> QED
    BY <2>1, <2>2, <2>3, <2>4, <2>5, <2>6, <2>7 DEF Next
<1> QED
  BY <1>2, <1>3, <1>4 DEF Inv

LEMMA Invariant == Spec => []Inv
BY InitInv, StepInv, PTL DEF Spec

\* An issue waits at most once and not while it is being worked on, and no slot
\* stays idle while issues wait, whatever the number of issues and of slots and
\* whatever is approved, crashes, fails or is run by hand.
THEOREM QueueAlwaysWaiting == Spec => []QueueIsWaiting
<1>1. Inv => QueueIsWaiting
  <2> SUFFICES ASSUME Inv PROVE QueueIsWaiting
    OBVIOUS
  <2>1. Cardinality(processing) \in Nat /\ MaxConcurrent \in Nat
    BY FS_Subset, FS_CardinalityType, MonitorAssumption DEF Inv, TypeInv, MemoryTypeOK
  <2> QED
    BY <2>1 DEF Inv, Waiting, QueueIsWaiting, Queued, HasSlot, Distinct, Elements
<1> QED
  BY <1>1, Invariant, PTL

-----------------------------------------------------------------------------
(* What the slots come to. *)

\* A set is counted by whether anything is in it.
LEMMA AtMostOne ==
  ASSUME NEW S, \A x, y \in S : x = y
  PROVE  Cardinality(S) = IF S = {} THEN 0 ELSE 1
<1>1. CASE S = {}
  BY <1>1, FS_EmptySet
<1>2. CASE S # {}
  <2>1. PICK x \in S : TRUE
    BY <1>2
  <2>2. S = {x}
    BY <2>1
  <2> QED
    BY <1>2, <2>2, FS_Singleton
<1> QED
  BY <1>1, <1>2

\* Every slot is held by one run of its issue, or by its completion, or by a
\* start, and by one of them: no slot leaks, none is freed twice, and no issue
\* is worked on twice by one monitor.
THEOREM SlotsAccounted == Spec => []SlotAccounting
<1>1. Inv => SlotAccounting
  <2> SUFFICES ASSUME Inv, monitor # "down", NEW i \in Issues
               PROVE  Workers(i) = IF i \in processing THEN 1 ELSE 0
    BY DEF SlotAccounting
  <2> DEFINE R == {r \in Runs : Ours(r) /\ script[r].issue = i}
             C == {n \in DOMAIN stream : stream[n] = Message("complete", i)}
  <2>1. Slots
    BY DEF Inv, SlotInv
  <2>2. \A x, y \in R : x = y
    BY <2>1 DEF Slots, OneRun
  <2>3. \A x, y \in C : x = y
    BY <2>1 DEF Slots, OnceEach, Message
  <2>4. (R # {}) <=> Running(i)
    BY DEF Running
  <2>5. (C # {}) <=> Reports(stream, i)
    BY DEF Reports
  <2>6. Workers(i) = Cardinality(R) + Cardinality(C) + (IF Starting(i) THEN 1 ELSE 0)
    BY DEF Workers
  <2>7. /\ Cardinality(R) = IF Running(i) THEN 1 ELSE 0
        /\ Cardinality(C) = IF Reports(stream, i) THEN 1 ELSE 0
    BY <2>2, <2>3, <2>4, <2>5, AtMostOne
  <2> HIDE DEF R, C
  <2>8. (i \in processing <=> Running(i) \/ Reports(stream, i) \/ Starting(i)) /\ HeldOnce(i)
    BY <2>1 DEF Slots, Held
  <2> QED
    BY <2>6, <2>7, <2>8 DEF HeldOnce
<1> QED
  BY <1>1, Invariant, PTL

\* The runs a monitor has going are no more than --max-concurrent, however many
\* processes there are: each run holds the slot of an issue of its own.
THEOREM CapacityKept == Spec => []WithinCapacity
<1>1. Inv => WithinCapacity
  <2> SUFFICES ASSUME Inv, monitor # "down"
               PROVE  Cardinality({r \in Runs : Live(r) /\ Ours(r)}) <= MaxConcurrent
    BY DEF WithinCapacity
  <2> DEFINE R == {r \in Runs : Live(r) /\ Ours(r)}
             f == [r \in R |-> script[r].issue]
  <2>1. Slots /\ IsFiniteSet(processing) /\ Cardinality(processing) \in Nat
    BY FS_Subset, FS_CardinalityType, MonitorAssumption DEF Inv, SlotInv, TypeInv, MemoryTypeOK
  <2>2. \A r \in R : script[r].issue \in processing
    BY <2>1 DEF Slots, Held, Running, Inv, TypeInv, ScriptsTypeOK, Doing, Ours
  <2>3. \A r, q \in R : script[r].issue = script[q].issue => r = q
    BY <2>1 DEF Slots, OneRun
  <2>4. f \in Injection(R, processing)
    BY <2>2, <2>3 DEF Injection, IsInjective
  <2>5. IsFiniteSet(R) /\ Cardinality(R) <= Cardinality(processing)
    BY <2>1, <2>4, FS_Injection
  <2>6. Cardinality(R) \in Nat
    BY <2>5, FS_CardinalityType
  <2>7. Cardinality(processing) <= MaxConcurrent /\ MaxConcurrent \in Nat
    BY MonitorAssumption DEF Inv, Waiting
  <2> QED
    BY <2>1, <2>5, <2>6, <2>7
<1> QED
  BY <1>1, Invariant, PTL

-----------------------------------------------------------------------------
(* Locks, as long as nobody runs the script by hand. *)

LiveOn(i) == \E r \in Runs : Live(r) /\ script[r].issue = i

Locked == \A i \in Issues : LiveOn(i) => i \in locks

\* A run of another monitor works on none of the issues this one has in hand.
InHand ==
  \A r \in Runs :
    Live(r) /\ script[r].issue \in processing \cup Elements(queue) => Ours(r)

LockInv ==
  /\ OneRunPerIssue /\ Locked
  /\ monitor # "down" => InHand
  /\ pc = "removeLock" => ~LiveOn(cur)
  /\ pc = "spawn" => cur \in locks

\* No run comes to life or changes its issue.
NoneStarts ==
  \A r \in Runs : Live(r)' => Live(r) /\ script'[r].issue = script[r].issue
                              /\ (Ours(r) => epoch' # epoch \/ Ours(r)')

LEMMA FewerLive ==
  ASSUME OneRunPerIssue, NoneStarts
  PROVE  OneRunPerIssue' /\ \A i : LiveOn(i)' => LiveOn(i)
BY DEF OneRunPerIssue, NoneStarts, LiveOn

LEMMA SameScript ==
  ASSUME UNCHANGED <<script, epoch>>
  PROVE  NoneStarts
BY DEF NoneStarts, Live, Ours

\* A step that neither starts a run nor removes a lock, and leaves the main
\* loop alone.
LEMMA LocksKept ==
  ASSUME LockInv, NoneStarts, locks \subseteq locks', UNCHANGED <<process, loop>>
  PROVE  LockInv'
<1>1. OneRunPerIssue' /\ \A i : LiveOn(i)' => LiveOn(i)
  BY FewerLive DEF LockInv
<1>2. Locked'
  BY <1>1 DEF LockInv, Locked
<1>3. monitor' # "down" => InHand'
  BY DEF LockInv, InHand, NoneStarts, Elements, process, loop
<1> QED
  BY <1>1, <1>2, <1>3 DEF LockInv, loop

LEMMA DownLocks ==
  ASSUME LockInv, NoneStarts, UNCHANGED locks, GoesDown
  PROVE  LockInv'
<1>1. OneRunPerIssue' /\ \A i : LiveOn(i)' => LiveOn(i)
  BY FewerLive DEF LockInv
<1>2. Locked'
  BY <1>1 DEF LockInv, Locked
<1> QED
  BY <1>1, <1>2 DEF LockInv, GoesDown, EmptyMemory

\* A run that this monitor has reported, or is about to start, does not live.
LEMMA NoLiveOn ==
  ASSUME Inv, LockInv, monitor # "down", NEW i \in processing,
         Reports(stream, i) \/ Starting(i)
  PROVE  ~LiveOn(i)
<1>1. i \in Issues /\ ~Running(i)
  BY DEF Inv, TypeInv, MemoryTypeOK, SlotInv, Slots, HeldOnce
<1> QED
  BY <1>1 DEF LiveOn, LockInv, InHand, Running

LEMMA LoopLocks ==
  ASSUME Inv, LockInv, LoopStep
  PROVE  LockInv'
<1>1. queue \in Seq(Issues) /\ Waiting /\ (monitor # "down" => Slots)
  BY DEF Inv, TypeInv, MemoryTypeOK, SlotInv
<1>2. CASE Take
  <2>1. /\ UNCHANGED <<script, epoch, locks, queue, monitor>> /\ monitor # "down" /\ stream # <<>>
        /\ processing' \subseteq processing /\ pc' # "spawn"
    BY <1>2 DEF Take, At, world, process
  <2>2. NoneStarts
    BY <2>1, SameScript
  <2>3. OneRunPerIssue' /\ Locked' /\ \A i : LiveOn(i)' => LiveOn(i)
    BY <2>1, <2>2, FewerLive DEF LockInv, Locked
  <2>4. InHand'
    BY <2>1, <2>2 DEF LockInv, InHand, NoneStarts, Elements
  <2>5. ASSUME pc' = "removeLock" PROVE ~LiveOn(cur')
    <3>1. Head(stream).type = "complete" /\ cur' = Head(stream).issue
      BY <1>2, <2>5 DEF Take, At
    <3>2. 1 \in DOMAIN stream /\ stream[1] = Head(stream) /\ Head(stream) \in Messages
      BY <2>1, HeadTailProperties, LenProperties DEF Inv, TypeInv, MemoryTypeOK
    <3>3. cur' \in Issues /\ Reports(stream, cur')
      BY <3>1, <3>2 DEF Messages, Message, Reports
    <3>4. cur' \in processing
      BY <1>1, <2>1, <3>3 DEF Slots, Held
    <3> QED
      BY <2>1, <3>3, <3>4, NoLiveOn
  <2> QED
    BY <2>1, <2>3, <2>4, <2>5 DEF LockInv
<1>3. CASE Admit
  <2>1. UNCHANGED <<script, epoch, locks, monitor>> /\ monitor # "down"
    BY <1>3 DEF Admit, At, world, process
  <2>2. NoneStarts /\ cur \in Issues /\ pc' \notin {"removeLock", "spawn"}
    BY <1>3, <2>1, SameScript DEF Admit, At, Resume, TakeSlot, Inv, TypeInv, MemoryTypeOK
  <2>3. OneRunPerIssue' /\ Locked'
    BY <2>1, <2>2, FewerLive DEF LockInv, Locked
  <2>4. processing' \cup Elements(queue') \subseteq processing \cup Elements(queue) \cup ({cur} \ locks)
    <3>1. CASE UNCHANGED <<queue, processing>>
      BY <3>1
    <3>2. CASE cur \notin locks /\ TakeSlot(cur) /\ UNCHANGED queue
      BY <3>2 DEF TakeSlot
    <3>3. CASE cur \notin locks \cup Queued /\ queue' = Append(queue, cur) /\ UNCHANGED processing
      <4>1. Elements(queue') = Elements(queue) \cup {cur}
        BY <1>1, <2>2, <3>3, Appended DEF Waiting, Queued, Elements
      <4> QED
        BY <3>3, <4>1
    <3> QED
      BY <1>3, <3>1, <3>2, <3>3 DEF Admit
  <2>5. cur \notin locks => ~LiveOn(cur)
    BY <2>2 DEF LockInv, Locked
  <2>6. ASSUME NEW r \in Runs, Live(r)', script'[r].issue \in (processing \cup Elements(queue))'
        PROVE  Ours(r)'
    <3>1. Live(r) /\ script'[r].issue = script[r].issue /\ (Ours(r) => Ours(r)')
      BY <2>1, <2>2, <2>6 DEF NoneStarts
    <3>2. script'[r].issue \in processing' \cup Elements(queue')
      BY <2>6 DEF Elements
    <3>3. script[r].issue \in processing \cup Elements(queue)
      BY <2>4, <2>5, <3>1, <3>2 DEF LiveOn
    <3> QED
      BY <2>1, <3>1, <3>3 DEF LockInv, InHand
  <2> QED
    BY <2>2, <2>3, <2>6 DEF LockInv, InHand
<1>4. CASE RemoveLock
  <2>1. UNCHANGED <<script, epoch, monitor>> /\ monitor # "down" /\ pc = "removeLock" /\ locks' = locks \ {cur}
    BY <1>4 DEF RemoveLock, At, process
  <2>2. NoneStarts /\ pc' \notin {"removeLock", "spawn"}
    BY <1>4, <2>1, SameScript DEF RemoveLock, Resume, TakeSlot
  <2>3. OneRunPerIssue' /\ \A i : LiveOn(i)' => LiveOn(i)
    BY <2>2, FewerLive DEF LockInv
  <2>4. Locked'
    BY <2>1, <2>3 DEF LockInv, Locked
  <2>5. processing' \cup Elements(queue') \subseteq processing \cup Elements(queue)
    <3>1. CASE UNCHANGED <<queue, processing>>
      BY <3>1
    <3>2. CASE queue # <<>> /\ TakeSlot(Head(queue)) /\ queue' = Tail(queue)
      BY <1>1, <3>2, TakenOff DEF TakeSlot, Waiting
    <3> QED
      BY <1>4, <3>1, <3>2 DEF RemoveLock
  <2>6. InHand'
    <3>1. (processing \cup Elements(queue))' = processing' \cup Elements(queue')
      BY DEF Elements
    <3> QED
      BY <2>1, <2>2, <2>5, <3>1 DEF LockInv, InHand, NoneStarts
  <2> QED
    BY <2>2, <2>3, <2>4, <2>6 DEF LockInv
<1>5. CASE CreateLock
  <2>1. /\ UNCHANGED <<script, epoch, monitor, queue, processing, cur>> /\ locks' = locks \cup {cur}
        /\ pc' = "spawn"
    BY <1>5 DEF CreateLock, process
  <2>2. NoneStarts
    BY <2>1, SameScript
  <2>3. OneRunPerIssue' /\ Locked'
    BY <2>1, <2>2, FewerLive DEF LockInv, Locked
  <2>4. monitor' # "down" => InHand'
    BY <2>1, <2>2 DEF LockInv, InHand, NoneStarts, Elements
  <2> QED
    BY <2>1, <2>3, <2>4 DEF LockInv
<1>6. ASSUME NEW r \in Runs, Spawn(r) PROVE LockInv'
  <2>1. /\ UNCHANGED <<epoch, monitor, queue, processing, locks>> /\ monitor # "down" /\ pc = "spawn"
        /\ script[r] = Null /\ script' = [script EXCEPT ![r] = Run(cur, epoch)] /\ pc' = "next"
    BY <1>6 DEF Spawn, At, Resume, process
  <2>2. cur \in Issues /\ epoch \in Nat /\ script \in [Runs -> Doing \cup {Null}] /\ epoch # Person
    BY <1>1, <2>1, MonitorAssumption DEF Inv, TypeInv, MemoryTypeOK, ScriptsTypeOK, Slots
  <2>3. Run(cur, epoch) # Null /\ Run(cur, epoch).issue = cur /\ Run(cur, epoch).owner = epoch
    <3>1. Run(cur, epoch) \in Doing
      BY <2>2 DEF Run, Doing, Places
    <3> QED
      BY <3>1, DoingAssumption DEF Run
  <2>4. \A q \in Runs : script'[q] = IF q = r THEN Run(cur, epoch) ELSE script[q]
    BY <2>1, <2>2
  <2>5. Starting(cur) /\ cur \in processing
    BY <1>1, <2>1, <2>2 DEF Starting, Slots, Held
  <2>6. ~LiveOn(cur) /\ ~Live(r)
    BY <2>1, <2>5, NoLiveOn DEF Live
  <2>7. \A q \in Runs : q # r => (Live(q)' <=> Live(q)) /\ (Ours(q)' <=> Ours(q))
    BY <2>1, <2>4 DEF Live, Ours
  <2>8. Ours(r)'
    BY <2>1, <2>2, <2>3, <2>4 DEF Ours
  <2>9. OneRunPerIssue'
    BY <2>3, <2>4, <2>6, <2>7 DEF OneRunPerIssue, LiveOn, LockInv
  <2>10. \A i \in Issues : LiveOn(i)' => LiveOn(i) \/ i = cur
    BY <2>3, <2>4, <2>7 DEF LiveOn
  <2>11. Locked'
    BY <2>1, <2>10 DEF Locked, LockInv
  <2>12. InHand'
    BY <2>1, <2>4, <2>7, <2>8 DEF InHand, LockInv, Elements
  <2> QED
    BY <2>1, <2>9, <2>11, <2>12 DEF LockInv
<1>7. CASE LoopEnds
  BY <1>7, SameScript, DownLocks DEF LoopEnds, GoesDown, world
<1> QED
  BY <1>2, <1>3, <1>4, <1>5, <1>6, <1>7 DEF LoopStep

\* A command of the script: what lived on the issue may be over, and then its
\* lock may be gone.
LEMMA ScriptLocks ==
  ASSUME Inv, LockInv, NEW r \in Runs, ScriptStep(r), UNCHANGED <<process, memory>>
  PROVE  LockInv'
<1>1. SameWorkers /\ Live(r) /\ script \in [Runs -> Doing \cup {Null}]
  BY ScriptStepType
     DEF Inv, TypeInv, ScriptsTypeOK, ScriptStep, View, AddLabel, CheckLock, WriteLock, Build, CreatePr,
         RemoveLabel, Unlock, Is, Live
<1>2. \A q \in Runs : q # r => script'[q] = script[q]
  BY <1>1 DEF ScriptStep, View, AddLabel, CheckLock, WriteLock, Build, CreatePr, RemoveLabel, Unlock,
              Goto, Exits, Goes
<1>3. NoneStarts
  BY <1>1, <1>2 DEF NoneStarts, SameWorkers, Live, Ours, process
<1>4. CASE Unlock(r)
  <2>1. locks' = locks \ {script[r].issue} /\ ~Live(r)'
    BY <1>1, <1>4 DEF Unlock, Exits, Goes, Live, Doing
  <2>2. OneRunPerIssue' /\ \A i : LiveOn(i)' => LiveOn(i)
    BY <1>3, FewerLive DEF LockInv
  <2>3. \A i : i = script[r].issue => ~LiveOn(i)'
    BY <1>1, <1>2, <2>1 DEF LiveOn, LockInv, OneRunPerIssue, Live
  <2>4. Locked'
    BY <2>1, <2>2, <2>3 DEF LockInv, Locked
  <2>5. ASSUME pc = "spawn" PROVE cur # script[r].issue
    <3>1. monitor # "down"
      BY <2>5 DEF Inv, TypeInv, MemoryTypeOK, Empty, EmptyMemory
    <3>2. cur \in Issues /\ Starting(cur)
      BY <2>5 DEF Inv, TypeInv, MemoryTypeOK, Starting
    <3>3. cur \in processing
      BY <3>1, <3>2 DEF Inv, SlotInv, Slots, Held
    <3>4. ~LiveOn(cur)
      BY <3>1, <3>2, <3>3, NoLiveOn
    <3> QED
      BY <1>1, <3>4 DEF LiveOn
  <2>6. monitor' # "down" => InHand'
    BY <1>3 DEF LockInv, InHand, NoneStarts, Elements, process, memory, loop
  <2> QED
    BY <2>1, <2>2, <2>4, <2>5, <2>6 DEF LockInv, memory, loop
<1>5. CASE ~Unlock(r)
  <2>1. locks \subseteq locks'
    BY <1>5 DEF ScriptStep, View, AddLabel, CheckLock, WriteLock, Build, CreatePr, RemoveLabel
  <2> QED
    BY <1>3, <2>1, LocksKept DEF memory
<1> QED
  BY <1>4, <1>5

LEMMA RunLocks ==
  ASSUME Inv, LockInv, NEW r \in Runs, RunStep(r)
  PROVE  LockInv'
<1>1. CASE ScriptStep(r) /\ UNCHANGED <<process, memory, history>>
  BY <1>1, ScriptLocks
<1>2. CASE Report(r) \/ Reap(r)
  <2>1. /\ ~Live(r) /\ UNCHANGED locks /\ script' = [script EXCEPT ![r] = Null]
        /\ script \in [Runs -> Doing \cup {Null}]
    BY <1>2 DEF Report, Reap, Is, Live, Inv, TypeInv, ScriptsTypeOK
  <2>2. \A q \in Runs : script'[q] = IF q = r THEN Null ELSE script[q]
    BY <2>1
  <2>3. NoneStarts
    BY <2>1, <2>2 DEF NoneStarts, Live, Ours
  <2> QED
    BY <1>2, <2>1, <2>3, LocksKept, DownLocks DEF Report, Reap, Pushes, memory
<1>3. CASE Die(r)
  <2>1. SameWorkers /\ Live(r) /\ UNCHANGED <<locks, process, memory>>
    BY <1>3, Exit DEF Die, Live, Inv, TypeInv
  <2>2. \A q \in Runs : q # r => script'[q] = script[q]
    BY <1>3 DEF Die, Exits, Goes, Inv, TypeInv, ScriptsTypeOK
  <2>3. NoneStarts
    BY <2>1, <2>2 DEF NoneStarts, SameWorkers, Live, Ours, process
  <2> QED
    BY <2>1, <2>3, LocksKept DEF memory
<1> QED
  BY <1>1, <1>2, <1>3 DEF RunStep

LEMMA LockStep ==
  ASSUME "run" \notin May, Inv, LockInv, [Next]_vars
  PROVE  LockInv'
<1>1. CASE UNCHANGED vars
  BY <1>1, SameScript, LocksKept DEF vars, world, process, memory
<1>2. CASE Start
  <2>1. /\ UNCHANGED <<script, locks, queue, processing, pc, cur>>
        /\ queue = <<>> /\ processing = {} /\ pc = "next" /\ epoch' # epoch
    BY <1>2, MonitorAssumption DEF Start, world, loop, Inv, TypeInv, MemoryTypeOK, Empty, EmptyMemory
  <2>2. OneRunPerIssue' /\ Locked'
    BY <2>1 DEF LockInv, OneRunPerIssue, Locked, LiveOn, Live
  <2>3. DOMAIN queue' = {}
    BY <2>1
  <2>4. InHand'
    BY <2>1, <2>3 DEF InHand, Elements
  <2> QED
    BY <2>1, <2>2, <2>4 DEF LockInv
<1>3. CASE Shutdown
  <2>1. monitor # "down" /\ UNCHANGED <<world, epoch, loop>>
    BY <1>3 DEF Shutdown
  <2> QED
    BY <2>1 DEF world, loop, LockInv, OneRunPerIssue, Locked, InHand, LiveOn, Live, Ours, Elements
<1>4. CASE Crash
  BY <1>4, SameScript, DownLocks DEF Crash, GoesDown, world
<1>5. CASE FeedStep
  <2>1. UNCHANGED <<script, locks>> /\ (GoesDown \/ UNCHANGED <<process, loop>>)
    BY <1>5 DEF FeedStep, ScanFetch, ScanPush, PollFetch, PollPush, PushesApproved, Pushes, world
  <2> QED
    BY <2>1, SameScript, LocksKept, DownLocks DEF GoesDown, process
<1>6. ASSUME NEW i \in Issues, Deliver(i) PROVE LockInv'
  <2>1. UNCHANGED <<script, locks>> /\ (GoesDown \/ UNCHANGED <<process, loop>>)
    BY <1>6 DEF Deliver, Pushes, memory
  <2> QED
    BY <2>1, SameScript, LocksKept, DownLocks DEF GoesDown, process
<1>7. CASE PeopleStep /\ ~Shutdown
  <2>1. UNCHANGED <<script, locks, process, loop>>
    BY <1>7 DEF PeopleStep, Approve, Unapprove, Mark, RunByHand, AddApproval, Withdraw, memory
  <2> QED
    BY <2>1, SameScript, LocksKept DEF process
<1> QED
  BY <1>1, <1>2, <1>3, <1>4, <1>5, <1>6, <1>7, LoopLocks, RunLocks DEF Next

LEMMA InitLocks == Init => LockInv
BY DEF Init, InitScripts, EmptyMemory, LockInv, OneRunPerIssue, Locked, LiveOn, Live

\* When nobody runs the script by hand, an issue has one run at a time, however
\* often the monitor crashed and was started again while runs went on.
THEOREM LocksKeepRunsApart ==
  ASSUME "run" \notin May
  PROVE  Spec => []OneRunPerIssue
<1>1. Inv /\ LockInv /\ [Next]_vars => LockInv'
  BY LockStep
<1>2. Spec => []LockInv
  BY <1>1, InitLocks, Invariant, PTL DEF Spec
<1>3. LockInv => OneRunPerIssue
  BY DEF LockInv
<1> QED
  BY <1>2, <1>3, PTL

\* When nobody runs the script by hand, the monitor takes away a lock only when
\* no run works on the issue, however often it crashed and left runs behind.
THEOREM OnlyFinishedUnlocked ==
  ASSUME "run" \notin May
  PROVE  Spec => UnlocksOnlyFinished
<1>1. Inv /\ LockInv /\ [Next]_vars => LockInv'
  BY LockStep
<1>2. LockInv => [RemoveLock => ~\E r \in Runs : Live(r) /\ script[r].issue = cur]_vars
  BY DEF LockInv, LiveOn, RemoveLock, At
<1>3. Spec => []LockInv
  BY <1>1, InitLocks, Invariant, PTL DEF Spec
<1> QED
  BY <1>2, <1>3, PTL DEF UnlocksOnlyFinished
=============================================================================

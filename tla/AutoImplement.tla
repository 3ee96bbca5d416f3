--------------------------- MODULE AutoImplement ---------------------------
(***************************************************************************)
(* auto-implement-issue.sh (src/.automation): one run of the script        *)
(* implements one issue.  Runs share the labels on GitHub, the lock files  *)
(* and the pull requests, with each other and with the monitor that        *)
(* starts them (Monitor.tla).                                              *)
(*                                                                         *)
(* A step is a command of the script that reads or writes what is shared.  *)
(* Two shell rules decide most paths: `set -e` ends the script at a        *)
(* command that fails, and a pipe into tee hides the failure.              *)
(***************************************************************************)
EXTENDS Naturals, FiniteSets

CONSTANTS Issues,
          Runs,    \* processes that can run the script at a time
          May,     \* what may happen around the program, see Events
          Null

\* What people and machines do: approve an issue, withdraw the approval, mark
\* an issue as in progress by hand, run the script by hand, insist on running
\* it in spite of a lock, shut the monitor down; a call of gh that fails, a
\* monitor that crashes.
Events == {"approve", "withdraw", "mark", "run", "insist", "shutdown",
           "ghFails", "crash"}

ASSUME MayAssumption == May \subseteq Events

Labels == {"approved", "in-progress"}

VARIABLES
  labels,   \* issue -> its labels on GitHub
  locks,    \* issues with a lock file in .processing
  prs,      \* issues with a pull request
  script    \* run -> Null, or what the run is doing

github == <<labels, prs>>

Person == 0    \* the owner of a run started by hand

\* `at` is the next command, `code` the exit status the run is heading for.
Run(issue, owner) ==
  [issue |-> issue, owner |-> owner, at |-> "view", code |-> "ok"]

Places == {"view", "label", "check", "lock", "build", "pr", "unlabel",
           "unlock", "exited"}

\* What a process that runs the script is doing.
Doing == [issue : Issues, owner : Nat, at : Places, code : {"ok", "failed"}]

ASSUME DoingAssumption == Null \notin Issues \cup Doing

InitScripts ==
  /\ labels = [i \in Issues |-> {}]
  /\ locks = {}
  /\ prs = {}
  /\ script = [r \in Runs |-> Null]

Is(r, place) == script[r] # Null /\ script[r].at = place

Live(r) == script[r] # Null /\ script[r].at # "exited"

Goes(r, place, code) ==
  script' = [script EXCEPT ![r].at = place, ![r].code = code]

Goto(r, place) == Goes(r, place, script[r].code)

Exits(r, code) == Goes(r, "exited", code)

-----------------------------------------------------------------------------
(* The script. *)

\* `gh issue view`, then the checks that the issue is approved.
View(r) ==
  /\ Is(r, "view")
  /\ \/ "approved" \in labels[script[r].issue] /\ Goto(r, "label")
     \/ "approved" \notin labels[script[r].issue] /\ Exits(r, "failed")
     \/ "ghFails" \in May /\ Exits(r, "failed")
  /\ UNCHANGED <<github, locks>>

\* The label comes before the look at the lock.
AddLabel(r) ==
  /\ Is(r, "label")
  /\ \/ labels' = [labels EXCEPT ![script[r].issue] = @ \cup {"in-progress"}]
     \/ "ghFails" \in May /\ UNCHANGED labels
  /\ Goto(r, "check")
  /\ UNCHANGED <<locks, prs>>

\* A lock is there: a person is asked, and a run without a terminal gets an end
\* of file from `read`, which ends it.
CheckLock(r) ==
  /\ Is(r, "check")
  /\ \/ script[r].issue \notin locks /\ Goto(r, "lock")
     \/ /\ script[r].issue \in locks
        /\ script[r].owner = Person /\ "insist" \in May
        /\ Goto(r, "lock")
     \/ script[r].issue \in locks /\ Exits(r, "failed")
  /\ UNCHANGED <<github, locks>>

WriteLock(r) ==
  /\ Is(r, "lock")
  /\ locks' = locks \cup {script[r].issue}
  /\ Goto(r, "build")
  /\ UNCHANGED github

\* Worktree, agent and tests.  Without a worktree or an agent the label stays;
\* after a timeout `wait` reports the kill and ends the script with both the
\* label and the lock in place; a failed agent goes unnoticed, the tests decide.
Build(r) ==
  /\ Is(r, "build")
  /\ \/ Goes(r, "unlock", "failed")
     \/ Exits(r, "failed")
     \/ Goes(r, "unlabel", "failed")
     \/ Goto(r, "pr")
  /\ UNCHANGED <<github, locks>>

\* create-issue-pr.sh through a pipe: its failure is hidden.
CreatePr(r) ==
  /\ Is(r, "pr")
  /\ prs' \in {prs, prs \cup {script[r].issue}}
  /\ Goto(r, "unlabel")
  /\ UNCHANGED <<labels, locks>>

RemoveLabel(r) ==
  /\ Is(r, "unlabel")
  /\ \/ labels' = [labels EXCEPT ![script[r].issue] = @ \ {"in-progress"}]
     \/ "ghFails" \in May /\ UNCHANGED labels
  /\ Goto(r, "unlock")
  /\ UNCHANGED <<locks, prs>>

\* `rm` fails when the lock is gone already.
Unlock(r) ==
  /\ Is(r, "unlock")
  /\ locks' = locks \ {script[r].issue}
  /\ Exits(r, IF script[r].issue \in locks THEN script[r].code ELSE "failed")
  /\ UNCHANGED github

ScriptStep(r) ==
  \/ View(r) \/ AddLabel(r) \/ CheckLock(r) \/ WriteLock(r) \/ Build(r)
  \/ CreatePr(r) \/ RemoveLabel(r) \/ Unlock(r)

-----------------------------------------------------------------------------
(* People. *)

\* The `labeled` event that GitHub then sends is Monitor's.
AddApproval(i) ==
  /\ "approve" \in May /\ "approved" \notin labels[i]
  /\ labels' = [labels EXCEPT ![i] = @ \cup {"approved"}]
  /\ UNCHANGED <<locks, prs, script>>

Withdraw(i) ==
  /\ "withdraw" \in May /\ "approved" \in labels[i]
  /\ labels' = [labels EXCEPT ![i] = @ \ {"approved"}]
  /\ UNCHANGED <<locks, prs, script>>

Mark(i) ==
  /\ "mark" \in May /\ "in-progress" \notin labels[i]
  /\ labels' = [labels EXCEPT ![i] = @ \cup {"in-progress"}]
  /\ UNCHANGED <<locks, prs, script>>

RunByHand(r, i) ==
  /\ "run" \in May /\ script[r] = Null
  /\ script' = [script EXCEPT ![r] = Run(i, Person)]
  /\ UNCHANGED <<github, locks>>

-----------------------------------------------------------------------------
(* Properties of the runs among themselves. *)

ScriptsTypeOK ==
  /\ labels \in [Issues -> SUBSET Labels]
  /\ locks \subseteq Issues
  /\ prs \subseteq Issues
  /\ script \in [Runs -> Doing \cup {Null}]
=============================================================================

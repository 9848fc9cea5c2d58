---------------------------- MODULE Regressions -----------------------------
(***************************************************************************)
(* Phases 4 to 7 of the supervisor's iteration (supervisor/loop.py): a     *)
(* regression that is detected becomes a row of regression_events and an   *)
(* issue, the patch agent (patch_agent.py) tries a fix in the repository   *)
(* the bot runs from, the CI gate (ci_gate.py) merges or closes its pull   *)
(* request, and alerts go out (notifier.py).  The process may die anywhere.*)
(*                                                                         *)
(* A working tree is the kinds of uncommitted changes in it: "own", to     *)
(* files that git tracks, and "new", files it does not, both of the people *)
(* who work there, and "edit", files the agent has overwritten.  Whether   *)
(* two changes touch the same file is left open.                           *)
(***************************************************************************)
EXTENDS Integers, Sequences, SequencesExt, FiniteSets

CONSTANTS
  Keys,          \* pairs of regression type and combo that detection may report
  Causes,        \* causes of an alert with a cooldown
  MAX_CONCURRENT,\* max_concurrent_patch_attempts
  MAX_PER_DAY,   \* max_patch_attempts_per_day
  COOLDOWN,      \* escalation_cooldown_seconds, in intervals between iterations
  DAY,           \* intervals in a day
  RETRIES,       \* _RETRY_COUNT: times an alert is posted until it succeeds
  LAST_TIME,     \* bound: the clock stops here
  MAX_CRASHES    \* bound: deaths of the supervisor

ASSUME RegressionConstants ==
  /\ IsFiniteSet(Keys)
  /\ {MAX_CONCURRENT, MAX_PER_DAY, COOLDOWN, DAY, RETRIES} \subseteq Nat \ {0}
  /\ {LAST_TIME, MAX_CRASHES} \subseteq Nat

NoPr == 0
Changes == {"own", "new", "edit"}
Arrivals == [row : Nat, at : Nat]

VARIABLES
  pc,        \* where the supervisor is; "off" when it does not run
  now,       \* intervals gone by
  found,     \* regressions of this scan still to look at
  event,     \* the row at hand, 0 if none
  slots,     \* patching_count
  pr,        \* what the agent returns: its pull request's number or NoPr
  stashed,   \* the agent's git stash succeeded
  watched,   \* patching events the CI gate has still to check
  updates,   \* event -> status, to be applied when all are checked
  alerts,    \* causes phase 7 has still to look at
  tries,     \* times the alert at hand has been posted in vain
  events,    \* table regression_events
  attempts,  \* table daily_budget: day -> attempts
  logged,    \* table escalation_log: cause -> time of the latest row, -1 if none
  prs,       \* GitHub: state of each pull request
  tree,      \* uncommitted changes in the working tree
  stash,     \* the stash, latest first
  before,    \* history: the tree when the agent was launched
  launched,  \* history: day -> runs of the agent
  delivered, \* history: cause -> what arrived of it: times of its row and arrival
  crashes

db == <<events, attempts, logged>>
git == <<tree, stash>>
agent == <<pr, stashed>>
alarm == <<alerts, tries>>
locals == <<found, event, slots, watched, updates, alarm>>
history == <<before, launched, delivered>>
vars == <<pc, now, locals, agent, db, prs, git, history, crashes>>

-----------------------------------------------------------------------------
Today == now \div DAY

\* regression_already_detected: status not in (merged, closed); nothing sets closed.
AlreadyDetected(k) == \E i \in DOMAIN events : events[i].key = k /\ events[i].status # "merged"

\* get_patching_regression_events
Patching == {i \in DOMAIN events : events[i].status = "patching" /\ events[i].pr # NoPr}

\* The cause of the alert at hand: phase 7 has an order of its own.
Cause == CHOOSE c \in alerts : TRUE

CooldownOk(cause) == logged[cause] = -1 \/ now - logged[cause] >= COOLDOWN

Init ==
  /\ pc = "off" /\ now = 0
  /\ found = << >> /\ event = 0 /\ slots = 0 /\ watched = {} /\ updates = << >>
  /\ alerts = {} /\ tries = 0
  /\ pr = NoPr /\ stashed = FALSE
  /\ events = << >> /\ attempts = [d \in 0..(LAST_TIME \div DAY) |-> 0]
  /\ logged = [c \in Causes |-> -1]
  /\ prs = << >>
  /\ tree \in SUBSET {"own", "new"} /\ stash = << >>
  /\ before = {}
  /\ launched = [d \in DOMAIN attempts |-> 0]
  /\ delivered = [c \in Causes |-> << >>]
  /\ crashes = 0

-----------------------------------------------------------------------------
(* Phases 4 and 5: detection, issue, patch.                                *)

\* RegressionDetector.scan reports each pair at most once; phase 5 begins with the
\* number of pull requests that are being watched.
DetectRegressions ==
  /\ pc \in {"off", "sleep"}
  /\ \E some \in SUBSET Keys : found' = SetToSeq(some)
  /\ slots' = Cardinality(Patching)
  /\ pc' = "next"
  /\ UNCHANGED <<now, event, watched, updates, alarm, agent, db, prs, git, history, crashes>>

\* Mutant: a patch that failed may be tried again.
InsertEventAgain ==
  /\ pc = "next" /\ found # << >>
  /\ found' = Tail(found)
  /\ IF \E i \in DOMAIN events : events[i].key = Head(found) /\ events[i].status \notin {"merged", "patch_failed"}
     THEN UNCHANGED <<events, event, pc>>
     ELSE /\ events' = Append(events, [key |-> Head(found), status |-> "detected", pr |-> NoPr])
          /\ \/ pc' = "file" /\ event' = Len(events')
             \/ pc' = "next" /\ UNCHANGED event
  /\ UNCHANGED <<now, slots, watched, updates, alarm, agent, attempts, logged, prs, git, history, crashes>>

\* A regression with an open row is left alone.  With --dry-run its new row is all
\* that is done.
InsertEvent ==
  /\ pc = "next" /\ found # << >>
  /\ found' = Tail(found)
  /\ IF AlreadyDetected(Head(found)) THEN UNCHANGED <<events, event, pc>>
     ELSE /\ events' = Append(events, [key |-> Head(found), status |-> "detected", pr |-> NoPr])
          /\ \/ pc' = "file" /\ event' = Len(events')
             \/ pc' = "next" /\ UNCHANGED event
  /\ UNCHANGED <<now, slots, watched, updates, alarm, agent, attempts, logged, prs, git, history, crashes>>

\* _file_issue, which may fail.
FileIssue ==
  /\ pc = "file"
  /\ \/ events' = [events EXCEPT ![event].status = "issue_filed"]
     \/ UNCHANGED events
  /\ pc' = "budget"
  /\ UNCHANGED <<now, locals, agent, attempts, logged, prs, git, history, crashes>>

\* Mutant: one attempt too many is within the budget.
CheckBudgetOffByOne ==
  /\ pc = "budget"
  /\ \/ pc' = "next" /\ event' = 0
     \/ /\ attempts[Today] <= MAX_PER_DAY /\ slots < MAX_CONCURRENT
        /\ pc' = "count" /\ UNCHANGED event
  /\ UNCHANGED <<now, found, slots, watched, updates, alarm, agent, db, prs, git, history, crashes>>

\* No patch without access to Claude, beyond the day's budget, or while enough
\* pull requests are being watched.
CheckBudget ==
  /\ pc = "budget"
  /\ \/ pc' = "next" /\ event' = 0
     \/ /\ attempts[Today] < MAX_PER_DAY /\ slots < MAX_CONCURRENT
        /\ pc' = "count" /\ UNCHANGED event
  /\ UNCHANGED <<now, found, slots, watched, updates, alarm, agent, db, prs, git, history, crashes>>

CountAttempt ==
  /\ pc = "count"
  /\ attempts' = [attempts EXCEPT ![Today] = @ + 1]
  /\ pc' = "launch"
  /\ UNCHANGED <<now, locals, agent, events, logged, prs, git, history, crashes>>

\* git stash: what git tracks leaves the tree.  Files it does not track stay, and
\* with nothing but those it makes no entry and answers 0 all the same.
Stash ==
  /\ stash' = IF tree \subseteq {"new"} THEN stash ELSE <<tree \ {"new"}>> \o stash
  /\ tree' = tree \cap {"new"}

\* The row says patching before the agent begins: git stash, which may fail.
StashTree ==
  /\ pc = "launch"
  /\ events' = [events EXCEPT ![event].status = "patching"]
  /\ launched' = [launched EXCEPT ![Today] = @ + 1]
  /\ before' = tree
  /\ pr' = NoPr
  /\ \/ stashed' = TRUE /\ Stash
     \/ stashed' = FALSE /\ UNCHANGED <<stash, tree>>
  /\ pc' = "edit"
  /\ UNCHANGED <<now, locals, attempts, logged, prs, delivered, crashes>>

\* A branch from main, Claude's answer, and its files in place of those of these
\* names, which may take changes with them that were not stashed (_apply_edits), up
\* to the last or to one that raises; or no branch, no answer or nothing to apply.
EditFiles ==
  /\ pc = "edit"
  /\ \/ pc' = "finally" /\ UNCHANGED tree
     \/ /\ pc' \in {"test", "finally"}
        /\ \E kept \in SUBSET tree : tree' = kept \cup {"edit"}
  /\ UNCHANGED <<now, locals, agent, db, prs, stash, history, crashes>>

\* When pytest passes whatever is staged is committed to the branch of the patch,
\* with it what people had staged and git stash did not take; what git commit
\* answers is not looked at.
TestAndCommit ==
  /\ pc = "test"
  /\ \/ pc' = "finally" /\ UNCHANGED tree
     \/ /\ pc' = "push"
        /\ \E theirs \in SUBSET (IF stashed THEN {} ELSE {"own"}) :
             tree' \in {tree, tree \ ({"edit"} \cup theirs)}
  /\ UNCHANGED <<now, locals, agent, db, prs, stash, history, crashes>>

\* git push and gh pr create.  A pull request may be created although the answer is
\* late or shows no number.
CreatePr ==
  /\ pc = "push"
  /\ \/ UNCHANGED <<pr, prs>>
     \/ /\ prs' = Append(prs, "open")
        /\ pr' \in {NoPr, Len(prs')}
  /\ pc' = "finally"
  /\ UNCHANGED <<now, locals, stashed, db, git, history, crashes>>

\* Mutant: what cannot be popped is dropped.
RestoreTreeDrops ==
  /\ pc = "finally"
  /\ IF ~stashed
     THEN /\ pc' = "off" /\ found' = << >> /\ event' = 0 /\ slots' = 0 /\ pr' = NoPr
          /\ UNCHANGED git
     ELSE /\ pc' = "record"
          /\ stash' = IF stash = << >> THEN stash ELSE Tail(stash)
          /\ \/ stash # << >> /\ tree' = tree \cup Head(stash)
             \/ UNCHANGED tree
          /\ UNCHANGED <<found, event, slots, pr>>
  /\ UNCHANGED <<now, watched, updates, alarm, stashed, db, prs, history, crashes>>

\* The finally block.  When the stash had failed its return replaces the pair the
\* caller unpacks: TypeError, and the supervisor ends.  Otherwise back to main, with
\* whatever is uncommitted, and the top of the stash, whoever put it there, is
\* popped: with a conflict it stays in the stash too, and git refuses when changes
\* of the tree would be overwritten.
RestoreTree ==
  /\ pc = "finally"
  /\ IF ~stashed
     THEN /\ pc' = "off" /\ found' = << >> /\ event' = 0 /\ slots' = 0 /\ pr' = NoPr
          /\ UNCHANGED git
     ELSE /\ pc' = "record"
          /\ \/ stash # << >> /\ tree' = tree \cup Head(stash) /\ stash' \in {stash, Tail(stash)}
             \/ (stash # << >> => tree # {}) /\ UNCHANGED <<tree, stash>>
          /\ UNCHANGED <<found, event, slots, pr>>
  /\ UNCHANGED <<now, watched, updates, alarm, stashed, db, prs, history, crashes>>

\* Mutant: the new pull request is not counted.
RecordPatchUncounted ==
  /\ pc = "record"
  /\ IF pr # NoPr
     THEN events' = [events EXCEPT ![event].pr = pr]
     ELSE events' = [events EXCEPT ![event].status = "patch_failed"]
  /\ pc' = "next" /\ event' = 0 /\ stashed' = FALSE /\ pr' = NoPr /\ before' = {}
  /\ UNCHANGED <<now, found, slots, watched, updates, alarm, attempts, logged, prs, git, launched, delivered, crashes>>

RecordPatch ==
  /\ pc = "record"
  /\ IF pr # NoPr
     THEN events' = [events EXCEPT ![event].pr = pr] /\ slots' = slots + 1
     ELSE events' = [events EXCEPT ![event].status = "patch_failed"] /\ UNCHANGED slots
  /\ pc' = "next" /\ event' = 0 /\ stashed' = FALSE /\ pr' = NoPr /\ before' = {}
  /\ UNCHANGED <<now, found, watched, updates, alarm, attempts, logged, prs, git, launched, delivered, crashes>>

EndPatches ==
  /\ pc = "next" /\ found = << >>
  /\ pc' = "gate" /\ event' = 0 /\ slots' = 0
  /\ watched' = Patching
  /\ UNCHANGED <<now, found, updates, alarm, agent, db, prs, git, history, crashes>>

-----------------------------------------------------------------------------
(* Phase 6: process_patching_events, then one update per event.            *)

\* A conflict closes the pull request, if that succeeds; checks, quiet period,
\* people's comments or an unimproved Sharpe leave it for the next iteration; else it
\* is merged, at once or (--auto) later.
CheckPr ==
  /\ pc = "gate" /\ watched # {}
  /\ LET e == CHOOSE i \in watched : \A j \in watched : i <= j
         Becomes(state, status) ==
           /\ prs' = [prs EXCEPT ![events[e].pr] = state]
           /\ updates' = Append(updates, [event |-> e, status |-> status])
     IN /\ watched' = watched \ {e}
        /\ \/ prs[events[e].pr] # "merged" /\ Becomes("closed", "patch_failed")
           \/ UNCHANGED <<prs, updates>>
           \/ prs[events[e].pr] # "closed" /\ Becomes("merged", "merged")
           \/ Becomes(prs[events[e].pr], "patch_failed")
           \/ prs[events[e].pr] = "open" /\ Becomes("open", "merged")
  /\ UNCHANGED <<pc, now, found, event, slots, alarm, agent, db, git, history, crashes>>

ApplyUpdate ==
  /\ pc = "gate" /\ watched = {} /\ updates # << >>
  /\ events' = [events EXCEPT ![Head(updates).event].status = Head(updates).status]
  /\ updates' = Tail(updates)
  /\ UNCHANGED <<pc, now, found, event, slots, watched, alarm, agent, attempts, logged, prs, git, history, crashes>>

EndGate ==
  /\ pc = "gate" /\ watched = {} /\ updates = << >>
  /\ pc' = "alert"
  /\ \E some \in SUBSET Causes : alerts' = some
  /\ UNCHANGED <<now, found, event, slots, watched, updates, tries, agent, db, prs, git, history, crashes>>

-----------------------------------------------------------------------------
(* Phase 7: escalate for each cause that holds.                            *)

\* escalate: within the cooldown nothing; else the row first, then the alert.
Escalate ==
  /\ pc = "alert" /\ alerts # {}
  /\ IF CooldownOk(Cause)
     THEN logged' = [logged EXCEPT ![Cause] = now] /\ pc' = "post" /\ UNCHANGED alerts
     ELSE alerts' = alerts \ {Cause} /\ UNCHANGED <<logged, pc>>
  /\ UNCHANGED <<now, found, event, slots, watched, updates, tries, agent, events, attempts, prs, git, history, crashes>>

\* The alert is done with: dsr_degrade may be raised again, for another combo.
AlertDone == pc' = "alert" /\ tries' = 0 /\ alerts' \in {alerts, alerts \ {Cause}}

\* Mutant: when no post was seen to succeed the row is taken back.
PostNtfyTakesBack ==
  /\ pc = "post"
  /\ \E arrives, success \in BOOLEAN :
       /\ success => arrives
       /\ delivered' = IF arrives
                       THEN [delivered EXCEPT ![Cause] = Append(@, [row |-> logged[Cause], at |-> now])]
                       ELSE delivered
       /\ IF success \/ tries + 1 = RETRIES
          THEN AlertDone /\ logged' = IF success THEN logged ELSE [logged EXCEPT ![Cause] = -1]
          ELSE tries' = tries + 1 /\ UNCHANGED <<pc, alerts, logged>>
  /\ UNCHANGED <<now, found, event, slots, watched, updates, agent, events, attempts, prs, git, before, launched, crashes>>

\* One post of _post_ntfy: the alert may arrive although no success is seen, and is
\* then posted again, up to RETRIES times.
PostNtfy ==
  /\ pc = "post"
  /\ \E arrives, success \in BOOLEAN :
       /\ success => arrives
       /\ delivered' = IF arrives
                       THEN [delivered EXCEPT ![Cause] = Append(@, [row |-> logged[Cause], at |-> now])]
                       ELSE delivered
       /\ IF success \/ tries + 1 = RETRIES
          THEN AlertDone
          ELSE tries' = tries + 1 /\ UNCHANGED <<pc, alerts>>
  /\ UNCHANGED <<now, found, event, slots, watched, updates, agent, db, prs, git, before, launched, crashes>>

EndIteration ==
  /\ pc = "alert" /\ alerts = {}
  /\ pc' = "wait"
  /\ UNCHANGED <<now, locals, agent, db, prs, git, history, crashes>>

-----------------------------------------------------------------------------
\* Time goes by: between two iterations at least one interval, and between any two
\* steps, so that midnight may fall there.
Clock ==
  /\ now < LAST_TIME
  /\ now' = now + 1
  /\ pc' = IF pc = "wait" THEN "sleep" ELSE pc
  /\ UNCHANGED <<locals, agent, db, prs, git, history, crashes>>

\* The people who work in the tree change it while no agent does.
UserEdits ==
  /\ pc \in {"off", "wait", "sleep"}
  /\ \E change \in {"own", "new"} \ tree : tree' = tree \cup {change}
  /\ UNCHANGED <<pc, now, locals, agent, db, prs, stash, history, crashes>>

\* The process dies, or an exception leaves run(): a timeout of gh, say.
Crash ==
  /\ pc \notin {"off", "wait", "sleep"} /\ crashes < MAX_CRASHES
  /\ crashes' = crashes + 1
  /\ pc' = "off" /\ found' = << >> /\ event' = 0 /\ slots' = 0 /\ watched' = {}
  /\ updates' = << >> /\ alerts' = {} /\ tries' = 0 /\ pr' = NoPr /\ stashed' = FALSE
  /\ before' = {}
  /\ UNCHANGED <<now, db, prs, git, launched, delivered>>

Next ==
  \/ DetectRegressions \/ InsertEvent \/ FileIssue \/ CheckBudget \/ CountAttempt
  \/ StashTree \/ EditFiles \/ TestAndCommit \/ CreatePr \/ RestoreTree \/ RecordPatch
  \/ EndPatches \/ CheckPr \/ ApplyUpdate \/ EndGate
  \/ Escalate \/ PostNtfy \/ EndIteration
  \/ Clock \/ UserEdits \/ Crash

Spec == Init /\ [][Next]_vars

-----------------------------------------------------------------------------
\* A regression has at most one row that is not merged, over iterations, deaths and
\* restarts (regression_already_detected before insert_regression_event).
OneOpenEvent ==
  \A i, j \in DOMAIN events :
    (events[i].key = events[j].key /\ "merged" \notin {events[i].status, events[j].status})
      => i = j

\* Some attempt of a day before d was counted and did not launch the agent that day.
SpareBefore(d) == \E e \in DOMAIN launched : e < d /\ launched[e] < attempts[e]

\* However often the supervisor dies, the agent is launched at most
\* max_patch_attempts_per_day times a day, and once more only when an attempt was
\* counted on an earlier day and midnight fell before the launch
\* (increment_patch_attempts, then agent.run, in _phase5_issues_and_patches).
WithinBudget ==
  \A d \in DOMAIN launched :
    /\ launched[d] <= MAX_PER_DAY + 1
    /\ launched[d] > MAX_PER_DAY => SpareBefore(d)

\* No more pull requests are watched at once than max_concurrent_patch_attempts,
\* although phase 5 looks at the table once and counts for itself from there on.
WithinSlots == Cardinality(Patching) <= MAX_CONCURRENT

\* Changes of the people who work in the tree stay in it or in the stash, whatever
\* fails and whenever the agent dies (PatchAgent.run), except: those to tracked files
\* may be written over or committed to the patch when git stash failed; and files
\* git does not track, which it does not stash, may be written over at any time.
Kept(change) == change \in tree \/ \E i \in DOMAIN stash : change \in stash[i]
OwnKept ==
  [][/\ Kept("own") => Kept("own")' \/ (pc \in {"edit", "test"} /\ ~stashed)
     /\ Kept("new") => Kept("new")' \/ pc = "edit"]_vars

\* One alert arrives at most RETRIES times and another of its cause not within the
\* cooldown: of any RETRIES + 1 arrivals the last comes at least a cooldown after the
\* row of the first, although an alert may arrive whose post is seen to fail (escalate:
\* "so the cooldown window is enforced even on partial failures").
AlertsSpaced ==
  \A c \in Causes : \A i, j \in DOMAIN delivered[c] :
    j - i >= RETRIES => delivered[c][j].at - delivered[c][i].row >= COOLDOWN

\* When the agent fails the tree is as it found it (PatchAgent.run: "On failure:
\* restore working tree and delete branch").  The code does not keep this.
FailureRestoresTree ==
  [][(pc = "finally" /\ stashed /\ pr = NoPr) => (pc' = "record" => tree' = before)]_vars
=============================================================================

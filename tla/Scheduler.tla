----------------------------- MODULE Scheduler ------------------------------
(***************************************************************************)
(* The scheduler: its persisted state and command surface, the cooperative *)
(* loop with its selection and recovery steps, the event journal, the      *)
(* human inbox and the roadmap work is selected from (scheduler_*.py,      *)
(* roadmap_models.py, inbox.py).                                           *)
(*                                                                         *)
(* The repository has the operations and no program that puts them         *)
(* together: here commands arrive from several clients, and one worker     *)
(* loads the state, runs the loop over selection, recovery and lifecycle   *)
(* steps, appends the loop's events to the journal and hands the status    *)
(* back to the store.  What the store keeps of the worker's state is the   *)
(* status alone, since transition is the only write after create.          *)
(***************************************************************************)
EXTENDS Integers, Sequences, FiniteSets

CONSTANTS
    Clients,   \* processes that give commands
    Humans,    \* actors that resolve inbox items
    InboxIds,  \* identities of inbox items
    Risks,     \* risk classes of the decisions put before a human
    Items,     \* items of the roadmap
    DependsOn, \* the items an item depends on
    None,
    Budget,    \* budget_limit
    Cost,      \* estimated_cost of an item
    MaxSteps,  \* max_steps of a loop
    MaxRuns,   \* bound of the loops run
    MaxMoves   \* bound of the roadmap's changes

(* _validate_acyclic: the dependencies of a roadmap have an order.         *)
Acyclic ==
    \E rank \in [Items -> 1..Cardinality(Items)] :
        \A i \in Items : \A d \in DependsOn[i] : rank[d] < rank[i]

ASSUME SchedulerBounds ==
    /\ {Budget, MaxRuns, MaxMoves} \subseteq Nat
    /\ Cost \in Nat \ {0}
    /\ MaxSteps \in 1..100
    /\ DependsOn \in [Items -> SUBSET Items]
    /\ Acyclic
    /\ None \notin Clients \cup Humans \cup Items

ASSUME NoneIsNoItem == None \notin [risk : Risks, actor : Humans \cup {None}]

VARIABLES
    stored,   \* the state file, or None
    command,  \* the command each client is giving, as it saw the state
    worker,   \* the loop: its state, its events, its steps
    journal,  \* the events of the journal file
    inbox,    \* the items of the journal file
    roadmap,  \* the status of every item
    spent     \* what was used of the bounds

schedulerVars == <<stored, command, worker, journal, inbox, roadmap, spent>>

-----------------------------------------------------------------------------
(* The state and its lifecycle.                                            *)

SchedulerStatus ==
    {"CREATED", "RUNNING", "PAUSED", "BLOCKED", "HUMAN_REQUIRED",
     "COMPLETED", "FAILED", "CANCELLED"}
TERMINAL_STATES == {"COMPLETED", "FAILED", "CANCELLED"}
STOP_STATES == TERMINAL_STATES \cup {"BLOCKED", "HUMAN_REQUIRED"}

TRANSITIONS ==
    [s \in SchedulerStatus |->
        CASE s = "CREATED" -> {"RUNNING", "BLOCKED", "HUMAN_REQUIRED", "CANCELLED"}
          [] s = "RUNNING" -> {"PAUSED", "BLOCKED", "HUMAN_REQUIRED"} \cup TERMINAL_STATES
          [] s = "PAUSED" -> {"RUNNING", "BLOCKED", "HUMAN_REQUIRED", "CANCELLED"}
          [] s \in {"BLOCKED", "HUMAN_REQUIRED"} -> {"RUNNING", "CANCELLED"}
          [] OTHER -> {}]

(* The sequence of the state counts its transitions and decides nothing: it *)
(* is left out.                                                            *)
Created ==
    [status |-> "CREATED", item |-> None, lease |-> "none", used |-> 0]

Moved(s, status) == [s EXCEPT !.status = status]

(* The targets of the commands, and where they are allowed.                *)
CommandTarget ==
    [start |-> "RUNNING", pause |-> "PAUSED", resume |-> "RUNNING", cancel |-> "CANCELLED"]
Allowed ==
    [start |-> {"CREATED"}, pause |-> {"RUNNING"},
     resume |-> {"PAUSED", "BLOCKED", "HUMAN_REQUIRED"},
     cancel |-> SchedulerStatus \ TERMINAL_STATES]

-----------------------------------------------------------------------------
(* The store.  Each operation holds the project lock.                      *)

CreateState ==
    /\ stored = None
    /\ stored' = Created
    /\ UNCHANGED <<command, worker, journal, inbox, roadmap, spent>>

(* MUTANT: the status is saved as the command computed it, without looking *)
(* at what the file says by then.                                          *)
SaveTarget(s, status) == Moved(s, status)

(* transition: the same status again is no change; a status the table does *)
(* not allow raises, which changes nothing either.                         *)
Transitioned(s, status) ==
    IF status \in TRANSITIONS[s.status] THEN Moved(s, status) ELSE s

(* A command loads the state, decides, and then transitions under a lock   *)
(* of its own.                                                             *)
LoadForCommand(c) ==
    /\ stored # None
    /\ command[c] = None
    /\ \E name \in DOMAIN CommandTarget :
          /\ stored.status # CommandTarget[name]
          /\ stored.status \in Allowed[name]
          /\ command' = [command EXCEPT ![c] = name]
    /\ UNCHANGED <<stored, worker, journal, inbox, roadmap, spent>>

ApplyCommand(c) ==
    /\ command[c] # None
    /\ stored' = Transitioned(stored, CommandTarget[command[c]])
    /\ command' = [command EXCEPT ![c] = None]
    /\ UNCHANGED <<worker, journal, inbox, roadmap, spent>>

-----------------------------------------------------------------------------
(* The roadmap.                                                            *)

RoadmapItemStatus == {"TODO", "READY", "IN_PROGRESS", "BLOCKED", "COMPLETED", "SUPERSEDED"}

ITEM_TRANSITIONS ==
    [s \in RoadmapItemStatus |->
        CASE s = "TODO" -> {"READY", "BLOCKED", "SUPERSEDED"}
          [] s = "READY" -> {"IN_PROGRESS", "BLOCKED", "SUPERSEDED"}
          [] s = "IN_PROGRESS" -> {"COMPLETED", "BLOCKED", "SUPERSEDED"}
          [] s = "BLOCKED" -> {"READY", "SUPERSEDED"}
          [] s = "COMPLETED" -> {"SUPERSEDED"}
          [] OTHER -> {}]

Done(i) == roadmap[i] = "COMPLETED"
DependenciesDone(i) == \A d \in DependsOn[i] : Done(d)

EligibleItems == {i \in Items : roadmap[i] = "READY" /\ DependenciesDone(i)}

(* An item moves along its lifecycle or is superseded by another one.      *)
MoveItem(i) ==
    /\ spent.moves < MaxMoves
    /\ \E status \in ITEM_TRANSITIONS[roadmap[i]] :
          /\ status = "COMPLETED" => DependenciesDone(i)
          /\ roadmap' = [roadmap EXCEPT ![i] = status]
    /\ spent' = [spent EXCEPT !.moves = @ + 1]
    /\ UNCHANGED <<stored, command, worker, journal, inbox>>

(* assess_roadmap.                                                         *)
Unfinished == {i \in Items : roadmap[i] \notin {"COMPLETED", "SUPERSEDED"}}
RoadmapVerdict ==
    IF EligibleItems # {} THEN "PROCEED"
    ELSE IF Unfinished = {} THEN "COMPLETED"
    ELSE IF \E i \in Unfinished : roadmap[i] = "READY" THEN "BLOCKED"
    ELSE "PROCEED"

-----------------------------------------------------------------------------
(* The loop.  Its events are numbered from 1 in every call.                *)

Resting == [state |-> None, events |-> <<>>, done |-> TRUE, from |-> 0]

LoopEvent(n, from, to) == [sequence |-> n, from |-> from, to |-> to]

StartLoop ==
    /\ worker.state = None
    /\ stored # None
    /\ spent.runs < MaxRuns
    /\ worker' = [state |-> stored, events |-> <<>>, done |-> FALSE, from |-> 0]
    /\ spent' = [spent EXCEPT !.runs = @ + 1]
    /\ UNCHANGED <<stored, command, journal, inbox, roadmap>>

(* One step of run_bounded that gives the state next.                      *)
LoopStep(next) ==
    /\ ~worker.done
    /\ worker.state.status \notin STOP_STATES
    /\ Len(worker.events) < MaxSteps
    /\ worker' = [worker EXCEPT
                    !.state = next,
                    !.events = Append(@, LoopEvent(Len(@) + 1, worker.state.status, next.status))]
    /\ UNCHANGED <<stored, command, journal, inbox, roadmap, spent>>

(* select_next leases one eligible item and charges its cost.              *)
Selectable(s) ==
    /\ s.status = "RUNNING"
    /\ s.item = None /\ s.lease = "none"
    /\ s.used + Cost <= Budget

SelectNext ==
    /\ worker.state # None
    /\ Selectable(worker.state)
    /\ \E i \in EligibleItems :
          LoopStep([worker.state EXCEPT !.item = i, !.lease = "held", !.used = @ + Cost])

(* MUTANT: the expired lease goes and the claimed item stays.              *)
LeaseDropped(s) == [s EXCEPT !.status = "PAUSED", !.lease = "none"]

(* recover_expired_lease: any status but HUMAN_REQUIRED becomes PAUSED.    *)
Recovered(s) ==
    [s EXCEPT !.status = "PAUSED", !.item = None, !.lease = "none"]

RecoverExpiredLease ==
    /\ worker.state # None
    /\ worker.state.status # "HUMAN_REQUIRED"
    /\ worker.state.lease = "expired"
    /\ LoopStep(Recovered(worker.state))

(* recover_interruption, or another lifecycle transition of the step.      *)
MoveState ==
    /\ worker.state # None
    /\ \E status \in TRANSITIONS[worker.state.status] :
          LoopStep(Moved(worker.state, status))

LoopLeaseExpires ==
    /\ worker.state # None
    /\ worker.state.lease = "held"
    /\ worker' = [worker EXCEPT !.state.lease = "expired"]
    /\ UNCHANGED <<stored, command, journal, inbox, roadmap, spent>>

EndLoop ==
    /\ ~worker.done
    /\ worker' = [worker EXCEPT !.done = TRUE]
    /\ UNCHANGED <<stored, command, journal, inbox, roadmap, spent>>

-----------------------------------------------------------------------------
(* The journal.                                                            *)

(* MUTANT: an event whose id is taken counts as recorded already.          *)
AcceptTaken(e) == e.sequence <= Len(journal) \/ e.sequence = Len(journal) + 1

(* append_event: an identical event is there already; another one under    *)
(* its id, or a gap, raises.  The first event of a journal is not compared *)
(* with anything, and every loop's first event is number 1.                *)
Accepted(e) ==
    \/ e.sequence <= Len(journal) /\ journal[e.sequence] = e
    \/ e.sequence = Len(journal) + 1

NextEvent == worker.events[worker.from + 1]

(* The worker appends its events in order and stops at the first refusal.  *)
AppendEvent ==
    /\ worker.done
    /\ worker.from < Len(worker.events)
    /\ IF Accepted(NextEvent)
       THEN /\ journal' = IF NextEvent.sequence > Len(journal)
                          THEN Append(journal, NextEvent) ELSE journal
            /\ worker' = [worker EXCEPT !.from = @ + 1]
       ELSE /\ worker' = [worker EXCEPT !.from = Len(worker.events)]
            /\ UNCHANGED journal
    /\ UNCHANGED <<stored, command, inbox, roadmap, spent>>

(* The status the loop ended in is handed to the store; the lease and the  *)
(* budget are not.                                                         *)
HandBack ==
    /\ worker.done
    /\ worker.state # None
    /\ worker.from = Len(worker.events)
    /\ stored' = Transitioned(stored, worker.state.status)
    /\ worker' = Resting
    /\ UNCHANGED <<command, journal, inbox, roadmap, spent>>

WorkerDies ==
    /\ worker.state # None
    /\ worker' = Resting
    /\ UNCHANGED <<stored, command, journal, inbox, roadmap, spent>>

-----------------------------------------------------------------------------
(* The inbox.                                                              *)

(* A decision becomes an item by its risk class: a MEDIUM summary, an      *)
(* escalation, or the executive summary any decision has; the journal      *)
(* takes no item of a LOW decision, whose summary is refused.              *)
MediumSummary(risk) == risk = "MEDIUM"
HumanEscalation(risk) == risk \in {"HIGH", "CRITICAL", "UNKNOWN"}
JournalTakes(risk) == MediumSummary(risk) \/ HumanEscalation(risk)

(* The persist functions add the item: an identical open one is there      *)
(* already, another content under its id raises.                           *)
Escalate(id) ==
    /\ inbox[id] = None
    /\ \E risk \in {r \in Risks : JournalTakes(r)} :
          inbox' = [inbox EXCEPT ![id] = [risk |-> risk, actor |-> None]]
    /\ UNCHANGED <<stored, command, worker, journal, roadmap, spent>>

(* A resolved item keeps its resolution: the same one again is no change,  *)
(* a different one raises.                                                 *)
Resolvable(item, actor) == item.actor = None

ResolveInbox(id, h) ==
    /\ inbox[id] # None
    /\ Resolvable(inbox[id], h)
    /\ inbox' = [inbox EXCEPT ![id].actor = h]
    /\ UNCHANGED <<stored, command, worker, journal, roadmap, spent>>

-----------------------------------------------------------------------------
SchedulerInit ==
    /\ stored = None
    /\ command = [c \in Clients |-> None]
    /\ worker = Resting
    /\ journal = <<>>
    /\ inbox = [id \in InboxIds |-> None]
    /\ roadmap = [i \in Items |-> "TODO"]
    /\ spent = [runs |-> 0, moves |-> 0]

CommandStep == CreateState \/ \E c \in Clients : LoadForCommand(c) \/ ApplyCommand(c)

WorkerStep ==
    \/ StartLoop \/ SelectNext \/ RecoverExpiredLease \/ MoveState \/ EndLoop
    \/ AppendEvent \/ HandBack \/ WorkerDies \/ LoopLeaseExpires

InboxStep == \E id \in InboxIds : Escalate(id) \/ \E h \in Humans : ResolveInbox(id, h)

SchedulerNext == CommandStep \/ WorkerStep \/ InboxStep \/ \E i \in Items : MoveItem(i)

SchedulerSpec == SchedulerInit /\ [][SchedulerNext]_schedulerVars

-----------------------------------------------------------------------------
(* Properties.                                                             *)

StateOK(s) ==
    /\ s.status \in SchedulerStatus
    /\ s.item \in Items \cup {None}
    /\ s.lease \in {"none", "held", "expired"}
    /\ s.used \in 0..Budget

(* The values the files and the loop may take: among them the budget, and  *)
(* a lease exactly when an item is claimed.                                *)
SchedulerTypeOK ==
    /\ stored = None \/ StateOK(stored)
    /\ command \in [Clients -> DOMAIN CommandTarget \cup {None}]
    /\ worker.state = None \/
         (StateOK(worker.state) /\ (worker.state.item = None <=> worker.state.lease = "none"))
    /\ Len(worker.events) <= MaxSteps
    /\ roadmap \in [Items -> RoadmapItemStatus]
    /\ \A id \in InboxIds :
          inbox[id] = None
          \/ inbox[id] \in [risk : Risks, actor : Humans \cup {None}]

(* The journal is a history some loop went through: its events are         *)
(* numbered from 1 without a gap and each begins where the one before      *)
(* ended, although every loop numbers its events from 1 and workers die    *)
(* between appends.                                                        *)
JournalChain ==
    \A n \in 1..Len(journal) :
        /\ journal[n].sequence = n
        /\ n > 1 => journal[n].from = journal[n - 1].to

(* What is settled stays settled.  A scheduler that has ended stays ended, *)
(* whatever command was decided on a state read before and whatever status *)
(* a loop comes back with, recover_expired_lease's PAUSED included; a      *)
(* human's resolution is neither lost nor replaced by another's; and a     *)
(* roadmap that assess_roadmap called complete is not reopened.            *)
SettledStays ==
    [][/\ stored # None /\ stored.status \in TERMINAL_STATES => stored' = stored
       /\ \A id \in InboxIds :
             inbox[id] # None =>
                /\ inbox[id]' # None
                /\ inbox[id]'.risk = inbox[id].risk
                /\ inbox[id].actor # None => inbox[id]' = inbox[id]
       /\ RoadmapVerdict = "COMPLETED" => RoadmapVerdict' = "COMPLETED"]_schedulerVars
=============================================================================

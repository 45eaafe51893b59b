----------------------------- MODULE Execution ------------------------------
(***************************************************************************)
(* Executor.execute: its gates, the start it records, the isolated         *)
(* worktree, one provider invocation through one of the four adapters, the *)
(* judgement of what came back, validation and cleanup (executor.py,       *)
(* adapters/, path_scope.py, validation_commands.py, preflight.py).        *)
(*                                                                         *)
(* The provider works on its own: it edits files, and the OpenHands SDK    *)
(* runs it on a thread of the executor's process and reports through       *)
(* callbacks.  Meanwhile others move the caller's repository, and the      *)
(* executor's process may be killed.                                       *)
(***************************************************************************)
EXTENDS Integers, Sequences, FiniteSets

CONSTANTS
    None,
    Files,      \* files a provider may edit
    Folders,    \* directories, written with a trailing slash in a scope
    Below,      \* the directories each file is below
    Escapes,    \* scope entries that are no canonical relative path
    Scopes,     \* allowed paths a task may have
    Adapters,   \* adapters considered
    MaxRuns,    \* bound of the executions
    MaxMoves,   \* bound of what others do to the repository
    MaxStates,  \* bound of the states a provider reports
    MaxAttempts \* answers a local model is asked for

ASSUME ExecutionBounds ==
    /\ {MaxRuns, MaxMoves, MaxStates} \subseteq Nat
    /\ MaxAttempts \in Nat \ {0}
    /\ Below \in [Files -> SUBSET Folders]
    /\ Files \cap (Folders \cup Escapes) = {}
    /\ Scopes \subseteq SUBSET (Files \cup Folders \cup Escapes)
    /\ Adapters \subseteq {"codex", "openhands", "openhands-sdk", "free-first"}

(* None is no set of files and no answer of an adapter.                    *)
ASSUME NoneIsOther ==
    /\ \A files \in SUBSET Files : files # None
    /\ \A process \in [human : BOOLEAN, error : BOOLEAN, timedOut : BOOLEAN, good : BOOLEAN,
                       drained : BOOLEAN] : process # None

VARIABLES
    plan,    \* the plan and its task, the adapter, whether a session is given
    repo,    \* the caller's repository
    started, \* a recorded start without a recorded result
    exec,    \* the execution: its step and what it has learnt
    tree,    \* the edited files of its worktree, or None
    agent,   \* the provider
    result,  \* the report of the last execution, or None
    spent    \* what was used of the bounds, and the invocations so far

vars == <<plan, repo, started, exec, tree, agent, result, spent>>

-----------------------------------------------------------------------------
(* The gates.                                                              *)

(* A file matches exactly, or is below a directory of the scope.           *)
ScopeIsValid(scope) == scope # {} /\ scope \cap Escapes = {}

PathInScope(file, scope) ==
    /\ ScopeIsValid(scope)
    /\ file \in scope \/ Below[file] \cap scope # {}

(* Every command has to be free of shell syntax and its program found in   *)
(* the repository or on the path.                                          *)
CommandsAreSafe(commands) == commands # {} /\ commands \subseteq {"resolved"}

Plans ==
    [status : {"READY", "HUMAN_REQUIRED", "BLOCKED"}, scope : Scopes,
     commands : SUBSET {"resolved", "unresolved"}, approved : BOOLEAN,
     adapter : Adapters, session : BOOLEAN, head : {0}]

(* collect_repository: a named branch, an origin and a clean tree, at the  *)
(* plan's base.                                                            *)
RepositoryGate == repo.clean /\ repo.head = plan.head

(* approved stands for the task found and ready, its criteria, an approved *)
(* architecture, no open human question and completed dependencies.        *)
GateStatus ==
    IF plan.status = "HUMAN_REQUIRED" THEN "HUMAN_REQUIRED"
    ELSE IF /\ plan.status = "READY"
            /\ RepositoryGate
            /\ ScopeIsValid(plan.scope)
            /\ CommandsAreSafe(plan.commands)
            /\ plan.approved
    THEN "PASS"
    ELSE "BLOCKED"

-----------------------------------------------------------------------------
(* The provider.                                                           *)

Provider(phase) ==
    [phase |-> phase, status |-> "idle", states |-> <<>>, flying |-> <<>>, said |-> FALSE,
     raised |-> FALSE, broken |-> FALSE, exit |-> "zero", file |-> "missing", attempts |-> 0]

Absent == Provider("none")

Idle == [pc |-> "idle", status |-> "FAILED", process |-> None, changed |-> {}]

SuccessStates == {"finished"}
FailureStates == {"error"}
InteractionStates == {"paused"}
NonterminalStates == {"running"}
TerminalStates == SuccessStates \cup FailureStates \cup InteractionStates

Speaks == plan.adapter \in {"openhands", "openhands-sdk"}

Emitted == agent.states \o agent.flying

AgentEdits ==
    /\ agent.phase = "running"
    /\ plan.adapter # "free-first"
    /\ tree # None
    /\ \E f \in Files \ tree : tree' = tree \cup {f}
    /\ UNCHANGED <<plan, repo, started, exec, agent, result, spent>>

(* A reported state reaches on_event at once or later.                     *)
AgentReports ==
    /\ Speaks
    /\ agent.phase = "running"
    /\ Len(Emitted) < MaxStates
    /\ \E s \in TerminalStates \cup NonterminalStates :
          agent' = IF plan.adapter = "openhands"
                   THEN [agent EXCEPT !.states = Append(@, s)]
                   ELSE [agent EXCEPT !.flying = Append(@, s), !.status = s]
    /\ UNCHANGED <<plan, repo, started, exec, tree, result, spent>>

(* The callback records its state, or raises.                              *)
CallbackLands ==
    /\ agent.flying # <<>>
    /\ \/ agent' = [agent EXCEPT !.states = Append(@, Head(agent.flying)),
                                 !.flying = Tail(@)]
       \/ agent' = [agent EXCEPT !.broken = TRUE, !.flying = Tail(@)]
    /\ UNCHANGED <<plan, repo, started, exec, tree, result, spent>>

AgentSays ==
    /\ Speaks
    /\ agent.phase = "running"
    /\ ~agent.said
    /\ agent' = [agent EXCEPT !.said = TRUE]
    /\ UNCHANGED <<plan, repo, started, exec, tree, result, spent>>

(* What Codex leaves where it was told to put its final message: a file    *)
(* newer than the invocation, an older one, none, or one that is empty,    *)
(* too long or no text.                                                    *)
FileStates == {"fresh", "stale", "missing", "unusable"}

(* The process or the conversation ends: with an exit code and a final     *)
(* message file, or by an exception.                                       *)
AgentEnds ==
    /\ agent.phase = "running"
    /\ plan.adapter # "free-first"
    /\ \E raised \in IF plan.adapter = "openhands-sdk" THEN BOOLEAN ELSE {FALSE},
          exit \in IF plan.adapter = "openhands-sdk" THEN {"zero"} ELSE {"zero", "other"},
          file \in IF plan.adapter = "codex" THEN FileStates ELSE {"missing"} :
          agent' = [agent EXCEPT !.phase = "done", !.raised = raised, !.exit = exit,
                                 !.file = file]
    /\ UNCHANGED <<plan, repo, started, exec, tree, result, spent>>

(* The free-first adapter asks a local model, a bounded number of times,   *)
(* for edits of one to four files named one by one in the scope.  An       *)
(* answer that names another file, or whose anchor is not unique, is asked *)
(* again, and only the last one's rejection is an exit 1.  The files of an *)
(* accepted answer are written one by one, which may fail on the way.      *)
ModelAnswers ==
    /\ agent.phase = "running"
    /\ plan.adapter = "free-first"
    /\ plan.scope \subseteq Files /\ Cardinality(plan.scope) \in 1..4
    /\ \/ /\ \E edits \in SUBSET plan.scope \ {{}} : tree' = tree \cup edits
          /\ \E exit \in {"zero", "other"} :
                agent' = [agent EXCEPT !.phase = "done", !.exit = exit]
       \/ /\ agent.attempts + 1 < MaxAttempts
          /\ agent' = [agent EXCEPT !.attempts = @ + 1]
          /\ UNCHANGED tree
       \/ /\ agent.attempts + 1 = MaxAttempts
          /\ agent' = [agent EXCEPT !.attempts = @ + 1, !.phase = "done", !.exit = "other"]
          /\ UNCHANGED tree
    /\ UNCHANGED <<plan, repo, started, exec, result, spent>>

(* The gateway fails, or the scope is not one of files: exit 1.            *)
ModelFails ==
    /\ agent.phase = "running"
    /\ plan.adapter = "free-first"
    /\ agent' = [agent EXCEPT !.phase = "done", !.exit = "other"]
    /\ UNCHANGED <<plan, repo, started, exec, tree, result, spent>>

-----------------------------------------------------------------------------
(* What an adapter makes of it: whether a human is required, a transport   *)
(* error, a timeout, a good exit, and for the SDK whether every callback   *)
(* had landed.                                                             *)

Process(human, error, timedOut, good, drained) ==
    [human |-> human, error |-> error, timedOut |-> timedOut, good |-> good,
     drained |-> drained]

NotStarted == Process(TRUE, TRUE, FALSE, FALSE, TRUE)

FinalMessageVerified == agent.file = "fresh"

(* Codex: a failing exit, or a final message that cannot be verified.      *)
CodexResult ==
    Process(agent.exit = "zero" /\ ~FinalMessageVerified,
            agent.exit # "zero" \/ ~FinalMessageVerified,
            FALSE, agent.exit = "zero", TRUE)

(* The category of a reported state: every state that is neither a success *)
(* nor a failure counts as an interaction.                                 *)
Category(s) ==
    IF s \in SuccessStates THEN "success"
    ELSE IF s \in FailureStates THEN "failure" ELSE "interaction"

LastOf(states) == states[Len(states)]
Among(states, set) == \E n \in 1..Len(states) : states[n] \in set
CategoriesOf(states) == {Category(states[n]) : n \in 1..Len(states)}
TerminalKinds(states) ==
    {Category(states[n]) : n \in {m \in 1..Len(states) : states[m] \in TerminalStates}}

(* What standard output or standard error holds: JSON values with or       *)
(* without events of OpenHands in them, or something cut off or broken.    *)
StreamKinds == {"no events", "events", "broken"}

(* One of the two streams has to hold the events, both only if they agree. *)
StreamChosen(out, err, agree) ==
    /\ "broken" \notin {out, err}
    /\ "events" \in {out, err}
    /\ out = err => agree

(* A contradictory stream, or none that can be chosen, needs a human.      *)
StreamResult(chosen) ==
    LET states == agent.states
        human == \/ ~chosen
                 \/ \E a, b \in CategoriesOf(states) : a # b
                 \/ TerminalKinds(states) = {}
                 \/ LastOf(states) \in InteractionStates
    IN  Process(human, human \/ LastOf(states) \in FailureStates,
                FALSE, agent.exit = "zero", TRUE)

(* The SDK adapter's verdict on the states its callbacks have recorded by  *)
(* now, and on the conversation's own state where they are silent.  States *)
(* that contradict one another or that one are a human's matter.           *)
SdkVerdict ==
    LET heard == TerminalKinds(agent.states)
        told == IF heard = {} THEN {Category(agent.status)} ELSE heard
    IN  IF told = {"success"} THEN "ok"
        ELSE IF told = {"failure"} /\ agent.status # "finished" THEN "failed"
        ELSE "human"

(* The verdict stands only with a message and no callback that raised; an  *)
(* AgentErrorEvent seen on the way makes a failure a human's matter.       *)
SdkStatus(erred) ==
    IF \/ agent.broken
       \/ SdkVerdict = "ok" /\ ~agent.said
       \/ erred /\ (agent.status \in FailureStates \/ Among(agent.states, FailureStates))
    THEN "human"
    ELSE SdkVerdict

(* MUTANT: an exception that ended the conversation is only reported.      *)
SdkIgnoresError(erred) ==
    Process(SdkStatus(erred) = "human", SdkStatus(erred) # "ok", FALSE, TRUE,
            agent.flying = <<>>)

(* An exception of the conversation needs a human in any case.             *)
SdkResult(erred) ==
    Process(SdkStatus(erred) = "human" \/ agent.raised, SdkStatus(erred) # "ok" \/ agent.raised,
            FALSE, TRUE, agent.flying = <<>>)

FreeFirstResult ==
    Process(FALSE, agent.exit # "zero", FALSE, agent.exit = "zero", TRUE)

(* A timeout needs a human for the SDK, and is a failure for the others.   *)
TimedOutResult ==
    Process(plan.adapter = "openhands-sdk", plan.adapter # "openhands", TRUE, FALSE,
            agent.flying = <<>>)

-----------------------------------------------------------------------------
(* The execution.                                                          *)

Report(status) ==
    [status |-> status, changed |-> exec.changed, drained |-> TRUE]

BeginExecution ==
    /\ exec.pc = "idle"
    /\ spent.runs < MaxRuns
    /\ spent' = [spent EXCEPT !.runs = @ + 1]
    /\ \/ /\ GateStatus # "PASS"
          /\ result' = Report(GateStatus)
          /\ UNCHANGED exec
       \/ /\ GateStatus = "PASS"
          /\ result' = Report("DRY_RUN")
          /\ UNCHANGED exec
       \/ /\ GateStatus = "PASS"
          /\ result' = None
          /\ exec' = [Idle EXCEPT !.pc = "record"]
    /\ agent' = Absent
    /\ UNCHANGED <<plan, repo, started, tree>>

Continue(pc) == exec' = [exec EXCEPT !.pc = pc]
CleanupWith(status) == exec' = [exec EXCEPT !.pc = "cleanup", !.status = status]

(* MUTANT: a start is recorded whatever became of the one before.          *)
AnyStart == TRUE

(* An invocation whose outcome nobody recorded has to be reconciled first. *)
StartAllowed == ~started

(* What is not reconciled, and a budget that is used up, needs a human; a  *)
(* held lock or an unreadable session fails the execution.                 *)
RecordStart ==
    /\ exec.pc = "record"
    /\ \/ /\ plan.session => StartAllowed
          /\ started' = (started \/ plan.session)
          /\ Continue("create")
       \/ /\ plan.session
          /\ \E status \in {"HUMAN_REQUIRED", "FAILED"} : CleanupWith(status)
          /\ UNCHANGED started
    /\ UNCHANGED <<plan, repo, tree, agent, result, spent>>

(* The head is looked at before the worktree is added, after it, and once  *)
(* more before the provider is invoked.                                    *)
CheckHead ==
    /\ exec.pc = "create"
    /\ IF repo.head = plan.head THEN Continue("add") ELSE CleanupWith("FAILED")
    /\ UNCHANGED <<plan, repo, started, tree, agent, result, spent>>

AddWorktree ==
    /\ exec.pc = "add"
    /\ tree' = {}
    /\ Continue("added")
    /\ UNCHANGED <<plan, repo, started, agent, result, spent>>

CheckAdded ==
    /\ exec.pc = "added"
    /\ IF repo.head = plan.head
       THEN Continue("invoke") /\ UNCHANGED tree
       ELSE CleanupWith("FAILED") /\ tree' = None
    /\ UNCHANGED <<plan, repo, started, agent, result, spent>>

(* Codex starts from the configured program, or else from the first usable *)
(* one of those on the path and of the application: a candidate is usable  *)
(* when it is a regular executable inside its own directory that answers   *)
(* --version.                                                              *)
CodexFound(configured, usable) ==
    IF configured THEN "configured" \in usable ELSE usable \cap {"path", "application"} # {}

(* The help of the program has to show the options the adapter gives it.   *)
CodexStarts(configured, usable, help) ==
    CodexFound(configured, usable) /\ {"root options", "exec options"} \subseteq help

(* OpenHands starts with the model settings of the environment, when the   *)
(* caller has authorized their use; the base address may be absent.        *)
LlmEnvironmentValid(settings) ==
    {"authorized", "api key", "model"} \subseteq settings /\ "bad address" \notin settings

ProviderStarts ==
    CASE plan.adapter = "codex" ->
           {CodexStarts(configured, usable, help) :
              configured \in BOOLEAN,
              usable \in SUBSET {"configured", "path", "application"},
              help \in SUBSET {"root options", "exec options"}}
      [] Speaks -> {LlmEnvironmentValid(settings) :
                      settings \in SUBSET {"authorized", "api key", "model", "bad address"}}
      [] OTHER -> {TRUE}

(* An adapter whose program, options or settings cannot be verified does   *)
(* not start.                                                              *)
InvokeProvider ==
    /\ exec.pc = "invoke"
    /\ IF repo.head # plan.head
       THEN CleanupWith("FAILED") /\ UNCHANGED <<agent, spent>>
       ELSE \/ /\ FALSE \in ProviderStarts
               /\ exec' = [exec EXCEPT !.pc = "judge", !.process = NotStarted]
               /\ UNCHANGED <<agent, spent>>
            \/ /\ TRUE \in ProviderStarts
               /\ Continue("wait")
               /\ agent' = Provider("running")
               /\ spent' = [spent EXCEPT !.invocations = @ + 1]
    /\ UNCHANGED <<plan, repo, started, tree, result>>

Returned(process) == exec' = [exec EXCEPT !.pc = "judge", !.process = process]

ProviderEnded ==
    /\ exec.pc = "wait"
    /\ agent.phase = "done"
    /\ \/ plan.adapter = "codex" /\ Returned(CodexResult)
       \/ plan.adapter = "openhands"
          /\ \E out, err \in StreamKinds, agree \in BOOLEAN :
                Returned(StreamResult(StreamChosen(out, err, agree)))
       \/ plan.adapter = "free-first" /\ Returned(FreeFirstResult)
       \/ plan.adapter = "openhands-sdk" /\ Continue("drain")
    /\ UNCHANGED <<plan, repo, started, tree, agent, result, spent>>

(* MUTANT: the provider is waited for as long as it takes.                 *)
Patient == FALSE

Impatient == agent.phase = "running"

(* MUTANT: the process that ran over its time is not killed.               *)
LeftRunning == agent

(* A process that runs over its time is killed; the SDK's conversation is  *)
(* asked to pause and stays on its thread.                                 *)
Stopped ==
    IF plan.adapter = "openhands-sdk" THEN agent ELSE [agent EXCEPT !.phase = "done"]

ProviderTimesOut ==
    /\ exec.pc = "wait"
    /\ Impatient
    /\ Returned(TimedOutResult)
    /\ agent' = Stopped
    /\ UNCHANGED <<plan, repo, started, tree, result, spent>>

(* The callbacks are waited for a second; then what they recorded counts.  *)
Drain ==
    /\ exec.pc = "drain"
    /\ \E erred \in BOOLEAN : Returned(SdkResult(erred))
    /\ UNCHANGED <<plan, repo, started, tree, agent, result, spent>>

(* The changed files are read, and only a good process with changes inside *)
(* the scope goes on to validation.                                        *)
Verdict(process, changed) ==
    IF process.human THEN "HUMAN_REQUIRED"
    ELSE IF /\ ~(process.error /\ Speaks)
            /\ ~process.timedOut /\ process.good
            /\ changed # {}
            /\ \A f \in changed : PathInScope(f, plan.scope)
    THEN "VALIDATE"
    ELSE "FAILED"

Judge ==
    /\ exec.pc = "judge"
    /\ LET verdict == Verdict(exec.process, tree)
       IN  exec' = [exec EXCEPT !.changed = tree,
                                !.pc = IF verdict = "VALIDATE" THEN "validate" ELSE "cleanup",
                                !.status = IF verdict = "VALIDATE" THEN @ ELSE verdict]
    /\ UNCHANGED <<plan, repo, started, tree, agent, result, spent>>

(* A validation fails, times out or passes.                                *)
RunValidations ==
    /\ exec.pc = "validate"
    /\ \E passed \in BOOLEAN : CleanupWith(IF passed THEN "COMPLETED" ELSE "FAILED")
    /\ UNCHANGED <<plan, repo, started, tree, agent, result, spent>>

(* The worktree is removed, or that fails; a completed execution needs the *)
(* worktree gone and the caller's repository clean.                        *)
Cleanup ==
    /\ exec.pc = "cleanup"
    /\ \E removed \in IF tree = None THEN {TRUE} ELSE BOOLEAN :
          result' = [status |-> IF exec.status = "COMPLETED" /\ ~(removed /\ repo.clean)
                                THEN "FAILED" ELSE exec.status,
                     changed |-> exec.changed,
                     drained |-> exec.process = None \/ exec.process.drained]
    /\ tree' = None
    /\ exec' = Idle
    /\ UNCHANGED <<plan, repo, started, agent, spent>>

(* The executor's process is killed, and the SDK's thread with it.  The    *)
(* worktree it leaves behind is under a temporary name nobody uses again;  *)
(* what a child process that outlives it still does there is left out.     *)
Crash ==
    /\ exec.pc # "idle"
    /\ exec' = Idle
    /\ tree' = None
    /\ agent' = Absent
    /\ UNCHANGED <<plan, repo, started, result, spent>>

(* Others commit to the caller's repository, or edit it.                   *)
RepositoryMoves ==
    /\ spent.moves < MaxMoves
    /\ spent' = [spent EXCEPT !.moves = @ + 1]
    /\ \/ repo' = [repo EXCEPT !.head = 1 - @]
       \/ repo' = [repo EXCEPT !.clean = ~@]
    /\ UNCHANGED <<plan, started, exec, tree, agent, result>>

-----------------------------------------------------------------------------
Init ==
    /\ plan \in Plans
    /\ repo = [head |-> 0, clean |-> TRUE]
    /\ started = FALSE
    /\ exec = Idle
    /\ tree = None
    /\ agent = Absent
    /\ result = None
    /\ spent = [runs |-> 0, moves |-> 0, invocations |-> 0]

ExecutorStep ==
    \/ RecordStart \/ CheckHead \/ AddWorktree \/ CheckAdded \/ InvokeProvider
    \/ ProviderEnded \/ ProviderTimesOut \/ Drain \/ Judge \/ RunValidations \/ Cleanup

AgentStep ==
    \/ AgentEdits \/ AgentReports \/ CallbackLands \/ AgentSays \/ AgentEnds
    \/ ModelAnswers \/ ModelFails

Next == BeginExecution \/ ExecutorStep \/ AgentStep \/ Crash \/ RepositoryMoves

(* Every wait for a provider or a validation has a timeout, and git and    *)
(* the SDK's pause and close are taken to return; nothing is asked of the  *)
(* provider.                                                               *)
Spec == Init /\ [][Next]_vars /\ WF_vars(ExecutorStep)

-----------------------------------------------------------------------------
(* Properties.                                                             *)

Statuses == {"COMPLETED", "FAILED", "BLOCKED", "HUMAN_REQUIRED", "DRY_RUN"}

(* A worktree exists only in the steps between its adding and its removal, *)
(* and no provider is left running by an executor that is not SDK-based.   *)
TypeOK ==
    /\ plan \in Plans
    /\ exec.pc \in {"idle", "record", "create", "add", "added", "invoke", "wait", "drain",
                    "judge", "validate", "cleanup"}
    /\ exec.pc \in {"added", "invoke", "wait", "drain", "judge", "validate"} => tree # None
    /\ exec.pc \in {"idle", "record", "create", "add"} => tree = None
    /\ tree = None \/ tree \subseteq Files
    /\ result = None \/ result.status \in Statuses
    /\ agent.phase = "running" => exec.pc = "wait" \/ plan.adapter = "openhands-sdk"

(* A report says COMPLETED only for a provider that came to its end: it    *)
(* was not stopped by the clock, its conversation did not raise, it left a *)
(* message, and when every callback had landed none of the states it       *)
(* reported was a failure, or for the SDK a question to a human; what it   *)
(* changed is something, and inside the task's scope.  (The CLI's stream   *)
(* may hold a question: parse_openhands_output puts every other state into *)
(* the category of interactions, and <<"paused", "running">>, whose last   *)
(* state is none of the terminal ones, falls through to its success.)      *)
CompletedIsEarned ==
    result # None /\ result.status = "COMPLETED" =>
        /\ agent.phase = "done"
        /\ agent.exit = "zero" /\ ~agent.raised
        /\ plan.adapter = "openhands-sdk" => agent.said
        /\ Speaks /\ result.drained =>
              /\ ~agent.broken
              /\ ~Among(Emitted, FailureStates)
              /\ plan.adapter = "openhands-sdk" => ~Among(Emitted, InteractionStates)
        /\ result.changed # {}
        /\ \A f \in result.changed : PathInScope(f, plan.scope)

(* Under a session one recorded start stands for at most one invocation of *)
(* a provider, however often the executor is killed and run again: the     *)
(* record comes before the worktree and the provider, and the next         *)
(* execution stops at it with HUMAN_REQUIRED.                              *)
OneInvocation == plan.session => spent.invocations <= 1

(* An execution that has begun comes to its end whatever the provider      *)
(* does: its process or conversation, its callbacks and the validations    *)
(* are given up on after a timeout.  (Git, and the SDK's pause and close,  *)
(* are called without one; Spec takes them to return.)                     *)
ExecutionEnds == exec.pc # "idle" ~> exec.pc = "idle"
=============================================================================

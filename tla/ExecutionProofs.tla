--------------------------- MODULE ExecutionProofs ---------------------------
(***************************************************************************)
(* Proofs about Execution, for any files, scopes, bounds and adapters: its *)
(* types, that one recorded start stands for at most one invocation of a   *)
(* provider, and that COMPLETED is earned.                                 *)
(***************************************************************************)
EXTENDS Execution, SequenceTheorems, FiniteSetTheorems, TLAPS

Pcs == {"idle", "record", "create", "add", "added", "invoke", "wait", "drain",
        "judge", "validate", "cleanup"}

States == {"finished", "error", "paused", "running"}

Processes ==
    [human : BOOLEAN, error : BOOLEAN, timedOut : BOOLEAN, good : BOOLEAN, drained : BOOLEAN]

Agents ==
    [phase : {"none", "running", "done"}, status : States \cup {"idle"},
     states : Seq(States), flying : Seq(States), said : BOOLEAN, raised : BOOLEAN,
     broken : BOOLEAN, exit : {"zero", "other"}, file : FileStates, attempts : Nat]

Execs == [pc : Pcs, status : Statuses, process : Processes \cup {None}, changed : SUBSET Files]

(* The types of all variables.                                             *)
Types ==
    /\ plan \in Plans
    /\ repo \in [head : {0, 1}, clean : BOOLEAN]
    /\ started \in BOOLEAN
    /\ exec \in Execs
    /\ tree \in (SUBSET Files) \cup {None}
    /\ agent \in Agents
    /\ \/ result = None
       \/ result \in [status : Statuses, changed : SUBSET Files, drained : BOOLEAN]
    /\ spent \in [runs : Nat, moves : Nat, invocations : Nat]

Sdk == plan.adapter = "openhands-sdk"

(* The places of the executor, the worktree and the provider.  Only the    *)
(* SDK runs on when the executor has stopped waiting, has callbacks, and   *)
(* raises.                                                                 *)
Places ==
    /\ exec.pc \in {"added", "invoke", "wait", "drain", "judge", "validate"} => tree # None
    /\ exec.pc \in {"idle", "record", "create", "add"} => tree = None
    /\ agent.phase = "running" => exec.pc = "wait" \/ Sdk
    /\ exec.pc = "drain" => Sdk /\ agent.phase = "done"
    /\ exec.pc # "idle" => result = None
    /\ IF Sdk THEN agent.exit = "zero"
       ELSE agent.flying = <<>> /\ ~agent.raised /\ ~agent.broken

(* Before the invocation there was none; once there was one, its start is  *)
(* on record.                                                              *)
Starts ==
    plan.session =>
        /\ spent.invocations <= 1
        /\ ~started => spent.invocations = 0
        /\ exec.pc \in {"create", "add", "added", "invoke"} => started /\ spent.invocations = 0

(* What a completed provider has done, and, if all its callbacks landed,   *)
(* has not done.                                                           *)
Ended(drained) ==
    /\ agent.phase = "done" /\ agent.exit = "zero" /\ ~agent.raised
    /\ Sdk => agent.said
    /\ Speaks /\ drained =>
          /\ ~agent.broken
          /\ agent.flying = <<>>
          /\ ~Among(agent.states, FailureStates)
          /\ Sdk => ~Among(agent.states, InteractionStates)

InScope(changed) == changed # {} /\ \A f \in changed : PathInScope(f, plan.scope)

(* A process that Verdict lets through to the validations.                 *)
Good(process) == ~process.human /\ ~(process.error /\ Speaks) /\ ~process.timedOut /\ process.good

Earned ==
    /\ exec.pc = "judge" => exec.process \in Processes
    /\ exec.pc = "judge" /\ Good(exec.process) => Ended(exec.process.drained)
    /\ exec.pc = "validate" \/ (exec.pc = "cleanup" /\ exec.status = "COMPLETED") =>
          /\ exec.process \in Processes
          /\ Ended(exec.process.drained)
          /\ InScope(exec.changed)
    /\ result # None /\ result.status = "COMPLETED" =>
          Ended(result.drained) /\ InScope(result.changed)

(* The inductive invariant.                                                *)
IInv == Types /\ Places /\ Starts /\ Earned

-----------------------------------------------------------------------------
(* What the adapters' verdicts say of the states.                          *)

(* A success of the SDK heard of no failure and of no question.            *)
LEMMA SdkSucceeds ==
    ASSUME Types, SdkVerdict = "ok"
    PROVE  ~Among(agent.states, FailureStates) /\ ~Among(agent.states, InteractionStates)
<1> SUFFICES ASSUME NEW n \in 1..Len(agent.states),
                    agent.states[n] \in FailureStates \cup InteractionStates
             PROVE  FALSE
  BY DEF Among
<1>1. agent.states[n] \in TerminalStates
  BY DEF TerminalStates
<1>2. Category(agent.states[n]) \in TerminalKinds(agent.states)
  BY <1>1 DEF TerminalKinds
<1>3. TerminalKinds(agent.states) = {"success"}
  BY <1>2 DEF SdkVerdict
<1>4. Category(agent.states[n]) # "success"
  BY DEF Category, SuccessStates, FailureStates, InteractionStates
<1> QED BY <1>2, <1>3, <1>4

(* A stream that needs no human and does not end in a failure has none.    *)
LEMMA StreamSucceeds ==
    ASSUME Types, NEW chosen \in BOOLEAN,
           ~StreamResult(chosen).human, ~StreamResult(chosen).error
    PROVE  ~Among(agent.states, FailureStates)
<1> SUFFICES ASSUME NEW n \in 1..Len(agent.states), agent.states[n] \in FailureStates
             PROVE  FALSE
  BY DEF Among
<1>1. agent.states \in Seq(States)
  BY DEF Types, Agents
<1>2. Len(agent.states) \in 1..Len(agent.states)
  BY <1>1
<1>3. {Category(agent.states[n]), Category(LastOf(agent.states))} \subseteq CategoriesOf(agent.states)
  BY <1>2 DEF CategoriesOf, LastOf
<1>4. /\ \A a, b \in CategoriesOf(agent.states) : a = b
      /\ LastOf(agent.states) \notin FailureStates
  BY DEF StreamResult, Process
<1>5. Category(agent.states[n]) = Category(LastOf(agent.states))
  BY <1>3, <1>4
<1> QED BY <1>4, <1>5 DEF Category, SuccessStates, FailureStates

(* What every adapter returns is a process.                                *)
LEMMA ResultTypes ==
    ASSUME Types
    PROVE  /\ NotStarted \in Processes /\ CodexResult \in Processes
           /\ FreeFirstResult \in Processes /\ TimedOutResult \in Processes
           /\ \A c \in BOOLEAN : StreamResult(c) \in Processes
           /\ \A e \in BOOLEAN : SdkResult(e) \in Processes
BY DEF NotStarted, CodexResult, FreeFirstResult, TimedOutResult, StreamResult, SdkResult,
       Process, Processes

-----------------------------------------------------------------------------
(* No provider yet, and one just begun.                                    *)
Fresh(a) ==
    /\ a.exit = "zero" /\ a.flying = <<>> /\ a.states = <<>>
    /\ ~a.said /\ ~a.raised /\ ~a.broken

LEMMA ProviderIsAgent ==
    ASSUME NEW phase \in {"none", "running"}
    PROVE  Provider(phase) \in Agents /\ Provider(phase).phase = phase /\ Fresh(Provider(phase))
<1>1. <<>> \in Seq(States)
  OBVIOUS
<1> QED BY <1>1 DEF Provider, Agents, States, FileStates, Fresh

LEMMA IdleIsExec ==
    /\ Idle \in Execs
    /\ Idle.pc = "idle" /\ Idle.status = "FAILED" /\ Idle.process = None /\ Idle.changed = {}
BY DEF Idle, Execs, Pcs, Statuses

LEMMA AbsentIsAgent == Absent \in Agents /\ Absent.phase = "none" /\ Fresh(Absent)
BY ProviderIsAgent DEF Absent

LEMMA InitInv == Init => IInv
<1> SUFFICES ASSUME Init PROVE IInv
  OBVIOUS
<1>1. Types
  <2>1. exec \in Execs
    BY IdleIsExec DEF Init
  <2>2. agent \in Agents
    BY AbsentIsAgent DEF Init
  <2>3. /\ repo \in [head : {0, 1}, clean : BOOLEAN]
        /\ spent \in [runs : Nat, moves : Nat, invocations : Nat]
    BY DEF Init
  <2>4. /\ plan \in Plans /\ started \in BOOLEAN /\ result = None
        /\ tree \in (SUBSET Files) \cup {None}
    BY DEF Init
  <2> QED BY <2>1, <2>2, <2>3, <2>4 DEF Types
<1>2. Places
  BY IdleIsExec, AbsentIsAgent DEF Init, Places, Fresh
<1>3. Starts
  BY IdleIsExec DEF Init, Starts
<1>4. Earned
  BY IdleIsExec DEF Init, Earned
<1> QED BY <1>1, <1>2, <1>3, <1>4 DEF IInv

-----------------------------------------------------------------------------
(* What an assignment to the execution leaves of it.                       *)
LEMMA ExecFields ==
    ASSUME exec \in Execs
    PROVE  /\ \A pc \in Pcs : Continue(pc) =>
                 /\ exec' \in Execs /\ exec'.pc = pc
                 /\ exec'.status = exec.status /\ exec'.process = exec.process
                 /\ exec'.changed = exec.changed
           /\ \A status \in Statuses : CleanupWith(status) =>
                 /\ exec' \in Execs /\ exec'.pc = "cleanup" /\ exec'.status = status
                 /\ exec'.process = exec.process /\ exec'.changed = exec.changed
           /\ \A process \in Processes : Returned(process) =>
                 /\ exec' \in Execs /\ exec'.pc = "judge" /\ exec'.process = process
                 /\ exec'.status = exec.status /\ exec'.changed = exec.changed
<1>1. ASSUME NEW pc \in Pcs, Continue(pc)
      PROVE  /\ exec' \in Execs /\ exec'.pc = pc
             /\ exec'.status = exec.status /\ exec'.process = exec.process
             /\ exec'.changed = exec.changed
  BY <1>1 DEF Execs, Continue
<1>2. ASSUME NEW status \in Statuses, CleanupWith(status)
      PROVE  /\ exec' \in Execs /\ exec'.pc = "cleanup" /\ exec'.status = status
             /\ exec'.process = exec.process /\ exec'.changed = exec.changed
  <2>1. "cleanup" \in Pcs
    BY DEF Pcs
  <2> QED BY <1>2, <2>1 DEF Execs, CleanupWith
<1>3. ASSUME NEW process \in Processes, Returned(process)
      PROVE  /\ exec' \in Execs /\ exec'.pc = "judge" /\ exec'.process = process
             /\ exec'.status = exec.status /\ exec'.changed = exec.changed
  <2>1. "judge" \in Pcs
    BY DEF Pcs
  <2> QED BY <1>3, <2>1 DEF Execs, Returned
<1> QED BY <1>1, <1>2, <1>3

(* A step of the executor that touches neither the provider nor the plan   *)
(* keeps what was earned.                                                  *)
LEMMA EarnedKept ==
    ASSUME plan' = plan, agent' = agent
    PROVE  /\ \A drained : Ended(drained)' <=> Ended(drained)
           /\ \A changed : InScope(changed)' <=> InScope(changed)
           /\ \A process : Good(process)' <=> Good(process)
           /\ Sdk' <=> Sdk
BY DEF Ended, InScope, Good, Speaks, Sdk

-----------------------------------------------------------------------------
(* The steps of the executor before the provider, and after it, that       *)
(* change nothing of the provider.                                         *)
Unmoved == UNCHANGED <<plan, repo, agent, result, spent>>

(* What may go on: the worktree of a later place, a start on record where  *)
(* no invocation was made yet.                                             *)
LEMMA ContinueInv ==
    ASSUME IInv, Unmoved, started' \in BOOLEAN, tree' \in (SUBSET Files) \cup {None},
           exec.pc \notin {"idle", "wait", "judge", "validate"},
           NEW pc \in Pcs, Continue(pc),
           pc \notin {"idle", "wait", "drain", "judge", "validate", "cleanup"},
           agent.phase = "running" => Sdk,
           pc \in {"added", "invoke"} => tree' # None,
           pc \in {"record", "create", "add"} => tree' = None,
           plan.session /\ ~started' => spent.invocations = 0,
           plan.session /\ pc \in {"create", "add", "added", "invoke"} =>
               started' /\ spent.invocations = 0
    PROVE  IInv'
<1>1. Types /\ Places /\ Starts /\ Earned
  BY DEF IInv
<1>2. /\ exec' \in Execs /\ exec'.pc = pc
      /\ exec'.status = exec.status /\ exec'.process = exec.process
  BY <1>1, ExecFields DEF Types
<1>3. Types'
  BY <1>1, <1>2 DEF Types, Unmoved
<1>4. result = None
  BY <1>1 DEF Places
<1>5. Places'
  BY <1>1, <1>2, <1>4, EarnedKept DEF Places, Unmoved
<1>6. Starts'
  BY <1>1, <1>2 DEF Starts, Unmoved
<1>7. Earned'
  BY <1>2, <1>4 DEF Earned, Unmoved
<1> QED BY <1>3, <1>5, <1>6, <1>7 DEF IInv

(* A failure leads to the cleanup from anywhere.                           *)
LEMMA FailureInv ==
    ASSUME IInv, Unmoved, started' = started, tree' \in (SUBSET Files) \cup {None},
           exec.pc # "idle", agent.phase = "running" => Sdk,
           NEW status \in Statuses \ {"COMPLETED"}, CleanupWith(status)
    PROVE  IInv'
<1>1. Types /\ Places /\ Starts /\ Earned
  BY DEF IInv
<1>2. exec' \in Execs /\ exec'.pc = "cleanup" /\ exec'.status = status
  BY <1>1, ExecFields DEF Types
<1>3. Types'
  BY <1>1, <1>2 DEF Types, Unmoved
<1>4. result = None
  BY <1>1 DEF Places
<1>5. Places'
  BY <1>1, <1>2, <1>4, EarnedKept DEF Places, Unmoved
<1>6. Starts'
  BY <1>1, <1>2 DEF Starts, Unmoved
<1>7. Earned'
  BY <1>2, <1>4 DEF Earned, Unmoved
<1> QED BY <1>3, <1>5, <1>6, <1>7 DEF IInv

(* A recorded start is never taken back; only the record makes one.        *)
LEMMA RecordStartInv == ASSUME IInv, RecordStart PROVE IInv'
<1>1. Types /\ Places /\ Starts /\ exec.pc = "record" /\ tree = None /\ Unmoved /\ tree' = tree
  BY DEF IInv, RecordStart, Places, Unmoved
<1>2. agent.phase = "running" => Sdk
  BY <1>1 DEF Places
<1>3. CASE ~plan.session /\ started' = (started \/ plan.session) /\ Continue("create")
  <2>1. started' = started
    BY <1>1, <1>3 DEF Types
  <2> QED BY <1>1, <1>2, <1>3, <2>1, ContinueInv DEF Types, Pcs
<1>4. CASE /\ plan.session /\ ~started
           /\ started' = (started \/ plan.session) /\ Continue("create")
  <2>1. started' /\ started' \in BOOLEAN
    BY <1>1, <1>4 DEF Types
  <2>2. spent.invocations = 0
    BY <1>1, <1>4 DEF Starts
  <2> QED BY <1>1, <1>2, <1>4, <2>1, <2>2, ContinueInv DEF Types, Pcs
<1>5. ASSUME NEW status \in {"HUMAN_REQUIRED", "FAILED"}, CleanupWith(status), started' = started
      PROVE  IInv'
  BY <1>1, <1>2, <1>5, FailureInv DEF Statuses, Types
<1> QED BY <1>3, <1>4, <1>5 DEF RecordStart, StartAllowed

LEMMA CheckHeadInv == ASSUME IInv, CheckHead PROVE IInv'
<1>1. /\ Types /\ exec.pc = "create" /\ tree = None /\ Unmoved
      /\ tree' = tree /\ started' = started
      /\ agent.phase = "running" => Sdk
  BY DEF IInv, CheckHead, Places, Unmoved
<1>2. CASE Continue("add")
  BY <1>1, <1>2, ContinueInv DEF IInv, Types, Starts, Pcs
<1>3. CASE CleanupWith("FAILED")
  BY <1>1, <1>3, FailureInv DEF Types, Statuses
<1> QED BY <1>2, <1>3 DEF CheckHead

LEMMA AddWorktreeInv == ASSUME IInv, AddWorktree PROVE IInv'
<1>1. /\ Types /\ exec.pc = "add" /\ Unmoved
      /\ tree' = {} /\ started' = started /\ Continue("added")
      /\ agent.phase = "running" => Sdk
  BY DEF IInv, AddWorktree, Places, Unmoved
<1>2. tree' \in (SUBSET Files) \cup {None} /\ tree' # None
  BY <1>1, NoneIsOther
<1> QED BY <1>1, <1>2, ContinueInv DEF IInv, Types, Starts, Pcs

LEMMA CheckAddedInv == ASSUME IInv, CheckAdded PROVE IInv'
<1>1. /\ Types /\ exec.pc = "added" /\ tree # None /\ Unmoved
      /\ started' = started
      /\ agent.phase = "running" => Sdk
  BY DEF IInv, CheckAdded, Places, Unmoved
<1>2. CASE Continue("invoke") /\ tree' = tree
  BY <1>1, <1>2, ContinueInv DEF IInv, Types, Starts, Pcs
<1>3. CASE CleanupWith("FAILED") /\ tree' = None
  BY <1>1, <1>3, FailureInv DEF Statuses
<1> QED BY <1>2, <1>3 DEF CheckAdded

(* What an adapter returned is judged next; a good process has come to its *)
(* end in one of the ways of Ended.                                        *)
LEMMA ReturnedInv ==
    ASSUME IInv, UNCHANGED <<plan, repo, started, tree, agent, result, spent>>,
           exec.pc \in {"invoke", "wait", "drain"}, agent.phase = "running" => Sdk,
           NEW process \in Processes, Returned(process),
           Good(process) => Ended(process.drained)
    PROVE  IInv'
<1>1. Types /\ Places /\ Starts /\ Earned
  BY DEF IInv
<1>2. exec' \in Execs /\ exec'.pc = "judge" /\ exec'.process = process
  BY <1>1, ExecFields DEF Types
<1>3. Types'
  BY <1>1, <1>2 DEF Types
<1>4. result = None
  BY <1>1 DEF Places
<1>5. Places'
  BY <1>1, <1>2, <1>4, EarnedKept DEF Places
<1>6. Starts'
  BY <1>1, <1>2 DEF Starts
<1>7. Earned'
  BY <1>2, <1>4, EarnedKept DEF Earned
<1> QED BY <1>3, <1>5, <1>6, <1>7 DEF IInv

(* An invocation needs a start on record that none was made for.           *)
LEMMA InvokeProviderInv == ASSUME IInv, InvokeProvider PROVE IInv'
<1>1. /\ Types /\ Places /\ Starts /\ Earned
      /\ exec.pc = "invoke" /\ UNCHANGED <<plan, repo, started, tree, result>>
      /\ (agent.phase = "running" => Sdk) /\ result = None /\ tree # None
  BY DEF IInv, InvokeProvider, Places
<1>2. CASE CleanupWith("FAILED") /\ UNCHANGED <<agent, spent>>
  <2>1. Unmoved
    BY <1>1, <1>2 DEF Unmoved
  <2> QED BY <1>1, <1>2, <2>1, FailureInv DEF Types, Statuses
<1>3. CASE /\ exec' = [exec EXCEPT !.pc = "judge", !.process = NotStarted]
           /\ UNCHANGED <<agent, spent>>
  <2>1. Returned(NotStarted) /\ NotStarted \in Processes /\ ~Good(NotStarted)
    BY <1>1, <1>3, ResultTypes DEF Returned, Good, NotStarted, Process
  <2> QED BY <1>1, <1>3, <2>1, ReturnedInv
<1>4. CASE /\ Continue("wait") /\ agent' = Provider("running")
           /\ spent' = [spent EXCEPT !.invocations = @ + 1]
  <2>1. exec' \in Execs /\ exec'.pc = "wait"
    BY <1>1, <1>4, ExecFields DEF Types, Pcs
  <2>2. agent' \in Agents /\ agent'.phase = "running" /\ Fresh(agent')
    BY <1>4, ProviderIsAgent
  <2>3. /\ spent' \in [runs : Nat, moves : Nat, invocations : Nat]
        /\ spent'.invocations = spent.invocations + 1
    <3>1. spent \in [runs : Nat, moves : Nat, invocations : Nat]
      BY <1>1 DEF Types
    <3> QED BY <1>4, <3>1
  <2>4. Types'
    BY <1>1, <2>1, <2>2, <2>3 DEF Types
  <2>5. Places'
    BY <1>1, <2>1, <2>2 DEF Places, Fresh, Sdk
  <2>6. Starts'
    <3>1. plan.session => started /\ spent.invocations = 0
      BY <1>1 DEF Starts
    <3> QED BY <1>1, <2>1, <2>3, <3>1 DEF Starts
  <2>7. Earned'
    BY <1>1, <2>1 DEF Earned
  <2> QED BY <2>4, <2>5, <2>6, <2>7 DEF IInv
<1> QED BY <1>2, <1>3, <1>4 DEF InvokeProvider

(* The ends of a conversation or a process.                                *)
LEMMA ProviderEndedInv == ASSUME IInv, ProviderEnded PROVE IInv'
<1>1. /\ Types /\ Places /\ exec.pc = "wait" /\ agent.phase = "done" /\ tree # None
      /\ UNCHANGED <<plan, repo, started, tree, agent, result, spent>>
  BY DEF IInv, ProviderEnded, Places
<1>2. CASE plan.adapter = "codex" /\ Returned(CodexResult)
  <2>1. Good(CodexResult) => Ended(CodexResult.drained)
    BY <1>1, <1>2 DEF Good, CodexResult, Process, Ended, Places, Sdk, Speaks
  <2> QED BY <1>1, <1>2, <2>1, ResultTypes, ReturnedInv
<1>3. CASE plan.adapter = "openhands" /\ \E chosen \in BOOLEAN : Returned(StreamResult(chosen))
  <2>1. PICK chosen \in BOOLEAN : Returned(StreamResult(chosen))
    BY <1>3
  <2>2. Good(StreamResult(chosen)) =>
            ~StreamResult(chosen).human /\ ~StreamResult(chosen).error /\ agent.exit = "zero"
    BY <1>3 DEF Good, StreamResult, Process, Speaks
  <2>3. Good(StreamResult(chosen)) => ~Among(agent.states, FailureStates)
    BY <1>1, <2>2, StreamSucceeds
  <2>4. Good(StreamResult(chosen)) => Ended(StreamResult(chosen).drained)
    BY <1>1, <1>3, <2>2, <2>3 DEF Ended, Places, Sdk
  <2> QED BY <1>1, <2>1, <2>4, ResultTypes, ReturnedInv
<1>4. CASE plan.adapter = "free-first" /\ Returned(FreeFirstResult)
  <2>1. Good(FreeFirstResult) => Ended(FreeFirstResult.drained)
    BY <1>1, <1>4 DEF Good, FreeFirstResult, Process, Ended, Places, Sdk, Speaks
  <2> QED BY <1>1, <1>4, <2>1, ResultTypes, ReturnedInv
<1>5. CASE plan.adapter = "openhands-sdk" /\ Continue("drain")
  <2>1. exec' \in Execs /\ exec'.pc = "drain"
    BY <1>1, <1>5, ExecFields DEF Types, Pcs
  <2>2. Types'
    BY <1>1, <2>1 DEF Types
  <2>3. Places'
    BY <1>1, <1>5, <2>1 DEF Places, Sdk
  <2>4. Starts'
    BY <1>1, <2>1 DEF IInv, Starts
  <2>5. Earned'
    BY <1>1, <2>1 DEF Places, Earned
  <2> QED BY <2>2, <2>3, <2>4, <2>5 DEF IInv
<1>6. \A out, err \in StreamKinds, agree \in BOOLEAN : StreamChosen(out, err, agree) \in BOOLEAN
  BY DEF StreamChosen, StreamKinds
<1> QED BY <1>2, <1>3, <1>4, <1>5, <1>6 DEF ProviderEnded

(* The clock never makes a good process, whoever runs on.                  *)
LEMMA ProviderTimesOutInv == ASSUME IInv, ProviderTimesOut PROVE IInv'
<1>1. /\ Types /\ Places /\ exec.pc = "wait" /\ tree # None /\ result = None
      /\ Returned(TimedOutResult) /\ agent' = Stopped
      /\ UNCHANGED <<plan, repo, started, tree, result, spent>>
  BY DEF IInv, ProviderTimesOut, Places
<1>2. exec' \in Execs /\ exec'.pc = "judge" /\ exec'.process = TimedOutResult
      /\ TimedOutResult \in Processes
  BY <1>1, ExecFields, ResultTypes DEF Types
<1>3. /\ agent' \in Agents
      /\ agent'.exit = agent.exit /\ agent'.flying = agent.flying
      /\ agent'.raised = agent.raised /\ agent'.broken = agent.broken
      /\ ~Sdk => agent'.phase = "done"
  <2>1. agent \in Agents
    BY <1>1 DEF Types
  <2>2. CASE Sdk
    BY <1>1, <2>1, <2>2 DEF Stopped, Sdk
  <2>3. CASE ~Sdk
    <3>1. agent' = [agent EXCEPT !.phase = "done"]
      BY <1>1, <2>3 DEF Stopped, Sdk
    <3> QED BY <2>1, <2>3, <3>1 DEF Agents
  <2> QED BY <2>2, <2>3
<1>4. Types'
  BY <1>1, <1>2, <1>3 DEF Types
<1>5. Places'
  BY <1>1, <1>2, <1>3 DEF Places, Sdk
<1>6. Starts'
  BY <1>1, <1>2 DEF IInv, Starts
<1>7. Earned'
  <2>1. exec'.process.timedOut
    BY <1>2 DEF TimedOutResult, Process
  <2>2. ~Good(exec.process)'
    BY <2>1 DEF Good
  <2> QED BY <1>1, <1>2, <2>2 DEF Earned
<1> QED BY <1>4, <1>5, <1>6, <1>7 DEF IInv

(* A success of the SDK is one of the message and of the states recorded.  *)
LEMMA DrainInv == ASSUME IInv, Drain PROVE IInv'
<1>1. /\ Types /\ Places /\ exec.pc = "drain" /\ Sdk /\ agent.phase = "done"
      /\ UNCHANGED <<plan, repo, started, tree, agent, result, spent>>
  BY DEF IInv, Drain, Places
<1>2. PICK erred \in BOOLEAN : Returned(SdkResult(erred))
  BY DEF Drain
<1>3. ASSUME Good(SdkResult(erred)) PROVE Ended(SdkResult(erred).drained)
  <2>1. SdkStatus(erred) = "ok" /\ ~agent.raised
    <3>1. ~SdkResult(erred).human /\ ~SdkResult(erred).error
      BY <1>1, <1>3 DEF Good, Speaks, Sdk
    <3> QED BY <3>1 DEF SdkResult, Process
  <2>2. SdkVerdict = "ok" /\ ~agent.broken /\ agent.said
    BY <2>1 DEF SdkStatus
  <2>3. ~Among(agent.states, FailureStates) /\ ~Among(agent.states, InteractionStates)
    BY <1>1, <2>2, SdkSucceeds
  <2>4. SdkResult(erred).drained => agent.flying = <<>>
    BY DEF SdkResult, Process
  <2>5. agent.exit = "zero"
    BY <1>1 DEF Places
  <2> QED BY <1>1, <2>1, <2>2, <2>3, <2>4, <2>5 DEF Ended
<1> QED BY <1>1, <1>2, <1>3, ResultTypes, ReturnedInv

(* Only a good process with changes, all inside the scope, is validated.   *)
LEMMA JudgeInv == ASSUME IInv, Judge PROVE IInv'
<1> DEFINE verdict == Verdict(exec.process, tree)
           goes == verdict = "VALIDATE"
<1>1. /\ Types /\ Places /\ Starts /\ Earned /\ exec.pc = "judge" /\ result = None
      /\ tree # None /\ exec.process \in Processes
      /\ UNCHANGED <<plan, repo, started, tree, agent, result, spent>>
      /\ exec' = [exec EXCEPT !.changed = tree,
                              !.pc = IF goes THEN "validate" ELSE "cleanup",
                              !.status = IF goes THEN @ ELSE verdict]
  BY DEF IInv, Judge, Places, Earned
<1>2. tree \in SUBSET Files /\ exec \in Execs
  BY <1>1 DEF Types
<1>3. verdict \in {"VALIDATE", "FAILED", "HUMAN_REQUIRED"}
  BY DEF Verdict
<1>4. goes => Good(exec.process) /\ InScope(tree)
  BY DEF Verdict, Good, InScope
<1> HIDE DEF verdict
<1>5. CASE goes
  <2>1. exec' \in Execs /\ exec'.pc = "validate" /\ exec'.process = exec.process
        /\ exec'.changed = tree
    <3>1. exec' = [exec EXCEPT !.changed = tree, !.pc = "validate", !.status = exec.status]
      BY <1>1, <1>5
    <3>2. "validate" \in Pcs
      BY DEF Pcs
    <3> QED BY <1>2, <3>1, <3>2 DEF Execs
  <2>2. Types'
    BY <1>1, <2>1 DEF Types
  <2>3. Places'
    BY <1>1, <2>1, EarnedKept DEF Places
  <2>4. Starts'
    BY <1>1, <2>1 DEF Starts
  <2>5. Earned'
    <3>1. Ended(exec.process.drained) /\ InScope(tree)
      BY <1>1, <1>4, <1>5 DEF Earned
    <3> QED BY <1>1, <2>1, <3>1, EarnedKept DEF Earned
  <2> QED BY <2>2, <2>3, <2>4, <2>5 DEF IInv
<1>6. CASE ~goes
  <2>1. exec' \in Execs /\ exec'.pc = "cleanup" /\ exec'.status = verdict
    <3>1. exec' = [exec EXCEPT !.changed = tree, !.pc = "cleanup", !.status = verdict]
      BY <1>1, <1>6
    <3>2. "cleanup" \in Pcs /\ verdict \in Statuses
      BY <1>3, <1>6 DEF Pcs, Statuses
    <3> QED BY <1>2, <3>1, <3>2 DEF Execs
  <2>2. Types'
    BY <1>1, <2>1 DEF Types
  <2>3. Places'
    BY <1>1, <2>1, EarnedKept DEF Places
  <2>4. Starts'
    BY <1>1, <2>1 DEF Starts
  <2>5. Earned'
    BY <1>1, <1>3, <1>6, <2>1 DEF Earned
  <2> QED BY <2>2, <2>3, <2>4, <2>5 DEF IInv
<1> QED BY <1>5, <1>6

(* A validation can only keep a completed execution or end it.             *)
LEMMA RunValidationsInv == ASSUME IInv, RunValidations PROVE IInv'
<1>1. /\ Types /\ Places /\ Starts /\ Earned /\ exec.pc = "validate" /\ result = None
      /\ tree # None /\ agent.phase = "running" => Sdk
      /\ UNCHANGED <<plan, repo, started, tree, agent, result, spent>>
  BY DEF IInv, RunValidations, Places
<1>2. PICK status \in {"COMPLETED", "FAILED"} : CleanupWith(status)
  BY DEF RunValidations
<1>3. /\ exec' \in Execs /\ exec'.pc = "cleanup" /\ exec'.process = exec.process
      /\ exec'.changed = exec.changed
  BY <1>1, <1>2, ExecFields DEF Types, Statuses
<1>4. Types'
  BY <1>1, <1>3 DEF Types
<1>5. Places'
  BY <1>1, <1>3, EarnedKept DEF Places
<1>6. Starts'
  BY <1>1, <1>3 DEF Starts
<1>7. Earned'
  <2>1. exec.process \in Processes /\ Ended(exec.process.drained) /\ InScope(exec.changed)
    BY <1>1 DEF Earned
  <2> QED BY <1>1, <1>3, <2>1, EarnedKept DEF Earned
<1> QED BY <1>4, <1>5, <1>6, <1>7 DEF IInv

(* What the cleanup reports as completed was completed before it.          *)
LEMMA CleanupInv == ASSUME IInv, Cleanup PROVE IInv'
<1>1. /\ Types /\ Places /\ Starts /\ Earned /\ exec.pc = "cleanup"
      /\ exec' = Idle /\ tree' = None
      /\ UNCHANGED <<plan, repo, started, agent, spent>>
  BY DEF IInv, Cleanup
<1>2. /\ exec.status \in Statuses /\ exec.changed \in SUBSET Files
      /\ exec.process \in Processes \cup {None}
  BY <1>1 DEF Types, Execs
<1>3. PICK removed \in BOOLEAN :
          result' = [status |-> IF exec.status = "COMPLETED" /\ ~(removed /\ repo.clean)
                                THEN "FAILED" ELSE exec.status,
                     changed |-> exec.changed,
                     drained |-> exec.process = None \/ exec.process.drained]
  BY DEF Cleanup
<1>4. /\ result'.status \in Statuses /\ result'.changed = exec.changed
      /\ result'.status = "COMPLETED" => exec.status = "COMPLETED"
  BY <1>2, <1>3 DEF Statuses
<1>5. /\ result'.drained \in BOOLEAN
      /\ exec.process \in Processes => result'.drained = exec.process.drained
  <2>1. CASE exec.process = None
    BY <1>3, <2>1, NoneIsOther DEF Processes
  <2>2. CASE exec.process \in Processes
    <3>1. exec.process # None /\ exec.process.drained \in BOOLEAN
      BY <2>2, NoneIsOther DEF Processes
    <3> QED BY <1>3, <3>1
  <2> QED BY <1>2, <2>1, <2>2
<1>6. result' \in [status : Statuses, changed : SUBSET Files, drained : BOOLEAN]
  BY <1>2, <1>3, <1>4, <1>5
<1>7. Types'
  BY <1>1, <1>6, IdleIsExec DEF Types
<1>8. Places'
  BY <1>1, IdleIsExec, EarnedKept DEF Places
<1>9. Starts'
  BY <1>1, IdleIsExec DEF Starts
<1>10. Earned'
  <2>1. result'.status = "COMPLETED" => Ended(result'.drained) /\ InScope(result'.changed)
    BY <1>1, <1>4, <1>5 DEF Earned
  <2> QED BY <1>1, <2>1, IdleIsExec, EarnedKept DEF Earned
<1> QED BY <1>7, <1>8, <1>9, <1>10 DEF IInv

-----------------------------------------------------------------------------
(* The steps of the provider.                                              *)

(* While it runs nothing is earned yet, so whatever it does takes nothing  *)
(* away.                                                                   *)
LEMMA RunningInv ==
    ASSUME IInv, agent.phase = "running",
           UNCHANGED <<plan, repo, started, exec, result, spent>>,
           tree' \in (SUBSET Files) \cup {None}, tree' = None <=> tree = None,
           agent' \in Agents,
           agent'.phase \in {"running", "done"},
           IF Sdk THEN agent'.exit = "zero"
           ELSE agent'.flying = <<>> /\ ~agent'.raised /\ ~agent'.broken
    PROVE  IInv'
<1>1. Types /\ Places /\ Starts /\ Earned
  BY DEF IInv
<1>2. Types'
  BY <1>1 DEF Types
<1>3. Places'
  <2>1. agent'.phase = "running" => exec.pc = "wait" \/ Sdk
    BY <1>1 DEF Places
  <2>2. exec.pc # "drain"
    BY <1>1 DEF Places
  <2> QED BY <1>1, <2>1, <2>2 DEF Places, Sdk
<1>4. Starts'
  BY <1>1 DEF Starts
<1>5. Earned'
  <2>1. \A drained : ~Ended(drained)
    BY DEF Ended
  <2>2. exec.pc = "judge" => ~Good(exec.process)
    BY <1>1, <2>1 DEF Earned
  <2>3. Good(exec.process)' <=> Good(exec.process)
    BY DEF Good, Speaks
  <2> QED BY <1>1, <2>1, <2>2, <2>3 DEF Earned
<1> QED BY <1>2, <1>3, <1>4, <1>5 DEF IInv

LEMMA AgentEditsInv == ASSUME IInv, AgentEdits PROVE IInv'
<1>1. /\ Types /\ Places /\ agent.phase = "running" /\ tree # None
      /\ UNCHANGED <<plan, repo, started, exec, agent, result, spent>>
  BY DEF IInv, AgentEdits
<1>2. PICK f \in Files \ tree : tree' = tree \cup {f}
  BY DEF AgentEdits
<1>3. tree' \in SUBSET Files /\ tree' # None
  <2>1. tree \in SUBSET Files
    BY <1>1 DEF Types
  <2>2. tree' \in SUBSET Files
    BY <1>2, <2>1
  <2> QED BY <2>2, NoneIsOther
<1>4. agent' \in Agents
  BY <1>1 DEF Types
<1>5. IF Sdk THEN agent'.exit = "zero"
      ELSE agent'.flying = <<>> /\ ~agent'.raised /\ ~agent'.broken
  BY <1>1 DEF Places
<1> QED BY <1>1, <1>3, <1>4, <1>5, RunningInv

LEMMA AgentReportsInv == ASSUME IInv, AgentReports PROVE IInv'
<1>1. /\ Types /\ Places /\ agent.phase = "running" /\ Speaks /\ agent \in Agents
      /\ UNCHANGED <<plan, repo, started, exec, tree, result, spent>>
  BY DEF IInv, AgentReports, Types
<1>2. PICK s \in TerminalStates \cup NonterminalStates :
          agent' = IF plan.adapter = "openhands"
                   THEN [agent EXCEPT !.states = Append(@, s)]
                   ELSE [agent EXCEPT !.flying = Append(@, s), !.status = s]
  BY DEF AgentReports
<1>3. s \in States
  BY DEF TerminalStates, SuccessStates, FailureStates, InteractionStates, NonterminalStates, States
<1>4. agent.states \in Seq(States) /\ agent.flying \in Seq(States)
  BY <1>1 DEF Agents
<1>5. Append(agent.states, s) \in Seq(States) /\ Append(agent.flying, s) \in Seq(States)
  BY <1>3, <1>4
<1>6. CASE plan.adapter = "openhands"
  <2>1. agent' = [agent EXCEPT !.states = Append(agent.states, s)]
    BY <1>2, <1>6
  <2>2. /\ agent' \in Agents /\ agent'.phase = "running" /\ agent'.exit = agent.exit
        /\ agent'.flying = agent.flying /\ agent'.raised = agent.raised
        /\ agent'.broken = agent.broken
    BY <1>1, <1>5, <2>1 DEF Agents
  <2> QED BY <1>1, <2>2, RunningInv DEF Places, Types
<1>7. CASE plan.adapter # "openhands"
  <2>1. agent' = [agent EXCEPT !.flying = Append(agent.flying, s), !.status = s]
    BY <1>2, <1>7
  <2>2. agent' \in Agents /\ agent'.phase = "running" /\ agent'.exit = agent.exit
    BY <1>1, <1>3, <1>5, <2>1 DEF Agents
  <2>3. Sdk
    BY <1>1, <1>7 DEF Speaks, Sdk
  <2> QED BY <1>1, <2>2, <2>3, RunningInv DEF Places, Types
<1> QED BY <1>6, <1>7

LEMMA AgentSaysInv == ASSUME IInv, AgentSays PROVE IInv'
<1>1. /\ Types /\ Places /\ agent.phase = "running" /\ agent \in Agents
      /\ agent' = [agent EXCEPT !.said = TRUE]
      /\ UNCHANGED <<plan, repo, started, exec, tree, result, spent>>
  BY DEF IInv, AgentSays, Types
<1>2. /\ agent' \in Agents /\ agent'.phase = "running" /\ agent'.exit = agent.exit
      /\ agent'.flying = agent.flying /\ agent'.raised = agent.raised
      /\ agent'.broken = agent.broken
  BY <1>1 DEF Agents
<1> QED BY <1>1, <1>2, RunningInv DEF Places, Types

LEMMA AgentEndsInv == ASSUME IInv, AgentEnds PROVE IInv'
<1>1. /\ Types /\ Places /\ agent.phase = "running" /\ agent \in Agents
      /\ UNCHANGED <<plan, repo, started, exec, tree, result, spent>>
  BY DEF IInv, AgentEnds, Types
<1>2. PICK raised \in BOOLEAN, exit \in {"zero", "other"}, file \in FileStates :
          /\ agent' = [agent EXCEPT !.phase = "done", !.raised = raised, !.exit = exit,
                                    !.file = file]
          /\ IF Sdk THEN exit = "zero" ELSE raised = FALSE
  BY DEF AgentEnds, Sdk, FileStates
<1>3. /\ agent' \in Agents /\ agent'.phase = "done" /\ agent'.exit = exit
      /\ agent'.flying = agent.flying /\ agent'.raised = raised
      /\ agent'.broken = agent.broken
  BY <1>1, <1>2 DEF Agents
<1> QED BY <1>1, <1>2, <1>3, RunningInv DEF Places, Types

LEMMA ModelAnswersInv == ASSUME IInv, ModelAnswers PROVE IInv'
<1>1. /\ Types /\ Places /\ agent.phase = "running" /\ agent \in Agents
      /\ plan.scope \subseteq Files /\ plan.adapter = "free-first" /\ ~Sdk
      /\ UNCHANGED <<plan, repo, started, exec, result, spent>>
  BY DEF IInv, ModelAnswers, Types, Sdk
<1>2. /\ agent.flying = <<>> /\ ~agent.raised /\ ~agent.broken
      /\ tree \in SUBSET Files /\ tree # None
  <2>1. exec.pc = "wait"
    BY <1>1 DEF Places
  <2> QED BY <1>1, <2>1 DEF Places, Types
<1>3. CASE /\ \E edits \in SUBSET plan.scope \ {{}} : tree' = tree \cup edits
           /\ \E exit \in {"zero", "other"} :
                 agent' = [agent EXCEPT !.phase = "done", !.exit = exit]
  <2>1. /\ agent' \in Agents /\ agent'.phase = "done" /\ agent'.flying = agent.flying
        /\ agent'.raised = agent.raised /\ agent'.broken = agent.broken
    BY <1>1, <1>3 DEF Agents
  <2>2. tree' \in SUBSET Files
    BY <1>1, <1>2, <1>3
  <2>3. tree' # None
    BY <2>2, NoneIsOther
  <2> QED BY <1>1, <1>2, <2>1, <2>2, <2>3, RunningInv
<1>4. CASE /\ \/ agent' = [agent EXCEPT !.attempts = @ + 1]
              \/ agent' = [agent EXCEPT !.attempts = @ + 1, !.phase = "done", !.exit = "other"]
           /\ tree' = tree
  <2>1. /\ agent' \in Agents /\ agent'.phase \in {"running", "done"}
        /\ agent'.flying = agent.flying
        /\ agent'.raised = agent.raised /\ agent'.broken = agent.broken
    <3>1. agent.attempts + 1 \in Nat
      BY <1>1 DEF Agents
    <3>2. CASE agent' = [agent EXCEPT !.attempts = agent.attempts + 1]
      BY <1>1, <3>1, <3>2 DEF Agents
    <3>3. CASE agent' = [agent EXCEPT !.attempts = agent.attempts + 1, !.phase = "done",
                                      !.exit = "other"]
      BY <1>1, <3>1, <3>3 DEF Agents
    <3> QED BY <1>4, <3>2, <3>3
  <2> QED BY <1>1, <1>2, <1>4, <2>1, RunningInv
<1> QED BY <1>3, <1>4 DEF ModelAnswers

LEMMA ModelFailsInv == ASSUME IInv, ModelFails PROVE IInv'
<1>1. /\ Types /\ Places /\ agent.phase = "running" /\ agent \in Agents /\ ~Sdk
      /\ agent' = [agent EXCEPT !.phase = "done", !.exit = "other"]
      /\ UNCHANGED <<plan, repo, started, exec, tree, result, spent>>
  BY DEF IInv, ModelFails, Types, Sdk
<1>2. /\ agent' \in Agents /\ agent'.phase = "done" /\ agent'.flying = agent.flying
      /\ agent'.raised = agent.raised /\ agent'.broken = agent.broken
  BY <1>1 DEF Agents
<1> QED BY <1>1, <1>2, RunningInv DEF Places, Types

(* A callback that lands late finds a report that does not count on it.    *)
LEMMA CallbackLandsInv == ASSUME IInv, CallbackLands PROVE IInv'
<1>1. /\ Types /\ Places /\ Starts /\ Earned /\ agent.flying # <<>> /\ agent \in Agents
      /\ UNCHANGED <<plan, repo, started, exec, tree, result, spent>>
  BY DEF IInv, CallbackLands, Types
<1>2. Sdk
  BY <1>1 DEF Places
<1>3. /\ agent.states \in Seq(States) /\ agent.flying \in Seq(States)
      /\ Append(agent.states, Head(agent.flying)) \in Seq(States)
      /\ Tail(agent.flying) \in Seq(States)
  <2>1. agent.states \in Seq(States) /\ agent.flying \in Seq(States)
    BY <1>1 DEF Agents
  <2>2. Head(agent.flying) \in States /\ Tail(agent.flying) \in Seq(States)
    BY <1>1, <2>1
  <2> QED BY <2>1, <2>2
<1>4. /\ agent' \in Agents /\ agent'.phase = agent.phase /\ agent'.exit = agent.exit
      /\ agent'.said = agent.said /\ agent'.raised = agent.raised
  <2>1. CASE agent' = [agent EXCEPT !.states = Append(agent.states, Head(agent.flying)),
                                    !.flying = Tail(agent.flying)]
    BY <1>1, <1>3, <2>1 DEF Agents
  <2>2. CASE agent' = [agent EXCEPT !.broken = TRUE, !.flying = Tail(agent.flying)]
    BY <1>1, <1>3, <2>2 DEF Agents
  <2> QED BY <2>1, <2>2 DEF CallbackLands
<1>5. Types'
  BY <1>1, <1>4 DEF Types
<1>6. Places'
  BY <1>1, <1>2, <1>4 DEF Places, Sdk
<1>7. Starts'
  BY <1>1 DEF Starts
<1>8. Earned'
  <2>1. ASSUME NEW drained, Ended(drained) PROVE Ended(drained)'
    <3>1. Speaks /\ ~drained
      BY <1>1, <1>2, <2>1 DEF Ended, Speaks, Sdk
    <3> QED BY <1>1, <1>4, <2>1, <3>1 DEF Ended, Speaks, Sdk
  <2>2. /\ \A changed : InScope(changed)' <=> InScope(changed)
        /\ \A process : Good(process)' <=> Good(process)
    BY <1>1 DEF InScope, Good, Speaks
  <2> QED BY <1>1, <2>1, <2>2 DEF Earned
<1> QED BY <1>5, <1>6, <1>7, <1>8 DEF IInv

-----------------------------------------------------------------------------
(* The executor's beginning and end by force, and the others.              *)

(* A new execution forgets the report and the provider of the last one.    *)
LEMMA BeginExecutionInv == ASSUME IInv, BeginExecution PROVE IInv'
<1>1. /\ Types /\ Places /\ Starts /\ exec.pc = "idle" /\ exec \in Execs
      /\ agent' = Absent /\ spent' = [spent EXCEPT !.runs = @ + 1]
      /\ UNCHANGED <<plan, repo, started, tree>>
  BY DEF IInv, BeginExecution, Types
<1>2. /\ exec' \in Execs /\ exec'.pc \in {"idle", "record"}
      /\ exec'.pc = "record" => result' = None
      /\ \/ result' = None
         \/ /\ result' \in [status : Statuses, changed : SUBSET Files, drained : BOOLEAN]
            /\ result'.status # "COMPLETED"
  <2>1. CASE /\ exec' = exec
             /\ \E status \in {"HUMAN_REQUIRED", "BLOCKED", "DRY_RUN"} : result' = Report(status)
    BY <1>1, <2>1 DEF Report, Statuses, Execs
  <2>2. CASE result' = None /\ exec' = [Idle EXCEPT !.pc = "record"]
    <3>1. "record" \in Pcs
      BY DEF Pcs
    <3>2. ASSUME NEW e \in Execs, NEW n, n = [e EXCEPT !.pc = "record"]
          PROVE  n \in Execs /\ n.pc = "record"
      BY <3>1, <3>2 DEF Execs
    <3>3. exec' \in Execs /\ exec'.pc = "record"
      BY <2>2, <3>2, IdleIsExec, Zenon
    <3> QED BY <2>2, <3>3
  <2>3. GateStatus # "PASS" => GateStatus \in {"HUMAN_REQUIRED", "BLOCKED"}
    BY DEF GateStatus
  <2> QED BY <2>1, <2>2, <2>3 DEF BeginExecution
<1>3. agent' \in Agents /\ agent'.phase = "none" /\ Fresh(agent')
  BY <1>1, AbsentIsAgent
<1>4. /\ spent' \in [runs : Nat, moves : Nat, invocations : Nat]
      /\ spent'.invocations = spent.invocations
  <2>1. spent \in [runs : Nat, moves : Nat, invocations : Nat]
    BY <1>1 DEF Types
  <2> QED BY <1>1, <2>1
<1>5. Types'
  BY <1>1, <1>2, <1>3, <1>4 DEF Types
<1>6. Places'
  BY <1>1, <1>2, <1>3 DEF Places, Fresh, Sdk
<1>7. Starts'
  BY <1>1, <1>2, <1>4 DEF Starts
<1>8. Earned'
  BY <1>2 DEF Earned
<1> QED BY <1>5, <1>6, <1>7, <1>8 DEF IInv

(* A killed executor leaves its start on record, and nothing else.         *)
LEMMA CrashInv == ASSUME IInv, Crash PROVE IInv'
<1>1. /\ Types /\ Places /\ Starts /\ result = None
      /\ exec' = Idle /\ tree' = None /\ agent' = Absent
      /\ UNCHANGED <<plan, repo, started, result, spent>>
  BY DEF IInv, Crash, Places
<1>2. Types'
  BY <1>1, IdleIsExec, AbsentIsAgent DEF Types
<1>3. Places'
  BY <1>1, IdleIsExec, AbsentIsAgent DEF Places, Fresh, Sdk
<1>4. Starts'
  BY <1>1, IdleIsExec DEF Starts
<1>5. Earned'
  BY <1>1, IdleIsExec DEF Earned
<1> QED BY <1>2, <1>3, <1>4, <1>5 DEF IInv

LEMMA RepositoryMovesInv == ASSUME IInv, RepositoryMoves PROVE IInv'
<1>1. /\ Types /\ Places /\ Starts /\ Earned
      /\ spent' = [spent EXCEPT !.moves = @ + 1]
      /\ repo' = [repo EXCEPT !.head = 1 - @] \/ repo' = [repo EXCEPT !.clean = ~@]
      /\ UNCHANGED <<plan, started, exec, tree, agent, result>>
  BY DEF IInv, RepositoryMoves
<1>2. /\ spent' \in [runs : Nat, moves : Nat, invocations : Nat]
      /\ spent'.invocations = spent.invocations
  <2>1. spent \in [runs : Nat, moves : Nat, invocations : Nat]
    BY <1>1 DEF Types
  <2> QED BY <1>1, <2>1
<1>3. repo' \in [head : {0, 1}, clean : BOOLEAN]
  <2>1. repo \in [head : {0, 1}, clean : BOOLEAN]
    BY <1>1 DEF Types
  <2>2. 1 - repo.head \in {0, 1}
    BY <2>1
  <2>3. (~repo.clean) \in BOOLEAN
    BY <2>1
  <2> QED BY <1>1, <2>1, <2>2, <2>3
<1>4. Types'
  BY <1>1, <1>2, <1>3 DEF Types
<1>5. Places'
  BY <1>1, EarnedKept DEF Places
<1>6. Starts'
  BY <1>1, <1>2 DEF Starts
<1>7. Earned'
  BY <1>1, EarnedKept DEF Earned
<1> QED BY <1>4, <1>5, <1>6, <1>7 DEF IInv

-----------------------------------------------------------------------------
(* The theorems.                                                           *)

LEMMA StepInv == ASSUME IInv, [Next]_vars PROVE IInv'
<1>1. CASE BeginExecution
  BY <1>1, BeginExecutionInv
<1>2. CASE ExecutorStep
  BY <1>2, RecordStartInv, CheckHeadInv, AddWorktreeInv, CheckAddedInv, InvokeProviderInv,
     ProviderEndedInv, ProviderTimesOutInv, DrainInv, JudgeInv, RunValidationsInv, CleanupInv
     DEF ExecutorStep
<1>3. CASE AgentStep
  BY <1>3, AgentEditsInv, AgentReportsInv, CallbackLandsInv, AgentSaysInv, AgentEndsInv,
     ModelAnswersInv, ModelFailsInv DEF AgentStep
<1>4. CASE Crash
  BY <1>4, CrashInv
<1>5. CASE RepositoryMoves
  BY <1>5, RepositoryMovesInv
<1>6. CASE UNCHANGED vars
  <2>1. UNCHANGED <<plan, repo, started, exec, tree, agent, result, spent>>
    BY <1>6 DEF vars
  <2>2. Types /\ Places /\ Starts /\ Earned
    BY DEF IInv
  <2>3. Types' /\ Starts'
    BY <2>1, <2>2 DEF Types, Starts
  <2>4. Places' /\ Earned'
    BY <2>1, <2>2, EarnedKept DEF Places, Earned
  <2> QED BY <2>3, <2>4 DEF IInv
<1> QED BY <1>1, <1>2, <1>3, <1>4, <1>5, <1>6 DEF Next

(* The invariant holds in every reachable state: executor.py's steps, the  *)
(* provider's and the crashes all keep it.                                 *)
THEOREM ExecutionInvariant == Spec => []IInv
BY InitInv, StepInv, PTL DEF Spec

(* The types of Executor.execute's state, with a worktree exactly in its   *)
(* steps between adding and removing it.                                   *)
THEOREM ExecutionTypes == Spec => []TypeOK
<1>1. IInv => TypeOK
  <2> SUFFICES ASSUME IInv PROVE TypeOK
    OBVIOUS
  <2>1. Types /\ Places
    BY DEF IInv
  <2>2. exec.pc \in Pcs
    BY <2>1 DEF Types, Execs
  <2>3. tree = None \/ tree \subseteq Files
    BY <2>1 DEF Types
  <2>4. result = None \/ result.status \in Statuses
    BY <2>1 DEF Types
  <2>5. plan \in Plans
    BY <2>1 DEF Types
  <2> QED BY <2>1, <2>2, <2>3, <2>4, <2>5 DEF TypeOK, Places, Pcs, Sdk
<1> QED BY <1>1, ExecutionInvariant, PTL

(* One recorded start stands for at most one invocation of a provider      *)
(* (executor.py, start_recorder before the worktree and the adapter),      *)
(* however often the executor is killed and run again.                     *)
THEOREM OneInvocationHolds == Spec => []OneInvocation
<1>1. IInv => OneInvocation
  BY DEF IInv, Starts, OneInvocation
<1> QED BY <1>1, ExecutionInvariant, PTL

(* COMPLETED is said only of a provider that came to its end without a     *)
(* failure and changed something inside the scope (the adapters' verdicts, *)
(* executor.py's judgement and cleanup).                                   *)
THEOREM CompletedEarned == Spec => []CompletedIsEarned
<1>1. ASSUME IInv PROVE CompletedIsEarned
  <2> SUFFICES ASSUME result # None, result.status = "COMPLETED"
               PROVE  /\ agent.phase = "done"
                      /\ agent.exit = "zero" /\ ~agent.raised
                      /\ plan.adapter = "openhands-sdk" => agent.said
                      /\ Speaks /\ result.drained =>
                            /\ ~agent.broken
                            /\ ~Among(Emitted, FailureStates)
                            /\ plan.adapter = "openhands-sdk" => ~Among(Emitted, InteractionStates)
                      /\ result.changed # {}
                      /\ \A f \in result.changed : PathInScope(f, plan.scope)
    BY DEF CompletedIsEarned
  <2>1. Ended(result.drained) /\ InScope(result.changed)
    BY <1>1 DEF IInv, Earned
  <2>2. ASSUME agent.flying = <<>> PROVE Emitted = agent.states
    <3>1. agent.states \in Seq(States)
      BY <1>1 DEF IInv, Types, Agents
    <3>2. agent.states \o <<>> = agent.states
      BY <3>1, ConcatEmptySeq
    <3> QED BY <2>2, <3>2 DEF Emitted
  <2>3. ASSUME Speaks, result.drained
        PROVE  /\ ~agent.broken
               /\ ~Among(Emitted, FailureStates)
               /\ plan.adapter = "openhands-sdk" => ~Among(Emitted, InteractionStates)
    BY <2>1, <2>2, <2>3 DEF Ended, Sdk
  <2> QED BY <2>1, <2>3 DEF Ended, InScope, Sdk
<1> QED BY <1>1, ExecutionInvariant, PTL

===============================================================================

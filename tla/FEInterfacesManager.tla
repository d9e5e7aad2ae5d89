------------------------- MODULE FEInterfacesManager -------------------------
(***************************************************************************)
(* FEVInterfacesManager (src/otsdaq-core/FECore/FEVInterfacesManager.cc)  *)
(* driving its front-end interfaces (FEs) through the run-control state   *)
(* machine, with the iteration / sub-iteration protocol.                  *)
(*                                                                         *)
(* A transition (configure, start, stop, pause, resume, halt) is a loop   *)
(* over the FEs in priority order.  An FE's transition method may ask for *)
(* another iteration (it is called again in the next call of the          *)
(* transition, until it is done) or for a sub-iteration (the transition   *)
(* is called again at once, for that FE only).  The manager reports the   *)
(* request upwards with indicateIterationWork / indicateSubIterationWork, *)
(* and the run-control driver calls the transition again with the         *)
(* iteration or sub-iteration index incremented.                          *)
(*                                                                         *)
(* One manager call of a transition is one step (ManagerCall): the loop   *)
(* runs synchronously in the driver's thread.  The driver, which is not   *)
(* in this repository (RunControlStateMachine), is modelled as its        *)
(* contract with the manager: sub-iteration work has priority, then       *)
(* iteration work, else the transition is complete.  Each FE's behaviour  *)
(* is the environment: on each call it answers done, iterate or           *)
(* subiterate, asking for more work at most MaxRequests times per         *)
(* transition.  An FE's data work loop, once started, may also end by     *)
(* itself.                                                                *)
(***************************************************************************)
EXTENDS Integers, Sequences, FiniteSets

CONSTANTS
  FEOrder,         \* the enabled FEs by priority (getChildrenNames(byPriority, onlyStatusTrue))
  FERequests,      \* work an FE may ask for: a subset of {"iterate", "subiterate"}
  WorkTransitions, \* the transitions in which FEs may ask for more work
  MaxRequests      \* bound on the requests of one FE within one transition

FEs == {FEOrder[i] : i \in DOMAIN FEOrder}

Transitions == {"configure", "start", "stop", "pause", "resume", "halt"}
NoTransition == "none"
None == -1    \* subIterationWorkStateMachineIndex_ = (unsigned int)-1

VARIABLES
  fsm,          \* driver: the run-control state
  trans,        \* driver: the transition in progress, or NoTransition
  phase,        \* driver: "call" the manager, or "decide" what comes next
  firstIter,    \* driver: getIterationIndex() = 0
  firstSub,     \* driver: getSubIterationIndex() = 0
  names,        \* theFENamesByPriority_
  created,      \* the keys of theFEInterfaces_
  done,         \* stateMachinesIterationDone_ (a missing key reads as FALSE)
  subIdx,       \* subIterationWorkStateMachineIndex_ (1-based position, or None)
  iterWork,     \* the manager's VStateMachine iteration-work flag
  subWork,      \* the manager's VStateMachine sub-iteration-work flag
  workLoop,     \* workLoop[f]: the FE's data work loop is active
  feLast,       \* feLast[f]: the last transition FE f completed
  requests,     \* environment: requests FE f made in this transition
  calls,        \* history: the FE calls of this transition, [fe, resp]
  participants, \* history: the FEs that the transition in progress is for
  finished      \* history: the FEs that completed the transition in progress

vars == <<fsm, trans, phase, firstIter, firstSub, names, created, done, subIdx,
          iterWork, subWork, workLoop, feLast, requests, calls, participants, finished>>

ASSUME FERequests \subseteq {"iterate", "subiterate"}
ASSUME WorkTransitions \subseteq Transitions
ASSUME MaxRequests \in Nat

\* run-control transitions: source states and target state
Source == [configure |-> {"Halted"}, start |-> {"Configured"},
           stop |-> {"Running", "Paused"}, pause |-> {"Running"},
           resume |-> {"Paused"}, halt |-> {"Configured", "Running", "Paused"}]
Target == [configure |-> "Configured", start |-> "Running", stop |-> "Configured",
           pause |-> "Paused", resume |-> "Running", halt |-> "Halted"]

\* what FE f may answer when called now
Answers(f) ==
  IF trans \in WorkTransitions /\ requests[f] < MaxRequests
  THEN {"done"} \cup FERequests ELSE {"done"}

AnswerChoices ==
  {r \in [FEs -> {"done", "iterate", "subiterate"}] : \A f \in FEs : r[f] \in Answers(f)}

(***************************************************************************)
(* The manager's loop.  Its state is a record st with the fields the loop *)
(* changes; LoopFrom folds the body over the positions of names.          *)
(***************************************************************************)

\* the manager's state as the loop sees it when a call begins
CallState ==
  [subIdx |-> subIdx, done |-> done, iterWork |-> iterWork, subWork |-> subWork,
   workLoop |-> workLoop, feLast |-> feLast, requests |-> requests, calls |-> <<>>,
   finished |-> finished]

\* preStateMachineExecutionLoop: clear the work flags; on the first call of
\* a transition also clear the sub-iteration index and the done map
PreStateMachineExecutionLoop(st) ==
  [st EXCEPT !.iterWork = FALSE, !.subWork = FALSE,
             !.subIdx = IF firstIter /\ firstSub THEN None ELSE @,
             !.done = IF firstIter /\ firstSub THEN [f \in FEs |-> FALSE] ELSE @]

\* a mutant: the sub-iteration test dropped from the loop's skip condition
SkippedNoSubIteration(i, nm, st) == st.done[nm[i]]

\* a mutant: the done test dropped from the loop's skip condition
SkippedNoDone(i, nm, st) == st.subIdx # None /\ i # st.subIdx

\* the loop's two continue statements
Skipped(i, nm, st) ==
  \/ st.subIdx # None /\ i # st.subIdx
  \/ st.done[nm[i]]

\* a mutant: pause leaves the FE's work loop running
CallFENoStopOnPause(t, f, r, st) ==
  [st EXCEPT !.workLoop[f] = IF t \in {"stop", "halt"} THEN FALSE ELSE @,
             !.feLast[f] = IF r = "done" THEN t ELSE @,
             !.requests[f] = IF r = "done" THEN @ ELSE @ + 1,
             !.calls = Append(@, [fe |-> f, resp |-> r]),
             !.finished = IF r = "done" THEN @ \cup {f} ELSE @]

\* preStateMachineExecution, then the FE's transition method: stop, pause
\* and halt stop the FE's work loop first; the FE completes the transition
\* when it asks for no more work
CallFE(t, f, r, st) ==
  [st EXCEPT !.workLoop[f] = IF t \in {"stop", "pause", "halt"} THEN FALSE ELSE @,
             !.feLast[f] = IF r = "done" THEN t ELSE @,
             !.requests[f] = IF r = "done" THEN @ ELSE @ + 1,
             !.calls = Append(@, [fe |-> f, resp |-> r]),
             !.finished = IF r = "done" THEN @ \cup {f} ELSE @]

\* a mutant: the sub-iteration index recorded one past the FE's position
PostSubIndexOffByOne(i, f, r, st) ==
  IF r = "subiterate"
  THEN [st EXCEPT !.subIdx = i + 1, !.subWork = TRUE]
  ELSE LET stateMachineDone == r = "done"
       IN  [st EXCEPT !.subIdx = None, !.done[f] = stateMachineDone,
                      !.iterWork = @ \/ ~stateMachineDone]

\* a mutant: an FE that asks for another iteration is recorded as done
PostRecordsDone(i, f, r, st) ==
  IF r = "subiterate"
  THEN [st EXCEPT !.subIdx = i, !.subWork = TRUE]
  ELSE LET stateMachineDone == r = "done"
       IN  [st EXCEPT !.subIdx = None, !.done[f] = TRUE,
                      !.iterWork = @ \/ ~stateMachineDone]

\* a mutant: the negation dropped from stateMachineDone = !getIterationWork()
PostDoneInverted(i, f, r, st) ==
  IF r = "subiterate"
  THEN [st EXCEPT !.subIdx = i, !.subWork = TRUE]
  ELSE LET stateMachineDone == r = "iterate"
       IN  [st EXCEPT !.subIdx = None, !.done[f] = stateMachineDone,
                      !.iterWork = @ \/ ~stateMachineDone]

\* postStateMachineExecution: a sub-iteration request has priority; else
\* the FE is done unless it asked for another iteration, and an FE not
\* done flags iteration work for the manager
PostStateMachineExecution(i, f, r, st) ==
  IF r = "subiterate"
  THEN [st EXCEPT !.subIdx = i, !.subWork = TRUE]
  ELSE LET stateMachineDone == r = "done"
       IN  [st EXCEPT !.subIdx = None, !.done[f] = stateMachineDone,
                      !.iterWork = @ \/ ~stateMachineDone]

\* a mutant: start and resume start the work loop whatever post returned
StartsWorkLoopAlways(t, r) == t \in {"start", "resume"}

\* start and resume: "only start workloop once transition is done"
StartsWorkLoop(t, r) == t \in {"start", "resume"} /\ r = "done"

\* one pass of the loop body for the FE at position i
LoopBody(t, i, nm, resp, st) ==
  LET f == nm[i]
      post == PostStateMachineExecution(i, f, resp[f], CallFE(t, f, resp[f], st))
  IN  IF Skipped(i, nm, st) THEN st
      ELSE IF StartsWorkLoop(t, resp[f]) THEN [post EXCEPT !.workLoop[f] = TRUE]
      ELSE post

RECURSIVE LoopFrom(_, _, _, _, _)
LoopFrom(t, i, nm, resp, st) ==
  IF i > Len(nm) THEN st
  ELSE LoopFrom(t, i + 1, nm, resp, LoopBody(t, i, nm, resp, st))

\* the whole transition loop, from preStateMachineExecutionLoop on
TransitionLoop(t, nm, resp) ==
  LoopFrom(t, 1, nm, resp, PreStateMachineExecutionLoop(CallState))

Commit(st) ==
  /\ subIdx' = st.subIdx
  /\ done' = st.done
  /\ iterWork' = st.iterWork
  /\ subWork' = st.subWork
  /\ workLoop' = st.workLoop
  /\ feLast' = st.feLast
  /\ requests' = st.requests
  /\ calls' = st.calls
  /\ finished' = st.finished

(***************************************************************************)
(* The manager's operations, one action per transition method.  Each is   *)
(* one call by the driver (phase = "call").                               *)
(***************************************************************************)

\* createInterfaces: destroy(), then one new FE object per enabled FE
CreatedState(st) ==
  [st EXCEPT !.workLoop = [f \in FEs |-> FALSE], !.feLast = [f \in FEs |-> NoTransition]]

Init ==
  /\ fsm = "Halted"
  /\ trans = NoTransition
  /\ phase = "idle"
  /\ firstIter = TRUE
  /\ firstSub = TRUE
  /\ names = <<>>
  /\ created = {}
  /\ done = [f \in FEs |-> FALSE]
  /\ subIdx = None
  /\ iterWork = FALSE
  /\ subWork = FALSE
  /\ workLoop = [f \in FEs |-> FALSE]
  /\ feLast = [f \in FEs |-> NoTransition]
  /\ requests = [f \in FEs |-> 0]
  /\ calls = <<>>
  /\ participants = {}
  /\ finished = {}

\* the part of a manager call common to all transitions
Called(t) == trans = t /\ phase = "call" /\ phase' = "decide"

\* configure(): create the interfaces on the first call, then the loop
Configure ==
  /\ Called("configure")
  /\ LET first == firstIter /\ firstSub
         nm == IF first THEN FEOrder ELSE names
         st0 == IF first THEN CreatedState(CallState) ELSE CallState
     IN  \E resp \in AnswerChoices :
           /\ Commit(LoopFrom("configure", 1, nm, resp, PreStateMachineExecutionLoop(st0)))
           /\ names' = nm
           /\ created' = IF first THEN FEs ELSE created
           /\ participants' = IF first THEN FEs ELSE participants
  /\ UNCHANGED <<fsm, trans, firstIter, firstSub>>

\* start(), stop(), pause() and resume(): the loop alone
Transit(t) ==
  /\ Called(t)
  /\ \E resp \in AnswerChoices : Commit(TransitionLoop(t, names, resp))
  /\ UNCHANGED <<fsm, trans, firstIter, firstSub, names, created, participants>>

Start == Transit("start")
Stop == Transit("stop")
Pause == Transit("pause")
Resume == Transit("resume")

\* halt(): the loop, then destroy() on every call
Halt ==
  /\ Called("halt")
  /\ \E resp \in AnswerChoices :
       LET st == TransitionLoop("halt", names, resp)
       IN  Commit([st EXCEPT !.workLoop = [f \in FEs |-> FALSE]])
  /\ names' = <<>>
  /\ created' = {}
  /\ UNCHANGED <<fsm, trans, firstIter, firstSub, participants>>

(***************************************************************************)
(* The run-control driver (not in this repository), as the contract the   *)
(* manager's comments state: sub-iteration work has priority, then        *)
(* iteration work; with neither the transition is complete.               *)
(***************************************************************************)

BeginTransition(t) ==
  /\ trans = NoTransition
  /\ fsm \in Source[t]
  /\ trans' = t
  /\ phase' = "call"
  /\ firstIter' = TRUE
  /\ firstSub' = TRUE
  /\ requests' = [f \in FEs |-> 0]
  /\ calls' = <<>>
  /\ participants' = created
  /\ finished' = {}
  /\ UNCHANGED <<fsm, names, created, done, subIdx, iterWork, subWork, workLoop, feLast>>

DriverNext ==
  /\ phase = "decide"
  /\ \/ /\ subWork
        /\ firstSub' = FALSE
        /\ phase' = "call"
        /\ UNCHANGED <<fsm, trans, firstIter>>
     \/ /\ ~subWork /\ iterWork
        /\ firstIter' = FALSE
        /\ firstSub' = TRUE
        /\ phase' = "call"
        /\ UNCHANGED <<fsm, trans>>
     \/ /\ ~subWork /\ ~iterWork
        /\ fsm' = Target[trans]
        /\ trans' = NoTransition
        /\ phase' = "idle"
        /\ UNCHANGED <<firstIter, firstSub>>
  /\ UNCHANGED <<names, created, done, subIdx, iterWork, subWork, workLoop, feLast,
                 requests, calls, participants, finished>>

\* an FE's data work loop ends by itself (its running() returns false)
WorkLoopEnds(f) ==
  /\ workLoop[f]
  /\ workLoop' = [workLoop EXCEPT ![f] = FALSE]
  /\ UNCHANGED <<fsm, trans, phase, firstIter, firstSub, names, created, done, subIdx,
                 iterWork, subWork, feLast, requests, calls, participants, finished>>

ManagerCall == Configure \/ Start \/ Stop \/ Pause \/ Resume \/ Halt

Next ==
  \/ \E t \in Transitions : BeginTransition(t)
  \/ ManagerCall
  \/ DriverNext
  \/ \E f \in FEs : WorkLoopEnds(f)

\* the driver's thread keeps calling the manager until the transition ends
Spec == Init /\ [][Next]_vars /\ WF_vars(ManagerCall) /\ WF_vars(DriverNext)

(***************************************************************************)
(* Properties                                                             *)
(***************************************************************************)

Answer == {"done", "iterate", "subiterate"}
Positions == 1..Len(FEOrder)

TypeOK ==
  /\ fsm \in {"Halted", "Configured", "Running", "Paused"}
  /\ trans \in Transitions \cup {NoTransition}
  /\ phase \in {"idle", "call", "decide"}
  /\ firstIter \in BOOLEAN /\ firstSub \in BOOLEAN
  /\ names \in {<<>>, FEOrder}
  /\ created \in {{}, FEs}
  /\ done \in [FEs -> BOOLEAN]
  /\ subIdx \in Positions \cup {None}
  /\ iterWork \in BOOLEAN /\ subWork \in BOOLEAN
  /\ workLoop \in [FEs -> BOOLEAN]
  /\ feLast \in [FEs -> Transitions \cup {NoTransition}]
  /\ requests \in [FEs -> 0..MaxRequests]
  /\ calls \in Seq([fe : FEs, resp : Answer]) /\ Len(calls) <= Len(FEOrder)
  /\ participants \subseteq FEs
  /\ finished \subseteq FEs

\* The manager tells the driver that a transition is complete (no work
\* flagged after a call of configure/start/stop/pause/resume/halt) only
\* when every FE the transition is for has completed it: no FE is left
\* half-way through, by the done map, the skip rule or halt's destroy().
TransitionCompletesAllFEs ==
  phase = "decide" /\ ~subWork /\ ~iterWork =>
    \A f \in participants : feLast[f] = trans

\* An FE's data work loop is only active after the FE completed start or
\* resume: start()/resume() start it only when postStateMachineExecution
\* says the FE is done, and stop()/pause()/halt() stop it before calling
\* the FE, over every iteration and sub-iteration.
WorkLoopOnlyWhenRunning ==
  \A f \in FEs : workLoop[f] => feLast[f] \in {"start", "resume"}

\* A sub-iteration request is honoured before anything else: the FE that
\* asks for one is the last FE called in that call of the transition, and
\* the first FE called in the next call (the skip rule on
\* subIterationWorkStateMachineIndex_).
SubIterationHonouredFirst ==
  [][phase = "call" /\ phase' = "decide" =>
       \A k \in 1..Len(calls) :
         calls[k].resp = "subiterate" =>
           /\ k = Len(calls)
           /\ calls' # <<>>
           /\ calls'[1].fe = calls[k].fe]_vars

\* An FE's transition method is never called again, within one transition,
\* once the FE has completed it: over every later iteration and
\* sub-iteration call of the transition, the done map
\* (stateMachinesIterationDone_, cleared only by the first call) makes the
\* loop skip it, so configure() or start() never runs twice on the hardware.
NoCallAfterCompletion ==
  [][phase = "call" /\ phase' = "decide" =>
       \A k \in 1..Len(calls') : calls'[k].fe \notin finished]_vars

\* Every transition the driver begins ends: the loop of calls of a
\* transition method terminates once each FE stops asking for work.
TransitionTerminates == trans # NoTransition ~> trans = NoTransition

\* allFEWorkloopsAreDone(): no FE of theFEInterfaces_ has an active work loop
AllFEWorkloopsAreDone == \A f \in created : ~workLoop[f]

\* Once the driver begins stop, pause or halt, all FE work loops are
\* eventually done (allFEWorkloopsAreDone), however the FEs iterate and
\* sub-iterate: every FE is called, and its work loop stopped, in the
\* first call of the transition, and the driver keeps calling.
WorkLoopsEndOnStop ==
  trans \in {"stop", "pause", "halt"} ~> AllFEWorkloopsAreDone

\* The manager implements the abstract run control: under the mapping below
\* every step of configure/start/stop/pause/resume/halt and of the driver
\* is a step of AbstractRunControl (FEs complete the pending transition,
\* the run state moves on only when all FEs completed it, the FEs exist
\* from configure until all are halted, a work loop runs only from a
\* completed start/resume to the next stop/pause/halt call).
AR == INSTANCE AbstractRunControl
        WITH run <- fsm, pending <- trans, alive <- created # {},
             completed <- feLast, running <- workLoop

RunControlRefined == AR!Spec

=============================================================================

------------------------- MODULE AbstractRunControl -------------------------
(***************************************************************************)
(* What the FE interfaces manager promises the run-control state machine: *)
(* a transition moves the run state on only once every front end (FE) has *)
(* completed it.  Within a transition, FEs complete it in any grouping    *)
(* and order, possibly over several calls.  configure brings the FEs into *)
(* existence and halt removes them once all of them are halted.  An FE's  *)
(* data work loop starts only when the FE completes start or resume, and  *)
(* stops when stop, pause or halt reaches the FE.                         *)
(***************************************************************************)
CONSTANT FEs

VARIABLES
  run,        \* the run-control state
  pending,    \* the transition in progress, or "none"
  alive,      \* the FE objects exist
  completed,  \* completed[f]: the last transition FE f completed
  running     \* running[f]: FE f's data work loop is active

Transitions == {"configure", "start", "stop", "pause", "resume", "halt"}

Source == [configure |-> {"Halted"}, start |-> {"Configured"},
           stop |-> {"Running", "Paused"}, pause |-> {"Running"},
           resume |-> {"Paused"}, halt |-> {"Configured", "Running", "Paused"}]
Target == [configure |-> "Configured", start |-> "Running", stop |-> "Configured",
           pause |-> "Paused", resume |-> "Running", halt |-> "Halted"]

Init ==
  /\ run = "Halted"
  /\ pending = "none"
  /\ alive = FALSE
  /\ completed = [f \in FEs |-> "none"]
  /\ running = [f \in FEs |-> FALSE]

Begin(t) ==
  /\ pending = "none"
  /\ run \in Source[t]
  /\ pending' = t
  /\ UNCHANGED <<run, alive, completed, running>>

\* the FEs in reached reach the pending transition; those in done complete it
Progress(reached, done) ==
  /\ pending # "none"
  /\ done \subseteq reached
  /\ reached # {} => alive \/ pending = "configure"
  /\ completed' = [f \in FEs |->
                     IF f \in done THEN pending
                     ELSE IF pending = "configure" /\ ~alive THEN "none"
                     ELSE completed[f]]
  /\ alive' = IF pending = "configure" THEN TRUE
              ELSE IF pending = "halt" THEN \E f \in FEs : completed'[f] # "halt"
              ELSE alive
  /\ running' = [f \in FEs |->
                   IF ~alive' THEN FALSE
                   ELSE IF f \in done /\ pending \in {"start", "resume"} THEN TRUE
                   ELSE IF f \in reached /\ pending \in {"stop", "pause", "halt"} THEN FALSE
                   ELSE running[f]]
  /\ UNCHANGED <<run, pending>>

Finish ==
  /\ pending # "none"
  /\ \A f \in FEs : completed[f] = pending
  /\ run' = Target[pending]
  /\ pending' = "none"
  /\ UNCHANGED <<alive, completed, running>>

LoopEnds(f) ==
  /\ running[f]
  /\ running' = [running EXCEPT ![f] = FALSE]
  /\ UNCHANGED <<run, pending, alive, completed>>

Next ==
  \/ \E t \in Transitions : Begin(t)
  \/ \E reached, done \in SUBSET FEs : Progress(reached, done)
  \/ Finish
  \/ \E f \in FEs : LoopEnds(f)

Spec == Init /\ [][Next]_<<run, pending, alive, completed, running>>

=============================================================================

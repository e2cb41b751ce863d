----------------------------- MODULE RunContract -----------------------------
(***************************************************************************)
(* What a run promises to those who talk to it, whoever executes it: it    *)
(* works, asks one question, waits for the decision, and works on, until   *)
(* it ends; its end is final, and a completed run shows its output.        *)
(*                                                                         *)
(* Nothing here tells a job from a fallback, or a node from another:       *)
(* RunLifecycle implements it where people and the queue keep time.        *)
(***************************************************************************)
VARIABLES
    phase,     \* the status people see
    question,  \* TRUE while the run waits for a decision
    output     \* TRUE when the output of the run can be read

contract == <<phase, question, output>>

Init ==
    /\ phase = "absent"
    /\ question = FALSE
    /\ output = FALSE

To(from, to) ==
    /\ phase = from
    /\ phase' = to
    /\ UNCHANGED <<question, output>>

Create == To("absent", "queued")
Start  == To("queued", "running")

(* A run is parked only behind a question ...                              *)
Ask ==
    /\ phase = "running"
    /\ ~output
    /\ phase' = "paused"
    /\ question' = TRUE
    /\ UNCHANGED output

Decide ==
    /\ question
    /\ question' = FALSE
    /\ UNCHANGED <<phase, output>>

(* ... and goes on, or is stopped, only when that is decided.              *)
Resume == ~question /\ To("paused", "running")
Stop   == ~question /\ To("paused", "stopped")

Publish ==
    /\ phase = "running"
    /\ output' = TRUE
    /\ UNCHANGED <<phase, question>>

(* Nothing is asked, decided or resumed any more once the output is there. *)
Complete == output /\ To("running", "completed")
Fail     == ~output /\ To("running", "failed")

Delete ==
    /\ phase \notin {"absent", "deleted"}
    /\ phase' = "deleted"
    /\ question' = FALSE
    /\ output' = FALSE

Next == \/ Create \/ Start \/ Ask \/ Decide \/ Resume \/ Stop
        \/ Publish \/ Complete \/ Fail \/ Delete

Spec == Init /\ [][Next]_contract
=============================================================================

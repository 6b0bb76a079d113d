------------------------------ MODULE PeHandle ------------------------------
(***************************************************************************)
(* What public/peloader.h promises a host about one PeFile* variable:      *)
(* peloader_openEx answers 0 and stores a file, or answers a negative      *)
(* error and leaves the variable alone; peloader_close stores nullptr; a   *)
(* call that was made returns, unless the process stops underneath it.     *)
(* How a file is parsed, and which resources that takes, is not visible    *)
(* here.                                                                   *)
(***************************************************************************)

CONSTANT Threads   \* host threads, each with one PeFile* variable

VARIABLES
    state,   \* what each thread is doing with its variable
    answer,  \* the code the last call of each thread returned
    alive    \* FALSE once the process has stopped

hvars == <<state, answer, alive>>

States  == {"empty", "opening", "open", "closing"}
Answers == {"none", "zero", "negative"}

Init ==
    /\ state = [t \in Threads |-> "empty"]
    /\ answer = [t \in Threads |-> "none"]
    /\ alive = TRUE

Move(t, from, to) ==
    /\ alive
    /\ state[t] = from
    /\ state' = [state EXCEPT ![t] = to]
    /\ UNCHANGED alive

\* A request rejected before anything is allocated never leaves "empty".
Reject(t) ==
    /\ Move(t, "empty", "empty")
    /\ answer' = [answer EXCEPT ![t] = "negative"]

Call(t) ==
    /\ Move(t, "empty", "opening")
    /\ answer' = [answer EXCEPT ![t] = "none"]

Succeed(t) ==
    /\ Move(t, "opening", "open")
    /\ answer' = [answer EXCEPT ![t] = "zero"]

Fail(t) ==
    /\ Move(t, "opening", "empty")
    /\ answer' = [answer EXCEPT ![t] = "negative"]

Close(t) == Move(t, "open", "closing") /\ UNCHANGED answer

Closed(t) == Move(t, "closing", "empty") /\ UNCHANGED answer

Return(t) == Succeed(t) \/ Fail(t) \/ Closed(t)

Stop ==
    /\ alive
    /\ alive' = FALSE
    /\ UNCHANGED <<state, answer>>

Next ==
    \/ \E t \in Threads : Reject(t) \/ Call(t) \/ Close(t) \/ Return(t)
    \/ Stop

\* Only a call in progress is owed anything: the host may stop calling.
HandleSpec ==
    /\ Init
    /\ [][Next]_hvars
    /\ \A t \in Threads : WF_hvars(Return(t))

=============================================================================

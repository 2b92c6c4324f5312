----------------------------- MODULE SqlSession -----------------------------
(***************************************************************************)
(* What a user of mod_sql's hooks promises: the backend is loaded,         *)
(* prepared, given a connection, opened, closed and cleaned up, in this    *)
(* order; and when the user is done, an open connection is one that the    *)
(* backend refused to close.                                               *)
(***************************************************************************)
EXTENDS Naturals

VARIABLES
  session,  \* how far the hooks have taken mod_sql
  stuck,    \* the backend refused to close the connection
  outcome   \* "none" until the user of the hooks is done

vars == <<session, stuck, outcome>>

Stages == <<"none", "loaded", "prepared", "defined", "open", "closed", "clean">>

Init == session = "none" /\ ~stuck /\ outcome = "none"

(* The next hook in the order succeeds. *)
Advance ==
  /\ outcome = "none"
  /\ \E i \in 1..5 : session = Stages[i] /\ session' = Stages[i + 1]
  /\ UNCHANGED <<stuck, outcome>>

(* The clean-up succeeds: the end, with the result decided before. *)
Finish ==
  /\ outcome = "none"
  /\ session = "closed" /\ session' = "clean"
  /\ outcome' \in {"ok", "err"}
  /\ UNCHANGED stuck

(* A hook fails: the end, unless there is a connection to close first. *)
Fail ==
  /\ outcome = "none"
  /\ session # "open"
  /\ outcome' = "err"
  /\ UNCHANGED <<session, stuck>>

CloseFails ==
  /\ outcome = "none"
  /\ session = "open"
  /\ stuck' = TRUE /\ outcome' = "err"
  /\ UNCHANGED session

(* The process dies, and the connection with it. *)
Die ==
  /\ outcome = "none"
  /\ outcome' = "crashed"
  /\ UNCHANGED <<session, stuck>>

Next == Advance \/ Finish \/ Fail \/ CloseFails \/ Die

Spec == Init /\ [][Next]_vars /\ WF_vars(Next)
=============================================================================

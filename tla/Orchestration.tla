---------------------------- MODULE Orchestration ----------------------------
(* Bounded runs on the loop journal, and the team's messages, over the same LIT *)
(* and the same pause.                                                          *)
EXTENDS Continuation, Communication

teamVars == <<vars, mailVars>>

TeamInit == Init /\ MailInit

TeamNext == \/ Next /\ UNCHANGED mailVars
            \/ MailNext /\ UNCHANGED runVars

\* A run goes on: each of its calls has a time limit, the worker's included.  Nobody
\* is obliged to send a message or to try again.
TeamSpec == TeamInit /\ [][TeamNext]_teamVars /\ WF_teamVars(RunStep /\ UNCHANGED mailVars)
=============================================================================

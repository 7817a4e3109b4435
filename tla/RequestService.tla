--------------------------- MODULE RequestService ---------------------------
(***************************************************************************)
(* What the privileged session promises its callers, with the pipes, the   *)
(* broker and the dialogs taken away.  A request is accepted only when no  *)
(* other holds the service, is reported exactly once, and is reported as a *)
(* success only if it was carried out to its end.  A request whose session *)
(* was lost or timed out is reported as failed and may still be carried out: *)
(* the code warns that it "may not have completed".                        *)
(***************************************************************************)
CONSTANT Requests

VARIABLES holder,  \* the request that holds the service, 0 if none
          status,  \* what each request's caller knows
          done     \* the requests carried out to their end

serviceVars == <<holder, status, done>>

ServiceTypeOK ==
    /\ holder \in Requests \cup {0}
    /\ status \in [Requests -> {"idle", "open", "success", "failure"}]
    /\ done \subseteq Requests

ServiceInit ==
    /\ holder = 0
    /\ status = [i \in Requests |-> "idle"]
    /\ done = {}

Accept(i) ==
    /\ holder = 0 /\ status[i] = "idle"
    /\ holder' = i
    /\ status' = [status EXCEPT ![i] = "open"]
    /\ UNCHANGED done

\* The work is finished once, and never for a request nobody made or one that
\* was already reported as a success.
Perform(i) ==
    /\ status[i] \in {"open", "failure"} /\ i \notin done
    /\ done' = done \cup {i}
    /\ UNCHANGED <<holder, status>>

\* A finished request may let the next one in before it is reported.
Release(i) ==
    /\ holder = i /\ i \in done
    /\ holder' = 0
    /\ UNCHANGED <<status, done>>

Report(i) ==
    /\ status[i] = "open"
    /\ \/ status' = [status EXCEPT ![i] = "success"] /\ i \in done
       \/ status' = [status EXCEPT ![i] = "failure"] /\ holder = i
    /\ holder' = IF holder = i THEN 0 ELSE holder
    /\ UNCHANGED done

ServiceNext ==
    \E i \in Requests : Accept(i) \/ Perform(i) \/ Release(i) \/ Report(i)

ServiceSpec == ServiceInit /\ [][ServiceNext]_serviceVars
=============================================================================

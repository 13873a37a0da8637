------------------------------ MODULE EcMonitor ------------------------------
(***************************************************************************)
(* What the Oslec kernel wrapper promises of its diagnostic interface,     *)
(* with every operation atomic and no lock: of the calls that are up at    *)
(* most one is monitored, a call is monitored from its first instant or    *)
(* never, the monitored call is forgotten when it hangs up, and a mode     *)
(* written through /proc/oslec reaches the monitored call and no other.    *)
(* OslecWrap implements this specification.                                *)
(***************************************************************************)
CONSTANTS Ec,           \* echo cancellers (addresses of echo_can_state_t)
          Modes,        \* values of adaption_mode
          DefaultMode,  \* the mode every canceller is created with
          NULL

VARIABLES calls,        \* the cancellers of the calls that are up
          monitored,    \* the canceller /proc/oslec shows, or NULL
          mode          \* the mode of each of them

vars == <<calls, monitored, mode>>

Init ==
  /\ calls = {}
  /\ monitored = NULL
  /\ mode = [e \in calls |-> DefaultMode]

\* A call comes up; it is monitored exactly when no other call is.
Begin(e) ==
  /\ e \notin calls
  /\ calls' = calls \cup {e}
  /\ monitored' = IF monitored = NULL THEN e ELSE monitored
  /\ mode' = [x \in calls' |-> IF x = e THEN DefaultMode ELSE mode[x]]

\* A call hangs up. Another call that is still up does not take its place.
End(e) ==
  /\ e \in calls
  /\ calls' = calls \ {e}
  /\ monitored' = IF monitored = e THEN NULL ELSE monitored
  /\ mode' = [x \in calls' |-> mode[x]]

\* The mode of the monitored call is set.
Control(m) ==
  /\ monitored \in calls
  /\ mode' = [mode EXCEPT ![monitored] = m]
  /\ UNCHANGED <<calls, monitored>>

Next == \/ \E e \in Ec : Begin(e) \/ End(e)
        \/ \E m \in Modes : Control(m)

Spec == Init /\ [][Next]_vars
=============================================================================

---------------------------- MODULE EventChannel ----------------------------
(* What the remote transport promises of a session's events: the browser    *)
(* reads them in the order they were produced, each at most once, and skips *)
(* none of them before it has given up an event stream.                     *)
EXTENDS Integers

VARIABLES
  produced, \* how many events there are
  seen,     \* the number of the last one read
  lossy     \* an event stream was given up

chanVars == <<produced, seen, lossy>>

Init == produced = 0 /\ seen = 0 /\ lossy = FALSE

Produce == produced' = produced + 1 /\ UNCHANGED <<seen, lossy>>

Deliver ==
  /\ \E n \in seen + 1 .. produced : (n = seen + 1 \/ lossy) /\ seen' = n
  /\ UNCHANGED <<produced, lossy>>

GiveUp == lossy' = TRUE /\ UNCHANGED <<produced, seen>>

Next == Produce \/ Deliver \/ GiveUp

Spec == Init /\ [][Next]_chanVars
=============================================================================

----------------------------- MODULE AtLeastOnce -----------------------------
(***************************************************************************)
(* What ARQS promises of a packet handed to a sending application: "at     *)
(* least once, not exactly once" (README.md).  A packet stays in somebody's*)
(* custody until the receiving application has taken it, or until it has   *)
(* lapsed: its lifetime is over, or a policy the application chose has     *)
(* given it up.  A packet that was taken may come back.                    *)
(***************************************************************************)
CONSTANT Message

VARIABLES
  given,     \* messages handed over
  held,      \* those a sender or the relay still answers for
  taken,     \* those the receiving application has taken
  lapsed     \* those that were given up

vars == <<given, held, taken, lapsed>>

Init == given = {} /\ held = {} /\ taken = {} /\ lapsed = {}

Give(m) ==
  /\ m \notin given
  /\ given' = given \cup {m} /\ held' = held \cup {m}
  /\ UNCHANGED <<taken, lapsed>>

\* Only what is in custody, or once was, reaches the receiver.
Take(m) ==
  /\ m \in given
  /\ taken' = taken \cup {m}
  /\ UNCHANGED <<given, held, lapsed>>

Lapse(m) ==
  /\ m \in held
  /\ lapsed' = lapsed \cup {m} /\ held' \in {held, held \ {m}}
  /\ UNCHANGED <<given, taken>>

Release(m) ==
  /\ m \in held /\ m \in taken \cup lapsed
  /\ held' = held \ {m}
  /\ UNCHANGED <<given, taken, lapsed>>

\* A late retry of what was released.
Retry(m) ==
  /\ m \in given \ held
  /\ held' = held \cup {m}
  /\ UNCHANGED <<given, taken, lapsed>>

Next == \E m \in Message : Give(m) \/ Take(m) \/ Lapse(m) \/ Release(m) \/ Retry(m)

Spec == Init /\ [][Next]_vars
=============================================================================

------------------------------ MODULE Command ------------------------------
(***************************************************************************)
(* What a client of a node or of a wallet promises about its commands: a   *)
(* command is issued once, the service decides it at most once, and the    *)
(* caller either learns that decision or gives up without knowing it.      *)
(* Giving up says nothing about the service, which may still decide.       *)
(***************************************************************************)
CONSTANTS Commands, Verdicts, None, Unknown

VARIABLES issued,        \* commands sent
          verdict,       \* what the service decided
          learned        \* what the caller was told

vars == <<issued, verdict, learned>>

Init ==
  /\ issued = {}
  /\ verdict = [c \in Commands |-> None]
  /\ learned = [c \in Commands |-> None]

Issue(c) ==
  /\ c \notin issued /\ learned[c] = None
  /\ issued' = issued \cup {c}
  /\ UNCHANGED <<verdict, learned>>

Decide(c, v) ==
  /\ c \in issued /\ verdict[c] = None
  /\ verdict' = [verdict EXCEPT ![c] = v]
  /\ UNCHANGED <<issued, learned>>

Learn(c) ==
  /\ learned[c] = None /\ verdict[c] # None
  /\ learned' = [learned EXCEPT ![c] = verdict[c]]
  /\ UNCHANGED <<issued, verdict>>

GiveUp(c) ==
  /\ learned[c] = None
  /\ learned' = [learned EXCEPT ![c] = Unknown]
  /\ UNCHANGED <<issued, verdict>>

Next ==
  \E c \in Commands :
    \/ Issue(c) \/ Learn(c) \/ GiveUp(c)
    \/ \E v \in Verdicts : Decide(c, v)

Spec == Init /\ [][Next]_vars
=============================================================================

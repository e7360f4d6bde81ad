------------------------------ MODULE GpuToken ------------------------------
(***************************************************************************)
(* What the colocation ring promises: one GPU card and one token.  The     *)
(* owner of the token enters the card, leaves it, and only then passes the *)
(* token, to a member that is asking or to a FALLBACK member.  The abstract*)
(* specification that Colocation implements.                               *)
(***************************************************************************)
CONSTANTS
  Services,  \* the members of the ring
  Fallback,  \* those that take the card when nobody asks
  Nobody     \* the owner before genesis

VARIABLES
  owner,   \* the member holding the token
  onCard,  \* the members holding GPU memory
  left,    \* the owner has been on the card and has left it
  asking   \* the members whose worker has an unanswered request

tokenVars == <<owner, onCard, left, asking>>

Init ==
  /\ owner = Nobody
  /\ onCard = {}
  /\ left = FALSE
  /\ asking = {}

Genesis(s) ==
  /\ owner = Nobody
  /\ s \in Fallback
  /\ owner' = s
  /\ UNCHANGED <<onCard, left, asking>>

Ask(s) ==
  /\ s \in Services \ (asking \cup Fallback)
  /\ owner # Nobody
  /\ asking' = asking \cup {s}
  /\ UNCHANGED <<owner, onCard, left>>

Enter ==
  /\ owner # Nobody
  /\ onCard = {}
  /\ ~left
  /\ onCard' = {owner}
  /\ UNCHANGED <<owner, left, asking>>

Leave ==
  /\ onCard = {owner}
  /\ onCard' = {}
  /\ left' = TRUE
  /\ UNCHANGED <<owner, asking>>

Pass(t) ==
  /\ left
  /\ t # owner
  /\ t \in asking \cup Fallback
  /\ owner' = t
  /\ left' = FALSE
  /\ asking' = asking \ {t}
  /\ UNCHANGED onCard

Next ==
  \/ Enter
  \/ Leave
  \/ \E s \in Services : Genesis(s) \/ Ask(s) \/ Pass(s)

Spec == Init /\ [][Next]_tokenVars
=============================================================================

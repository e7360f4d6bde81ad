---------------------------- MODULE Collectives ----------------------------
(***************************************************************************)
(* The ranks of one SPMD service and the collective calls they make.  Rank *)
(* <<d, c>> is the c-th context-parallel rank of the d-th data-parallel    *)
(* shard; rank <<1, 1>> is the master.  FSDP shards over all of them, so a *)
(* forward or a backward is a call of every rank; what works on one        *)
(* sequence is a call of the ranks that share it.                          *)
(*                                                                         *)
(* A process group matches the calls of its members by their order.  A call*)
(* returns when each member has made its own of the same turn; two         *)
(* different calls at the same turn wait for ever.                         *)
(***************************************************************************)
EXTENDS Integers, Sequences, FiniteSets

VARIABLES
  cfg,   \* the service's configuration; dp and cp are its degrees of data
         \* and context parallelism
  call,  \* the call a rank is in; "done" or "raised" when it has returned
  made   \* the calls a rank has made in each of its groups

Dp == cfg.dp
Cp == cfg.cp
Ranks == (1..Dp) \X (1..Cp)
MasterRank == <<1, 1>>

OnSequence == {"segments", "gather"}  \* calls of a context-parallel group
Group(c) == IF c \in OnSequence THEN "cp" ELSE "world"
Peers(r, g) == IF g = "cp" THEN {r[1]} \X (1..Cp) ELSE Ranks
Ended(r) == call[r] \in {"done", "raised"}

(* Everyone has come to the call that r is in, or is through with it.      *)
Returns(r) ==
  LET g == Group(call[r])
  IN  \A q \in Peers(r, g) :
        \/ made[q][g] > made[r][g]
        \/ /\ made[q][g] = made[r][g]
           /\ Group(call[q]) = g => call[q] = call[r]

(* r leaves its call and comes to the next.                                *)
GoesTo(r, next) ==
  /\ call' = [call EXCEPT ![r] = next]
  /\ made' = [made EXCEPT ![r][Group(next)] = @ + 1]

(* r leaves its call and makes no other.                                   *)
Ends(r, how) ==
  /\ call' = [call EXCEPT ![r] = how]
  /\ made' = [made EXCEPT ![r]["world"] = @ + 1]

AllIn(first) ==
  /\ call = [r \in Ranks |-> first]
  /\ made = [r \in Ranks |-> [g \in {"world", "cp"} |->
               IF g = Group(first) THEN 1 ELSE 0]]
=============================================================================

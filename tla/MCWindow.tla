------------------------------ MODULE MCWindow ------------------------------
EXTENDS Window

(* Rows: a short one, one of two turns, one as long as the models take, one*)
(* that is cut by the trainer and one that has no response.                *)
Short == [len |-> 3, response |-> {2, 3}, reward |-> 1]
Turns == [len |-> 7, response |-> {2, 3, 5, 6}, reward |-> 1]
Long == [len |-> 8, response |-> 4..8, reward |-> 2]
Cut == [len |-> 10, response |-> {3} \cup 7..10, reward |-> 1]
Mute == [len |-> 2, response |-> {}, reward |-> 0]

CriticSettings(budget, epochs, due, publish) ==
  [dp |-> 2, cp |-> 2, seqLen |-> 8, align |-> 4, budget |-> budget, rows |-> 2,
   epochs |-> epochs, due |-> due, publish |-> publish]

Planner(layout, mini, align, budget, rows) ==
  [layout |-> layout, mini |-> mini, seqLen |-> 8, align |-> align,
   budget |-> budget, rows |-> rows]
TrainerSettings(dp, cp, planner, old, gae, den, sync) ==
  [dp |-> dp, cp |-> cp, plan |-> planner, old |-> old, gae |-> gae,
   whiten |-> den = 2, den |-> den, sync |-> sync]

Padded == TrainerSettings(2, 2, Planner("padded", 1, 4, 16, 1), "train", TRUE, 2, TRUE)
PaddedWhole == TrainerSettings(2, 2, Planner("padded", 3, 4, 8, 1), "rollout", TRUE, 1, TRUE)
Capped == TrainerSettings(2, 2, Planner("padded", 2, 4, 0, 2), "train", FALSE, 1, FALSE)
Packed == TrainerSettings(3, 1, Planner("packed", 1, 2, 10, 1), "train", FALSE, 1, FALSE)

Window(rows, critic, trainer) == [batch |-> rows, critic |-> critic, trainer |-> trainer]

Fours == {<<Short, Long, Turns, Short>>, <<Long, Short, Short, Turns>>,
          <<Turns, Turns, Short, Long>>, <<Short, Short, Short, Long>>}
Sixes == {<<Short, Long, Turns, Short, Turns, Long>>,
          <<Long, Short, Short, Short, Short, Short>>}
Scored ==
  {Window(b, CriticSettings(16, 1, TRUE, TRUE), Padded) : b \in Fours \cup Sixes}
  \cup {Window(b, CriticSettings(8, 2, FALSE, TRUE), PaddedWhole) : b \in Fours}
  \cup {Window(b, CriticSettings(0, 2, FALSE, FALSE), Padded) : b \in Fours}
Unscored ==
  {Window(b, NoCritic, Packed) : b \in Sixes \cup {<<Short, Cut, Mute>>, Append(<<Cut, Long, Turns, Mute, Short>>, Short)}}
  \cup {Window(b, NoCritic, Capped) : b \in Fours \cup {<<Cut, Mute, Short, Long>>}}
Refusing ==
  {Window(<<Short, Long, Turns>>, CriticSettings(16, 1, TRUE, TRUE), Padded),
   Window(<<Short, Long, Turns, Short>>, NoCritic, Packed),
   Window(<<Short, Cut, Turns, Short>>, CriticSettings(16, 1, TRUE, TRUE), Padded),
   Window(<<Long, Turns, Mute, Short>>, CriticSettings(16, 1, TRUE, TRUE), Padded)}

MCWindows == Scored \cup Unscored \cup Refusing
MCRanks == (1..3) \X (1..2)
=============================================================================

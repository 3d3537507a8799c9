------------------------------ MODULE Dialogue ------------------------------
(***************************************************************************)
(* What is promised of a conversation, with no lock, request or database   *)
(* in sight: one turn at a time has the floor, from its question until it  *)
(* leaves.  It asks, thinks and answers, or is stopped, and each may be    *)
(* lost; what was said and what the model remembers are only taken away    *)
(* between turns; and nobody who had the floor gets it again.              *)
(***************************************************************************)
EXTENDS Sequences

CONSTANT Convs

VARIABLES
  talk,    \* the messages of each conversation that takes turns: who, and in which turn
  memory,  \* the turns that the model remembers
  floor,   \* the turn that has the floor, if any
  had      \* the turns that ever had it

dialogueVars == <<talk, memory, floor, had>>

Init ==
  \E ours \in SUBSET Convs :
    /\ talk = [c \in ours |-> <<>>] /\ memory = [c \in ours |-> {}]
    /\ floor = [c \in ours |-> {}] /\ had = [c \in ours |-> {}]

Says(c, who, t) == talk' \in {talk, [talk EXCEPT ![c] = Append(@, <<who, t>>)]}

\* A turn that never had a floor takes that of c, which is free.
Asks(c) ==
  /\ floor[c] = {}
  /\ \E t \in floor'[c] \ UNION {had[d] : d \in DOMAIN had} :
       /\ floor' = [floor EXCEPT ![c] = {t}] /\ had' = [had EXCEPT ![c] = @ \cup {t}]
       /\ Says(c, "user", t)
  /\ UNCHANGED memory

Thinks(c) ==
  /\ \E t \in floor[c] : memory' \in {memory, [memory EXCEPT ![c] = @ \cup {t}]}
  /\ UNCHANGED <<talk, floor, had>>

\* A turn that is stopped while it answers may say it all once more.
Answers(c) ==
  /\ \E t \in floor[c] : Says(c, "assistant", t)
  /\ UNCHANGED <<memory, floor, had>>

Leaves(c) ==
  /\ floor[c] # {} /\ floor' = [floor EXCEPT ![c] = {}]
  /\ UNCHANGED <<talk, memory, had>>

Clears(c) ==
  /\ floor[c] = {}
  /\ talk' \in {talk, [talk EXCEPT ![c] = <<>>]}
  /\ memory' \in {memory, [memory EXCEPT ![c] = {}]}
  /\ UNCHANGED <<floor, had>>

Next == \E c \in DOMAIN talk : Asks(c) \/ Thinks(c) \/ Answers(c) \/ Leaves(c) \/ Clears(c)

Spec == Init /\ [][Next]_dialogueVars
=============================================================================

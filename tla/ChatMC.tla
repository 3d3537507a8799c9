-------------------------------- MODULE ChatMC --------------------------------
(***************************************************************************)
(* Three views of chat in one run: who may start, stop and answer turns    *)
(* (ChatService), how their frames reach those who watch (FrameRelay), and *)
(* what is kept of conversations (ConversationStore).  They share no       *)
(* state, so a behaviour is one of one view, chosen at the start; turns,   *)
(* conversations, and connections or workers, are the same in all.         *)
(***************************************************************************)
EXTENDS ChatServiceMC, FrameRelay, ConversationStore

VARIABLE view

chatVars == <<view, vars, relayVars, storeVars>>

\* Where the only conversation is QQ's, and so no Dialogue: TLC has least to look at.
StoreRests == StoreInit /\ qq # Nowhere

ChatInit ==
  /\ view \in {"turns", "frames", "store"}
  /\ Init
  /\ RelayInit /\ (view # "frames" => wechat = Nobody)
  /\ IF view = "store" THEN StoreInit ELSE StoreRests

ChatNext ==
  /\ UNCHANGED view
  /\ \/ view = "turns" /\ Next /\ UNCHANGED <<relayVars, storeVars>>
     \/ view = "frames" /\ RelayNext /\ UNCHANGED <<vars, storeVars>>
     \/ view = "store" /\ StoreNext /\ UNCHANGED <<vars, relayVars>>

ChatSpec == ChatInit /\ [][ChatNext]_chatVars
===============================================================================

--------------------------- MODULE MCBotRefinesGame ---------------------------
(* The refinement of Game by Bot on the model values of MCBot. *)
EXTENDS BotRefinesGame, MCBot
===============================================================================

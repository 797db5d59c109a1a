--------------------------- MODULE MCTelegramBot ----------------------------
(* TLC instances of TelegramBot. *)
EXTENDS TelegramBot

(* The handlers share nothing with the bot but the process and the bound on failing
   calls, so a restart is explored for the bot alone. *)
MCNext == Next /\ (boots' > 1 => \A r \in Requests : req'[r].pc = "idle")

MCSpec == Init /\ [][MCNext]_vars /\ BotFairness
=============================================================================

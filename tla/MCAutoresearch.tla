--------------------------- MODULE MCAutoresearch ---------------------------
(* TLC instance of Autoresearch: the parameters searched for each strategy,  *)
(* one of them shared by both.                                               *)
EXTENDS Autoresearch

MCEma == <<"ema_fast", "atr_multiplier">>
MCMr == <<"atr_multiplier">>
=============================================================================

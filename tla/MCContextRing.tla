--------------------------- MODULE MCContextRing ---------------------------
(* The tasks of main.c that wait for something: two that stand next to each *)
(* other may end in a row and still leave a ring in which a bypass shows.   *)
EXTENDS ContextRing

MCOrder ==
  LET wire == <<"fsm_wireformat", "fsm_frontend_foreign">>
      side == <<"fsm_frontend_timer", "autoresponder", "sighandler">>
  IN  wire \o side
=============================================================================

---------------------------- MODULE MCFeishuChat ----------------------------
(* A chat with one thread: a message in each, and a command.                *)
EXTENDS FeishuChat, TLC

CONSTANTS m1, m2, m3, t1

MCPlace == m1 :> t1 @@ m2 :> Main @@ m3 :> t1
MCText  == m1 :> <<"plain", "blank">> @@ m2 :> <<"known", "plain">> @@ m3 :> <<"known">>
MCQuote == m1 :> <<"plain", "known">> @@ m2 :> <<>> @@ m3 :> <<"plain">>
=============================================================================

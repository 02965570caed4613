------------------------------- MODULE MC_Cenfis -------------------------------
(* Between two answers the device writes one colon, other texts and controls, *)
(* and it goes on talking after a question.                                   *)
EXTENDS Cenfis

Dialog(s, e) == [say |-> s, expect |-> e]

Dialogs == << Dialog(<<"text", "control", "confirm", "text", "colon", "text">>, "Y"),
              Dialog(<<"control", "text", "star", "text", "control", "text">>, "nothing"),
              Dialog(<<"program", "text", "colon", "text", "control">>, "P"),
              Dialog(<<"text", "control", "text", "confirm", "colon">>, "Y"),
              Dialog(<<"text", "control", "ready", "text", "colon", "control">>, "nothing") >>
=============================================================================

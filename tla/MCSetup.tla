------------------------------- MODULE MCSetup -------------------------------
(* Instances of Setup for TLC: a script with the characters that change a
   setup, and two that have too few of everybody. *)
EXTENDS Setup

full ==
    <<"imp", "lilmonsta", "fanggu", "poisoner", "baron", "godfather",
      "drunk", "damsel", "klutz", "balloonist", "choirboy", "huntsman", "king", "monk", "chef">>

short == <<"lilmonsta", "baron", "drunk", "balloonist", "choirboy", "huntsman", "monk", "chef">>

bare == <<"vigormortis", "imp", "baron", "marionette", "drunk", "monk">>

SomeLists == {full, short, bare}

TeamOf ==
    [c \in UNION Scripts |->
        CASE c \in {"imp", "lilmonsta", "fanggu", "vigormortis"} -> "demon"
          [] c \in {"poisoner", "baron", "godfather", "marionette"} -> "minion"
          [] c \in {"drunk", "damsel", "klutz"} -> "outsider"
          [] OTHER -> "townsfolk"]

FewPlayers == {5, 6, 7, 10}
=============================================================================

----------------------------- MODULE MCWebServer -----------------------------
EXTENDS WebServer, TLC

MCTypes ==
  [flag |-> [kind |-> "bool"],
   text |-> [kind |-> "string", min |-> 0, max |-> 2],
   num  |-> [kind |-> "int", min |-> -1, max |-> 12],
   sel  |-> [kind |-> "enum", values |-> {<<"1">>, <<"x", "y">>}]]

MCDefSets ==
  { << [name |-> "A", ty |-> "flag", value |-> <<"f", "f">>],
       [name |-> "B", ty |-> "text", value |-> <<"1">>] >>,
    << [name |-> "C", ty |-> "num", value |-> <<"1", "2">>] >>,
    << [name |-> "D", ty |-> "sel", value |-> <<"x", "y">>] >>,
    << >> }

MCInputs == { <<>>, <<"1", "nl">>, <<"-", "0">>, <<"x", "sp">> }
=============================================================================

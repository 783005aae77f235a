------------------------------- MODULE MCDesk -------------------------------
EXTENDS Desk

MCCompanies == {"a", "b", "c", "r"}
MCShipments == [c \in MCCompanies |-> CASE c = "a" -> 9 [] c = "b" -> 5 [] c = "c" -> 2 [] OTHER -> 7]

(* Two pages that advance, the second with a row it repeats; a cursor that   *)
(* says there is more and stays where it is; an endless search.             *)
MCTradeAnswers ==
    {[o \in {0} |-> [rows |-> <<"a", "r">>, more |-> TRUE, next |-> 0]],
     [o \in {0, 1} |-> IF o = 0 THEN [rows |-> <<"a", "r", "b">>, more |-> TRUE, next |-> 1]
                       ELSE [rows |-> <<"b", "c", "c">>, more |-> FALSE, next |-> 2]],
     [o \in 0..9 |-> [rows |-> <<"b">>, more |-> TRUE, next |-> (o + 1) % 10]]}
=============================================================================

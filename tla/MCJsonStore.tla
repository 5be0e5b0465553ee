---------------------------- MODULE MCJsonStore ----------------------------
(* The root has an object of key a, with a number of key b, and a boolean of
   key b; a second object of key a and a double of key b can be added.
   So keys are found twice, and missing ones are passed over on the way to
   another item; setting an object renames it. *)
EXTENDS JsonStore
CONSTANTS root, first, second, number, double, flag
MCItem == {root, first, second, number, double, flag}
MCType == [i \in MCItem |->
  IF i = number THEN "NUMBER" ELSE IF i = double THEN "DOUBLE"
  ELSE IF i = flag THEN "BOOL" ELSE "OBJECT"]
MCKey == {"a", "b", "true"}
MCText == {"0", "7", "b", "true"}
MCFirstKey == [i \in MCItem |-> IF i \in {number, double, flag} THEN "b" ELSE "a"]
MCFirstValue == [i \in MCItem |->
  IF i = number THEN 1 ELSE IF i = double THEN 15 ELSE IF i = flag THEN FALSE ELSE 0]
MCFirstItems == [o \in {root, first, second} |->
  IF o = root THEN <<first, flag>> ELSE IF o = first THEN <<number>> ELSE <<>>]
MCDigits == {"0", "7"}
MCToInteger == [t \in MCDigits |-> IF t = "7" THEN 7 ELSE 0]
MCToDouble == [t \in MCText |-> IF t = "7" THEN 70 ELSE 0]
MCPath == {<<"a">>, <<"b">>, <<"a", "b">>, <<"a", "a">>, <<"a", "a", "b">>}
=============================================================================

----------------------------- MODULE DrawAppMC -----------------------------
(* A page of two columns and a file that holds a diagram.                  *)
EXTENDS DrawApp, DrawScript, AppFiles

CONSTANTS cat, dog, plain, f1

OneFile  == {f1}
TwoColumns == 1 .. 2

(* A box and an image on it, joined by a connector.                        *)
Diagram ==
    LET first  == [NewBox(1, plain) EXCEPT !.rank = 1]
        second == [NewImage(2, plain, 1) EXCEPT !.rank = 2]
        pair   == [i \in 1 .. 2 |-> IF i = 1 THEN first ELSE second]
        line   == [NewConnector(pair, 1, 2, 1, plain) EXCEPT !.rank = 3]
    IN  [shapes |-> With(pair, 3, line), images |-> <<[id |-> 1, pic |-> cat]>>]
DiagramOnDisk == [f \in OneFile |-> Diagram]
=============================================================================

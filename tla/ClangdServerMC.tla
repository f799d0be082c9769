--------------------------- MODULE ClangdServerMC ---------------------------
(* Two questions about a line that is sent twice, first with characters of *)
(* two bytes and one, then with one of four bytes and two UTF-16 units.    *)
EXTENDS ClangdServer, Json

CONSTANTS q1, q2
TwoQuestions == {q1, q2}
TwoTexts == << <<2, 1>>, <<4>> >>
=============================================================================

--------------------------- MODULE LanguagePromise ---------------------------
(* What clangd_server promises an editor that asks about a text it keeps   *)
(* changing: a question is answered at most once, with nothing, or with an *)
(* answer to that question, about a text no older than the one it was      *)
(* asked of, and, if that is the same text, about the very place.          *)
EXTENDS Naturals

CONSTANTS Questions, Texts, Places, NotAsked, NoAnswer, Nothing

VARIABLES asked,    \* [Questions -> NotAsked or the text and place asked of]
          answers   \* [Questions -> NoAnswer, Nothing or an answer]

Init == asked = [q \in Questions |-> NotAsked] /\ answers = [q \in Questions |-> NoAnswer]

Ask(q) ==
    /\ asked[q] = NotAsked
    /\ \E t \in Texts, p \in Places : asked' = [asked EXCEPT ![q] = [text |-> t, at |-> p]]
    /\ UNCHANGED answers

Answers(q) ==
    {a \in [of : {q}, text : Texts, at : Places] :
        /\ a.text >= asked[q].text
        /\ a.text = asked[q].text => a.at = asked[q].at}

Answer(q) ==
    /\ asked[q] # NotAsked /\ answers[q] = NoAnswer
    /\ \E a \in Answers(q) \cup {Nothing} : answers' = [answers EXCEPT ![q] = a]
    /\ UNCHANGED asked

Next == \E q \in Questions : Ask(q) \/ Answer(q)
Spec == Init /\ [][Next]_<<asked, answers>>
=============================================================================

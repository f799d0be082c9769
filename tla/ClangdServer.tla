---------------------------- MODULE ClangdServer ----------------------------
(* clangd_server (clangdserver/app/src/main.cpp) and an editor: messages   *)
(* wait in the server's port, its looper opens and closes sessions and     *)
(* passes the texts on, a worker thread asks each question, and the reader *)
(* thread publishes diagnostics.  The editor behaves as client.cpp does:   *)
(* it ends a session once it has every answer, and may do so twice.        *)
EXTENDS ClangdSession

CONSTANTS MaxSessions,  \* sessions the editor opens: a bound
          AsksAfter,    \* characters before the place of a question
          PortRoom      \* messages the server's port holds

VARIABLES inbox,     \* the server's port
          looper,    \* what the looper is in the middle of
          session,   \* the token of the open session, 0 for none
          fNextToken,
          docText,   \* docTexts: the version remembered, 0 for none
          freed,     \* the remembered text is freed and still listed
          editor,    \* the editor: "out" of, "opening" or "in" a session, or it has "ended" one
          version,   \* the version it sent last
          open,      \* it has the document open
          asked, answers,
          shown      \* the last diagnostics it was pushed are where they belong

serverVars == <<inbox, looper, session, fNextToken, docText, freed>>
editorVars == <<editor, version, open, asked>>
vars == <<sessionVars, serverVars, editorVars, answers, shown>>


Init ==
    /\ child = "none" /\ fLock = NoOne /\ fNextId = 0 /\ fReplies = {} /\ fReaderGone = TRUE
    /\ toClangd = <<>> /\ fromClangd = <<>>
    /\ at = [t \in Threads |-> "off"] /\ id = [t \in Threads |-> 0]
    /\ out = [t \in Threads |-> Note(t, "close", 0)] /\ got = [t \in Threads |-> NoAnswer]
    /\ known = 0 /\ thinking = {} /\ due = FALSE
    /\ inbox = <<>> /\ looper = "idle"
    /\ session = 0 /\ fNextToken = 0 /\ docText = 0 /\ freed = FALSE
    /\ editor = "out" /\ version = 0 /\ open = FALSE
    /\ asked = [q \in Questions |-> NotAsked] /\ answers = [q \in Questions |-> NoAnswer]
    /\ shown = TRUE

-----------------------------------------------------------------------------
(* The editor.  The token it sends is that of the session it is in.        *)
Posts(what, text, q) ==
    /\ Len(inbox) < PortRoom
    /\ inbox' = Append(inbox, [what |-> what, token |-> fNextToken, text |-> text, q |-> q])
OnlyPosts == UNCHANGED <<sessionVars, looper, session, fNextToken, docText, freed,
                         answers, shown>>

EditorStarts ==
    /\ editor \in {"out", "ended"} /\ fNextToken < MaxSessions
    /\ editor' = "opening" /\ Posts("session", 0, Looper)
    /\ OnlyPosts /\ UNCHANGED <<version, open, asked>>
EditorSends ==
    /\ editor = "in" /\ version < Len(Lines)
    /\ version' = version + 1 /\ open' = TRUE
    /\ Posts(IF open THEN "change" ELSE "open", version', Looper)
    /\ OnlyPosts /\ UNCHANGED <<editor, asked>>
EditorCloses ==
    /\ editor = "in" /\ open
    /\ open' = FALSE /\ Posts("close", 0, Looper)
    /\ OnlyPosts /\ UNCHANGED <<editor, version, asked>>
EditorAsks ==
    /\ editor = "in" /\ open
    /\ \E q \in Questions : asked[q] = NotAsked
    /\ LET q == CHOOSE q \in Questions : asked[q] = NotAsked IN
         /\ \E i \in AsksAfter \cap 0 .. Len(Line(version)) :
              asked' = [asked EXCEPT ![q] = [text |-> version, at |-> Bytes(Line(version), i)]]
         /\ Posts("ask", version, q)
    /\ OnlyPosts /\ UNCHANGED <<editor, version, open>>
EditorEnds ==
    /\ \/ editor = "in" /\ \A q \in Questions : asked[q] # NotAsked => answers[q] # NoAnswer
       \/ editor = "ended"
    /\ editor' = (IF editor = "in" THEN "ended" ELSE "out") /\ open' = FALSE
    /\ Posts("end", 0, Looper)
    /\ OnlyPosts /\ UNCHANGED <<version, asked>>

-----------------------------------------------------------------------------
(* The looper.  Next(what) takes a message of that kind off the port.      *)
Takes(what) ==
    /\ looper = "idle" /\ inbox # <<>> /\ Head(inbox).what = what
    /\ inbox' = Tail(inbox)
Known == Head(inbox).token = session

(* NewSession(): clangd is started and greeted on the looper's own thread, *)
(* or there is none to start.  A session numbers its requests from one;    *)
(* the numbers run on here, as no reply of an earlier session comes later. *)
OpensSession ==
    /\ Takes("session")
    /\ \/ /\ fNextToken' = fNextToken + 1 /\ child' = "alive" /\ fReaderGone' = FALSE /\ fReplies' = {}
          /\ toClangd' = <<>> /\ fromClangd' = <<>> /\ known' = 0 /\ thinking' = {} /\ due' = FALSE
          /\ looper' = "starting" /\ Request(Looper, Note(Looper, "initialize", 0))
          /\ UNCHANGED <<fLock, fNextId, editor>>
       \/ /\ fNextToken' \in fNextToken .. fNextToken + 1 /\ editor' = "out" /\ UNCHANGED <<sessionVars, looper>>
    /\ UNCHANGED <<session, docText, freed, version, open, asked, answers, shown>>
Greets ==
    /\ looper = "starting" /\ at[Looper] = "done" /\ got[Looper] # Nothing
    /\ looper' = "greeting" /\ Notify(Looper, Note(Looper, "initialized", 0))
    /\ UNCHANGED <<child, fLock, fNextId, fReplies, fReaderGone, pipes, clangdVars,
                   inbox, session, fNextToken, docText, freed,
                   editorVars, answers, shown>>
OnlyLooper == UNCHANGED <<child, fLock, fNextId, fReplies, fReaderGone, pipes,
                          clangdVars, fNextToken, version, open, asked, answers, shown>>
SessionOpens ==
    /\ looper = "greeting" /\ at[Looper] = "done"
    /\ looper' = "idle" /\ Returns(Looper, "off") /\ session' = fNextToken /\ editor' = "in"
    /\ OnlyLooper /\ UNCHANGED <<inbox, docText, freed>>
StartFails ==
    /\ looper = "starting" /\ at[Looper] = "done" /\ got[Looper] = Nothing
    /\ looper' = "killing" /\ Returns(Looper, "off")
    /\ OnlyLooper /\ UNCHANGED <<inbox, session, docText, freed, editor>>

(* A message of a session that is not open.                                *)
UnknownSession ==
    /\ looper = "idle" /\ inbox # <<>> /\ Head(inbox).what # "session" /\ ~Known
    /\ inbox' = Tail(inbox)
    /\ UNCHANGED <<callVars, looper, session, docText, freed, editor>> /\ OnlyLooper

PassesOn ==
    /\ \E what \in {"open", "change", "close"} :
         /\ Takes(what) /\ Known
         /\ Notify(Looper, Note(Looper, what, Head(inbox).text))
    /\ looper' = "passing"
    /\ UNCHANGED <<child, fLock, fNextId, fReplies, fReaderGone, pipes, clangdVars, session,
                   fNextToken, docText, freed, editorVars, answers, shown>>
(* RememberText() or ForgetText(), after the frame is in the pipe.         *)
RemembersClosed ==
    /\ looper = "passing" /\ at[Looper] = "done"
    /\ docText' = (IF out[Looper].text = 0 THEN docText ELSE out[Looper].text)
    /\ looper' = "idle" /\ Returns(Looper, "off")
    /\ OnlyLooper /\ UNCHANGED <<inbox, session, freed, editor>>
Remembers ==
    /\ looper = "passing" /\ at[Looper] = "done"
    /\ docText' = out[Looper].text /\ looper' = "idle" /\ Returns(Looper, "off")
    /\ OnlyLooper /\ UNCHANGED <<inbox, session, freed, editor>>

(* A thread for a question, which may not be had: nobody is told.          *)
StartsWorker ==
    /\ Takes("ask") /\ Known
    /\ Go(Head(inbox).q, "look") \/ UNCHANGED at
    /\ OnlyLooper /\ UNCHANGED <<id, out, got, looper, session, docText, freed, editor>>

(* LSP_END: the texts are freed, clangd is killed, the reader awaited.     *)
EndsSession ==
    /\ Takes("end") /\ Known
    /\ looper' = "killing" /\ freed' = TRUE
    /\ UNCHANGED <<callVars, session, docText, editor>> /\ OnlyLooper
Kills ==
    /\ looper = "killing" /\ child' = "dead" /\ looper' = "joining"
    /\ UNCHANGED <<fLock, fNextId, fReplies, fReaderGone, pipes, callVars, clangdVars, inbox,
                   session, fNextToken, docText, freed, editorVars, answers, shown>>
Joins ==
    /\ looper = "joining" /\ fReaderGone
    /\ looper' = "idle" /\ child' = "none" /\ session' = 0 /\ docText' = 0 /\ freed' = FALSE
    /\ toClangd' = <<>> /\ fromClangd' = <<>> /\ fReplies' = {} /\ thinking' = {}
    /\ editor' = IF session = 0 THEN "out" ELSE editor
    /\ UNCHANGED <<fLock, fNextId, fReaderGone, callVars, known, due,
                   inbox, fNextToken, version, open, asked, answers, shown>>

-----------------------------------------------------------------------------
(* The workers and the notifier.                                           *)
Looks(q) ==
    /\ at[q] = "look"
    /\ Request(q, [Note(q, "ask", 0) EXCEPT !.col = Utf16FromByte(Line(docText), asked[q].at)])
    /\ UNCHANGED <<child, fLock, fNextId, fReplies, fReaderGone, pipes, clangdVars,
                   serverVars, editorVars, answers, shown>>
Pushes(q) ==
    /\ at[q] = "done" /\ Returns(q, "over") /\ answers' = [answers EXCEPT ![q] = got[q]]
    /\ UNCHANGED <<child, fLock, fNextId, fReplies, fReaderGone, pipes, clangdVars,
                   serverVars, editorVars, shown>>

(* SessionNotify(): clangd's column is taken in the line LineOf() finds;   *)
(* freed text may read as any.  A diagnostic is at the end of its line.    *)
Publishes ==
    /\ Arrives("publish") /\ Reads
    /\ \E v \in Versions :
         LET own == Line(Head(fromClangd).id)
             found == IF freed THEN Line(v) ELSE Line(docText)
         IN shown' = (ByteFromUtf16(found, Units(own, Len(own))) = Bytes(own, Len(own)))
    /\ UNCHANGED <<serverVars, editorVars, answers>>

Editor == EditorStarts \/ EditorSends \/ EditorCloses \/ EditorAsks \/ EditorEnds
LooperStep ==
    \/ OpensSession \/ Greets \/ SessionOpens \/ StartFails \/ UnknownSession
    \/ PassesOn \/ Remembers \/ StartsWorker \/ EndsSession \/ Kills \/ Joins
InSession == UNCHANGED <<serverVars, editorVars, answers, shown>>
WorkerStep(q) == Looks(q) \/ Pushes(q)
Reader ==
    Publishes \/ (InSession /\ (Delivers \/ ReaderEnds))
Clangd == InSession /\ (ClangdTakes \/ ClangdAnswers \/ ClangdPublishes \/ ClangdDies)
Calls(t) == InSession /\ Caller(t)

Next ==
    \/ Editor \/ LooperStep \/ Reader \/ Clangd
    \/ \E q \in Questions : WorkerStep(q)
    \/ \E t \in Threads : Calls(t)

Spec == Init /\ [][Next]_vars

-----------------------------------------------------------------------------
(* Properties.                                                             *)

(* Every variable holds what the code keeps in it; whoever holds the lock  *)
(* is the one thread that writes, and ids are not yet to come.             *)
Answers == [of : Threads, text : Versions, at : Nat] \cup {Nothing}
Frames == [kind : Kinds, of : Threads, id : Nat, text : Versions, col : Nat]
TypeOK ==
    /\ child \in {"none", "alive", "dead"} /\ fReaderGone \in BOOLEAN
    /\ fLock \in Threads \cup {NoOne} /\ \A t \in Threads : fLock = t <=> at[t] = "write"
    /\ fNextId \in Nat /\ fReplies \subseteq [id : Nat, answer : Answers]
    /\ toClangd \in Seq(Frames) /\ Len(toClangd) <= PipeRoom
    /\ fromClangd \in Seq([kind : {"reply", "publish"}, id : Nat, answer : Answers])
    /\ Len(fromClangd) <= PipeRoom
    /\ at \in [Threads -> {"off", "look", "id", "send", "write", "wait", "done", "over"}]
    /\ id \in [Threads -> Nat] /\ got \in [Threads -> Answers \cup {NoAnswer}]
    /\ out \in [Threads -> [kind : Kinds, of : Threads, text : Versions, col : Nat]]
    /\ known \in Versions /\ thinking \subseteq Frames /\ due \in BOOLEAN
    /\ inbox \in Seq([what : {"session", "open", "change", "close", "ask", "end"},
                      token : Nat, text : Versions, q : Threads])
    /\ looper \in {"idle", "starting", "greeting", "passing", "killing", "joining"}
    /\ session \in Nat /\ fNextToken \in Nat /\ docText \in Versions /\ freed \in BOOLEAN
    /\ editor \in {"out", "opening", "in", "ended"} /\ version \in Versions /\ open \in BOOLEAN
    /\ asked \in [Questions -> [text : Versions, at : Nat] \cup {NotAsked}]
    /\ answers \in [Questions -> Answers \cup {NoAnswer}] /\ shown \in BOOLEAN

(* A worker pushes the answer to its own question, whatever replies come   *)
(* late, come for others, or were never waited for (Request(), Deliver()). *)
OwnAnswers ==
    \A q \in Questions : answers[q] \notin {NoAnswer, Nothing} => answers[q].of = q

(* Why: a number is issued once, and whatever carries it to clangd, back,  *)
(* or waits in the table, is of the thread that still asks under it.       *)
Asking(t) == at[t] \in {"send", "write", "wait"} /\ IsRequest(out[t])
BelongsTo(number, owners) ==
    number <= fNextId /\ \A t \in Threads : Asking(t) /\ id[t] = number => t \in owners
Owners(a) == {t \in Threads : a = Nothing \/ a.of = t}
ThreadsMatch ==
    \A t \in Threads : /\ out[t].of = t /\ id[t] <= fNextId
                       /\ Asking(t) => BelongsTo(id[t], {t})
                       /\ at[t] = "wait" => IsRequest(out[t])
SentMatch ==
    \A i \in 1 .. Len(toClangd) :
        IsRequest(toClangd[i]) => BelongsTo(toClangd[i].id, {toClangd[i].of})
ThinkingMatch == \A f \in thinking : BelongsTo(f.id, {f.of})
SaidMatch ==
    \A i \in 1 .. Len(fromClangd) : fromClangd[i].kind = "reply" =>
        BelongsTo(fromClangd[i].id, Owners(fromClangd[i].answer))
KeptMatch == \A r \in fReplies : BelongsTo(r.id, Owners(r.answer))
NumbersMatch == ThreadsMatch /\ SentMatch /\ ThinkingMatch /\ SaidMatch /\ KeptMatch
GotOwn ==
    \A t \in Threads : at[t] = "done" /\ got[t] \notin {NoAnswer, Nothing} => got[t].of = t
(* A thread is where a message finds it: a question waits in the port once *)
(* and before its worker begins, and the looper is in no call when it      *)
(* takes a message.                                                        *)
Waiting == {i \in 1 .. Len(inbox) : inbox[i].what = "ask"}
Ready ==
    /\ looper \in {"idle", "killing", "joining"} => at[Looper] = "off"
    /\ \A q \in Questions : at[q] # "off" => asked[q] # NotAsked
    /\ \A i \in Waiting : /\ inbox[i].q \in Questions
                         /\ at[inbox[i].q] = "off" /\ asked[inbox[i].q] # NotAsked
    /\ \A i, j \in Waiting : inbox[i].q = inbox[j].q => i = j
IInv == TypeOK /\ Ready /\ NumbersMatch /\ GotOwn /\ OwnAnswers

(* The protocol in main.cpp's head, under edits that race the worker and   *)
(* the reader: LanguagePromise.                                            *)
Places == UNION {{Bytes(Line(v), i) : i \in 0 .. Len(Line(v))} : v \in Versions}
Promise == INSTANCE LanguagePromise WITH Texts <- Versions
KeepsPromise == Promise!Spec

(* Once nothing is on its way, clangd, the server's copy for columns and   *)
(* the editor have the same text, whatever opened, changed and closed it.  *)
TextsAgree ==
    session # 0 /\ looper = "idle" /\ inbox = <<>> /\ toClangd = <<>> /\ child = "alive"
        => known = docText /\ (editor = "in" => docText = IF open THEN version ELSE 0)

=============================================================================

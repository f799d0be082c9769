------------------------ MODULE ClangdServer_proofs ------------------------
(* Proofs about clangd_server, for any questions, texts and bounds: its    *)
(* types, that an answer is of its own question, that a column at a        *)
(* character's edge survives the way to clangd's units and back, that the  *)
(* texts agree, and that LanguagePromise is kept.                          *)
EXTENDS ClangdServer, Integers, FiniteSetTheorems, TLAPS

-----------------------------------------------------------------------------
(* Columns are numbers.                                                    *)
LEMMA Interval == ASSUME NEW n \in Nat PROVE IsFiniteSet(1 .. n) /\ Cardinality(1 .. n) = n
<1>1. 1 \in Int /\ n \in Int
  OBVIOUS
<1>2. /\ IsFiniteSet(1 .. n)
      /\ Cardinality(1 .. n) = IF 1 > n THEN 0 ELSE n - 1 + 1
  BY <1>1, FS_Interval, Zenon
<1> QED
  BY <1>2

(* Bytes are counted in numbers,                                           *)
LEMMA BytesNat == ASSUME NEW line, NEW n \in Nat PROVE Bytes(line, n) \in Nat
<1>1. IsFiniteSet(1 .. n) /\ IsFiniteSet(1 .. 4)
  BY Interval
<1>2. IsFiniteSet((1 .. n) \X (1 .. 4))
  BY <1>1, FS_Product
<1> QED
  BY <1>2, FS_Subset, FS_CardinalityType DEF Bytes

(* and so are UTF-16 units,                                                *)
LEMMA UnitsNat == ASSUME NEW line, NEW n \in Nat PROVE Units(line, n) \in Nat
<1>1. IsFiniteSet(1 .. n)
  BY Interval
<1>2. Cardinality({i \in 1 .. n : line[i] = 4}) \in Nat
  BY <1>1, FS_Subset, FS_CardinalityType
<1> QED
  BY <1>2 DEF Units

(* so that a column converts to a column.                                  *)
LEMMA ColumnsNat ==
  ASSUME NEW line, Len(line) \in Nat, NEW col
  PROVE  Utf16FromByte(line, col) \in Nat /\ ByteFromUtf16(line, col) \in Nat
<1>1. IsFiniteSet(1 .. Len(line))
  BY Interval
<1>2. Cardinality({n \in 1 .. Len(line) : Bytes(line, n) <= col}) \in Nat
  BY <1>1, FS_Subset, FS_CardinalityType
<1>3. Cardinality({n \in 1 .. Len(line) : Units(line, n - 1) < col}) \in Nat
  BY <1>1, FS_Subset, FS_CardinalityType
<1> QED
  BY <1>2, <1>3, BytesNat, UnitsNat DEF Utf16FromByte, ByteFromUtf16

(* Every version of the document is a line with a length.                  *)
LEMMA LineSeq == ASSUME NEW v \in Versions PROVE Line(v) \in Seq(1 .. 4) /\ Len(Line(v)) \in Nat
BY SessionAssumption DEF Line, Versions

-----------------------------------------------------------------------------
(* Types, actor by actor.                                                  *)
LEMMA HeadIn ==
  ASSUME NEW S, NEW s \in Seq(S), s # <<>>
  PROVE  /\ Head(s) \in S /\ Tail(s) \in Seq(S) /\ Len(s) \in Nat \ {0} /\ Len(Tail(s)) = Len(s) - 1
         /\ s[1] = Head(s) /\ \A i \in 1 .. Len(s) - 1 : Tail(s)[i] = s[i + 1]
OBVIOUS

(* What stands in a sequence over S is in S.                               *)
LEMMA IndexIn == ASSUME NEW S, NEW s \in Seq(S), NEW i \in 1 .. Len(s) PROVE s[i] \in S
OBVIOUS

(* LspSession and ServerApp start with what TypeOK says.                   *)
LEMMA TypeInit == Init => TypeOK
<1> SUFFICES ASSUME Init PROVE TypeOK
  OBVIOUS
<1>1. 0 \in Versions /\ Looper \in Threads /\ Questions \subseteq Threads
  BY SessionAssumption DEF Versions, Threads
<1>2. out \in [Threads -> [kind : Kinds, of : Threads, text : Versions, col : Nat]]
  <2>1. \A t \in Threads : Note(t, "close", 0) \in [kind : Kinds, of : Threads, text : Versions, col : Nat]
    BY <1>1 DEF Note, Kinds
  <2> QED
    BY <2>1 DEF Init
<1>3. got \in [Threads -> Answers \cup {NoAnswer}] /\ answers \in [Questions -> Answers \cup {NoAnswer}]
  BY DEF Init
<1>4. /\ asked \in [Questions -> [text : Versions, at : Nat] \cup {NotAsked}]
      /\ id \in [Threads -> Nat]
      /\ at \in [Threads -> {"off", "look", "id", "send", "write", "wait", "done", "over"}]
  BY DEF Init
<1>5. \A t \in Threads : fLock = t <=> at[t] = "write"
  BY SessionAssumption DEF Init
<1>6. /\ toClangd \in Seq(Frames) /\ inbox \in Seq([what : {"session", "open", "change", "close", "ask", "end"},
                      token : Nat, text : Versions, q : Threads])
      /\ fromClangd \in Seq([kind : {"reply", "publish"}, id : Nat, answer : Answers])
      /\ Len(toClangd) <= PipeRoom /\ Len(fromClangd) <= PipeRoom
  BY SessionAssumption DEF Init
<1> QED
  BY <1>1, <1>2, <1>3, <1>4, <1>5, <1>6 DEF Init, TypeOK

(* Request() and Notify() keep the types, whoever calls them.              *)
LEMMA CallerType ==
  ASSUME TypeOK, NEW t \in Threads, Calls(t)
  PROVE  TypeOK'
<1> USE SessionAssumption DEF TypeOK, Calls, InSession, serverVars, editorVars, pipes, clangdVars, callVars, Go, Ends
<1>1. CASE TakesId(t)
  BY SMTT(60), <1>1 DEF TakesId
<1>2. CASE Locks(t)
  BY <1>2 DEF Locks, Threads
<1>3. CASE Writes(t)
  <2>1. Framed(t) \in Frames
    BY DEF Framed, Frames
  <2>2. toClangd' \in Seq(Frames) /\ Len(toClangd') <= PipeRoom
    BY <1>3, <2>1 DEF Writes
  <2> QED
    BY ZenonT(90), <1>3, <2>2 DEF Writes, Threads
<1>4. CASE WriteFails(t)
  BY <1>4 DEF WriteFails, Threads, Answers
<1>5. CASE Finds(t)
  BY <1>5 DEF Finds, Mine
<1>6. CASE GivesUp(t)
  BY SMTT(30), <1>6 DEF GivesUp, Answers
<1> QED
  BY <1>1, <1>2, <1>3, <1>4, <1>5, <1>6 DEF Caller

(* The reader thread keeps them, in PumpReader() and Deliver().            *)
LEMMA ReaderType == ASSUME TypeOK, Reader PROVE TypeOK'
<1> USE SessionAssumption DEF TypeOK, InSession, serverVars, editorVars, pipes, clangdVars, callVars, Arrives
<1>1. CASE Publishes
  <2>1. shown' \in BOOLEAN
    BY <1>1, Zenon DEF Publishes
  <2>2. fromClangd' \in Seq([kind : {"reply", "publish"}, id : Nat, answer : Answers])
        /\ Len(fromClangd') <= PipeRoom
    BY <1>1 DEF Publishes, Reads
  <2> QED
    BY SMTT(30), <1>1, <2>1, <2>2 DEF Publishes, Reads
<1>2. CASE InSession /\ Delivers
  <2>1. Head(fromClangd) \in [kind : {"reply", "publish"}, id : Nat, answer : Answers]
    BY <1>2, HeadIn DEF Delivers
  <2>2. fReplies' \subseteq [id : Nat, answer : Answers]
    BY <1>2, <2>1 DEF Delivers
  <2>3. fromClangd' \in Seq([kind : {"reply", "publish"}, id : Nat, answer : Answers])
        /\ Len(fromClangd') <= PipeRoom
    BY <1>2 DEF Delivers
  <2> QED
    BY SMTT(60), <1>2, <2>2, <2>3 DEF Delivers
<1>3. CASE InSession /\ ReaderEnds
  BY <1>3 DEF ReaderEnds
<1> QED
  BY <1>1, <1>2, <1>3 DEF Reader

(* Whatever clangd reads, answers or leaves undone keeps them.             *)
LEMMA ClangdType == ASSUME TypeOK, Clangd PROVE TypeOK'
<1> USE SessionAssumption DEF TypeOK, InSession, serverVars, editorVars, pipes, clangdVars, callVars
<1>1. CASE InSession /\ ClangdTakes
  <2>1. Head(toClangd) \in Frames
    BY <1>1 DEF ClangdTakes
  <2>2. known' \in Versions
    BY <1>1, <2>1 DEF ClangdTakes, Frames
  <2>5. due' \in BOOLEAN
    BY <1>1, Zenon DEF ClangdTakes
  <2>3. thinking' \subseteq Frames
    <3>1. [Head(toClangd) EXCEPT !.text = known] \in Frames
      BY <2>1 DEF Frames
    <3> QED
      BY <1>1, <3>1 DEF ClangdTakes
  <2>4. toClangd' \in Seq(Frames) /\ Len(toClangd') <= PipeRoom
    BY <1>1 DEF ClangdTakes
  <2> QED
    BY <1>1, <2>2, <2>3, <2>4, <2>5 DEF ClangdTakes
<1>2. CASE InSession /\ ClangdAnswers
  <2>1. PICK f \in thinking :
          /\ Says([kind |-> "reply", id |-> f.id,
                   answer |-> IF f.kind = "ask" /\ f.text = 0 THEN Nothing ELSE Understood(f)])
          /\ thinking' = thinking \ {f}
    BY <1>2 DEF ClangdAnswers
  <2>2. Understood(f) \in Answers
    BY LineSeq, ColumnsNat DEF Understood, Answers, Frames
  <2>3. fromClangd' \in Seq([kind : {"reply", "publish"}, id : Nat, answer : Answers])
        /\ Len(fromClangd') <= PipeRoom
    BY <2>1, <2>2 DEF Says, Frames, Answers
  <2> QED
    BY SMTT(30), <1>2, <2>1, <2>3 DEF ClangdAnswers
<1>3. CASE InSession /\ ClangdPublishes
  <2>1. fromClangd' \in Seq([kind : {"reply", "publish"}, id : Nat, answer : Answers])
        /\ Len(fromClangd') <= PipeRoom
    BY <1>3 DEF ClangdPublishes, Says, Answers, Versions
  <2> QED
    BY ZenonT(40), <1>3, <2>1 DEF ClangdPublishes
<1>4. CASE InSession /\ ClangdDies
  BY <1>4 DEF ClangdDies
<1> QED
  BY <1>1, <1>2, <1>3, <1>4 DEF Clangd

(* The editor's messages are what the server's port may hold.              *)
LEMMA EditorType == ASSUME TypeOK, Editor PROVE TypeOK'
<1> USE SessionAssumption DEF TypeOK, OnlyPosts, sessionVars, pipes, clangdVars, callVars, Posts
<1>1. CASE EditorStarts
  BY SMTT(30), <1>1 DEF EditorStarts, Threads, Versions
<1>2. CASE EditorSends
  <2>1. version + 1 \in Versions
    BY <1>2 DEF EditorSends, Versions
  <2>2. inbox' \in Seq([what : {"session", "open", "change", "close", "ask", "end"},
                       token : Nat, text : Versions, q : Threads])
    BY <1>2, <2>1 DEF EditorSends, Threads
  <2> QED
    BY SMTT(60), <1>2, <2>1, <2>2 DEF EditorSends
<1>3. CASE EditorCloses
  <2>1. inbox' \in Seq([what : {"session", "open", "change", "close", "ask", "end"},
                       token : Nat, text : Versions, q : Threads])
    BY <1>3 DEF EditorCloses, Threads, Versions
  <2> QED
    BY ZenonT(40), <1>3, <2>1 DEF EditorCloses
<1>4. CASE EditorAsks
  <2> DEFINE q == CHOOSE x \in Questions : asked[x] = NotAsked
  <2>1. q \in Questions
    BY <1>4 DEF EditorAsks
  <2>2. inbox' \in Seq([what : {"session", "open", "change", "close", "ask", "end"},
                       token : Nat, text : Versions, q : Threads])
    BY <1>4, <2>1 DEF EditorAsks, Threads
  <2>3. asked' \in [Questions -> [text : Versions, at : Nat] \cup {NotAsked}]
    BY <1>4, <2>1, BytesNat, LineSeq DEF EditorAsks
  <2> QED
    BY SMTT(30), <1>4, <2>2, <2>3 DEF EditorAsks
<1>5. CASE EditorEnds
  <2>1. inbox' \in Seq([what : {"session", "open", "change", "close", "ask", "end"},
                       token : Nat, text : Versions, q : Threads])
    BY <1>5 DEF EditorEnds, Threads, Versions
  <2>2. editor' \in {"out", "opening", "in", "ended"} /\ open' \in BOOLEAN
    BY <1>5 DEF EditorEnds
  <2> QED
    BY <1>5, <2>1, <2>2 DEF EditorEnds
<1> QED
  BY <1>1, <1>2, <1>3, <1>4, <1>5 DEF Editor

(* The looper's handlers keep them, for the messages that wait are Ready.  *)
LEMMA LooperType == ASSUME TypeOK, Ready, LooperStep PROVE TypeOK'
<1> USE SessionAssumption
    DEF TypeOK, sessionVars, pipes, clangdVars, callVars, editorVars, OnlyLooper, Takes, Go, Request, Notify, Returns
<1>1. /\ Looper \in Threads /\ 0 \in Versions
      /\ \A kind \in Kinds, v \in Versions :
           Note(Looper, kind, v) \in [kind : Kinds, of : Threads, text : Versions, col : Nat]
  BY DEF Threads, Versions, Note
<1>2. inbox # <<>> =>
        /\ Head(inbox) \in [what : {"session", "open", "change", "close", "ask", "end"},
                            token : Nat, text : Versions, q : Threads]
        /\ Tail(inbox) \in Seq([what : {"session", "open", "change", "close", "ask", "end"},
                               token : Nat, text : Versions, q : Threads])
  BY HeadIn
<1>3. CASE OpensSession
  <2>1. inbox' \in Seq([what : {"session", "open", "change", "close", "ask", "end"},
                        token : Nat, text : Versions, q : Threads])
    BY <1>2, <1>3 DEF OpensSession
  <2>2. at[Looper] = "off"
    BY <1>3 DEF OpensSession, Ready
  <2>3. fNextToken' \in Nat
    BY SMTT(60), <1>3 DEF OpensSession
  <2>4. CASE UNCHANGED <<sessionVars, looper>>
    BY <1>3, <2>1, <2>3, <2>4 DEF OpensSession
  <2>5. CASE looper' = "starting" /\ Request(Looper, Note(Looper, "initialize", 0))
    <3>1. "initialize" \in Kinds /\ NoOne \notin Threads
      BY DEF Kinds
    <3>2. fLock' = fLock /\ \A t \in Threads : fLock' = t <=> at'[t] = "write"
      BY <1>1, <1>3, <2>2, <2>5 DEF OpensSession
    <3>3. out' \in [Threads -> [kind : Kinds, of : Threads, text : Versions, col : Nat]]
      BY <1>1, <2>5, <3>1
    <3>4. at' \in [Threads -> {"off", "look", "id", "send", "write", "wait", "done", "over"}]
      BY <1>1, <2>5
    <3>5. child' \in {"none", "alive", "dead"} /\ fReaderGone' \in BOOLEAN /\ fReplies' = {}
          /\ toClangd' = <<>> /\ fromClangd' = <<>> /\ known' = 0 /\ thinking' = {} /\ due' = FALSE
          /\ UNCHANGED <<fLock, fNextId, editor>>
      BY <1>3, <2>2, <2>5 DEF OpensSession
    <3>6. toClangd' \in Seq(Frames) /\ Len(toClangd') <= PipeRoom
          /\ fromClangd' \in Seq([kind : {"reply", "publish"}, id : Nat, answer : Answers])
          /\ Len(fromClangd') <= PipeRoom
      BY <3>5
    <3>7. UNCHANGED <<id, got, session, docText, freed, version, open, asked, answers, shown>>
          /\ looper' \in {"idle", "starting", "greeting", "passing", "killing", "joining"}
      BY <1>3, <2>5 DEF OpensSession
    <3> QED
      BY <1>1, <2>1, <2>3, <3>2, <3>3, <3>4, <3>5, <3>6, <3>7
  <2> QED
    BY <1>3, <2>4, <2>5 DEF OpensSession
<1>4. CASE Greets
  BY <1>1, <1>4 DEF Greets, Kinds
<1>5. CASE SessionOpens
  BY SMTT(60), <1>1, <1>5 DEF SessionOpens, Kinds
<1>6. CASE StartFails
  BY <1>1, <1>6 DEF StartFails, Kinds
<1>7. CASE UnknownSession
  BY SMTT(30), <1>2, <1>7 DEF UnknownSession
<1>8. CASE PassesOn
  <2>1. inbox # <<>> /\ at[Looper] = "off"
    BY <1>8 DEF PassesOn, Ready
  <2>2. PICK what \in {"open", "change", "close"} :
          Takes(what) /\ Notify(Looper, Note(Looper, what, Head(inbox).text))
    BY <1>8 DEF PassesOn
  <2>3. Note(Looper, what, Head(inbox).text) \in [kind : Kinds, of : Threads, text : Versions, col : Nat]
    BY <1>1, <1>2, <2>1 DEF Kinds
  <2>4. out' \in [Threads -> [kind : Kinds, of : Threads, text : Versions, col : Nat]]
    BY <2>2, <2>3
  <2>5. at' \in [Threads -> {"off", "look", "id", "send", "write", "wait", "done", "over"}]
        /\ (\A t \in Threads : fLock' = t <=> at'[t] = "write")
    BY <1>1, <1>8, <2>1, <2>2 DEF PassesOn
  <2> QED
    BY SMTT(60), <1>2, <1>8, <2>1, <2>2, <2>4, <2>5 DEF PassesOn
<1>9. CASE Remembers
  BY SMTT(30), <1>1, <1>9 DEF Remembers, Kinds
<1>10. CASE StartsWorker
  <2>1. inbox # <<>> /\ Head(inbox).what = "ask" /\ inbox' = Tail(inbox)
    BY <1>10 DEF StartsWorker
  <2>2. at[Head(inbox).q] = "off"
    BY SMTT(60), <2>1, HeadIn DEF Ready, Waiting
  <2>3. at' \in [Threads -> {"off", "look", "id", "send", "write", "wait", "done", "over"}]
        /\ (\A t \in Threads : fLock' = t <=> at'[t] = "write")
    <3>1. Head(inbox).q \in Threads
      BY <1>2, <2>1
    <3>2. fLock' = fLock /\ (at' = [at EXCEPT ![Head(inbox).q] = "look"] \/ at' = at)
      BY <1>10 DEF StartsWorker
    <3> QED
      BY ZenonT(90), <2>2, <3>1, <3>2
  <2> QED
    BY SMTT(30), <1>2, <1>10, <2>1, <2>3 DEF StartsWorker
<1>11. CASE EndsSession
  BY SMTT(60), <1>2, <1>11 DEF EndsSession
<1>12. CASE Kills
  BY <1>12 DEF Kills
<1>13. CASE Joins
  <2>1. editor' \in {"out", "opening", "in", "ended"}
    BY <1>13 DEF Joins
  <2>2. toClangd' \in Seq(Frames) /\ Len(toClangd') <= PipeRoom
        /\ fromClangd' \in Seq([kind : {"reply", "publish"}, id : Nat, answer : Answers])
        /\ Len(fromClangd') <= PipeRoom
    BY <1>13 DEF Joins
  <2>3. UNCHANGED <<fLock, fNextId, fReaderGone, at, id, out, got, known, due, inbox,
                    fNextToken, version, open, asked, answers, shown>>
        /\ child' = "none" /\ fReplies' = {} /\ thinking' = {} /\ looper' = "idle"
        /\ session' = 0 /\ docText' = 0 /\ freed' = FALSE
    BY <1>13 DEF Joins
  <2> QED
    BY <1>1, <2>1, <2>2, <2>3
<1> QED
  BY <1>3, <1>4, <1>5, <1>6, <1>7, <1>8, <1>9, <1>10, <1>11, <1>12, <1>13 DEF LooperStep

(* A worker thread keeps them, from its question to its answer.            *)
LEMMA WorkerType == ASSUME TypeOK, NEW q \in Questions, WorkerStep(q) PROVE TypeOK'
<1> USE SessionAssumption
    DEF TypeOK, pipes, clangdVars, serverVars, editorVars, Go, Request, Returns
<1>1. CASE Looks(q)
  <2> DEFINE f == [Note(q, "ask", 0) EXCEPT !.col = Utf16FromByte(Line(docText), asked[q].at)]
  <2>1. Utf16FromByte(Line(docText), asked[q].at) \in Nat /\ q \in Threads /\ 0 \in Versions
    BY SMTT(60), ColumnsNat, LineSeq DEF Threads, Versions
  <2>2. f \in [kind : Kinds, of : Threads, text : Versions, col : Nat]
    BY <2>1 DEF Note, Kinds
  <2>3. out' = [out EXCEPT ![q] = f]
    BY <1>1 DEF Looks
  <2>4. out' \in [Threads -> [kind : Kinds, of : Threads, text : Versions, col : Nat]]
    BY <2>1, <2>2, <2>3
  <2>5. at' \in [Threads -> {"off", "look", "id", "send", "write", "wait", "done", "over"}]
        /\ (\A t \in Threads : fLock' = t <=> at'[t] = "write")
    BY <1>1, <2>1 DEF Looks
  <2> QED
    BY SMTT(30), <1>1, <2>4, <2>5 DEF Looks
<1>2. CASE Pushes(q)
  BY SMTT(30), <1>2 DEF Pushes, Note, Kinds, Threads, Versions
<1> QED
  BY <1>1, <1>2 DEF WorkerStep

-----------------------------------------------------------------------------
(* A question waits once and before its worker begins.                     *)
LEMMA ReadyTail ==
  ASSUME TypeOK, Ready, inbox # <<>>, inbox' = Tail(inbox), asked' = asked,
         \A q \in Questions : at'[q] = at[q] \/ (Head(inbox).what = "ask" /\ q = Head(inbox).q)
  PROVE  /\ \A i \in Waiting' : /\ inbox'[i].q \in Questions /\ at'[inbox'[i].q] = "off"
                                /\ asked'[inbox'[i].q] # NotAsked
         /\ \A i, j \in Waiting' : inbox'[i].q = inbox'[j].q => i = j
<1>1. /\ Len(inbox) \in Nat \ {0} /\ Len(inbox') = Len(inbox) - 1 /\ inbox[1] = Head(inbox)
      /\ \A i \in 1 .. Len(inbox) - 1 : inbox'[i] = inbox[i + 1]
  BY HeadIn DEF TypeOK
<1>2. \A i \in Waiting' : i \in Nat \ {0} /\ i + 1 \in Waiting /\ inbox'[i] = inbox[i + 1]
  BY <1>1 DEF Waiting
<1>3. Head(inbox).what = "ask" => 1 \in Waiting
  BY <1>1 DEF Waiting
<1>4. \A i \in Waiting' : ~(Head(inbox).what = "ask" /\ inbox'[i].q = Head(inbox).q)
  <2> SUFFICES ASSUME NEW i \in Waiting', Head(inbox).what = "ask", inbox[i + 1].q = inbox[1].q
               PROVE  FALSE
    BY <1>1, <1>2
  <2>1. i + 1 = 1
    BY <1>2, <1>3 DEF Ready
  <2> QED
    BY <1>2, <2>1
<1>5. ASSUME NEW i \in Waiting'
      PROVE  inbox'[i].q \in Questions /\ at'[inbox'[i].q] = "off" /\ asked'[inbox'[i].q] # NotAsked
  <2>1. i + 1 \in Waiting /\ inbox'[i].q = inbox[i + 1].q
    BY <1>2
  <2>2. inbox[i + 1].q \in Questions /\ at[inbox[i + 1].q] = "off" /\ asked[inbox[i + 1].q] # NotAsked
    BY <2>1 DEF Ready
  <2> QED
    BY <1>4, <2>1, <2>2
<1>6. ASSUME NEW i \in Waiting', NEW j \in Waiting', inbox'[i].q = inbox'[j].q
      PROVE  i = j
  <2>2. i + 1 \in Waiting /\ j + 1 \in Waiting /\ inbox[i + 1].q = inbox[j + 1].q
    BY <1>2, <1>6
  <2>1. i + 1 = j + 1
    BY <2>2 DEF Ready
  <2> QED
    BY <1>2, <2>1
<1> QED
  BY <1>5, <1>6

(* A message that asks nothing disturbs no question that waits.            *)
LEMMA ReadyAppend ==
  ASSUME TypeOK, Ready, NEW m, m.what # "ask", inbox' = Append(inbox, m), at' = at, asked' = asked
  PROVE  /\ \A i \in Waiting' : /\ inbox'[i].q \in Questions /\ at'[inbox'[i].q] = "off"
                                /\ asked'[inbox'[i].q] # NotAsked
         /\ \A i, j \in Waiting' : inbox'[i].q = inbox'[j].q => i = j
<1>1. /\ Len(inbox) \in Nat /\ Len(inbox') = Len(inbox) + 1 /\ inbox'[Len(inbox) + 1] = m
      /\ \A i \in 1 .. Len(inbox) : inbox'[i] = inbox[i]
  BY DEF TypeOK
<1>2. \A i \in Waiting' : i \in Waiting /\ inbox'[i] = inbox[i]
  BY <1>1 DEF Waiting
<1>3. ASSUME NEW i \in Waiting'
      PROVE  inbox'[i].q \in Questions /\ at'[inbox'[i].q] = "off" /\ asked'[inbox'[i].q] # NotAsked
  <2>1. i \in Waiting /\ inbox'[i] = inbox[i]
    BY <1>2
  <2>2. inbox[i].q \in Questions /\ at[inbox[i].q] = "off" /\ asked[inbox[i].q] # NotAsked
    BY <2>1 DEF Ready
  <2> QED
    BY <2>1, <2>2
<1>4. ASSUME NEW i \in Waiting', NEW j \in Waiting', inbox'[i].q = inbox'[j].q
      PROVE  i = j
  <2>1. i \in Waiting /\ j \in Waiting /\ inbox[i].q = inbox[j].q
    BY <1>2, <1>4
  <2> QED
    BY <2>1 DEF Ready
<1> QED
  BY <1>3, <1>4

(* A question waits in the port once, and only before its worker runs.     *)
LEMMA EditorReady == ASSUME TypeOK, Ready, Editor PROVE Ready'
<1>1. CASE EditorAsks
  <2> DEFINE q == CHOOSE x \in Questions : asked[x] = NotAsked
             m == [what |-> "ask", token |-> fNextToken, text |-> version, q |-> q]
  <2>1. /\ q \in Questions /\ asked[q] = NotAsked /\ inbox' = Append(inbox, m)
        /\ at' = at /\ looper' = looper /\ \A p \in Questions \ {q} : asked'[p] = asked[p]
    BY <1>1 DEF EditorAsks, Posts, OnlyPosts, sessionVars, callVars, TypeOK
  <2>2. asked'[q] # NotAsked
    <3>1. PICK i \in AsksAfter \cap (0 .. Len(Line(version))) :
            asked' = [asked EXCEPT ![q] = [text |-> version, at |-> Bytes(Line(version), i)]]
      BY <1>1 DEF EditorAsks
    <3>2. version \in Nat /\ Bytes(Line(version), i) \in Nat
      BY BytesNat, LineSeq DEF TypeOK, Versions
    <3> QED
      BY <2>1, <3>1, <3>2, SessionAssumption DEF TypeOK
  <2>3. /\ Len(inbox) \in Nat /\ Len(inbox') = Len(inbox) + 1 /\ inbox'[Len(inbox) + 1] = m
        /\ \A i \in 1 .. Len(inbox) : inbox'[i] = inbox[i]
    BY <2>1 DEF TypeOK
  <2>4. \A i \in Waiting' : i = Len(inbox) + 1 \/ (i \in Waiting /\ inbox'[i] = inbox[i])
    BY <2>3 DEF Waiting
  <2>5. at[q] = "off" /\ \A i \in Waiting : inbox[i].q # q
    BY <2>1 DEF Ready
  <2>6. m.q = q
    OBVIOUS
  <2> HIDE DEF q, m
  <2>7. \A i \in Waiting' : inbox'[i].q \in Questions /\ at'[inbox'[i].q] = "off" /\ asked'[inbox'[i].q] # NotAsked
    <3> TAKE i \in Waiting'
    <3>1. CASE i = Len(inbox) + 1
      BY <2>1, <2>2, <2>3, <2>5, <2>6, <3>1
    <3>2. CASE i \in Waiting /\ inbox'[i] = inbox[i]
      BY <2>1, <2>5, <3>2 DEF Ready
    <3> QED
      BY <2>4, <3>1, <3>2
  <2>8. \A i, j \in Waiting' : inbox'[i].q = inbox'[j].q => i = j
    BY <2>3, <2>4, <2>5, <2>6 DEF Ready
  <2> QED
    BY <2>1, <2>2, <2>7, <2>8 DEF Ready
<1>2. CASE EditorStarts \/ EditorSends \/ EditorCloses \/ EditorEnds
  <2>1. /\ at' = at /\ looper' = looper /\ asked' = asked
        /\ \E m : m.what # "ask" /\ inbox' = Append(inbox, m)
    BY <1>2 DEF EditorStarts, EditorSends, EditorCloses, EditorEnds, Posts, OnlyPosts, sessionVars, callVars
  <2> QED
    BY <2>1, ReadyAppend DEF Ready
<1> QED
  BY <1>1, <1>2 DEF Editor

(* The looper takes a question out before it starts its worker.            *)
LEMMA LooperReady == ASSUME TypeOK, Ready, LooperStep PROVE Ready'
<1> USE DEF Go, Request, Notify, Returns, OnlyLooper, callVars
<1>1. asked' = asked /\ Looper \in Threads /\ Looper \notin Questions
  BY SessionAssumption
  DEF LooperStep, OpensSession, Greets, SessionOpens, StartFails, UnknownSession, PassesOn, Remembers,
      StartsWorker, EndsSession, Kills, Joins, editorVars, Threads
<1>2. CASE StartsWorker
  <2>1. inbox # <<>> /\ Head(inbox).what = "ask" /\ inbox' = Tail(inbox) /\ looper' = looper
    BY <1>2 DEF StartsWorker, Takes
  <2>2. 1 \in Waiting /\ Head(inbox) = inbox[1]
    BY <2>1, HeadIn DEF Waiting, TypeOK
  <2>3. Head(inbox).q \in Questions /\ asked[Head(inbox).q] # NotAsked
    BY <2>2 DEF Ready
  <2>4. \A t \in Threads : at'[t] = at[t] \/ t = Head(inbox).q
    BY <1>2 DEF StartsWorker, TypeOK
  <2> QED
    BY <1>1, <2>1, <2>3, <2>4, ReadyTail DEF Ready, Threads
<1>7. /\ looper = "idle" => at[Looper] = "off"
      /\ at \in [Threads -> {"off", "look", "id", "send", "write", "wait", "done", "over"}]
      /\ Questions \subseteq Threads
  BY DEF Ready, TypeOK, Threads
<1>3. CASE inbox' = Tail(inbox) /\ inbox # <<>> /\ ~StartsWorker
  <2>1. /\ \A q \in Questions : at'[q] = at[q]
        /\ looper' \in {"idle", "killing", "joining"} => at'[Looper] = "off"
    <3>1. CASE OpensSession
      BY <1>1, <1>7, <3>1 DEF OpensSession, Takes, sessionVars
    <3>2. CASE Greets \/ SessionOpens \/ StartFails \/ Remembers
      BY <1>1, <1>7, <3>2 DEF Greets, SessionOpens, StartFails, Remembers
    <3>3. CASE UnknownSession \/ EndsSession
      BY <1>7, <3>3 DEF UnknownSession, EndsSession, Takes
    <3>4. CASE PassesOn
      BY <1>1, <1>7, <3>4 DEF PassesOn
    <3>5. CASE Kills \/ Joins
      BY <3>5 DEF Kills, Joins, Ready
    <3> QED
      BY <1>3, <3>1, <3>2, <3>3, <3>4, <3>5 DEF LooperStep
  <2> QED
    BY <1>1, <1>3, <2>1, ReadyTail DEF Ready
<1>4. CASE inbox' = inbox
  <2>1. ~StartsWorker \/ at' = at
    BY <1>4, HeadIn DEF StartsWorker, Takes, TypeOK
  <2>2. /\ \A q \in Questions : at'[q] = at[q]
        /\ looper' \in {"idle", "killing", "joining"} => at'[Looper] = "off"
    <3>1. CASE OpensSession
      BY <1>1, <1>7, <3>1 DEF OpensSession, Takes, sessionVars
    <3>2. CASE Greets \/ SessionOpens \/ StartFails \/ Remembers
      BY <1>1, <1>7, <3>2 DEF Greets, SessionOpens, StartFails, Remembers
    <3>3. CASE UnknownSession \/ EndsSession \/ StartsWorker
      BY <1>7, <2>1, <3>3 DEF UnknownSession, EndsSession, StartsWorker, Takes
    <3>4. CASE PassesOn
      BY <1>1, <1>7, <3>4 DEF PassesOn
    <3>5. CASE Kills \/ Joins
      BY <3>5 DEF Kills, Joins, Ready
    <3> QED
      BY <3>1, <3>2, <3>3, <3>4, <3>5 DEF LooperStep
  <2> QED
    BY <1>1, <1>4, <2>2 DEF Ready, Waiting
<1> QED
  BY <1>2, <1>3, <1>4
  DEF LooperStep, OpensSession, Greets, SessionOpens, StartFails, UnknownSession, PassesOn, Remembers,
      EndsSession, Kills, Joins, Takes

-----------------------------------------------------------------------------
(* Numbers.  A step is fair with them when a thread that asks after it     *)
(* asked before under the same number, or asks under a new one.            *)
Numbering ==
    /\ fNextId <= fNextId'
    /\ \A t \in Threads : Asking(t)' => (Asking(t) /\ id'[t] = id[t]) \/ id'[t] > fNextId

(* What belonged to its owners still does after such a step.               *)
LEMMA StillBelongs ==
  ASSUME TypeOK, TypeOK', Numbering, NEW n \in Nat, NEW S, BelongsTo(n, S)
  PROVE  BelongsTo(n, S)'
<1>1. n <= fNextId'
  BY DEF BelongsTo, TypeOK, Numbering
<1>2. ASSUME NEW t \in Threads, Asking(t)', id'[t] = n
      PROVE  t \in S
  <2>1. Asking(t) /\ id'[t] = id[t]
    BY SMTT(30), <1>2 DEF BelongsTo, TypeOK, Numbering
  <2> QED
    BY <1>2, <2>1 DEF BelongsTo
<1> QED
  BY <1>1, <1>2 DEF BelongsTo

(* A pipe matches when each of its frames was in it or matches by itself.  *)
SentFits(i) == IsRequest(toClangd[i]) => BelongsTo(toClangd[i].id, {toClangd[i].of})
(* The frames on their way to clangd still match after a step ...          *)
LEMMA SentStays ==
  ASSUME TypeOK, TypeOK', Numbering, SentMatch,
         \A i \in 1 .. Len(toClangd') :
           (\E j \in 1 .. Len(toClangd) : toClangd'[i] = toClangd[j]) \/ SentFits(i)'
  PROVE  SentMatch'
<1> SUFFICES ASSUME NEW i \in 1 .. Len(toClangd')
             PROVE  SentFits(i)'
  BY DEF SentMatch, SentFits
<1>1. ASSUME NEW j \in 1 .. Len(toClangd), toClangd'[i] = toClangd[j], IsRequest(toClangd[j])
      PROVE  SentFits(i)'
  <2>1. toClangd[j] \in Frames
    BY DEF TypeOK
  <2> DEFINE n == toClangd[j].id
             S == {toClangd[j].of}
  <2>2. n \in Nat /\ BelongsTo(n, S)
    BY <1>1, <2>1 DEF SentMatch, Frames
  <2>3. \A m \in Nat : \A R : BelongsTo(m, R) => BelongsTo(m, R)'
    BY StillBelongs
  <2> QED
    BY <1>1, <2>2, <2>3 DEF SentFits, BelongsTo
<1> QED
  BY <1>1 DEF SentFits
SaidFits(i) == fromClangd[i].kind = "reply" =>
    BelongsTo(fromClangd[i].id, Owners(fromClangd[i].answer))
(* ... and those on their way back,                                        *)
LEMMA SaidStays ==
  ASSUME TypeOK, TypeOK', Numbering, SaidMatch,
         \A i \in 1 .. Len(fromClangd') :
           (\E j \in 1 .. Len(fromClangd) : fromClangd'[i] = fromClangd[j]) \/ SaidFits(i)'
  PROVE  SaidMatch'
<1> SUFFICES ASSUME NEW i \in 1 .. Len(fromClangd')
             PROVE  SaidFits(i)'
  BY DEF SaidMatch, SaidFits
<1>1. ASSUME NEW j \in 1 .. Len(fromClangd), fromClangd'[i] = fromClangd[j], fromClangd[j].kind = "reply"
      PROVE  SaidFits(i)'
  <2>0. fromClangd \in Seq([kind : {"reply", "publish"}, id : Nat, answer : Answers])
    BY DEF TypeOK
  <2>1. fromClangd[j] \in [kind : {"reply", "publish"}, id : Nat, answer : Answers]
    BY <2>0, IndexIn
  <2> DEFINE n == fromClangd[j].id
             S == Owners(fromClangd[j].answer)
  <2>2. n \in Nat /\ BelongsTo(n, S)
    BY <1>1, <2>1 DEF SaidMatch
  <2>3. \A m \in Nat : \A R : BelongsTo(m, R) => BelongsTo(m, R)'
    BY StillBelongs
  <2> QED
    BY <1>1, <2>2, <2>3 DEF SaidFits, BelongsTo, Owners
<1> QED
  BY <1>1 DEF SaidFits

(* So does a set of them.                                                  *)
LEMMA ThinkingStays ==
  ASSUME TypeOK, TypeOK', Numbering, ThinkingMatch,
         \A f \in thinking' : f \in thinking \/ BelongsTo(f.id, {f.of})'
  PROVE  ThinkingMatch'
<1> SUFFICES ASSUME NEW f \in thinking', f \in thinking PROVE BelongsTo(f.id, {f.of})'
  BY DEF ThinkingMatch
<1>1. f.id \in Nat /\ BelongsTo(f.id, {f.of})
  BY DEF ThinkingMatch, TypeOK, Frames
<1>2. \A m \in Nat : \A R : BelongsTo(m, R) => BelongsTo(m, R)'
  BY StillBelongs
<1> QED
  BY <1>1, <1>2

(* ... and the replies Deliver() has put in fReplies.                      *)
LEMMA KeptStays ==
  ASSUME TypeOK, TypeOK', Numbering, KeptMatch,
         \A r \in fReplies' : r \in fReplies \/ BelongsTo(r.id, Owners(r.answer))'
  PROVE  KeptMatch'
<1> SUFFICES ASSUME NEW r \in fReplies', r \in fReplies PROVE BelongsTo(r.id, Owners(r.answer))'
  BY DEF KeptMatch
<1>1. r.id \in Nat /\ BelongsTo(r.id, Owners(r.answer))
  BY DEF KeptMatch, TypeOK
<1>2. \A m \in Nat : \A R : BelongsTo(m, R) => BelongsTo(m, R)'
  BY StillBelongs
<1> QED
  BY <1>1, <1>2

(* And the threads, when none begins to ask.                               *)
LEMMA ThreadsStay ==
  ASSUME TypeOK, TypeOK', ThreadsMatch, fNextId' = fNextId,
         \A t \in Threads :
           /\ Asking(t)' => Asking(t) /\ id'[t] = id[t]
           /\ out'[t].of = t /\ id'[t] \in {0, id[t]}
           /\ at'[t] = "wait" => IsRequest(out'[t])
  PROVE  ThreadsMatch' /\ Numbering
<1>1. Numbering
  BY DEF Numbering, TypeOK
<1>2. \A m \in Nat : \A R : BelongsTo(m, R) => BelongsTo(m, R)'
  BY <1>1, StillBelongs
<1>3. ASSUME NEW t \in Threads, Asking(t)' PROVE BelongsTo(id[t], {t})'
  <2>1. Asking(t) /\ id'[t] = id[t] /\ id[t] \in Nat
    BY <1>3 DEF TypeOK
  <2>2. BelongsTo(id[t], {t})
    BY <2>1 DEF ThreadsMatch
  <2> DEFINE n == id[t]
  <2>3. BelongsTo(n, {t})'
    BY <1>2, <2>1, <2>2
  <2> QED
    BY <2>1, <2>3 DEF BelongsTo
<1>4. ASSUME NEW t \in Threads PROVE id'[t] <= fNextId'
  <2>1. fNextId \in Nat /\ id'[t] \in {0, id[t]} /\ id[t] <= fNextId
    BY DEF ThreadsMatch, TypeOK
  <2> QED
    BY <2>1
<1> QED
  BY <1>1, <1>3, <1>4 DEF ThreadsMatch, IsRequest

(* A call keeps the numbers: it takes a new one, or finds its own reply.   *)
LEMMA CallerNumbers ==
  ASSUME IInv, NEW t \in Threads, Calls(t)
  PROVE  NumbersMatch' /\ GotOwn'
<1> USE DEF Calls, InSession, serverVars, editorVars, pipes, clangdVars, callVars, Go, Ends
<1>0. TypeOK /\ TypeOK' /\ ThreadsMatch /\ SentMatch /\ ThinkingMatch /\ SaidMatch /\ KeptMatch
  BY CallerType DEF IInv, NumbersMatch
<1>1. ThreadsMatch' /\ Numbering
  <2>1. CASE TakesId(t)
    <3>1. /\ fNextId \in Nat /\ fNextId' = fNextId + 1 /\ out' = out /\ id'[t] = fNextId + 1
          /\ \A u \in Threads : id[u] \in Nat /\ id[u] <= fNextId
          /\ \A u \in Threads \ {t} : at'[u] = at[u] /\ id'[u] = id[u]
          /\ at'[t] = "send"
      BY ZenonT(40), <1>0, <2>1 DEF TakesId, TypeOK, ThreadsMatch
    <3>2. Numbering
      BY <3>1 DEF Numbering, Asking, IsRequest
    <3>3. \A m \in Nat : \A R : BelongsTo(m, R) => BelongsTo(m, R)'
      BY <1>0, <3>2, StillBelongs
    <3>4. ASSUME NEW u \in Threads \ {t}, Asking(u)' PROVE BelongsTo(id[u], {u})'
      <4>1. Asking(u) /\ id'[u] = id[u] /\ id[u] \in Nat
        BY <3>1, <3>4 DEF Asking, IsRequest
      <4>2. BelongsTo(id[u], {u})
        BY <1>0, <4>1 DEF ThreadsMatch
      <4> DEFINE n == id[u]
      <4>3. BelongsTo(n, {u})'
        BY <3>3, <4>1, <4>2
      <4> QED
        BY <4>1, <4>3 DEF BelongsTo
    <3>5. BelongsTo(id[t], {t})'
      BY <3>1 DEF BelongsTo
    <3>6. \A u \in Threads : out'[u].of = u /\ id'[u] <= fNextId' /\ (at'[u] = "wait" => IsRequest(out'[u]))
      <4> TAKE u \in Threads
      <4>1. out[u].of = u /\ (at[u] = "wait" => IsRequest(out[u]))
        BY <1>0 DEF ThreadsMatch
      <4>2. CASE u = t
        BY <3>1, <4>1, <4>2
      <4>3. CASE u # t
        BY <3>1, <4>1, <4>3
      <4> QED
        BY <4>2, <4>3
    <3> QED
      BY <3>2, <3>4, <3>5, <3>6 DEF ThreadsMatch, IsRequest
  <2>2. CASE ~TakesId(t)
    <3>1. out' = out /\ id' = id /\ fNextId' = fNextId
      BY <2>2 DEF Caller, Locks, Writes, WriteFails, Finds, GivesUp
    <3>2. /\ at[t] \in {"send", "write", "wait"} /\ at'[t] \in {"write", "wait", "done"}
          /\ at'[t] = "wait" => IsRequest(out[t])
          /\ \A u \in Threads \ {t} : at'[u] = at[u]
      BY <1>0, <2>2 DEF Caller, Locks, Writes, WriteFails, Finds, GivesUp, TypeOK
    <3>3. \A u \in Threads : (Asking(u)' => Asking(u)) /\ (at'[u] = "wait" => IsRequest(out'[u]))
      <4> TAKE u \in Threads
      <4>1. at[u] = "wait" => IsRequest(out[u])
        BY <1>0 DEF ThreadsMatch
      <4>2. CASE u = t
        BY <3>1, <3>2, <4>2 DEF Asking, IsRequest
      <4>3. CASE u # t
        BY <3>1, <3>2, <4>1, <4>3 DEF Asking, IsRequest
      <4> QED
        BY <4>2, <4>3
    <3> QED
      BY <1>0, <3>1, <3>3, ThreadsStay DEF ThreadsMatch
  <2> QED
    BY <2>1, <2>2
<1>2. SentMatch'
  <2>1. CASE Writes(t)
    <3>1. toClangd' = Append(toClangd, Framed(t)) /\ fNextId' = fNextId /\ id' = id
      BY <2>1 DEF Writes
    <3>2. /\ Len(toClangd) \in Nat /\ Len(toClangd') = Len(toClangd) + 1
          /\ \A i \in 1 .. Len(toClangd) : toClangd'[i] = toClangd[i]
          /\ toClangd'[Len(toClangd) + 1] = Framed(t)
      BY <1>0, <3>1 DEF TypeOK
    <3>3. Framed(t).kind = out[t].kind /\ Framed(t).id = id[t] /\ Framed(t).of = t
      BY <1>0 DEF Framed, ThreadsMatch
    <3>4. IsRequest(out[t]) => BelongsTo(id[t], {t})'
      <4> SUFFICES ASSUME IsRequest(out[t]) PROVE BelongsTo(id[t], {t})'
        BY DEF BelongsTo
      <4>2. at'[t] = "wait" /\ out' = out
        BY <1>0, <2>1 DEF Writes, TypeOK
      <4> QED
        BY <1>1, <4>2 DEF ThreadsMatch, Asking, IsRequest
    <3>5. PICK k \in Nat : k = Len(toClangd) + 1
      BY <3>2
    <3>6. toClangd'[k].kind = out[t].kind /\ toClangd'[k].id = id[t] /\ toClangd'[k].of = t /\ id' = id
      BY <3>1, <3>2, <3>3, <3>5
    <3>7. SentFits(k)'
      BY <3>4, <3>6 DEF SentFits, IsRequest, BelongsTo
    <3>8. \A i \in 1 .. Len(toClangd') : i = k \/ i \in 1 .. Len(toClangd)
      BY <3>2, <3>5
    <3>9. \A i \in 1 .. Len(toClangd') :
            (\E j \in 1 .. Len(toClangd) : toClangd'[i] = toClangd[j]) \/ SentFits(i)'
      BY <3>2, <3>7, <3>8
    <3> QED
      BY <1>0, <1>1, <3>9, SentStays
  <2>2. CASE ~Writes(t)
    <3>1. toClangd' = toClangd
      BY <2>2 DEF Caller, TakesId, Locks, WriteFails, Finds, GivesUp
    <3> QED
      BY <1>0, <1>1, <3>1, SentStays
  <2> QED
    BY <2>1, <2>2
<1>3. thinking' = thinking /\ fromClangd' = fromClangd /\ fReplies' \subseteq fReplies
  BY DEF Caller, TakesId, Locks, Writes, WriteFails, Finds, GivesUp
<1>4. SaidMatch' /\ ThinkingMatch' /\ KeptMatch'
  BY <1>0, <1>1, <1>3, SaidStays, ThinkingStays, KeptStays
<1>5. GotOwn'
  <2>1. CASE Finds(t)
    <3>1. PICK r \in fReplies : r.id = id[t] /\ got' = [got EXCEPT ![t] = r.answer]
      BY <2>1 DEF Finds, Mine
    <3>2. Asking(t) /\ BelongsTo(id[t], Owners(r.answer))
      BY <1>0, <2>1, <3>1 DEF Finds, ThreadsMatch, KeptMatch, Asking
    <3>3. r.answer = Nothing \/ r.answer.of = t
      BY <3>2 DEF BelongsTo, Owners
    <3>4. at' = [at EXCEPT ![t] = "done"]
      BY <2>1 DEF Finds
    <3> QED
      BY <1>0, <3>1, <3>3, <3>4 DEF IInv, GotOwn, TypeOK
  <2>2. CASE ~Finds(t)
    BY SMTT(60), <1>0, <2>2 DEF IInv, GotOwn, TypeOK, Caller, TakesId, Locks, Writes, WriteFails, GivesUp
  <2> QED
    BY <2>1, <2>2
<1> QED
  BY <1>1, <1>2, <1>4, <1>5 DEF NumbersMatch

(* A step outside the calls leaves every thread where it is.               *)
LEMMA ThreadsUnchanged ==
  ASSUME TypeOK, TypeOK', ThreadsMatch, GotOwn, Ready, fNextId' = fNextId, UNCHANGED callVars
  PROVE  ThreadsMatch' /\ Numbering /\ GotOwn'
<1>1. \A t \in Threads :
        /\ Asking(t)' => Asking(t) /\ id'[t] = id[t]
        /\ out'[t].of = t /\ id'[t] \in {0, id[t]}
        /\ at'[t] = "wait" => IsRequest(out'[t])
  BY DEF callVars, ThreadsMatch, Asking, IsRequest
<1> QED
  BY <1>1, ThreadsStay DEF GotOwn, callVars

(* What is left of a pipe was in it.                                       *)
LEMMA TailFrom ==
  ASSUME NEW S, NEW s \in Seq(S), s # <<>>, NEW u, u = Tail(s)
  PROVE  \A i \in 1 .. Len(u) : \E j \in 1 .. Len(s) : u[i] = s[j]
<1>1. Len(s) \in Nat \ {0} /\ Len(u) = Len(s) - 1 /\ \A i \in 1 .. Len(s) - 1 : u[i] = s[i + 1]
  BY HeadIn
<1> QED
  BY <1>1

(* The reader passes on what clangd said.                                  *)
LEMMA ReaderNumbers == ASSUME IInv, Reader PROVE NumbersMatch' /\ GotOwn'
<1> USE DEF InSession, pipes, clangdVars, callVars, serverVars
<1>0. TypeOK /\ TypeOK' /\ ThreadsMatch /\ SentMatch /\ ThinkingMatch /\ SaidMatch /\ KeptMatch
      /\ GotOwn /\ Ready
  BY ReaderType DEF IInv, NumbersMatch
<1>1. /\ fNextId' = fNextId /\ UNCHANGED callVars /\ toClangd' = toClangd /\ thinking' = thinking
      /\ fromClangd' \in {fromClangd, Tail(fromClangd)} /\ (fromClangd' # fromClangd => fromClangd # <<>>)
  BY DEF Reader, Publishes, Reads, Delivers, ReaderEnds, Arrives
<1>2. ThreadsMatch' /\ Numbering /\ GotOwn'
  BY <1>0, <1>1, ThreadsUnchanged
<1>3. SentMatch' /\ ThinkingMatch'
  BY <1>0, <1>1, <1>2, SentStays, ThinkingStays
<1>4. SaidMatch'
  <2>1. \A i \in 1 .. Len(fromClangd') : \E j \in 1 .. Len(fromClangd) : fromClangd'[i] = fromClangd[j]
    <3>1. fromClangd \in Seq([kind : {"reply", "publish"}, id : Nat, answer : Answers])
      BY <1>0 DEF TypeOK
    <3>2. CASE fromClangd' = fromClangd
      BY <3>2
    <3>3. CASE fromClangd' = Tail(fromClangd) /\ fromClangd # <<>>
      BY <3>1, <3>3, TailFrom
    <3> QED
      BY <1>1, <3>2, <3>3
  <2> QED
    BY <1>0, <1>2, <2>1, SaidStays
<1>5. KeptMatch'
  <2>1. ASSUME Delivers PROVE KeptMatch'
    <3> DEFINE f == Head(fromClangd)
    <3>1. /\ fReplies' = fReplies \cup {[id |-> f.id, answer |-> f.answer]}
          /\ fromClangd # <<>> /\ f.kind = "reply"
      BY <2>1 DEF Delivers, Arrives
    <3>2. 1 \in 1 .. Len(fromClangd) /\ fromClangd[1] = f
          /\ f \in [kind : {"reply", "publish"}, id : Nat, answer : Answers]
      <4>1. fromClangd \in Seq([kind : {"reply", "publish"}, id : Nat, answer : Answers])
        BY <1>0 DEF TypeOK
      <4>2. Head(fromClangd) \in [kind : {"reply", "publish"}, id : Nat, answer : Answers]
        BY <3>1, <4>1, HeadIn
      <4>3. Len(fromClangd) \in Nat \ {0} /\ fromClangd[1] = Head(fromClangd)
        BY <3>1, <4>1, HeadIn
      <4> QED
        BY <4>2, <4>3
    <3>3. PICK n \in Nat, a \in Answers : n = f.id /\ a = f.answer
      BY <3>2
    <3>4. BelongsTo(n, Owners(a))
      BY <1>0, <3>1, <3>2, <3>3 DEF SaidMatch
    <3>5. BelongsTo(n, Owners(a))'
      <4>1. \A m \in Nat : \A R : BelongsTo(m, R) => BelongsTo(m, R)'
        BY <1>0, <1>2, StillBelongs
      <4> QED
        BY <3>4, <4>1 DEF BelongsTo, Owners
    <3>6. \A r \in fReplies' : r \in fReplies \/ BelongsTo(r.id, Owners(r.answer))'
      <4> HIDE DEF f
      <4>1. \A r \in fReplies' : r \in fReplies \/ (r.id = n /\ r.answer = a)
        BY <3>1, <3>3
      <4>2. ASSUME NEW r, r.id = n, r.answer = a PROVE BelongsTo(r.id, Owners(r.answer))'
        BY <3>5, <4>2, Zenon
      <4> QED
        BY <4>1, <4>2, Zenon
    <3> QED
      BY <1>0, <1>2, <3>6, KeptStays
  <2>2. ASSUME fReplies' = fReplies PROVE KeptMatch'
    BY <1>0, <1>2, <2>2, KeptStays
  <2> QED
    BY <2>1, <2>2 DEF Reader, Publishes, Reads, ReaderEnds
<1> QED
  BY <1>2, <1>3, <1>4, <1>5 DEF NumbersMatch

(* clangd answers what it was asked.                                       *)
LEMMA ClangdNumbers == ASSUME IInv, Clangd PROVE NumbersMatch' /\ GotOwn'
<1> USE DEF InSession, pipes, clangdVars, callVars, serverVars
<1>0. TypeOK /\ TypeOK' /\ ThreadsMatch /\ SentMatch /\ ThinkingMatch /\ SaidMatch /\ KeptMatch
      /\ GotOwn /\ Ready
  BY ClangdType DEF IInv, NumbersMatch
<1>1. fNextId' = fNextId /\ UNCHANGED callVars /\ fReplies' = fReplies
  BY DEF Clangd, ClangdTakes, ClangdAnswers, ClangdPublishes, ClangdDies
<1>2. ThreadsMatch' /\ Numbering /\ GotOwn'
  BY <1>0, <1>1, ThreadsUnchanged
<1>3. KeptMatch'
  BY <1>0, <1>1, <1>2, KeptStays
<1>b. \A m \in Nat : \A R : BelongsTo(m, R) => BelongsTo(m, R)'
  BY <1>0, <1>2, StillBelongs
<1>4. CASE ClangdTakes
  <2> DEFINE f == Head(toClangd)
  <2>1. toClangd # <<>> /\ toClangd' = Tail(toClangd) /\ fromClangd' = fromClangd
        /\ thinking' = IF IsRequest(f) THEN thinking \cup {[f EXCEPT !.text = known]} ELSE thinking
    BY <1>4 DEF ClangdTakes
  <2>2. toClangd \in Seq(Frames)
    BY <1>0 DEF TypeOK
  <2>3. SentMatch' /\ SaidMatch'
    BY <1>0, <1>2, <2>1, <2>2, TailFrom, SentStays, SaidStays
  <2>4. 1 \in 1 .. Len(toClangd) /\ toClangd[1] = f /\ f \in Frames
    BY <2>1, <2>2, HeadIn
  <2>5. PICK n \in Nat, o \in Threads : n = f.id /\ o = f.of
    BY <2>4 DEF Frames
  <2>6. IsRequest(f) => BelongsTo(n, {o})
    BY <1>0, <2>4, <2>5 DEF SentMatch
  <2>7. \A g \in thinking' : g \in thinking \/ (IsRequest(f) /\ g.id = n /\ g.of = o)
    <3>1. [f EXCEPT !.text = known].id = n /\ [f EXCEPT !.text = known].of = o
      BY <2>4, <2>5 DEF Frames
    <3> QED
      BY <2>1, <3>1
  <2>8. \A g \in thinking' : g \in thinking \/ BelongsTo(g.id, {g.of})'
    <3>1. IsRequest(f) => BelongsTo(n, {o})'
      BY <1>b, <2>6
    <3> QED
      BY <2>7, <3>1 DEF BelongsTo
  <2>9. ThinkingMatch'
    BY <1>0, <1>2, <2>8, ThinkingStays
  <2> QED
    BY <1>2, <1>3, <2>3, <2>9 DEF NumbersMatch
<1>5. CASE ClangdAnswers \/ ClangdPublishes
  <2>1. PICK g : /\ fromClangd' = Append(fromClangd, g)
                 /\ \/ g.kind = "publish"
                    \/ \E f \in thinking : g.id = f.id /\ (g.answer = Nothing \/ g.answer.of = f.of)
    <3>1. CASE ClangdPublishes
      BY <3>1 DEF ClangdPublishes, Says
    <3>2. CASE ClangdAnswers
      <4>1. PICK f \in thinking :
              Says([kind |-> "reply", id |-> f.id,
                    answer |-> IF f.kind = "ask" /\ f.text = 0 THEN Nothing ELSE Understood(f)])
        BY <3>2 DEF ClangdAnswers
      <4> DEFINE a == IF f.kind = "ask" /\ f.text = 0 THEN Nothing ELSE Understood(f)
                 r == [kind |-> "reply", id |-> f.id, answer |-> a]
      <4>2. fromClangd' = Append(fromClangd, r)
        BY <4>1 DEF Says
      <4>3. a = Nothing \/ a.of = f.of
        BY DEF Understood
      <4> HIDE DEF a
      <4>4. r.id = f.id /\ r.answer = a
        OBVIOUS
      <4> QED
        BY <4>2, <4>3, <4>4
    <3> QED
      BY <1>5, <3>1, <3>2
  <2>2. toClangd' = toClangd /\ thinking' \subseteq thinking
    BY <1>5 DEF ClangdAnswers, ClangdPublishes
  <2>3. SentMatch' /\ ThinkingMatch'
    BY <1>0, <1>2, <2>2, SentStays, ThinkingStays
  <2>4. /\ Len(fromClangd) \in Nat /\ Len(fromClangd') = Len(fromClangd) + 1
        /\ \A i \in 1 .. Len(fromClangd) : fromClangd'[i] = fromClangd[i]
        /\ fromClangd'[Len(fromClangd) + 1] = g
    BY SMTT(60), <1>0, <2>1 DEF TypeOK
  <2>5. PICK k \in Nat : k = Len(fromClangd) + 1
    BY <2>4
  <2>6. SaidFits(k)'
    <3>1. CASE g.kind = "publish"
      BY <2>4, <2>5, <3>1 DEF SaidFits
    <3>2. ASSUME NEW f \in thinking, g.id = f.id, g.answer = Nothing \/ g.answer.of = f.of
          PROVE  SaidFits(k)'
      <4>1. f.id \in Nat /\ BelongsTo(f.id, {f.of})
        BY <1>0 DEF TypeOK, Frames, ThinkingMatch
      <4>2. BelongsTo(f.id, {f.of})'
        BY <1>b, <4>1
      <4>3. BelongsTo(f.id, Owners(g.answer))'
        BY <3>2, <4>2 DEF BelongsTo, Owners
      <4> QED
        BY <2>4, <2>5, <3>2, <4>3 DEF SaidFits, BelongsTo, Owners
    <3> QED
      BY <2>1, <3>1, <3>2
  <2>7. \A i \in 1 .. Len(fromClangd') :
          (\E j \in 1 .. Len(fromClangd) : fromClangd'[i] = fromClangd[j]) \/ SaidFits(i)'
    <3>1. \A i \in 1 .. Len(fromClangd') : i = k \/ i \in 1 .. Len(fromClangd)
      BY <2>4, <2>5
    <3> QED
      BY <2>4, <2>6, <3>1
  <2>8. SaidMatch'
    BY <1>0, <1>2, <2>7, SaidStays
  <2> QED
    BY <1>2, <1>3, <2>3, <2>8 DEF NumbersMatch
<1>6. CASE ClangdDies
  <2>1. toClangd' = toClangd /\ fromClangd' = fromClangd /\ thinking' = thinking
    BY <1>6 DEF ClangdDies
  <2> QED
    BY <1>0, <1>2, <1>3, <2>1, SentStays, SaidStays, ThinkingStays DEF NumbersMatch
<1> QED
  BY <1>4, <1>5, <1>6 DEF Clangd

(* The editor only posts.                                                  *)
LEMMA EditorNumbers == ASSUME IInv, Editor PROVE NumbersMatch' /\ GotOwn'
<1>0. TypeOK /\ TypeOK' /\ ThreadsMatch /\ SentMatch /\ ThinkingMatch /\ SaidMatch /\ KeptMatch
      /\ GotOwn /\ Ready
  BY EditorType DEF IInv, NumbersMatch
<1>1. /\ fNextId' = fNextId /\ UNCHANGED callVars /\ fReplies' = fReplies
      /\ toClangd' = toClangd /\ fromClangd' = fromClangd /\ thinking' = thinking
  BY DEF Editor, EditorStarts, EditorSends, EditorCloses, EditorAsks, EditorEnds, OnlyPosts,
         sessionVars, pipes, clangdVars
<1>2. ThreadsMatch' /\ Numbering /\ GotOwn'
  BY <1>0, <1>1, ThreadsUnchanged
<1> QED
  BY <1>0, <1>1, <1>2, SentStays, SaidStays, ThinkingStays, KeptStays DEF NumbersMatch

(* A worker and the looper begin and end calls, none in the middle of one. *)
LEMMA WorkerNumbers ==
  ASSUME IInv, NEW q \in Questions, WorkerStep(q)
  PROVE  NumbersMatch' /\ GotOwn' /\ OwnAnswers' /\ Ready'
<1> USE DEF pipes, clangdVars, serverVars, editorVars, Go, Request, Returns
<1>0. TypeOK /\ TypeOK' /\ ThreadsMatch /\ SentMatch /\ ThinkingMatch /\ SaidMatch /\ KeptMatch
      /\ GotOwn /\ Ready /\ OwnAnswers /\ q \in Threads
  BY WorkerType DEF IInv, NumbersMatch, Threads
<1>1. /\ fNextId' = fNextId /\ fReplies' = fReplies
      /\ toClangd' = toClangd /\ fromClangd' = fromClangd /\ thinking' = thinking
      /\ inbox' = inbox /\ asked' = asked /\ looper' = looper
  BY DEF WorkerStep, Looks, Pushes
<1>2. /\ at[q] \in {"look", "done"} /\ at'[q] \in {"id", "over"} /\ \A u \in Threads \ {q} : at'[u] = at[u]
      /\ out'[q].of = q /\ \A u \in Threads \ {q} : out'[u] = out[u]
      /\ id'[q] \in {0, id[q]} /\ \A u \in Threads \ {q} : id'[u] = id[u]
      /\ \A u \in Threads \ {q} : got'[u] = got[u]
  <2>1. CASE Looks(q)
    BY <1>0, <2>1 DEF Looks, Note, TypeOK
  <2>2. CASE Pushes(q)
    BY <1>0, <2>2 DEF Pushes, Note, TypeOK
  <2> QED
    BY <2>1, <2>2 DEF WorkerStep
<1>3. ThreadsMatch' /\ Numbering
  <2>1. \A t \in Threads :
          /\ Asking(t)' => Asking(t) /\ id'[t] = id[t]
          /\ out'[t].of = t /\ id'[t] \in {0, id[t]}
          /\ at'[t] = "wait" => IsRequest(out'[t])
    <3> TAKE t \in Threads
    <3>1. CASE t = q
      BY <1>2, <3>1 DEF Asking
    <3>2. CASE t # q
      <4>1. at'[t] = at[t] /\ out'[t] = out[t] /\ id'[t] = id[t] /\ out[t].of = t
            /\ (at[t] = "wait" => IsRequest(out[t]))
        BY <1>0, <1>2, <3>2 DEF ThreadsMatch
      <4> QED
        BY <4>1 DEF Asking, IsRequest
    <3> QED
      BY <3>1, <3>2
  <2> QED
    BY <1>0, <1>1, <2>1, ThreadsStay
<1>4. SentMatch' /\ SaidMatch' /\ ThinkingMatch' /\ KeptMatch'
  BY <1>0, <1>1, <1>3, SentStays, SaidStays, ThinkingStays, KeptStays
<1>5. GotOwn'
  BY <1>0, <1>2 DEF GotOwn
<1>6. OwnAnswers'
  BY ZenonT(40), <1>0 DEF WorkerStep, Looks, Pushes, OwnAnswers, GotOwn, TypeOK
<1>7. Ready'
  <2>1. at[q] # "off" /\ asked[q] # NotAsked /\ q # Looper
    BY <1>0, <1>2, SessionAssumption DEF Ready
  <2>2. \A i \in Waiting : inbox[i].q # q
    BY <1>0, <2>1 DEF Ready
  <2>3. Looper \in Threads /\ Questions \subseteq Threads
    BY DEF Threads
  <2> QED
    BY <1>0, <1>1, <1>2, <2>1, <2>2, <2>3 DEF Ready, Waiting
<1> QED
  BY <1>3, <1>4, <1>5, <1>6, <1>7 DEF NumbersMatch

(* The looper gives a number to its own requests and frames only.          *)
LEMMA LooperNumbers == ASSUME IInv, LooperStep PROVE NumbersMatch' /\ GotOwn'
<1> USE DEF pipes, clangdVars, callVars, editorVars, OnlyLooper, Takes, Go, Request, Notify, Returns
<1>0. TypeOK /\ TypeOK' /\ ThreadsMatch /\ SentMatch /\ ThinkingMatch /\ SaidMatch /\ KeptMatch
      /\ GotOwn /\ Ready /\ Looper \in Threads
  BY LooperType DEF IInv, NumbersMatch, Threads
<1>1. /\ fNextId' = fNextId
      /\ fReplies' \in {fReplies, {}} /\ thinking' \in {thinking, {}}
      /\ toClangd' \in {toClangd, <<>>} /\ fromClangd' \in {fromClangd, <<>>}
  BY DEF LooperStep, OpensSession, Greets, SessionOpens, StartFails, UnknownSession, PassesOn,
         Remembers, StartsWorker, EndsSession, Kills, Joins, sessionVars
<1>2. \A t \in Threads :
        /\ at'[t] = at[t] \/ (at'[t] = "send" /\ ~IsRequest(out'[t])) \/ at'[t] \in {"off", "look", "id"}
        /\ out'[t] = out[t] \/ (out'[t].of = t /\ at'[t] \in {"off", "look", "id", "send"} /\ at'[t] # at[t])
        /\ id'[t] \in {0, id[t]} /\ (id'[t] # id[t] => at'[t] = "off")
        /\ got'[t] = got[t] \/ at'[t] = "off"
  <2>0. looper = "idle" => at[Looper] = "off"
    BY <1>0 DEF Ready
  <2>7. at \in [Threads -> {"off", "look", "id", "send", "write", "wait", "done", "over"}]
        /\ id \in [Threads -> Nat] /\ got \in [Threads -> Answers \cup {NoAnswer}]
        /\ out \in [Threads -> [kind : Kinds, of : Threads, text : Versions, col : Nat]]
    BY <1>0 DEF TypeOK
  <2>1. CASE OpensSession
    BY <1>0, <2>0, <2>1, <2>7 DEF OpensSession, sessionVars, Note
  <2>2. CASE Greets
    BY <1>0, <2>2 DEF Greets, TypeOK, Note, IsRequest
  <2>3. CASE SessionOpens \/ StartFails \/ Remembers
    BY SMTT(30), <1>0, <2>3 DEF SessionOpens, StartFails, Remembers, TypeOK, Note
  <2>4. CASE UnknownSession \/ EndsSession \/ Kills \/ Joins
    BY <1>0, <2>4 DEF UnknownSession, EndsSession, Kills, Joins, TypeOK
  <2>5. CASE PassesOn
    BY <1>0, <2>0, <2>5, <2>7 DEF PassesOn, Note, IsRequest
  <2>6. CASE StartsWorker
    BY <1>0, <2>6 DEF StartsWorker, TypeOK
  <2> QED
    BY <2>1, <2>2, <2>3, <2>4, <2>5, <2>6 DEF LooperStep
<1>3. ThreadsMatch' /\ Numbering
  <2>1. \A t \in Threads :
          /\ Asking(t)' => Asking(t) /\ id'[t] = id[t]
          /\ out'[t].of = t /\ id'[t] \in {0, id[t]}
          /\ at'[t] = "wait" => IsRequest(out'[t])
    BY ZenonT(40), <1>0, <1>2 DEF ThreadsMatch, Asking, IsRequest
  <2> QED
    BY <1>0, <1>1, <2>1, ThreadsStay
<1>4. ThinkingMatch' /\ KeptMatch'
  BY <1>0, <1>1, <1>3, ThinkingStays, KeptStays
<1>5. SentMatch' /\ SaidMatch'
  <2>1. \A i \in 1 .. Len(toClangd') : \E j \in 1 .. Len(toClangd) : toClangd'[i] = toClangd[j]
    BY <1>1
  <2>2. \A i \in 1 .. Len(fromClangd') : \E j \in 1 .. Len(fromClangd) : fromClangd'[i] = fromClangd[j]
    BY <1>1
  <2> QED
    BY <1>0, <1>3, <2>1, <2>2, SentStays, SaidStays
<1>6. GotOwn'
  BY <1>0, <1>2 DEF GotOwn
<1> QED
  BY <1>3, <1>4, <1>5, <1>6 DEF NumbersMatch

(* In the calls, and without them, messages find their threads as before.  *)
LEMMA OthersReady ==
  ASSUME TypeOK, Ready, UNCHANGED <<inbox, asked, looper>>,
         \A t \in Threads : at[t] = "off" <=> at'[t] = "off"
  PROVE  Ready'
BY DEF Ready, Waiting, Threads

(* Request() and Notify() leave the port's questions alone.                *)
LEMMA CallerReady == ASSUME IInv, NEW t \in Threads, Calls(t) PROVE Ready'
<1>1. UNCHANGED <<inbox, asked, looper>>
  BY DEF Calls, InSession, serverVars, editorVars
<1>2. \A u \in Threads : at[u] = "off" <=> at'[u] = "off"
  BY DEF IInv, TypeOK, Calls, Caller, TakesId, Locks, Writes, WriteFails, Finds, GivesUp, Go, Ends, callVars
<1> QED
  BY <1>1, <1>2, OthersReady DEF IInv

(* Nothing is numbered at the start.                                       *)
LEMMA InitIInv == Init => IInv
<1> SUFFICES ASSUME Init PROVE IInv
  OBVIOUS
<1>1. TypeOK
  BY TypeInit
<1>2. Waiting = {}
  BY DEF Init, Waiting
<1>3. Looper \in Threads /\ Questions \subseteq Threads
  BY DEF Threads
<1>4. Ready
  BY <1>2, <1>3 DEF Init, Ready
<1>5. ThreadsMatch
  BY DEF Init, ThreadsMatch, Asking, Note
<1>6. SentMatch /\ ThinkingMatch /\ SaidMatch /\ KeptMatch
  BY DEF Init, SentMatch, ThinkingMatch, SaidMatch, KeptMatch
<1>7. GotOwn /\ OwnAnswers
  BY DEF Init, GotOwn, OwnAnswers
<1> QED
  BY <1>1, <1>4, <1>5, <1>6, <1>7 DEF IInv, NumbersMatch

(* Every step keeps the invariant.                                         *)
LEMMA StepIInv == IInv /\ [Next]_vars => IInv'
<1> SUFFICES ASSUME IInv, [Next]_vars PROVE IInv'
  OBVIOUS
<1>0. TypeOK /\ Ready
  BY DEF IInv
<1>1. CASE Editor
  <2>1. OwnAnswers'
    BY <1>1 DEF IInv, OwnAnswers, Editor, EditorStarts, EditorSends, EditorCloses, EditorAsks,
               EditorEnds, OnlyPosts
  <2> QED
    BY <1>0, <1>1, <2>1, EditorType, EditorReady, EditorNumbers DEF IInv
<1>2. CASE LooperStep
  <2>1. answers' = answers
    BY <1>2 DEF LooperStep, OpensSession, Greets, SessionOpens, StartFails, UnknownSession, PassesOn,
               Remembers, StartsWorker, EndsSession, Kills, Joins, OnlyLooper
  <2>2. OwnAnswers'
    BY <2>1 DEF IInv, OwnAnswers
  <2> QED
    BY <1>0, <1>2, <2>2, LooperType, LooperReady, LooperNumbers DEF IInv
<1>3. CASE Reader
  <2>1. UNCHANGED <<inbox, asked, looper, at, answers>>
    BY <1>3 DEF Reader, Publishes, Reads, Delivers, ReaderEnds, InSession, serverVars, editorVars, callVars
  <2>2. Ready' /\ OwnAnswers'
    BY <1>0, <2>1, OthersReady DEF IInv, OwnAnswers
  <2> QED
    BY <1>0, <1>3, <2>2, ReaderType, ReaderNumbers DEF IInv
<1>4. CASE Clangd
  <2>1. UNCHANGED <<inbox, asked, looper, at, answers>>
    BY <1>4 DEF Clangd, ClangdTakes, ClangdAnswers, ClangdPublishes, ClangdDies, InSession, serverVars,
               editorVars, callVars
  <2>2. Ready' /\ OwnAnswers'
    BY <1>0, <2>1, OthersReady DEF IInv, OwnAnswers
  <2> QED
    BY <1>0, <1>4, <2>2, ClangdType, ClangdNumbers DEF IInv
<1>5. ASSUME NEW q \in Questions, WorkerStep(q) PROVE IInv'
  BY <1>0, <1>5, WorkerType, WorkerNumbers DEF IInv
<1>6. ASSUME NEW t \in Threads, Calls(t) PROVE IInv'
  <2>1. OwnAnswers'
    BY <1>6 DEF Calls, InSession, IInv, OwnAnswers
  <2> QED
    BY <1>0, <1>6, <2>1, CallerType, CallerReady, CallerNumbers DEF IInv
<1>7. CASE UNCHANGED vars
  <2> USE <1>7 DEF vars, sessionVars, serverVars, editorVars, pipes, callVars, clangdVars
  <2>1. TypeOK'
    BY <1>0 DEF TypeOK
  <2>2. Ready' /\ OwnAnswers' /\ GotOwn'
    BY DEF IInv, Ready, Waiting, OwnAnswers, GotOwn
  <2>3. ThreadsMatch'
    BY DEF IInv, NumbersMatch, ThreadsMatch, Asking, IsRequest, BelongsTo
  <2>4. SentMatch' /\ ThinkingMatch'
    BY DEF IInv, NumbersMatch, SentMatch, ThinkingMatch, Asking, IsRequest, BelongsTo
  <2>5. SaidMatch' /\ KeptMatch'
    BY DEF IInv, NumbersMatch, SaidMatch, KeptMatch, Asking, IsRequest, BelongsTo, Owners
  <2> QED
    BY <2>1, <2>2, <2>3, <2>4, <2>5 DEF IInv, NumbersMatch
<1> QED
  BY <1>1, <1>2, <1>3, <1>4, <1>5, <1>6, <1>7 DEF Next

(* Each variable of the server and of its sessions holds what main.cpp and *)
(* lsp.cpp keep in it, and no two threads hold fLock, for any questions,   *)
(* texts and bounds.                                                       *)
THEOREM ServerTypes == Spec => []TypeOK
<1>1. IInv => TypeOK
  BY DEF IInv
<1> QED
  BY <1>1, InitIInv, StepIInv, PTL DEF Spec

(* Whatever times out, comes late or comes for another thread, Request()   *)
(* gives a worker the answer to its own question or none (lsp.cpp), so the *)
(* editor never has an answer pushed under another question's number.      *)
THEOREM AnswersAreOwn == Spec => []OwnAnswers
<1>1. IInv => OwnAnswers
  BY DEF IInv
<1> QED
  BY <1>1, InitIInv, StepIInv, PTL DEF Spec

-----------------------------------------------------------------------------
(* Both measures of a line grow with every character.                      *)
LEMMA BytesGrow ==
  ASSUME NEW line \in Seq(1 .. 4), NEW m \in 0 .. Len(line), NEW n \in 0 .. Len(line), m < n
  PROVE  Bytes(line, m) < Bytes(line, n)
<1> DEFINE B(k) == {p \in (1 .. k) \X (1 .. 4) : p[2] <= line[p[1]]}
<1>1. m \in Nat /\ n \in Nat /\ n \in 1 .. n /\ n \notin 1 .. m /\ line[n] \in 1 .. 4
  OBVIOUS
<1>2. B(m) \subseteq B(n)
  BY <1>1
<1>3. <<n, 1>> \in B(n) /\ <<n, 1>> \notin B(m)
  BY <1>1
<1>4. IsFiniteSet(B(n))
  <2>1. IsFiniteSet((1 .. n) \X (1 .. 4))
    BY <1>1, Interval, FS_Product
  <2> QED
    BY <2>1, FS_Subset
<1>5. Cardinality(B(m)) <= Cardinality(B(n)) /\ Cardinality(B(m)) # Cardinality(B(n))
  BY <1>2, <1>3, <1>4, FS_Subset
<1>6. Bytes(line, m) = Cardinality(B(m)) /\ Bytes(line, n) = Cardinality(B(n))
  BY DEF Bytes
<1>7. Bytes(line, m) \in Nat /\ Bytes(line, n) \in Nat
  BY <1>1, BytesNat
<1> QED
  BY <1>5, <1>6, <1>7

(* A later character's column is a larger one in units too.                *)
LEMMA UnitsGrow ==
  ASSUME NEW line \in Seq(1 .. 4), NEW m \in 0 .. Len(line), NEW n \in 0 .. Len(line), m < n
  PROVE  Units(line, m) < Units(line, n)
<1> DEFINE W(k) == {i \in 1 .. k : line[i] = 4}
<1>1. m \in Nat /\ n \in Nat
  OBVIOUS
<1>2. W(m) \subseteq W(n)
  BY <1>1
<1>3. IsFiniteSet(W(n)) /\ IsFiniteSet(W(m))
  BY <1>1, Interval, FS_Subset
<1>4. Cardinality(W(m)) <= Cardinality(W(n))
  BY <1>2, <1>3, FS_Subset
<1>5. Cardinality(W(m)) \in Nat /\ Cardinality(W(n)) \in Nat
  BY <1>3, FS_CardinalityType
<1>6. Units(line, m) = m + Cardinality(W(m)) /\ Units(line, n) = n + Cardinality(W(n))
  BY DEF Units
<1> HIDE DEF W
<1> QED
  BY <1>1, <1>4, <1>5, <1>6

(* A column at a character's edge comes back from clangd's UTF-16 units as *)
(* the byte it was (Utf16FromByte() and ByteFromUtf16(), lsp.cpp), for any *)
(* line, and any mixture of characters of one to four bytes in it.         *)
THEOREM ColumnsRoundTrip ==
  ASSUME NEW line \in Seq(1 .. 4), NEW k \in 0 .. Len(line)
  PROVE  ByteFromUtf16(line, Utf16FromByte(line, Bytes(line, k))) = Bytes(line, k)
<1> DEFINE col == Bytes(line, k)
           before == {n \in 1 .. Len(line) : Bytes(line, n) <= col}
           units == Units(line, k)
           begun == {n \in 1 .. Len(line) : Units(line, n - 1) < units}
<1>1. k \in Nat /\ Len(line) \in Nat
  OBVIOUS
<1>2. \A n \in 0 .. Len(line) : Bytes(line, n) \in Nat /\ Units(line, n) \in Nat
  BY BytesNat, UnitsNat
<1>3. \A n \in 1 .. Len(line) : Bytes(line, n) <= col <=> n <= k
  BY <1>1, <1>2, BytesGrow
<1>4. before = 1 .. k
  BY <1>1, <1>3
<1>5. Cardinality(before) = k
  BY <1>1, <1>4, Interval
<1>6. Utf16FromByte(line, col) = units
  BY <1>2, <1>5 DEF Utf16FromByte
<1>7. \A n \in 1 .. Len(line) : Units(line, n - 1) < units <=> n <= k
  <2> TAKE n \in 1 .. Len(line)
  <2>1. n - 1 \in 0 .. Len(line) /\ (n <= k <=> n - 1 < k)
    BY <1>1
  <2>2. CASE n - 1 < k
    BY <2>1, <2>2, UnitsGrow
  <2>3. CASE n - 1 = k
    BY <1>2, <2>1, <2>3
  <2>4. CASE k < n - 1
    <3>1. units < Units(line, n - 1)
      BY <2>1, <2>4, UnitsGrow
    <3> QED
      BY <1>2, <2>1, <2>4, <3>1
  <2> QED
    BY <1>1, <2>1, <2>2, <2>3, <2>4
<1>8. begun = 1 .. k
  BY <1>1, <1>7
<1>9. Cardinality(begun) = k
  BY <1>1, <1>8, Interval
<1> QED
  BY <1>6, <1>9 DEF ByteFromUtf16

-----------------------------------------------------------------------------
(* What follows is of texts and of the promise: that the editor, the       *)
(* server and clangd come to hold the same text, and that a question is    *)
(* answered as LanguagePromise says.  Both follow texts and questions in   *)
(* their order from the editor through the port, the looper, the workers   *)
(* and the pipe to clangd, and back.                                       *)
-----------------------------------------------------------------------------
(* Texts.  Messages in the port and frames in the pipe carry them, in      *)
(* order; the latest of those at D in s is v, or there is none and v is    *)
(* what there was before.                                                  *)
TextKinds == {"open", "change", "close"}
PostedTexts == {i \in 1 .. Len(inbox) : inbox[i].what \in TextKinds}
SentTexts == {i \in 1 .. Len(toClangd) : toClangd[i].kind \in TextKinds}
Latest(s, D, before, v) ==
    \/ \E i \in D : s[i].text = v /\ \A j \in D : j <= i
    \/ D = {} /\ before = v
UpTo(D, i) == {j \in D : j < i}

(* What the looper has taken, and what of it has gone into the pipe.       *)
Taken == IF looper = "passing" THEN out[Looper].text ELSE docText
Passed == IF looper = "passing" /\ at[Looper] = "done" THEN out[Looper].text ELSE docText

(* An open session is the editor's or on its way to end; while the editor  *)
(* is in it, whatever it posted belongs to it.                             *)
Ending ==
    \/ looper \in {"killing", "joining"}
    \/ \E i \in 1 .. Len(inbox) : inbox[i].what = "end" /\ inbox[i].token = session
InSessionOnly ==
    session = fNextToken /\ session # 0 /\ looper \in {"idle", "passing"}
    /\ \A i \in 1 .. Len(inbox) : inbox[i].what # "end" /\ inbox[i].token = session
NoSession == editor = "opening" /\ inbox = <<>> /\ session = 0 /\ fNextToken # 0
Sessions ==
    /\ session # 0 => editor = "in" \/ Ending
    /\ editor = "in" => InSessionOnly
    /\ looper \in {"starting", "greeting"} => NoSession
    /\ looper \in {"killing", "joining"} /\ session = 0 => NoSession
    /\ looper = "passing" => session # 0
    /\ session = 0 => docText = 0
    /\ editor # "in" => ~open
    /\ editor = "ended" => fNextToken # 0
    /\ \A i \in 1 .. Len(inbox) :
         /\ inbox[i].what # "session" => inbox[i].token # 0
         /\ inbox[i].what = "session" => i = Len(inbox) /\ editor = "opening"

(* What each thread is about to write.                                     *)
Writing ==
    /\ \A q \in Questions : at[q] \in {"id", "send", "write"} => out[q].kind = "ask"
    /\ looper = "passing" => out[Looper].kind \in TextKinds /\ at[Looper] \in {"send", "write", "done"}
    /\ looper = "starting" => out[Looper].kind = "initialize"
    /\ looper = "greeting" => out[Looper].kind = "initialized"

(* The editor's text comes through the port, the looper's through the pipe.*)
PortFlows == editor = "in" => Latest(inbox, PostedTexts, Taken, IF open THEN version ELSE 0)
PipeFlows ==
    child = "alive" /\ looper \notin {"killing", "joining"}
        => Latest(toClangd, SentTexts, known, Passed)

(* A question is asked of a version that was sent, once, and answered      *)
(* before the session ends.                                                *)
EdgeOf(line, place) == \E i \in 0 .. Len(line) : place = Bytes(line, i)
Once ==
    /\ \A q \in Questions : asked[q] # NotAsked =>
         /\ asked[q].text \in 1 .. version /\ EdgeOf(Line(asked[q].text), asked[q].at)
         /\ editor # "in" => answers[q] # NoAnswer
    /\ \A q \in Questions : answers[q] # NoAnswer => at[q] = "over"
    /\ open => version # 0

(* A text is later than the one q was asked of, or none; or q's column is  *)
(* the one it was asked at.                                                *)
Later(text, v) == v = 0 \/ v > text
Fits(q, v, col) ==
    Later(asked[q].text, v) \/ (v = asked[q].text /\ col = Utf16FromByte(Line(v), asked[q].at))

(* Where a question waits, the looper has come to its text by then;        *)
Posted ==
    \A i \in Waiting :
        /\ Latest(inbox, UpTo(PostedTexts, i), Taken, asked[inbox[i].q].text)
        /\ \A j \in PostedTexts : j > i => Later(asked[inbox[i].q].text, inbox[j].text)

(* its worker's column is of that text or useless to a later one;          *)
Started ==
    \A q \in Questions : at[q] # "off" =>
        /\ \A j \in PostedTexts : Later(asked[q].text, inbox[j].text)
        /\ looper = "passing" => Later(asked[q].text, out[Looper].text)
        /\ at[q] = "look" => Later(asked[q].text, docText) \/ docText = asked[q].text
        /\ at[q] \in {"id", "send", "write"} => Fits(q, Passed, out[q].col)

(* so is it in the pipe, and what clangd makes of it an answer.            *)
FitsAt(i) ==
    \E v \in Versions : /\ Latest(toClangd, UpTo(SentTexts, i), known, v)
                        /\ Fits(toClangd[i].of, v, toClangd[i].col)
Sent ==
    \A i \in 1 .. Len(toClangd) : toClangd[i].of \in Questions =>
        toClangd[i].kind = "ask" /\ asked[toClangd[i].of] # NotAsked /\ FitsAt(i)
Thought ==
    \A f \in thinking : f.of \in Questions =>
        f.kind = "ask" /\ asked[f.of] # NotAsked /\ Fits(f.of, f.text, f.col)
Good(a) ==
    a # Nothing /\ a.of \in Questions => asked[a.of] # NotAsked /\ a \in Promise!Answers(a.of)
Said ==
    /\ \A i \in 1 .. Len(fromClangd) : Good(fromClangd[i].answer)
    /\ \A r \in fReplies : Good(r.answer)
    /\ \A q \in Questions : at[q] = "done" => got[q] = Nothing \/ (got[q].of = q /\ Good(got[q]))

Talk == Sessions /\ Writing /\ PortFlows /\ PipeFlows /\ Once /\ Posted /\ Started /\ Sent /\ Thought /\ Said

-----------------------------------------------------------------------------
(* What taking the first away and adding one at the end does to the latest.*)
LEMMA LatestTail ==
  ASSUME NEW n \in Nat \ {0}, NEW s, NEW t, \A i \in 1 .. n - 1 : t[i] = s[i + 1],
         NEW D \in SUBSET (1 .. n), NEW before, NEW v, Latest(s, D, before, v)
  PROVE  Latest(t, {i \in 1 .. n - 1 : i + 1 \in D}, IF 1 \in D THEN s[1].text ELSE before, v)
<1> DEFINE E == {i \in 1 .. n - 1 : i + 1 \in D}
<1>1. CASE D = {}
  BY <1>1 DEF Latest
<1>2. ASSUME NEW i \in D, s[i].text = v, \A j \in D : j <= i
      PROVE  Latest(t, E, IF 1 \in D THEN s[1].text ELSE before, v)
  <2>1. CASE i = 1
    <3>1. E = {}
      BY <1>2, <2>1
    <3> QED
      BY <1>2, <2>1, <3>1 DEF Latest
  <2>2. CASE i # 1
    <3>0. i \in 1 .. n /\ i - 1 \in 1 .. n - 1 /\ i - 1 + 1 = i
      BY <1>2, <2>2
    <3>1. i - 1 \in E /\ t[i - 1] = s[i]
      BY <1>2, <3>0
    <3>2. \A j \in E : j <= i - 1
      BY <1>2, <3>0
    <3>3. CASE 1 \in D
      BY <1>2, <3>1, <3>2, <3>3 DEF Latest
    <3>4. CASE 1 \notin D
      BY <1>2, <3>1, <3>2, <3>4 DEF Latest
    <3> QED
      BY <3>3, <3>4
  <2> QED
    BY <2>1, <2>2
<1> QED
  BY <1>1, <1>2 DEF Latest

LEMMA LatestAppend ==
  ASSUME NEW n \in Nat, NEW s, NEW t, \A i \in 1 .. n : t[i] = s[i],
         NEW D \in SUBSET (1 .. n), NEW before
  PROVE  /\ \A v : Latest(s, D, before, v) => Latest(t, D, before, v)
         /\ Latest(t, D \cup {n + 1}, before, t[n + 1].text)
<1>1. \A i \in D : i \in 1 .. n /\ t[i] = s[i] /\ i <= n + 1
  OBVIOUS
<1>2. n + 1 \in D \cup {n + 1} /\ \A j \in D \cup {n + 1} : j <= n + 1
  BY <1>1
<1> QED
  BY <1>1, <1>2 DEF Latest

(* The editor posts, and the looper takes.                                 *)
LEMMA Posting ==
  ASSUME TypeOK, NEW what, NEW text, NEW q, Posts(what, text, q)
  PROVE  /\ Len(inbox) \in Nat /\ Len(inbox') = Len(inbox) + 1 /\ inbox' # <<>>
         /\ \A i \in 1 .. Len(inbox) : inbox'[i] = inbox[i]
         /\ inbox'[Len(inbox) + 1] = [what |-> what, token |-> fNextToken, text |-> text, q |-> q]
         /\ PostedTexts \in SUBSET (1 .. Len(inbox))
         /\ PostedTexts' = PostedTexts \cup (IF what \in TextKinds THEN {Len(inbox) + 1} ELSE {})
         /\ Waiting \subseteq 1 .. Len(inbox)
         /\ Waiting' = Waiting \cup (IF what = "ask" THEN {Len(inbox) + 1} ELSE {})
<1> DEFINE m == [what |-> what, token |-> fNextToken, text |-> text, q |-> q]
           n == Len(inbox)
<1>1. /\ n \in Nat /\ Len(inbox') = n + 1 /\ inbox' # <<>>
      /\ \A i \in 1 .. n : inbox'[i] = inbox[i]
      /\ inbox'[n + 1] = m
  <2> DEFINE S == [what : {"session", "open", "change", "close", "ask", "end"},
                   token : Nat, text : Versions, q : Threads]
  <2>1. inbox \in Seq(S) /\ inbox' = Append(inbox, m)
    BY DEF TypeOK, Posts
  <2> HIDE DEF S, m
  <2> QED
    BY <2>1 DEF n
<1>2. m.what = what
  OBVIOUS
<1> HIDE DEF m, n
<1>3. PostedTexts' = {i \in 1 .. Len(inbox') : inbox'[i].what \in TextKinds}
  BY DEF PostedTexts
<1>4. PostedTexts = {i \in 1 .. n : inbox[i].what \in TextKinds}
  BY DEF PostedTexts, n
<1>5. Waiting' = {i \in 1 .. Len(inbox') : inbox'[i].what = "ask"}
  BY DEF Waiting
<1>6. Waiting = {i \in 1 .. n : inbox[i].what = "ask"}
  BY DEF Waiting, n
<1>7. PostedTexts' = PostedTexts \cup (IF what \in TextKinds THEN {n + 1} ELSE {})
  BY <1>1, <1>2, <1>3, <1>4
<1>8. Waiting' = Waiting \cup (IF what = "ask" THEN {n + 1} ELSE {})
  BY <1>1, <1>2, <1>5, <1>6
<1> QED
  BY <1>1, <1>4, <1>6, <1>7, <1>8 DEF m, n

LEMMA Taking ==
  ASSUME TypeOK, inbox # <<>>, inbox' = Tail(inbox)
  PROVE  /\ Len(inbox) \in Nat \ {0} /\ Len(inbox') = Len(inbox) - 1
         /\ \A i \in 1 .. Len(inbox) - 1 : inbox'[i] = inbox[i + 1]
         /\ inbox[1] = Head(inbox)
         /\ PostedTexts \in SUBSET (1 .. Len(inbox))
         /\ PostedTexts' = {i \in 1 .. Len(inbox) - 1 : i + 1 \in PostedTexts}
         /\ Waiting' = {i \in 1 .. Len(inbox) - 1 : i + 1 \in Waiting}
<1>1. /\ Len(inbox) \in Nat \ {0} /\ Len(inbox') = Len(inbox) - 1
      /\ \A i \in 1 .. Len(inbox) - 1 : inbox'[i] = inbox[i + 1]
      /\ inbox[1] = Head(inbox)
  BY HeadIn DEF TypeOK
<1>2. PostedTexts' = {i \in 1 .. Len(inbox) - 1 : i + 1 \in PostedTexts}
  BY <1>1 DEF PostedTexts
<1>3. Waiting' = {i \in 1 .. Len(inbox) - 1 : i + 1 \in Waiting}
  BY <1>1 DEF Waiting
<1>4. PostedTexts \in SUBSET (1 .. Len(inbox))
  BY DEF PostedTexts
<1> QED
  BY <1>1, <1>2, <1>3, <1>4

-----------------------------------------------------------------------------
(* A question on its way keeps the editor in its session.                  *)
LEMMA OnTheWay ==
  ASSUME TypeOK, Ready, Once
  PROVE  /\ \A q \in Questions : at[q] \notin {"off", "over"} => editor = "in"
         /\ \A i \in Waiting : editor = "in"
<1>1. ASSUME NEW q \in Questions, asked[q] # NotAsked, at[q] # "over" PROVE editor = "in"
  BY <1>1 DEF Once
<1>2. \A q \in Questions : at[q] # "off" => asked[q] # NotAsked
  BY DEF Ready
<1>3. \A i \in Waiting : inbox[i].q \in Questions /\ at[inbox[i].q] = "off" /\ asked[inbox[i].q] # NotAsked
  BY DEF Ready
<1> QED
  BY <1>1, <1>2, <1>3

(* Sessions: the editor's messages come in their order.                    *)
LEMMA EditorSessions == ASSUME TypeOK, Sessions, Editor PROVE Sessions'
<1>1. PICK what, text, q : Posts(what, text, q)
  BY DEF Editor, EditorStarts, EditorSends, EditorCloses, EditorAsks, EditorEnds
<1>2. UNCHANGED <<looper, session, fNextToken, docText>>
  BY DEF Editor, EditorStarts, EditorSends, EditorCloses, EditorAsks, EditorEnds, OnlyPosts
<1> DEFINE n == Len(inbox)
           m == [what |-> what, token |-> fNextToken, text |-> text, q |-> q]
<1>3. /\ n \in Nat /\ Len(inbox') = n + 1 /\ inbox'[n + 1] = m
      /\ \A i \in 1 .. n : inbox'[i] = inbox[i]
  BY <1>1, Posting
<1>4. m.what = what /\ m.token = fNextToken
  OBVIOUS
<1> HIDE DEF n, m
<1>5. \A i \in 1 .. Len(inbox') : i = n + 1 \/ i \in 1 .. n
  BY <1>3
<1>6. Ending => Ending'
  BY <1>2, <1>3 DEF Ending, n
<1>7. CASE EditorStarts
  <2>1. editor \in {"out", "ended"} /\ editor' = "opening" /\ open' = open
    BY <1>7 DEF EditorStarts
  <2>2. what = "session"
    BY <1>1, <1>7 DEF EditorStarts, Posts
  <2> QED
    BY <1>2, <1>3, <1>4, <1>5, <1>6, <2>1, <2>2 DEF Sessions, NoSession, InSessionOnly, n
<1>8. CASE EditorSends \/ EditorCloses \/ EditorAsks
  <2>1. editor = "in" /\ editor' = "in"
    BY <1>8 DEF EditorSends, EditorCloses, EditorAsks
  <2>2. what \notin {"session", "end"}
    BY <1>1, <1>8 DEF EditorSends, EditorCloses, EditorAsks, Posts
  <2> QED
    BY <1>2, <1>3, <1>4, <1>5, <1>6, <2>1, <2>2 DEF Sessions, NoSession, InSessionOnly, n
<1>9. CASE EditorEnds
  <2>1. editor \in {"in", "ended"} /\ editor' = (IF editor = "in" THEN "ended" ELSE "out") /\ ~open'
    BY <1>9 DEF EditorEnds
  <2>2. what = "end"
    BY <1>1, <1>9 DEF EditorEnds, Posts
  <2>3. editor = "in" => Ending'
    BY <1>2, <1>3, <1>4, <2>2 DEF Sessions, InSessionOnly, Ending
  <2> QED
    BY <1>2, <1>3, <1>4, <1>5, <1>6, <2>1, <2>2, <2>3 DEF Sessions, NoSession, InSessionOnly, n
<1> QED
  BY <1>7, <1>8, <1>9 DEF Editor

(* A session is opened when the port holds nothing else and none is open.  *)
LEMMA OpensFresh ==
  ASSUME TypeOK, Sessions, OpensSession
  PROVE  inbox' = <<>> /\ session = 0 /\ editor = "opening" /\ docText = 0 /\ ~open
<1> DEFINE S == [what : {"session", "open", "change", "close", "ask", "end"},
                 token : Nat, text : Versions, q : Threads]
<1>1. looper = "idle" /\ inbox # <<>> /\ Head(inbox).what = "session" /\ inbox' = Tail(inbox)
  BY DEF OpensSession, Takes
<1>2. inbox \in Seq(S)
  BY DEF TypeOK
<1> HIDE DEF S
<1>3. /\ Len(inbox) \in Nat \ {0} /\ inbox[1] = Head(inbox)
      /\ inbox' \in Seq(S) /\ Len(inbox') = Len(inbox) - 1
  BY <1>1, <1>2, HeadIn
<1>7. 1 \in 1 .. Len(inbox) /\ inbox[1].what = "session"
  BY <1>1, <1>3
<1>4. Len(inbox) = 1 /\ editor = "opening"
  BY <1>7 DEF Sessions
<1>5. inbox' = <<>>
  BY <1>3, <1>4
<1>6. ~Ending
  BY <1>1, <1>3, <1>4 DEF Ending
<1> QED
  BY <1>4, <1>5, <1>6 DEF Sessions

(* The looper takes them one by one: a session is opened when none is.     *)
LEMMA LooperSessions == ASSUME TypeOK, Sessions, LooperStep PROVE Sessions'
<1> USE DEF NoSession
<1> DEFINE n == Len(inbox)
<1>1. ASSUME inbox # <<>>, inbox' = Tail(inbox)
      PROVE  /\ n \in Nat \ {0} /\ Len(inbox') = n - 1 /\ inbox[1] = Head(inbox)
             /\ \A i \in 1 .. Len(inbox') : i + 1 \in 1 .. n /\ inbox'[i] = inbox[i + 1]
             /\ \A i \in 1 .. n : i = 1 \/ (i - 1 \in 1 .. Len(inbox') /\ inbox'[i - 1] = inbox[i])
             /\ 1 \in 1 .. n /\ (n = 1 <=> inbox' = <<>>)
  <2>1. /\ n \in Nat \ {0} /\ Len(inbox') = n - 1 /\ inbox[1] = Head(inbox)
        /\ \A i \in 1 .. n - 1 : inbox'[i] = inbox[i + 1]
    BY <1>1, Taking
  <2>2. n = 1 <=> inbox' = <<>>
    <3>1. inbox' \in Seq([what : {"session", "open", "change", "close", "ask", "end"},
                          token : Nat, text : Versions, q : Threads])
      BY <1>1, HeadIn DEF TypeOK
    <3> QED
      BY <2>1, <3>1
  <2>3. \A i \in 1 .. n : i = 1 \/ (i - 1 \in 1 .. n - 1 /\ inbox'[i - 1] = inbox[i])
    <3> TAKE i \in 1 .. n
    <3>1. i = 1 \/ (i - 1 \in 1 .. n - 1 /\ (i - 1) + 1 = i)
      BY <2>1
    <3> QED
      BY <2>1, <3>1
  <2> QED
    BY <2>1, <2>2, <2>3
<1> HIDE DEF n
<1>2. CASE OpensSession
  <2>1. /\ inbox' = <<>> /\ session = 0 /\ editor = "opening" /\ docText = 0 /\ ~open
        /\ session' = session /\ docText' = docText /\ open' = open
    BY <1>2, OpensFresh DEF OpensSession
  <2>2. looper = "idle"
    BY <1>2 DEF OpensSession, Takes
  <2>3. Len(inbox') = 0
    BY <2>1
  <2>4. /\ looper' \in {"starting", "idle"} /\ editor' \in {"opening", "out"}
        /\ looper' = "starting" => editor' = "opening" /\ fNextToken' # 0
    <3>1. fNextToken \in Nat
      BY DEF TypeOK
    <3> QED
      BY <1>2, <2>1, <2>2, <3>1 DEF OpensSession
  <2> QED
    BY <2>1, <2>3, <2>4 DEF Sessions
<1>3. CASE SessionOpens
  <2>1. /\ looper = "greeting" /\ looper' = "idle" /\ session' = fNextToken /\ editor' = "in"
        /\ inbox' = inbox /\ fNextToken' = fNextToken
    BY <1>3 DEF SessionOpens, OnlyLooper
  <2> QED
    BY <2>1 DEF Sessions, InSessionOnly
<1>4. CASE Greets \/ StartFails \/ Kills
  <2>1. \/ looper = "starting" /\ looper' \in {"greeting", "killing"}
        \/ looper = "killing" /\ looper' = "joining"
    BY <1>4 DEF Greets, StartFails, Kills
  <2>2. UNCHANGED <<inbox, session, fNextToken, docText, editor, open>>
    BY <1>4 DEF Greets, StartFails, Kills, OnlyLooper, editorVars
  <2> QED
    BY <2>1, <2>2 DEF Sessions, InSessionOnly, Ending
<1>5. CASE UnknownSession
  <2>1. /\ inbox # <<>> /\ inbox' = Tail(inbox) /\ Head(inbox).what # "session" /\ Head(inbox).token # session
        /\ looper = "idle" /\ UNCHANGED <<looper, session, fNextToken, docText, editor, open>>
    BY <1>5 DEF UnknownSession, Known, OnlyLooper
  <2>2. editor # "in"
    BY <1>1, <2>1 DEF Sessions, InSessionOnly, n
  <2>3. Ending => Ending'
    <3>1. ASSUME NEW i \in 1 .. n, inbox[i].what = "end", inbox[i].token = session
          PROVE  Ending'
      <4>1. i - 1 \in 1 .. Len(inbox') /\ inbox'[i - 1] = inbox[i]
        BY <1>1, <2>1, <3>1
      <4> QED
        BY <2>1, <3>1, <4>1 DEF Ending
    <3>2. Ending => \E i \in 1 .. n : inbox[i].what = "end" /\ inbox[i].token = session
      BY <2>1 DEF Ending, n
    <3> QED
      BY <3>1, <3>2
  <2> QED
    BY <1>1, <2>1, <2>2, <2>3 DEF Sessions, n
<1>6. CASE PassesOn \/ StartsWorker
  <2>1. /\ inbox # <<>> /\ inbox' = Tail(inbox) /\ Head(inbox).what \notin {"session", "end"}
        /\ Head(inbox).token = session
        /\ looper = "idle" /\ looper' \in {"idle", "passing"}
        /\ UNCHANGED <<session, fNextToken, docText, editor, open>>
    BY <1>6 DEF PassesOn, StartsWorker, Takes, Known, OnlyLooper, editorVars
  <2>2. Ending => Ending'
    BY ZenonT(60), <1>1, <2>1 DEF Ending, n
  <2>3. session # 0
    BY <1>1, <2>1 DEF Sessions, n
  <2> QED
    BY <1>1, <2>1, <2>2, <2>3 DEF Sessions, InSessionOnly, n
<1>7. CASE Remembers
  <2>1. /\ looper = "passing" /\ looper' = "idle"
        /\ UNCHANGED <<inbox, session, fNextToken, editor, open>>
    BY <1>7 DEF Remembers, OnlyLooper
  <2> QED
    BY <2>1 DEF Sessions, InSessionOnly, Ending
<1>8. CASE EndsSession
  <2>1. /\ inbox # <<>> /\ inbox' = Tail(inbox) /\ Head(inbox).what = "end" /\ Head(inbox).token = session
        /\ looper = "idle" /\ looper' = "killing"
        /\ UNCHANGED <<session, fNextToken, docText, editor, open>>
    BY <1>8 DEF EndsSession, Takes, Known, OnlyLooper
  <2>2. session # 0 /\ editor # "in"
    BY <1>1, <2>1 DEF Sessions, InSessionOnly, n
  <2> QED
    BY <1>1, <2>1, <2>2 DEF Sessions, Ending, n
<1>9. CASE Joins
  <2>1. /\ looper = "joining" /\ looper' = "idle" /\ session' = 0 /\ docText' = 0
        /\ editor' = (IF session = 0 THEN "out" ELSE editor)
        /\ UNCHANGED <<inbox, fNextToken, open>>
    BY <1>9 DEF Joins
  <2>2. editor # "in" /\ ~open /\ (session = 0 => inbox = <<>>)
    BY <2>1 DEF Sessions, InSessionOnly
  <2> QED
    BY <2>1, <2>2 DEF Sessions
<1> QED
  BY <1>2, <1>3, <1>4, <1>5, <1>6, <1>7, <1>8, <1>9 DEF LooperStep

-----------------------------------------------------------------------------
(* What is written: a worker asks, and the looper's frames go with what it *)
(* is in the middle of.                                                    *)
LEMMA LooperWriting == ASSUME TypeOK, Ready, Writing, LooperStep PROVE Writing'
<1> USE DEF Go, Request, Notify, Returns, OnlyLooper, callVars, Note
<1>0. /\ Looper \in Threads /\ Looper \notin Questions /\ Questions \subseteq Threads
      /\ at \in [Threads -> {"off", "look", "id", "send", "write", "wait", "done", "over"}]
      /\ out \in [Threads -> [kind : Kinds, of : Threads, text : Versions, col : Nat]]
  BY SessionAssumption DEF Threads, TypeOK
<1>1. CASE OpensSession
  BY <1>0, <1>1 DEF OpensSession, sessionVars, Writing, Takes
<1>2. CASE Greets \/ PassesOn
  <2>1. /\ at' = [at EXCEPT ![Looper] = "send"]
        /\ \E what \in TextKinds \cup {"initialized"} : \E v :
             /\ out' = [out EXCEPT ![Looper] = Note(Looper, what, v)]
             /\ looper' = (IF what = "initialized" THEN "greeting" ELSE "passing")
    BY <1>2 DEF Greets, PassesOn, TextKinds
  <2> QED
    BY <1>0, <2>1 DEF Writing, TextKinds
<1>3. CASE SessionOpens \/ StartFails \/ Remembers
  BY <1>0, <1>3 DEF SessionOpens, StartFails, Remembers, Writing
<1>4. CASE UnknownSession \/ EndsSession \/ Kills \/ Joins
  BY <1>4 DEF UnknownSession, EndsSession, Kills, Joins, Writing
<1>5. CASE StartsWorker
  <2>1. looper' = looper /\ looper = "idle" /\ out' = out
        /\ \A q \in Questions : at'[q] \in {at[q], "look"}
    BY <1>0, <1>5 DEF StartsWorker, Takes
  <2> QED
    BY <2>1 DEF Writing
<1> QED
  BY <1>1, <1>2, <1>3, <1>4, <1>5 DEF LooperStep

LEMMA WorkerWriting == ASSUME TypeOK, Writing, NEW q \in Questions, WorkerStep(q) PROVE Writing'
<1>0. Looper \in Threads /\ q # Looper /\ Questions \subseteq Threads
  BY SessionAssumption DEF Threads
<1>1. CASE Looks(q)
  <2>1. PICK c : /\ at' = [at EXCEPT ![q] = "id"]
                 /\ out' = [out EXCEPT ![q] = [Note(q, "ask", 0) EXCEPT !.col = c]]
                 /\ looper' = looper
    BY <1>1 DEF Looks, Request, Go, serverVars
  <2> QED
    BY <1>0, <2>1 DEF TypeOK, Writing, Note
<1>2. CASE Pushes(q)
  BY <1>0, <1>2 DEF Pushes, Returns, Go, serverVars, TypeOK, Writing
<1> QED
  BY <1>1, <1>2 DEF WorkerStep

LEMMA CallerWriting == ASSUME TypeOK, Writing, NEW t \in Threads, Calls(t) PROVE Writing'
<1>1. out' = out /\ looper' = looper
  BY DEF Calls, InSession, serverVars, Caller, TakesId, Locks, Writes, WriteFails, Finds, GivesUp, callVars
<1>2. \A u \in Threads \ {t} : at'[u] = at[u]
  BY DEF Calls, Caller, TakesId, Locks, Writes, WriteFails, Finds, GivesUp, Go, Ends, TypeOK
<1>3. at[t] \in {"id", "send", "write", "wait"} /\ at'[t] \in {"send", "write", "wait", "done"}
  BY DEF Calls, Caller, TakesId, Locks, Writes, WriteFails, Finds, GivesUp, Go, Ends, TypeOK
<1>4. /\ at'[t] \in {"id", "send", "write"} => at[t] \in {"id", "send", "write"}
      /\ at'[t] = "wait" => IsRequest(out[t])
  BY DEF Calls, Caller, TakesId, Locks, Writes, WriteFails, Finds, GivesUp, Go, Ends, TypeOK
<1>5. Looper \in Threads /\ Questions \subseteq Threads
  BY DEF Threads
<1>6. \A q \in Questions : at'[q] \in {"id", "send", "write"} => out'[q].kind = "ask"
  BY <1>1, <1>2, <1>4, <1>5 DEF Writing
<1>7. looper' = "passing" => at'[Looper] \in {"send", "write", "done"}
  <2> SUFFICES ASSUME looper = "passing" PROVE at'[Looper] \in {"send", "write", "done"}
    BY <1>1
  <2>1. ~IsRequest(out[Looper]) /\ at[Looper] \in {"send", "write", "done"}
    BY DEF Writing, IsRequest, TextKinds
  <2> QED
    BY <1>2, <1>3, <1>4, <1>5, <2>1
<1> QED
  BY <1>1, <1>6, <1>7 DEF Writing

-----------------------------------------------------------------------------
(* Questions are asked once, of a text the editor has, and answered before *)
(* their session ends.                                                     *)
LEMMA EditorOnce == ASSUME TypeOK, Sessions, Once, Editor PROVE Once'
<1>0. version \in Nat /\ at' = at /\ answers' = answers
  BY DEF Editor, EditorStarts, EditorSends, EditorCloses, EditorAsks, EditorEnds, OnlyPosts,
         sessionVars, callVars, TypeOK, Versions
<1>1. CASE EditorStarts
  BY <1>0, <1>1 DEF EditorStarts, Once
<1>2. CASE EditorSends \/ EditorCloses
  BY <1>0, <1>2 DEF EditorSends, EditorCloses, Once
<1>3. CASE EditorAsks
  <2>1. /\ editor' = editor /\ editor = "in" /\ version' = version /\ open
    BY <1>3 DEF EditorAsks
  <2>2. PICK q \in Questions, i \in 0 .. Len(Line(version)) :
          asked' = [asked EXCEPT ![q] = [text |-> version, at |-> Bytes(Line(version), i)]]
    BY <1>3 DEF EditorAsks
  <2>3. version \in 1 .. version /\ EdgeOf(Line(version), Bytes(Line(version), i))
    BY <1>0, <2>1 DEF Once, EdgeOf
  <2>4. \A p \in Questions \ {q} : asked'[p] = asked[p]
    BY <2>2 DEF TypeOK
  <2>5. asked'[q] = [text |-> version, at |-> Bytes(Line(version), i)]
    BY <2>2 DEF TypeOK
  <2>6. asked'[q].text = version /\ asked'[q].at = Bytes(Line(version), i)
    BY <2>5
  <2>7. open' = open
    BY <1>3 DEF EditorAsks
  <2>8. ASSUME NEW p \in Questions, asked'[p] # NotAsked
        PROVE  asked'[p].text \in 1 .. version /\ EdgeOf(Line(asked'[p].text), asked'[p].at)
    BY <2>3, <2>4, <2>6, <2>8 DEF Once
  <2> QED
    BY <1>0, <2>1, <2>7, <2>8 DEF Once
<1>4. CASE EditorEnds
  BY <1>0, <1>4 DEF EditorEnds, Once
<1> QED
  BY <1>1, <1>2, <1>3, <1>4 DEF Editor

LEMMA LooperOnce == ASSUME TypeOK, Ready, Sessions, Once, LooperStep PROVE Once'
<1>1. UNCHANGED <<version, asked, answers, open>>
  BY DEF LooperStep, OpensSession, Greets, SessionOpens, StartFails, UnknownSession, PassesOn,
         Remembers, StartsWorker, EndsSession, Kills, Joins, OnlyLooper, editorVars
<1>2. editor' # "in" => editor # "in"
  <2>1. CASE OpensSession
    BY <2>1, OpensFresh
  <2>2. CASE Joins
    BY <2>2 DEF Joins, Sessions, InSessionOnly
  <2>3. CASE ~OpensSession /\ ~Joins
    BY <2>3 DEF LooperStep, Greets, SessionOpens, StartFails, UnknownSession, PassesOn,
                Remembers, StartsWorker, EndsSession, Kills, OnlyLooper, editorVars
  <2> QED
    BY <2>1, <2>2, <2>3
<1>3. \A q \in Questions : at[q] = "over" => at'[q] = "over"
  <2>1. Looper \notin Questions
    BY SessionAssumption
  <2>2. CASE StartsWorker
    <3>1. 1 \in Waiting /\ inbox[1] = Head(inbox)
      BY <2>2, HeadIn DEF StartsWorker, Takes, TypeOK, Waiting
    <3>2. at[Head(inbox).q] = "off"
      BY <3>1 DEF Ready
    <3>3. at' = at \/ at' = [at EXCEPT ![Head(inbox).q] = "look"]
      BY <2>2 DEF StartsWorker, Go
    <3>4. at \in [Threads -> {"off", "look", "id", "send", "write", "wait", "done", "over"}]
      BY DEF TypeOK
    <3> QED
      BY <3>2, <3>3, <3>4 DEF Threads
  <2>3. CASE ~StartsWorker
    <3>1. at' = at \/ \E place : at' = [at EXCEPT ![Looper] = place]
      BY <2>3 DEF LooperStep, OpensSession, Greets, SessionOpens, StartFails, UnknownSession, PassesOn,
             Remembers, EndsSession, Kills, Joins, Request, Notify, Returns, Go, sessionVars, callVars
    <3>2. at \in [Threads -> {"off", "look", "id", "send", "write", "wait", "done", "over"}]
      BY DEF TypeOK
    <3> QED
      BY <2>1, <3>1, <3>2 DEF Threads
  <2> QED
    BY <2>2, <2>3
<1> QED
  BY <1>1, <1>2, <1>3 DEF Once

LEMMA ThreadOnce ==
  ASSUME TypeOK, Once, (\E q \in Questions : WorkerStep(q)) \/ (\E t \in Threads : Calls(t))
  PROVE  Once'
<1>1. UNCHANGED <<editor, version, asked, open>>
  BY DEF WorkerStep, Looks, Pushes, Calls, InSession, editorVars
<1>2. \A q \in Questions : /\ at[q] = "over" => at'[q] = "over"
                           /\ answers'[q] = answers[q] \/ at'[q] = "over"
                           /\ answers[q] # NoAnswer => answers'[q] = answers[q]
  <2>1. ASSUME NEW q \in Questions, Looks(q)
        PROVE  answers' = answers /\ \A p \in Questions : at[p] = "over" => at'[p] = "over"
    BY <2>1 DEF Looks, Request, Go, TypeOK
  <2>2. ASSUME NEW q \in Questions, Pushes(q), NEW p \in Questions
        PROVE  /\ at[p] = "over" => at'[p] = "over"
               /\ answers'[p] = answers[p] \/ at'[p] = "over"
               /\ answers[p] # NoAnswer => answers'[p] = answers[p]
    <3>1. /\ at[q] = "done" /\ at' = [at EXCEPT ![q] = "over"] /\ answers' = [answers EXCEPT ![q] = got[q]]
          /\ answers[q] = NoAnswer
      BY <2>2 DEF Pushes, Returns, Go, Once
    <3>2. at \in [Threads -> {"off", "look", "id", "send", "write", "wait", "done", "over"}]
          /\ answers \in [Questions -> Answers \cup {NoAnswer}] /\ q \in Threads /\ p \in Threads
      BY DEF TypeOK, Threads
    <3> QED
      BY <3>1, <3>2
  <2>3. ASSUME NEW t \in Threads, Calls(t)
        PROVE  answers' = answers /\ \A p \in Questions : at[p] = "over" => at'[p] = "over"
    <3>1. answers' = answers
      BY <2>3 DEF Calls, InSession
    <3>2. at[t] # "over" /\ \E place : at' = [at EXCEPT ![t] = place]
      BY <2>3 DEF Calls, Caller, TakesId, Locks, Writes, WriteFails, Finds, GivesUp, Go, Ends
    <3>3. at \in [Threads -> {"off", "look", "id", "send", "write", "wait", "done", "over"}]
      BY DEF TypeOK
    <3> QED
      BY <3>1, <3>2, <3>3 DEF Threads
  <2> QED
    BY <2>1, <2>2, <2>3 DEF WorkerStep
<1> QED
  BY <1>1, <1>2 DEF Once

-----------------------------------------------------------------------------
(* The editor's text goes through the port to the looper,                  *)
LEMMA EditorPort == ASSUME TypeOK, Sessions, PortFlows, Editor PROVE PortFlows'
<1>1. PICK what, text, q : Posts(what, text, q)
  BY DEF Editor, EditorStarts, EditorSends, EditorCloses, EditorAsks, EditorEnds
<1>2. Taken' = Taken
  BY DEF Editor, EditorStarts, EditorSends, EditorCloses, EditorAsks, EditorEnds, OnlyPosts,
         sessionVars, callVars, Taken
<1> DEFINE n == Len(inbox)
<1>3. /\ n \in Nat /\ inbox'[n + 1].text = text
      /\ \A i \in 1 .. n : inbox'[i] = inbox[i]
      /\ PostedTexts \in SUBSET (1 .. n)
      /\ PostedTexts' = PostedTexts \cup (IF what \in TextKinds THEN {n + 1} ELSE {})
  <2>1. /\ n \in Nat /\ \A i \in 1 .. n : inbox'[i] = inbox[i]
        /\ inbox'[n + 1] = [what |-> what, token |-> fNextToken, text |-> text, q |-> q]
        /\ PostedTexts \in SUBSET (1 .. n)
        /\ PostedTexts' = PostedTexts \cup (IF what \in TextKinds THEN {n + 1} ELSE {})
    BY <1>1, Posting
  <2>2. inbox'[n + 1].text = text
    BY <2>1
  <2> QED
    BY <2>1, <2>2
<1> HIDE DEF n
<1>4. /\ \A v : Latest(inbox, PostedTexts, Taken, v) => Latest(inbox', PostedTexts, Taken, v)
      /\ Latest(inbox', PostedTexts \cup {n + 1}, Taken, text)
  BY <1>3, LatestAppend
<1>5. CASE EditorStarts \/ EditorEnds
  BY <1>5 DEF EditorStarts, EditorEnds, PortFlows
<1>6. CASE EditorSends
  <2>1. what \in TextKinds /\ text = version' /\ open'
    BY <1>1, <1>6 DEF EditorSends, Posts, TextKinds
  <2> QED
    BY <1>2, <1>3, <1>4, <2>1 DEF PortFlows
<1>7. CASE EditorCloses
  <2>1. what \in TextKinds /\ text = 0 /\ ~open'
    BY <1>1, <1>7 DEF EditorCloses, Posts, TextKinds
  <2> QED
    BY <1>2, <1>3, <1>4, <2>1 DEF PortFlows
<1>8. CASE EditorAsks
  <2>1. what \notin TextKinds /\ UNCHANGED <<open, version, editor>>
    BY <1>1, <1>8 DEF EditorAsks, Posts, TextKinds
  <2> QED
    BY <1>2, <1>3, <1>4, <2>1 DEF PortFlows
<1> QED
  BY <1>5, <1>6, <1>7, <1>8 DEF Editor

(* The looper takes the first of them and remembers it, or passes on to    *)
(* the next message.                                                       *)
LEMMA TakesText ==
  ASSUME TypeOK, NEW D \in SUBSET (1 .. Len(inbox)), NEW v,
         looper = "idle", inbox # <<>>, inbox' = Tail(inbox),
         IF Head(inbox).what \in TextKinds
            THEN looper' = "passing" /\ out'[Looper].text = Head(inbox).text
            ELSE looper' = "idle" /\ docText' = docText,
         1 \in D <=> Head(inbox).what \in TextKinds,
         Latest(inbox, D, Taken, v)
  PROVE  Latest(inbox', {i \in 1 .. Len(inbox) - 1 : i + 1 \in D}, Taken', v)
<1> DEFINE n == Len(inbox)
<1>1. n \in Nat \ {0} /\ inbox[1] = Head(inbox) /\ \A i \in 1 .. n - 1 : inbox'[i] = inbox[i + 1]
  BY Taking
<1>2. Taken' = IF 1 \in D THEN inbox[1].text ELSE Taken
  BY <1>1 DEF Taken
<1> HIDE DEF n
<1>3. Latest(inbox', {i \in 1 .. n - 1 : i + 1 \in D}, IF 1 \in D THEN inbox[1].text ELSE Taken, v)
  <2>1. D \in SUBSET (1 .. n)
    BY DEF n
  <2> QED
    BY <1>1, <2>1, LatestTail
<1> QED
  BY <1>2, <1>3 DEF n

(* What PassesOn and StartsWorker do with the port.                        *)
LEMMA TakesOne ==
  ASSUME TypeOK, PassesOn \/ StartsWorker
  PROVE  /\ looper = "idle" /\ inbox # <<>> /\ inbox' = Tail(inbox)
         /\ IF Head(inbox).what \in TextKinds
               THEN looper' = "passing" /\ out'[Looper].text = Head(inbox).text
               ELSE looper' = "idle" /\ docText' = docText
         /\ 1 \in PostedTexts <=> Head(inbox).what \in TextKinds
         /\ Head(inbox).what \in TextKinds <=> PassesOn
         /\ Head(inbox).what = "ask" <=> StartsWorker
<1>1. 1 \in PostedTexts <=> Head(inbox).what \in TextKinds
  <2>1. inbox # <<>>
    BY DEF PassesOn, StartsWorker, Takes
  <2> QED
    BY <2>1, HeadIn DEF TypeOK, PostedTexts
<1>2. CASE PassesOn
  <2>1. Looper \in Threads
    BY DEF Threads
  <2>2. Head(inbox).what \in TextKinds /\ looper' = "passing"
    BY <1>2 DEF PassesOn, Takes, TextKinds
  <2>3. out'[Looper].text = Head(inbox).text
    <3>1. \E what : out' = [out EXCEPT ![Looper] = Note(Looper, what, Head(inbox).text)]
      BY <1>2 DEF PassesOn, Notify
    <3> QED
      BY <2>1, <3>1 DEF TypeOK, Note
  <2>4. ~StartsWorker
    BY <2>2 DEF StartsWorker, Takes, TextKinds
  <2> QED
    BY <1>1, <1>2, <2>2, <2>3, <2>4 DEF PassesOn, Takes, TextKinds
<1>3. CASE StartsWorker
  <2>1. ~PassesOn
    BY <1>3 DEF PassesOn, StartsWorker, Takes
  <2> QED
    BY <1>1, <1>3, <2>1 DEF StartsWorker, Takes, TextKinds
<1> QED
  BY <1>2, <1>3

LEMMA LooperPort == ASSUME TypeOK, Sessions, PortFlows, LooperStep PROVE PortFlows'
<1>1. open' = open /\ version' = version
  BY DEF LooperStep, OpensSession, Greets, SessionOpens, StartFails, UnknownSession, PassesOn,
         Remembers, StartsWorker, EndsSession, Kills, Joins, OnlyLooper, editorVars
<1>2. CASE PassesOn \/ StartsWorker
  <2>1. editor' = editor
    BY <1>2 DEF PassesOn, StartsWorker, editorVars
  <2>2. PostedTexts' = {i \in 1 .. Len(inbox) - 1 : i + 1 \in PostedTexts} /\ PostedTexts \in SUBSET (1 .. Len(inbox))
    BY <1>2, Taking, TakesOne
  <2> SUFFICES ASSUME editor = "in" PROVE Latest(inbox', PostedTexts', Taken', IF open THEN version ELSE 0)
    BY <1>1, <2>1 DEF PortFlows
  <2>3. Latest(inbox, PostedTexts, Taken, IF open THEN version ELSE 0)
    BY DEF PortFlows
  <2> QED
    BY <1>2, <2>2, <2>3, TakesOne, TakesText
<1>3. CASE Remembers
  <2>1. Taken' = Taken /\ UNCHANGED <<inbox, editor>>
    BY <1>3 DEF Remembers, Taken, OnlyLooper
  <2> QED
    BY <1>1, <2>1 DEF PortFlows, PostedTexts
<1>4. CASE SessionOpens
  <2>1. inbox' = <<>> /\ ~open /\ Taken' = 0
    BY <1>4 DEF SessionOpens, OnlyLooper, Sessions, NoSession, Taken
  <2>2. PostedTexts' = {}
    BY <2>1 DEF PostedTexts
  <2> QED
    BY <1>1, <2>1, <2>2 DEF PortFlows, Latest
<1>5. CASE OpensSession \/ UnknownSession \/ EndsSession
  <2>1. /\ inbox[1] = Head(inbox) /\ 1 \in 1 .. Len(inbox)
        /\ inbox[1].what \in {"session", "end"} \/ inbox[1].token # session
    BY <1>5, HeadIn DEF OpensSession, UnknownSession, EndsSession, Takes, Known, TypeOK
  <2>2. editor # "in"
    BY <2>1 DEF Sessions, InSessionOnly
  <2> QED
    BY <1>5, <2>2 DEF OpensSession, UnknownSession, EndsSession, PortFlows
<1>6. CASE Greets \/ StartFails \/ Kills \/ Joins
  <2>1. looper \in {"starting", "killing", "joining"} /\ (editor' = "in" => editor = "in")
    BY <1>6 DEF Greets, StartFails, Kills, Joins, editorVars
  <2> QED
    BY <2>1 DEF Sessions, InSessionOnly, PortFlows
<1> QED
  BY <1>2, <1>3, <1>4, <1>5, <1>6 DEF LooperStep

-----------------------------------------------------------------------------
(* and from the looper through the pipe to clangd.                         *)
LEMMA Sending ==
  ASSUME TypeOK, NEW t \in Threads, toClangd' = Append(toClangd, Framed(t))
  PROVE  /\ Len(toClangd) \in Nat /\ Len(toClangd') = Len(toClangd) + 1
         /\ \A i \in 1 .. Len(toClangd) : toClangd'[i] = toClangd[i]
         /\ toClangd'[Len(toClangd) + 1] = Framed(t)
         /\ SentTexts \in SUBSET (1 .. Len(toClangd))
         /\ SentTexts' = SentTexts \cup (IF out[t].kind \in TextKinds THEN {Len(toClangd) + 1} ELSE {})
<1> DEFINE n == Len(toClangd)
           f == Framed(t)
<1>1. toClangd \in Seq(Frames)
  BY DEF TypeOK
<1>2. f.kind = out[t].kind
  BY DEF Framed
<1> HIDE DEF f
<1>3. /\ n \in Nat /\ Len(toClangd') = n + 1
      /\ \A i \in 1 .. n : toClangd'[i] = toClangd[i]
      /\ toClangd'[n + 1] = f
  BY <1>1 DEF f
<1> HIDE DEF n
<1>4. SentTexts' = {i \in 1 .. Len(toClangd') : toClangd'[i].kind \in TextKinds}
  BY DEF SentTexts
<1>5. SentTexts = {i \in 1 .. n : toClangd[i].kind \in TextKinds}
  BY DEF SentTexts, n
<1>6. SentTexts' = SentTexts \cup (IF out[t].kind \in TextKinds THEN {n + 1} ELSE {})
  BY <1>2, <1>3, <1>4, <1>5
<1> QED
  BY <1>3, <1>5, <1>6 DEF n, f

LEMMA Receiving ==
  ASSUME TypeOK, toClangd # <<>>, toClangd' = Tail(toClangd)
  PROVE  /\ Len(toClangd) \in Nat \ {0} /\ Len(toClangd') = Len(toClangd) - 1
         /\ \A i \in 1 .. Len(toClangd) - 1 : toClangd'[i] = toClangd[i + 1]
         /\ toClangd[1] = Head(toClangd) /\ Head(toClangd) \in Frames
         /\ SentTexts \in SUBSET (1 .. Len(toClangd))
         /\ SentTexts' = {i \in 1 .. Len(toClangd) - 1 : i + 1 \in SentTexts}
         /\ 1 \in SentTexts <=> Head(toClangd).kind \in TextKinds
<1>1. /\ Len(toClangd) \in Nat \ {0} /\ Len(toClangd') = Len(toClangd) - 1
      /\ \A i \in 1 .. Len(toClangd) - 1 : toClangd'[i] = toClangd[i + 1]
      /\ toClangd[1] = Head(toClangd) /\ Head(toClangd) \in Frames
  BY HeadIn DEF TypeOK
<1>2. SentTexts' = {i \in 1 .. Len(toClangd) - 1 : i + 1 \in SentTexts}
  BY <1>1 DEF SentTexts
<1>3. SentTexts \in SUBSET (1 .. Len(toClangd)) /\ (1 \in SentTexts <=> Head(toClangd).kind \in TextKinds)
  BY <1>1 DEF SentTexts
<1> QED
  BY <1>1, <1>2, <1>3

(* clangd takes the first frame: a text is what it knows from then on.     *)
LEMMA TakesFrame ==
  ASSUME TypeOK, ClangdTakes, NEW D \in SUBSET (1 .. Len(toClangd)), NEW v,
         1 \in D <=> Head(toClangd).kind \in TextKinds, Latest(toClangd, D, known, v)
  PROVE  Latest(toClangd', {i \in 1 .. Len(toClangd) - 1 : i + 1 \in D}, known', v)
<1> DEFINE n == Len(toClangd)
<1>1. toClangd # <<>> /\ toClangd' = Tail(toClangd)
  BY DEF ClangdTakes
<1>2. n \in Nat \ {0} /\ toClangd[1] = Head(toClangd) /\ \A i \in 1 .. n - 1 : toClangd'[i] = toClangd[i + 1]
  BY <1>1, Receiving
<1>3. known' = IF 1 \in D THEN toClangd[1].text ELSE known
  BY <1>2 DEF ClangdTakes, TextKinds
<1>4. D \in SUBSET (1 .. n)
  OBVIOUS
<1> HIDE DEF n
<1>5. Latest(toClangd', {i \in 1 .. n - 1 : i + 1 \in D}, IF 1 \in D THEN toClangd[1].text ELSE known, v)
  BY <1>2, <1>4, LatestTail
<1> QED
  BY <1>3, <1>5 DEF n

LEMMA ClangdPipe == ASSUME TypeOK, PipeFlows, Clangd PROVE PipeFlows'
<1>1. Passed' = Passed /\ looper' = looper
  BY DEF Clangd, InSession, serverVars, ClangdTakes, ClangdAnswers, ClangdPublishes, ClangdDies,
         callVars, Passed
<1>2. CASE ClangdTakes
  <2>1. /\ child' = child /\ toClangd # <<>> /\ toClangd' = Tail(toClangd)
    BY <1>2 DEF ClangdTakes
  <2>2. /\ SentTexts \in SUBSET (1 .. Len(toClangd))
        /\ SentTexts' = {i \in 1 .. Len(toClangd) - 1 : i + 1 \in SentTexts}
        /\ 1 \in SentTexts <=> Head(toClangd).kind \in TextKinds
    BY <2>1, Receiving
  <2>3. Latest(toClangd, SentTexts, known, Passed) => Latest(toClangd', SentTexts', known', Passed)
    BY <1>2, <2>2, TakesFrame
  <2> QED
    BY <1>1, <2>1, <2>3 DEF PipeFlows
<1>3. CASE ClangdAnswers \/ ClangdPublishes
  <2>1. UNCHANGED <<child, toClangd, known>>
    BY <1>3 DEF ClangdAnswers, ClangdPublishes
  <2> QED
    BY <1>1, <2>1 DEF PipeFlows, SentTexts
<1>4. CASE ClangdDies
  BY <1>4 DEF ClangdDies, PipeFlows
<1> QED
  BY <1>2, <1>3, <1>4 DEF Clangd

LEMMA CallerPipe ==
  ASSUME TypeOK, Sessions, Writing, Ready, Once, PipeFlows, NEW t \in Threads, Calls(t)
  PROVE  PipeFlows'
<1>1. UNCHANGED <<child, known, looper, docText, out>>
  BY DEF Calls, InSession, serverVars, Caller, TakesId, Locks, Writes, WriteFails, Finds, GivesUp, clangdVars
<1>2. /\ at' = [at EXCEPT ![t] = at'[t]] /\ Looper \in Threads /\ Looper \notin Questions
      /\ Threads = Questions \cup {Looper}
  BY SessionAssumption
     DEF Calls, Caller, TakesId, Locks, Writes, WriteFails, Finds, GivesUp, Go, Ends, TypeOK, Threads
<1> SUFFICES ASSUME child = "alive", looper \notin {"killing", "joining"}
             PROVE  Latest(toClangd', SentTexts', known, Passed')
  BY <1>1 DEF PipeFlows
<1>3. Latest(toClangd, SentTexts, known, Passed)
  BY DEF PipeFlows
<1>4. CASE Writes(t)
  <2>1. /\ at[t] = "write" /\ toClangd' = Append(toClangd, Framed(t))
        /\ at'[t] = (IF IsRequest(out[t]) THEN "wait" ELSE "done")
    BY <1>4 DEF Writes, Go, Ends, TypeOK
  <2> DEFINE n == Len(toClangd)
  <2>2. /\ n \in Nat /\ toClangd'[n + 1] = Framed(t)
        /\ \A i \in 1 .. n : toClangd'[i] = toClangd[i]
        /\ SentTexts \in SUBSET (1 .. n)
        /\ SentTexts' = SentTexts \cup (IF out[t].kind \in TextKinds THEN {n + 1} ELSE {})
    BY <2>1, Sending
  <2>3. Framed(t).text = out[t].text
    BY DEF Framed
  <2> HIDE DEF n
  <2>4. /\ \A v : Latest(toClangd, SentTexts, known, v) => Latest(toClangd', SentTexts, known, v)
        /\ Latest(toClangd', SentTexts \cup {n + 1}, known, out[t].text)
    BY <2>2, <2>3, LatestAppend
  <2>5. CASE t = Looper /\ looper = "passing"
    <3>1. out[t].kind \in TextKinds /\ ~IsRequest(out[t])
      BY <2>5 DEF Writing, IsRequest, TextKinds
    <3>2. Passed' = out[t].text
      BY <1>1, <2>1, <2>5, <3>1 DEF Passed
    <3> QED
      BY <2>2, <2>4, <3>1, <3>2
  <2>6. CASE t # Looper \/ looper # "passing"
    <3>1. out[t].kind \notin TextKinds
      <4>1. CASE t # Looper
        BY <1>2, <2>1, <4>1 DEF Writing, TextKinds
      <4>2. CASE t = Looper
        <5>1. looper # "idle"
          BY <2>1, <4>2 DEF Ready
        <5>2. looper \in {"starting", "greeting"}
          BY <2>6, <4>2, <5>1 DEF TypeOK
        <5> QED
          BY <4>2, <5>2 DEF Writing, TextKinds
      <4> QED
        BY <4>1, <4>2
    <3>2. Passed' = Passed
      BY <1>1, <1>2, <2>6 DEF Passed, TypeOK
    <3> QED
      BY <1>3, <2>2, <2>4, <3>1, <3>2
  <2> QED
    BY <2>5, <2>6
<1>5. CASE ~Writes(t)
  <2>1. toClangd' = toClangd
    BY <1>5 DEF Calls, Caller, TakesId, Locks, WriteFails, Finds, GivesUp, pipes
  <2>2. looper = "passing" => (at'[Looper] = "done" <=> at[Looper] = "done")
    <3> SUFFICES ASSUME looper = "passing" PROVE at'[Looper] = "done" <=> at[Looper] = "done"
      OBVIOUS
    <3>1. at[Looper] \in {"send", "write", "done"}
      BY DEF Writing
    <3>2. CASE t = Looper
      BY <1>5, <3>1, <3>2 DEF Calls, Caller, TakesId, Locks, WriteFails, Finds, GivesUp, Go, TypeOK
    <3>3. CASE t # Looper
      BY <1>2, <3>3 DEF TypeOK
    <3> QED
      BY <3>2, <3>3
  <2>3. Passed' = Passed
    BY <1>1, <2>2 DEF Passed
  <2> QED
    BY <1>3, <2>1, <2>3 DEF SentTexts
<1> QED
  BY <1>4, <1>5

LEMMA LooperPipe == ASSUME TypeOK, Ready, Sessions, Writing, PipeFlows, LooperStep PROVE PipeFlows'
<1>0. /\ Looper \in Threads /\ Looper \notin Questions
      /\ at \in [Threads -> {"off", "look", "id", "send", "write", "wait", "done", "over"}]
  BY SessionAssumption DEF Threads, TypeOK
<1>1. CASE OpensSession
  <2>1. looper = "idle" /\ docText' = docText /\ docText = 0
    BY <1>1, OpensFresh DEF OpensSession, Takes
  <2>2. CASE UNCHANGED <<sessionVars, looper>>
    <3>1. Passed' = Passed
      BY <2>1, <2>2 DEF Passed
    <3> QED
      BY <2>2, <3>1 DEF PipeFlows, SentTexts, sessionVars, pipes, clangdVars
  <2>3. CASE toClangd' = <<>> /\ known' = 0 /\ looper' = "starting"
    <3>1. SentTexts' = {}
      BY <2>3 DEF SentTexts
    <3>2. Passed' = 0
      BY <2>1, <2>3 DEF Passed
    <3> QED
      BY <2>3, <3>1, <3>2 DEF PipeFlows, Latest
  <2> QED
    BY <1>1, <2>2, <2>3 DEF OpensSession
<1>2. CASE Greets \/ SessionOpens \/ UnknownSession \/ PassesOn \/ StartsWorker
  <2>1. UNCHANGED <<child, toClangd, known, docText>>
    BY <1>2 DEF Greets, SessionOpens, UnknownSession, PassesOn, StartsWorker, OnlyLooper, pipes, clangdVars
  <2>2. looper \in {"idle", "starting", "greeting"}
    BY <1>2 DEF Greets, SessionOpens, UnknownSession, PassesOn, StartsWorker, Takes
  <2>3. looper' = "passing" => at'[Looper] = "send"
    <3>1. CASE PassesOn
      BY <1>0, <3>1 DEF PassesOn, Notify, Go
    <3>2. CASE ~PassesOn
      BY <1>2, <2>2, <3>2 DEF Greets, SessionOpens, UnknownSession, StartsWorker, Takes
    <3> QED
      BY <3>1, <3>2
  <2>4. Passed' = Passed
    BY <2>1, <2>2, <2>3 DEF Passed
  <2> QED
    BY <2>1, <2>2, <2>4 DEF PipeFlows, SentTexts
<1>3. CASE Remembers
  <2>1. UNCHANGED <<child, toClangd, known>> /\ looper = "passing" /\ looper' = "idle"
        /\ at[Looper] = "done" /\ docText' = out[Looper].text
    BY <1>3 DEF Remembers, OnlyLooper, pipes, clangdVars
  <2>2. Passed' = Passed
    BY <2>1 DEF Passed
  <2> QED
    BY <2>1, <2>2 DEF PipeFlows, SentTexts
<1>4. CASE StartFails \/ EndsSession \/ Kills
  BY <1>4 DEF StartFails, EndsSession, Kills, PipeFlows
<1>5. CASE Joins
  BY <1>5 DEF Joins, PipeFlows
<1> QED
  BY <1>1, <1>2, <1>3, <1>4, <1>5 DEF LooperStep

LEMMA WorkerPipe == ASSUME TypeOK, PipeFlows, NEW q \in Questions, WorkerStep(q) PROVE PipeFlows'
<1>1. UNCHANGED <<child, toClangd, known, looper, docText>>
  BY DEF WorkerStep, Looks, Pushes, pipes, clangdVars, serverVars
<1>2. at'[Looper] = at[Looper] /\ out'[Looper] = out[Looper]
  <2>1. q # Looper /\ Looper \in Threads
    BY SessionAssumption DEF Threads
  <2> QED
    BY <2>1 DEF WorkerStep, Looks, Pushes, Request, Returns, Go, TypeOK
<1> QED
  BY <1>1, <1>2 DEF PipeFlows, SentTexts, Passed

-----------------------------------------------------------------------------
(* The question the editor asks, among the others.                         *)
LEMMA Asks ==
  ASSUME TypeOK, EditorAsks
  PROVE  \E q \in Questions : \E place \in Nat :
           /\ Posts("ask", version, q) /\ asked[q] = NotAsked
           /\ \A p \in Questions \ {q} : asked'[p] = asked[p]
           /\ asked'[q] = [text |-> version, at |-> place]
<1> DEFINE q == CHOOSE x \in Questions : asked[x] = NotAsked
<1>1. q \in Questions /\ asked[q] = NotAsked /\ Posts("ask", version, q)
  BY DEF EditorAsks
<1>2. PICK i \in 0 .. Len(Line(version)) :
        asked' = [asked EXCEPT ![q] = [text |-> version, at |-> Bytes(Line(version), i)]]
  BY DEF EditorAsks
<1>3. Bytes(Line(version), i) \in Nat
  BY BytesNat, LineSeq DEF TypeOK
<1> HIDE DEF q
<1> QED
  BY <1>1, <1>2, <1>3 DEF TypeOK

(* A question already asked keeps its text and its place.                  *)
LEMMA AskedStays ==
  ASSUME TypeOK, Editor, NEW q \in Questions, asked[q] # NotAsked
  PROVE  asked'[q] = asked[q]
<1>1. CASE EditorAsks
  BY <1>1, Asks
<1>2. CASE ~EditorAsks
  BY <1>2 DEF Editor, EditorStarts, EditorSends, EditorCloses, EditorEnds
<1> QED
  BY <1>1, <1>2

(* What the editor posts after a question is a later text or none.         *)
LEMMA PostsLater ==
  ASSUME TypeOK, Once, Editor, NEW what, NEW text, NEW p, Posts(what, text, p), what \in TextKinds,
         NEW q \in Questions, asked[q] # NotAsked
  PROVE  Later(asked[q].text, text)
<1>1. inbox' = Append(inbox, [what |-> what, token |-> fNextToken, text |-> text, q |-> p])
  BY DEF Posts
<1>2. asked[q].text \in 1 .. version /\ version \in Nat
  BY DEF Once, TypeOK, Versions
<1>3. CASE EditorSends
  BY <1>1, <1>2, <1>3 DEF EditorSends, Posts, Later
<1>4. CASE EditorCloses
  BY <1>1, <1>4 DEF EditorCloses, Posts, Later
<1>5. CASE EditorStarts \/ EditorAsks \/ EditorEnds
  BY <1>1, <1>5 DEF EditorStarts, EditorAsks, EditorEnds, Posts, TextKinds
<1> QED
  BY <1>3, <1>4, <1>5 DEF Editor

LEMMA EditorPosted == ASSUME TypeOK, Ready, Sessions, PortFlows, Once, Posted, Editor PROVE Posted'
<1>1. PICK what, text, p : Posts(what, text, p)
  BY DEF Editor, EditorStarts, EditorSends, EditorCloses, EditorAsks, EditorEnds
<1>2. Taken' = Taken
  BY DEF Editor, EditorStarts, EditorSends, EditorCloses, EditorAsks, EditorEnds, OnlyPosts,
         sessionVars, callVars, Taken
<1> DEFINE n == Len(inbox)
<1>3. /\ n \in Nat /\ \A i \in 1 .. n : inbox'[i] = inbox[i]
      /\ inbox'[n + 1] = [what |-> what, token |-> fNextToken, text |-> text, q |-> p]
      /\ PostedTexts \in SUBSET (1 .. n)
      /\ PostedTexts' = PostedTexts \cup (IF what \in TextKinds THEN {n + 1} ELSE {})
      /\ Waiting \subseteq 1 .. n
      /\ Waiting' = Waiting \cup (IF what = "ask" THEN {n + 1} ELSE {})
  BY <1>1, Posting
<1>4. inbox'[n + 1].text = text /\ inbox'[n + 1].q = p
  BY <1>3
<1> HIDE DEF n
<1>5. ASSUME NEW i \in Waiting
      PROVE  /\ Latest(inbox', UpTo(PostedTexts', i), Taken, asked'[inbox'[i].q].text)
             /\ \A j \in PostedTexts' : j > i => Later(asked'[inbox'[i].q].text, inbox'[j].text)
  <2>1. /\ inbox'[i] = inbox[i] /\ i \in 1 .. n /\ inbox[i].q \in Questions
        /\ asked[inbox[i].q] # NotAsked
    BY <1>3 DEF Ready
  <2>2. asked'[inbox[i].q] = asked[inbox[i].q]
    BY <2>1, AskedStays
  <2>3. UpTo(PostedTexts', i) = UpTo(PostedTexts, i) /\ UpTo(PostedTexts, i) \in SUBSET (1 .. n)
    <3>1. n \in Nat /\ i \in 1 .. n /\ PostedTexts \in SUBSET (1 .. n)
      BY <1>3, <2>1
    <3>2. PostedTexts' = PostedTexts \/ PostedTexts' = PostedTexts \cup {n + 1}
      BY <1>3
    <3>3. ~(n + 1 < i)
      BY <3>1
    <3> QED
      BY <3>1, <3>2, <3>3 DEF UpTo
  <2>4. \A v : Latest(inbox, UpTo(PostedTexts, i), Taken, v) => Latest(inbox', UpTo(PostedTexts, i), Taken, v)
    BY <1>3, <2>3, LatestAppend
  <2>5. Latest(inbox', UpTo(PostedTexts', i), Taken, asked'[inbox'[i].q].text)
    BY <2>1, <2>2, <2>3, <2>4 DEF Posted
  <2>6. ASSUME NEW j \in PostedTexts', j > i PROVE Later(asked'[inbox'[i].q].text, inbox'[j].text)
    <3>1. CASE j \in PostedTexts
      <4>1. Later(asked[inbox[i].q].text, inbox[j].text) /\ inbox'[j] = inbox[j]
        BY <1>3, <2>6, <3>1 DEF Posted
      <4> QED
        BY <2>1, <2>2, <4>1
    <3>2. CASE j = n + 1 /\ what \in TextKinds
      <4>1. Later(asked[inbox[i].q].text, text)
        BY <1>1, <2>1, <3>2, PostsLater
      <4> QED
        BY <1>4, <2>1, <2>2, <3>2, <4>1
    <3> QED
      BY <1>3, <3>1, <3>2
  <2> QED
    BY <2>5, <2>6
<1>6. ASSUME what = "ask"
      PROVE  Latest(inbox', UpTo(PostedTexts', n + 1), Taken, asked'[inbox'[n + 1].q].text)
  <2>1. EditorAsks
    BY <1>1, <1>6 DEF Editor, EditorStarts, EditorSends, EditorCloses, EditorEnds, Posts
  <2>2. PICK q \in Questions : Posts("ask", version, q) /\ asked'[q].text = version
    <3>1. PICK q \in Questions, place \in Nat :
            Posts("ask", version, q) /\ asked'[q] = [text |-> version, at |-> place]
      BY <2>1, Asks
    <3> QED
      BY <3>1
  <2>3. p = q
    BY <1>1, <2>2 DEF Posts
  <2>4. PostedTexts' = PostedTexts /\ UpTo(PostedTexts', n + 1) = PostedTexts
    <3>1. n \in Nat /\ PostedTexts \in SUBSET (1 .. n)
      BY <1>3
    <3>2. PostedTexts' = PostedTexts
      BY <1>3, <1>6 DEF TextKinds
    <3>3. \A j \in PostedTexts : j < n + 1
      BY <3>1
    <3>4. UpTo(PostedTexts, n + 1) = PostedTexts
      BY <3>3 DEF UpTo
    <3> QED
      BY <3>2, <3>4
  <2>5. Latest(inbox, PostedTexts, Taken, version)
    BY <2>1 DEF EditorAsks, PortFlows
  <2>6. Latest(inbox', PostedTexts, Taken, version)
    BY <1>3, <2>5, LatestAppend
  <2> QED
    BY <1>3, <1>4, <2>2, <2>3, <2>4, <2>6
<1>7. ASSUME NEW i \in Waiting'
      PROVE  /\ Latest(inbox', UpTo(PostedTexts', i), Taken, asked'[inbox'[i].q].text)
             /\ \A j \in PostedTexts' : j > i => Later(asked'[inbox'[i].q].text, inbox'[j].text)
  <2>1. CASE i \in Waiting
    BY <1>5, <2>1
  <2>2. CASE i = n + 1 /\ what = "ask"
    <3>1. \A j \in PostedTexts' : j \in Nat /\ ~(j > n + 1)
      <4>1. n \in Nat /\ PostedTexts \in SUBSET (1 .. n)
        BY <1>3
      <4>2. PostedTexts' = PostedTexts
        BY <1>3, <2>2 DEF TextKinds
      <4> QED
        BY <4>1, <4>2
    <3> QED
      BY <1>6, <2>2, <3>1
  <2> QED
    BY <1>3, <2>1, <2>2
<1> QED
  BY <1>2, <1>7 DEF Posted

(* The looper comes to a question when it has come to the question's text. *)
LEMMA LooperPosted ==
  ASSUME TypeOK, Ready, Sessions, Once, Posted, LooperStep
  PROVE  Posted'
<1>0. asked' = asked
  BY DEF LooperStep, OpensSession, Greets, SessionOpens, StartFails, UnknownSession, PassesOn,
         Remembers, StartsWorker, EndsSession, Kills, Joins, OnlyLooper, editorVars
<1>1. CASE PassesOn \/ StartsWorker
  <2>1. /\ Len(inbox) \in Nat \ {0}
        /\ \A i \in 1 .. Len(inbox) - 1 : inbox'[i] = inbox[i + 1]
        /\ PostedTexts \in SUBSET (1 .. Len(inbox))
        /\ PostedTexts' = {i \in 1 .. Len(inbox) - 1 : i + 1 \in PostedTexts}
        /\ Waiting' = {i \in 1 .. Len(inbox) - 1 : i + 1 \in Waiting}
    BY <1>1, TakesOne, Taking
  <2>2. ASSUME NEW i \in Waiting'
        PROVE  /\ Latest(inbox', UpTo(PostedTexts', i), Taken', asked[inbox'[i].q].text)
               /\ \A j \in PostedTexts' : j > i => Later(asked[inbox'[i].q].text, inbox'[j].text)
    <3>1. i \in 1 .. Len(inbox) - 1 /\ i + 1 \in Waiting /\ inbox'[i] = inbox[i + 1]
      BY <2>1
    <3> DEFINE D == UpTo(PostedTexts, i + 1)
    <3>2. D \in SUBSET (1 .. Len(inbox))
      BY <2>1 DEF UpTo
    <3>3. 1 \in D <=> Head(inbox).what \in TextKinds
      <4>1. 1 < i + 1
        BY <2>1, <3>1
      <4>2. 1 \in PostedTexts <=> Head(inbox).what \in TextKinds
        BY <1>1, TakesOne
      <4> QED
        BY <4>1, <4>2 DEF UpTo
    <3>4. Latest(inbox, D, Taken, asked[inbox[i + 1].q].text)
      BY <3>1 DEF Posted
    <3>5. {k \in 1 .. Len(inbox) - 1 : k + 1 \in D} = UpTo(PostedTexts', i)
      <4>1. \A k \in 1 .. Len(inbox) - 1 : k + 1 < i + 1 <=> k < i
        BY <2>1, <3>1
      <4> QED
        BY <2>1, <4>1 DEF UpTo
    <3> HIDE DEF D
    <3>6. Latest(inbox', UpTo(PostedTexts', i), Taken', asked[inbox'[i].q].text)
      BY <1>1, <3>1, <3>2, <3>3, <3>4, <3>5, TakesOne, TakesText
    <3>7. ASSUME NEW j \in PostedTexts', j > i
          PROVE  Later(asked[inbox'[i].q].text, inbox'[j].text)
      <4>1. j + 1 \in PostedTexts /\ inbox'[j] = inbox[j + 1] /\ j + 1 > i + 1
        BY <2>1, <3>1, <3>7
      <4> QED
        BY <3>1, <4>1 DEF Posted
    <3> QED
      BY <3>6, <3>7
  <2> QED
    BY <1>0, <2>2 DEF Posted
<1>2. CASE Remembers
  <2>1. Taken' = Taken /\ inbox' = inbox
    BY <1>2 DEF Remembers, Taken, OnlyLooper
  <2> QED
    BY <1>0, <2>1 DEF Posted, PostedTexts, Waiting
<1>3. CASE ~(PassesOn \/ StartsWorker \/ Remembers)
  <2>1. Waiting' = {}
    <3>1. CASE OpensSession
      BY <3>1, OpensFresh DEF Waiting
    <3>2. CASE UnknownSession \/ EndsSession
      <4>1. /\ inbox[1] = Head(inbox) /\ 1 \in 1 .. Len(inbox)
            /\ inbox[1].what = "end" \/ inbox[1].token # session
            /\ inbox # <<>> /\ inbox' = Tail(inbox)
        BY <3>2, HeadIn DEF UnknownSession, EndsSession, Takes, Known, TypeOK
      <4>2. Waiting = {}
        BY <4>1, OnTheWay DEF Sessions, InSessionOnly
      <4> QED
        BY <4>1, <4>2, Taking
    <3>3. CASE Greets \/ SessionOpens \/ StartFails \/ Kills \/ Joins
      <4>1. looper \in {"starting", "greeting", "killing", "joining"} /\ inbox' = inbox
        BY <3>3 DEF Greets, SessionOpens, StartFails, Kills, Joins, OnlyLooper
      <4>2. Waiting = {}
        BY <4>1, OnTheWay DEF Sessions, InSessionOnly
      <4> QED
        BY <4>1, <4>2 DEF Waiting
    <3> QED
      BY <1>3, <3>1, <3>2, <3>3 DEF LooperStep
  <2> QED
    BY <2>1 DEF Posted
<1> QED
  BY <1>1, <1>2, <1>3

-----------------------------------------------------------------------------
(* A worker's column: what changes the text after its question is later.   *)
LEMMA EditorStarted == ASSUME TypeOK, Ready, Once, Started, Editor PROVE Started'
<1>1. PICK what, text, p : Posts(what, text, p)
  BY DEF Editor, EditorStarts, EditorSends, EditorCloses, EditorAsks, EditorEnds
<1>2. UNCHANGED <<at, out, looper, docText>>
  BY DEF Editor, EditorStarts, EditorSends, EditorCloses, EditorAsks, EditorEnds, OnlyPosts,
         sessionVars, callVars
<1> DEFINE n == Len(inbox)
<1>3. /\ n \in Nat /\ \A i \in 1 .. n : inbox'[i] = inbox[i]
      /\ inbox'[n + 1] = [what |-> what, token |-> fNextToken, text |-> text, q |-> p]
      /\ PostedTexts \in SUBSET (1 .. n)
      /\ PostedTexts' = PostedTexts \cup (IF what \in TextKinds THEN {n + 1} ELSE {})
  BY <1>1, Posting
<1>4. inbox'[n + 1].text = text
  BY <1>3
<1> HIDE DEF n
<1>5. ASSUME NEW q \in Questions, at[q] # "off"
      PROVE  asked'[q] = asked[q] /\ \A j \in PostedTexts' : Later(asked[q].text, inbox'[j].text)
  <2>1. asked[q] # NotAsked /\ asked'[q] = asked[q]
    BY <1>5, AskedStays DEF Ready
  <2>2. ASSUME NEW j \in PostedTexts' PROVE Later(asked[q].text, inbox'[j].text)
    <3>1. CASE j \in PostedTexts
      BY <1>3, <1>5, <3>1 DEF Started
    <3>2. CASE j = n + 1 /\ what \in TextKinds
      <4>1. Later(asked[q].text, text)
        BY <1>1, <2>1, <3>2, PostsLater
      <4> QED
        BY <1>4, <3>2, <4>1
    <3> QED
      BY <1>3, <2>2, <3>1, <3>2
  <2> QED
    BY <2>1, <2>2
<1>6. Passed' = Passed
  BY <1>2 DEF Passed
<1> QED
  BY <1>2, <1>5, <1>6 DEF Started, Fits

LEMMA LooperStarted ==
  ASSUME TypeOK, Ready, Sessions, Once, Posted, Started, LooperStep
  PROVE  Started'
<1>0. /\ Looper \in Threads /\ Looper \notin Questions /\ Questions \subseteq Threads
      /\ at \in [Threads -> {"off", "look", "id", "send", "write", "wait", "done", "over"}]
      /\ out \in [Threads -> [kind : Kinds, of : Threads, text : Versions, col : Nat]]
  BY SessionAssumption DEF Threads, TypeOK
<1>1. asked' = asked
  BY DEF LooperStep, OpensSession, Greets, SessionOpens, StartFails, UnknownSession, PassesOn,
         Remembers, StartsWorker, EndsSession, Kills, Joins, OnlyLooper, editorVars
<1>2. \A j \in PostedTexts' : \E k \in PostedTexts : inbox'[j] = inbox[k]
  <2>1. CASE inbox # <<>> /\ inbox' = Tail(inbox)
    BY <2>1, Taking
  <2>2. CASE inbox' = inbox
    BY <2>2 DEF PostedTexts
  <2> QED
    BY <2>1, <2>2
       DEF LooperStep, OpensSession, Greets, SessionOpens, StartFails, UnknownSession, PassesOn,
           Remembers, StartsWorker, EndsSession, Kills, Joins, OnlyLooper, Takes
<1>3. \A q \in Questions : at[q] # "off" =>
        \A j \in PostedTexts' : Later(asked[q].text, inbox'[j].text)
  BY <1>2 DEF Started
<1>4. CASE StartsWorker
  <2>1. /\ looper = "idle" /\ looper' = "idle" /\ docText' = docText /\ out' = out
        /\ at' = at \/ at' = [at EXCEPT ![Head(inbox).q] = "look"]
        /\ inbox # <<>> /\ inbox' = Tail(inbox) /\ Head(inbox).what = "ask"
    BY <1>4 DEF StartsWorker, Takes, Go
  <2> DEFINE p == Head(inbox).q
  <2>2. inbox[1] = Head(inbox) /\ 1 \in Waiting
    BY <2>1, HeadIn DEF TypeOK, Waiting
  <2>3. p \in Questions /\ at[p] = "off"
    BY <2>2 DEF Ready
  <2>4. UpTo(PostedTexts, 1) = {}
    BY DEF UpTo, PostedTexts
  <2>5. docText = asked[p].text
    BY <2>1, <2>2, <2>4 DEF Posted, Latest, Taken
  <2>6. ASSUME NEW j \in PostedTexts' PROVE Later(asked[p].text, inbox'[j].text)
    <3>1. j \in Nat /\ j + 1 \in PostedTexts /\ j + 1 > 1 /\ inbox'[j] = inbox[j + 1]
      BY <2>1, Taking
    <3> QED
      BY <2>2, <3>1 DEF Posted
  <2> HIDE DEF p
  <2>7. Passed' = Passed
    BY <2>1 DEF Passed
  <2>8. ASSUME NEW q \in Questions, at'[q] # "off"
        PROVE  /\ \A j \in PostedTexts' : Later(asked[q].text, inbox'[j].text)
               /\ at'[q] = "look" => Later(asked[q].text, docText) \/ docText = asked[q].text
               /\ at'[q] \in {"id", "send", "write"} => Fits(q, Passed, out[q].col)
    <3>1. CASE q = p /\ at'[p] = "look"
      BY <2>5, <2>6, <3>1
    <3>2. CASE at'[q] = at[q]
      BY <1>3, <2>8, <3>2 DEF Started
    <3> QED
      BY <1>0, <2>1, <3>1, <3>2 DEF p
  <2> QED
    BY <1>1, <2>1, <2>7, <2>8 DEF Started, Fits
<1>5. CASE PassesOn
  <2>1. /\ looper = "idle" /\ looper' = "passing" /\ docText' = docText
        /\ out'[Looper].text = Head(inbox).text /\ 1 \in PostedTexts /\ inbox # <<>>
    BY <1>5, TakesOne DEF PassesOn
  <2>2. at' = [at EXCEPT ![Looper] = "send"] /\ \E f : out' = [out EXCEPT ![Looper] = f]
    BY <1>5 DEF PassesOn, Notify, Go
  <2>3. \A q \in Questions : at'[q] = at[q] /\ out'[q] = out[q]
    BY <1>0, <2>2
  <2>4. Passed' = Passed
    BY <1>0, <2>1, <2>2 DEF Passed
  <2>5. inbox[1] = Head(inbox)
    BY <2>1, HeadIn DEF TypeOK
  <2>6. \A q \in Questions : at[q] # "off" => Later(asked[q].text, out'[Looper].text)
    BY <2>1, <2>5 DEF Started
  <2> QED
    BY <1>1, <1>3, <2>1, <2>3, <2>4, <2>6 DEF Started, Fits
<1>6. CASE Remembers
  <2>1. /\ looper = "passing" /\ looper' = "idle" /\ at[Looper] = "done"
        /\ docText' = out[Looper].text
        /\ at' = [at EXCEPT ![Looper] = "off"] /\ \E f : out' = [out EXCEPT ![Looper] = f]
    BY <1>6 DEF Remembers, Returns, Go
  <2>2. \A q \in Questions : at'[q] = at[q] /\ out'[q] = out[q]
    BY <1>0, <2>1
  <2>3. Passed' = Passed
    BY <2>1 DEF Passed
  <2> QED
    BY <1>1, <1>3, <2>1, <2>2, <2>3 DEF Started, Fits
<1>7. CASE ~(PassesOn \/ StartsWorker \/ Remembers)
  <2>1. editor # "in" /\ looper' # "passing"
    <3>1. CASE OpensSession
      BY <3>1, OpensFresh DEF OpensSession, Takes
    <3>2. CASE UnknownSession \/ EndsSession
      <4>1. /\ inbox[1] = Head(inbox) /\ 1 \in 1 .. Len(inbox)
            /\ inbox[1].what = "end" \/ inbox[1].token # session
        BY <3>2, HeadIn DEF UnknownSession, EndsSession, Takes, Known, TypeOK
      <4>2. editor # "in"
        BY <4>1 DEF Sessions, InSessionOnly
      <4>3. looper' # "passing"
        BY <3>2 DEF UnknownSession, EndsSession
      <4> QED
        BY <4>2, <4>3
    <3>3. CASE Greets \/ SessionOpens \/ StartFails \/ Kills \/ Joins
      <4>1. looper \in {"starting", "greeting", "killing", "joining"} /\ looper' # "passing"
        BY <3>3 DEF Greets, SessionOpens, StartFails, Kills, Joins
      <4> QED
        BY <4>1 DEF Sessions, InSessionOnly
    <3> QED
      BY <1>7, <3>1, <3>2, <3>3 DEF LooperStep
  <2>2. \A q \in Questions : at'[q] = at[q]
    <3>1. at' = at \/ \E place : at' = [at EXCEPT ![Looper] = place]
      BY <1>7 DEF LooperStep, OpensSession, Greets, SessionOpens, StartFails, UnknownSession,
             EndsSession, Kills, Joins, Request, Notify, Returns, Go, sessionVars, callVars
    <3> QED
      BY <1>0, <3>1
  <2>3. \A q \in Questions : at[q] \in {"off", "over"}
    BY <2>1, OnTheWay
  <2> QED
    BY <1>1, <1>3, <2>1, <2>2, <2>3 DEF Started
<1> QED
  BY <1>4, <1>5, <1>6, <1>7

LEMMA WorkerStarted ==
  ASSUME TypeOK, Started, NEW q \in Questions, WorkerStep(q)
  PROVE  Started'
<1>0. /\ Looper \in Threads /\ q # Looper /\ Questions \subseteq Threads
      /\ at \in [Threads -> {"off", "look", "id", "send", "write", "wait", "done", "over"}]
      /\ out \in [Threads -> [kind : Kinds, of : Threads, text : Versions, col : Nat]]
  BY SessionAssumption DEF Threads, TypeOK
<1>1. UNCHANGED <<inbox, asked, looper, docText>>
  BY DEF WorkerStep, Looks, Pushes, serverVars, editorVars
<1>2. /\ at[q] # "off" /\ \E place, f : at' = [at EXCEPT ![q] = place] /\ out' = [out EXCEPT ![q] = f]
  BY DEF WorkerStep, Looks, Pushes, Request, Returns, Go
<1>3. \A p \in Threads \ {q} : at'[p] = at[p] /\ out'[p] = out[p]
  BY <1>0, <1>2
<1>4. Passed' = Passed /\ PostedTexts' = PostedTexts
  BY <1>0, <1>1, <1>3 DEF Passed, PostedTexts
<1>5. CASE Looks(q)
  <2>1. /\ at[q] = "look" /\ at'[q] = "id"
        /\ out'[q] = [Note(q, "ask", 0) EXCEPT !.col = Utf16FromByte(Line(docText), asked[q].at)]
    BY <1>0, <1>5 DEF Looks, Request, Go
  <2>2. out'[q].col = Utf16FromByte(Line(docText), asked[q].at)
    BY <2>1 DEF Note
  <2>3. Fits(q, Passed, out'[q].col)
    BY <2>1, <2>2 DEF Started, Fits, Passed
  <2> QED
    BY <1>0, <1>1, <1>2, <1>3, <1>4, <2>1, <2>3 DEF Started, Fits
<1>6. CASE Pushes(q)
  <2>1. at'[q] = "over"
    BY <1>0, <1>6 DEF Pushes, Returns, Go
  <2> QED
    BY <1>0, <1>1, <1>2, <1>3, <1>4, <2>1 DEF Started, Fits
<1> QED
  BY <1>5, <1>6 DEF WorkerStep

LEMMA CallerStarted ==
  ASSUME TypeOK, Started, NEW t \in Threads, Calls(t)
  PROVE  Started'
<1>0. /\ Looper \in Threads /\ Questions \subseteq Threads
      /\ at \in [Threads -> {"off", "look", "id", "send", "write", "wait", "done", "over"}]
  BY DEF Threads, TypeOK
<1>1. UNCHANGED <<inbox, asked, looper, docText, out>>
  BY DEF Calls, InSession, serverVars, editorVars, Caller, TakesId, Locks, Writes, WriteFails, Finds, GivesUp
<1>2. PICK place \in {"send", "write", "wait", "done"} : at' = [at EXCEPT ![t] = place]
  BY DEF Calls, Caller, TakesId, Locks, Writes, WriteFails, Finds, GivesUp, Go, Ends
<1>3. /\ at[t] \in {"id", "send", "write", "wait"}
      /\ place \in {"send", "write"} => at[t] \in {"id", "send", "write"}
  BY <1>0, <1>2 DEF Calls, Caller, TakesId, Locks, Writes, WriteFails, Finds, GivesUp, Go, Ends
<1>4. \A q \in Questions : /\ at'[q] # "off" => at[q] # "off"
                           /\ at'[q] = "look" => at[q] = "look"
                           /\ at'[q] \in {"id", "send", "write"} => at[q] \in {"id", "send", "write"}
  BY <1>0, <1>2, <1>3
<1>5. Passed' = Passed \/ (looper = "passing" /\ Passed' = out[Looper].text)
  <2>1. at[Looper] = "done" => at'[Looper] = "done"
    BY <1>0, <1>2, <1>3
  <2> QED
    BY <1>1, <2>1 DEF Passed
<1>6. ASSUME NEW q \in Questions, at'[q] \in {"id", "send", "write"} PROVE Fits(q, Passed', out[q].col)
  BY <1>4, <1>5, <1>6 DEF Started, Fits
<1>7. PostedTexts' = PostedTexts
  BY <1>1 DEF PostedTexts
<1> QED
  BY <1>1, <1>4, <1>6, <1>7 DEF Started, Fits

-----------------------------------------------------------------------------
(* What fits a question, or answers it, still does while it is asked.      *)
AskedKept == \A q \in Questions : asked[q] # NotAsked => asked'[q] = asked[q]

LEMMA FitsStays ==
  ASSUME AskedKept, NEW q \in Questions, asked[q] # NotAsked
  PROVE  \A v, col : Fits(q, v, col) => Fits(q, v, col)'
BY DEF AskedKept, Fits

LEMMA GoodStays == ASSUME AskedKept PROVE \A a : Good(a) => Good(a)'
<1> SUFFICES ASSUME NEW a, Good(a), a # Nothing, a.of \in Questions
             PROVE  asked'[a.of] # NotAsked /\ a \in Promise!Answers(a.of)'
  BY DEF Good
<1>1. asked[a.of] # NotAsked /\ a \in Promise!Answers(a.of) /\ asked'[a.of] = asked[a.of]
  BY DEF Good, AskedKept
<1> QED
  BY <1>1 DEF Promise!Answers

LEMMA SentKept ==
  ASSUME Sent, AskedKept, UNCHANGED <<toClangd, known>>
  PROVE  Sent'
<1> SUFFICES ASSUME NEW i \in 1 .. Len(toClangd), toClangd[i].of \in Questions
             PROVE  /\ toClangd[i].kind = "ask" /\ asked'[toClangd[i].of] # NotAsked
                    /\ FitsAt(i)'
  BY DEF Sent
<1>1. /\ toClangd[i].kind = "ask" /\ asked[toClangd[i].of] # NotAsked /\ FitsAt(i)
  BY DEF Sent
<1>2. PICK v \in Versions : /\ Latest(toClangd, UpTo(SentTexts, i), known, v)
                            /\ Fits(toClangd[i].of, v, toClangd[i].col)
  BY <1>1 DEF FitsAt
<1>3. Fits(toClangd[i].of, v, toClangd[i].col)' /\ SentTexts' = SentTexts
  BY <1>1, <1>2 DEF AskedKept, Fits, SentTexts
<1> QED
  BY <1>1, <1>2, <1>3 DEF FitsAt, AskedKept

LEMMA ThoughtKept ==
  ASSUME Thought, AskedKept, thinking' \subseteq thinking
  PROVE  Thought'
BY DEF Thought, AskedKept, Fits

LEMMA SaidKept ==
  ASSUME Said, AskedKept,
         \A i \in 1 .. Len(fromClangd') :
           (\E j \in 1 .. Len(fromClangd) : fromClangd'[i] = fromClangd[j]) \/ Good(fromClangd[i].answer)',
         \A r \in fReplies' : r \in fReplies \/ Good(r.answer)',
         \A q \in Questions : at'[q] = "done" =>
           \/ at[q] = "done" /\ got'[q] = got[q]
           \/ got'[q] = Nothing \/ (got'[q].of = q /\ Good(got[q])')
  PROVE  Said'
<1>1. \A a : Good(a) => Good(a)'
  BY GoodStays
<1>2. ASSUME NEW i \in 1 .. Len(fromClangd'), NEW j \in 1 .. Len(fromClangd), fromClangd'[i] = fromClangd[j]
      PROVE  Good(fromClangd[i].answer)'
  <2> DEFINE a == fromClangd[j].answer
  <2>1. Good(a)
    BY DEF Said
  <2>2. a = fromClangd'[i].answer
    BY <1>2
  <2> QED
    BY <1>1, <2>1, <2>2 DEF Good
<1>3. ASSUME NEW r \in fReplies' PROVE Good(r.answer)'
  <2>1. CASE r \in fReplies
    BY <1>1, <2>1 DEF Said, Good
  <2> QED
    BY <2>1
<1>4. ASSUME NEW q \in Questions, at'[q] = "done", at[q] = "done", got'[q] = got[q], got[q] # Nothing
      PROVE  got'[q].of = q /\ Good(got[q])'
  <2> DEFINE a == got[q]
  <2>1. a.of = q /\ Good(a)
    BY <1>4 DEF Said
  <2> QED
    BY <1>1, <1>4, <2>1 DEF Good
<1>5. \A i \in 1 .. Len(fromClangd') : Good(fromClangd[i].answer)'
  BY <1>2
<1>6. \A q \in Questions : at'[q] = "done" => got'[q] = Nothing \/ (got'[q].of = q /\ Good(got[q])')
  BY <1>4
<1> QED
  BY <1>3, <1>5, <1>6 DEF Said

(* A worker's frame goes into the pipe with the column it was given.       *)
LEMMA CallerSent ==
  ASSUME TypeOK, Ready, ThreadsMatch, Sessions, Writing, PipeFlows, Once, Started, Sent,
         NEW t \in Threads, Calls(t)
  PROVE  Sent'
<1>1. UNCHANGED <<known, asked>>
  BY DEF Calls, InSession, editorVars, Caller, TakesId, Locks, Writes, WriteFails, Finds, GivesUp, clangdVars
<1>2. AskedKept
  BY <1>1 DEF AskedKept
<1>3. CASE Writes(t)
  <2>0. PICK n \in Nat : n = Len(toClangd)
    BY DEF TypeOK
  <2> DEFINE f == Framed(t)
  <2>1. at[t] = "write" /\ child = "alive" /\ toClangd' = Append(toClangd, Framed(t))
    BY <1>3 DEF Writes
  <2>2. /\ n \in Nat /\ Len(toClangd') = n + 1 /\ toClangd'[n + 1] = f
        /\ \A i \in 1 .. n : toClangd'[i] = toClangd[i]
        /\ SentTexts \in SUBSET (1 .. n)
        /\ SentTexts' = SentTexts \/ SentTexts' = SentTexts \cup {n + 1}
    BY <2>0, <2>1, Sending
  <2>3. f.kind = out[t].kind /\ f.of = t /\ f.col = out[t].col
    BY DEF Framed, ThreadsMatch
  <2> HIDE DEF f
  <2>4. \A i \in 1 .. n + 1 : UpTo(SentTexts', i) = UpTo(SentTexts, i) /\ UpTo(SentTexts, i) \in SUBSET (1 .. n)
    <3> TAKE i \in 1 .. n + 1
    <3>1. ~(n + 1 < i)
      BY <2>2
    <3> QED
      BY <2>2, <3>1 DEF UpTo
  <2>5. ASSUME NEW i \in 1 .. n, NEW v, Latest(toClangd, UpTo(SentTexts, i), known, v)
        PROVE  Latest(toClangd', UpTo(SentTexts', i), known, v)
    <3>1. i \in 1 .. n + 1
      BY <2>2
    <3> QED
      BY <2>2, <2>4, <2>5, <3>1, LatestAppend
  <2>6. ASSUME NEW i \in 1 .. n, toClangd[i].of \in Questions
        PROVE  toClangd[i].kind = "ask" /\ asked[toClangd[i].of] # NotAsked /\ FitsAt(i)'
    <3>1. toClangd[i].kind = "ask" /\ asked[toClangd[i].of] # NotAsked /\ FitsAt(i)
      BY <2>0, <2>6 DEF Sent
    <3>2. PICK v \in Versions : /\ Latest(toClangd, UpTo(SentTexts, i), known, v)
                                /\ Fits(toClangd[i].of, v, toClangd[i].col)
      BY <3>1 DEF FitsAt
    <3>3. Latest(toClangd', UpTo(SentTexts', i), known, v) /\ toClangd'[i] = toClangd[i]
      BY <2>2, <2>5, <3>2
    <3> QED
      BY <1>1, <3>1, <3>2, <3>3 DEF FitsAt, Fits
  <2>7. ASSUME t \in Questions
        PROVE  out[t].kind = "ask" /\ asked[t] # NotAsked /\ FitsAt(n + 1)'
    <3>1. out[t].kind = "ask" /\ asked[t] # NotAsked
      BY <2>1, <2>7 DEF Writing, Ready
    <3>2. editor = "in"
      BY <2>1, <2>7, OnTheWay
    <3>3. Latest(toClangd, SentTexts, known, Passed)
      BY <2>1, <3>2 DEF Sessions, InSessionOnly, PipeFlows
    <3>4. Fits(t, Passed, out[t].col) /\ Passed \in Versions
      BY <2>1, <2>7 DEF Started, Passed, TypeOK, Threads
    <3>5. UpTo(SentTexts', n + 1) = SentTexts
      <4>1. \A j \in SentTexts : j < n + 1
        BY <2>2
      <4>2. UpTo(SentTexts, n + 1) = SentTexts
        BY <4>1 DEF UpTo
      <4>3. n + 1 \in 1 .. n + 1
        BY <2>2
      <4> QED
        BY <2>4, <4>2, <4>3
    <3>6. Latest(toClangd', SentTexts, known, Passed)
      BY <2>2, <3>3, LatestAppend
    <3> DEFINE v == Passed
    <3>7. /\ v \in Versions /\ Latest(toClangd', UpTo(SentTexts', n + 1), known, v)
          /\ Fits(t, v, out[t].col)
      BY <3>4, <3>5, <3>6
    <3> HIDE DEF v
    <3>8. /\ toClangd'[n + 1].of = t /\ toClangd'[n + 1].col = out[t].col
          /\ known' = known /\ asked' = asked
      BY <1>1, <2>2, <2>3
    <3> QED
      BY <3>1, <3>7, <3>8 DEF FitsAt, Fits
  <2>8. ASSUME NEW i \in 1 .. Len(toClangd'), toClangd'[i].of \in Questions
        PROVE  toClangd'[i].kind = "ask" /\ asked[toClangd'[i].of] # NotAsked /\ FitsAt(i)'
    <3>1. CASE i \in 1 .. n
      BY <2>2, <2>6, <2>8, <3>1
    <3>2. CASE i = n + 1
      BY <2>2, <2>3, <2>7, <2>8, <3>2
    <3> QED
      BY <2>2, <3>1, <3>2
  <2> QED
    BY <1>1, <2>8 DEF Sent
<1>4. CASE ~Writes(t)
  <2>1. toClangd' = toClangd
    BY <1>4 DEF Calls, Caller, TakesId, Locks, WriteFails, Finds, GivesUp, pipes
  <2> QED
    BY <1>1, <1>2, <2>1, SentKept
<1> QED
  BY <1>3, <1>4

(* clangd reads them in order, so a question meets the text it fits.       *)
LEMMA ClangdSent == ASSUME TypeOK, Sent, Clangd PROVE Sent'
<1>1. asked' = asked
  BY DEF Clangd, InSession, editorVars
<1>2. AskedKept
  BY <1>1 DEF AskedKept
<1>3. CASE ClangdTakes
  <2> DEFINE n == Len(toClangd)
  <2>1. /\ n \in Nat \ {0} /\ Len(toClangd') = n - 1
        /\ \A i \in 1 .. n - 1 : toClangd'[i] = toClangd[i + 1]
        /\ SentTexts \in SUBSET (1 .. n)
        /\ SentTexts' = {i \in 1 .. n - 1 : i + 1 \in SentTexts}
        /\ 1 \in SentTexts <=> Head(toClangd).kind \in TextKinds
    BY <1>3, Receiving DEF ClangdTakes
  <2>2. ASSUME NEW i \in 1 .. Len(toClangd'), toClangd'[i].of \in Questions
        PROVE  toClangd'[i].kind = "ask" /\ asked[toClangd'[i].of] # NotAsked /\ FitsAt(i)'
    <3>1. i \in 1 .. n - 1 /\ i + 1 \in 1 .. n /\ toClangd'[i] = toClangd[i + 1]
      BY <2>1
    <3>2. toClangd[i + 1].kind = "ask" /\ asked[toClangd[i + 1].of] # NotAsked /\ FitsAt(i + 1)
      BY <2>2, <3>1 DEF Sent
    <3>3. PICK v \in Versions : /\ Latest(toClangd, UpTo(SentTexts, i + 1), known, v)
                                /\ Fits(toClangd[i + 1].of, v, toClangd[i + 1].col)
      BY <3>2 DEF FitsAt
    <3> DEFINE D == UpTo(SentTexts, i + 1)
    <3>4. D \in SUBSET (1 .. n) /\ (1 \in D <=> Head(toClangd).kind \in TextKinds)
      <4>1. 1 < i + 1
        BY <2>1, <3>1
      <4> QED
        BY <2>1, <4>1 DEF UpTo
    <3>5. {k \in 1 .. n - 1 : k + 1 \in D} = UpTo(SentTexts', i)
      <4>1. \A k \in 1 .. n - 1 : k + 1 < i + 1 <=> k < i
        BY <2>1, <3>1
      <4> QED
        BY <2>1, <4>1 DEF UpTo
    <3> HIDE DEF D
    <3>6. Latest(toClangd', UpTo(SentTexts', i), known', v)
      <4>1. Latest(toClangd, D, known, v)
        BY <3>3 DEF D
      <4>2. Latest(toClangd', {k \in 1 .. n - 1 : k + 1 \in D}, known', v)
        BY <1>3, <3>4, <4>1, TakesFrame
      <4> QED
        BY <3>5, <4>2
    <3> QED
      BY <1>1, <3>1, <3>2, <3>3, <3>6 DEF FitsAt, Fits
  <2> QED
    BY <1>1, <2>2 DEF Sent
<1>4. CASE ~ClangdTakes
  <2>1. UNCHANGED <<toClangd, known>>
    BY <1>4 DEF Clangd, ClangdAnswers, ClangdPublishes, ClangdDies, pipes, clangdVars
  <2> QED
    BY <1>2, <2>1, SentKept
<1> QED
  BY <1>3, <1>4

LEMMA LooperSent == ASSUME Sent, LooperStep PROVE Sent'
<1>1. asked' = asked
  BY DEF LooperStep, OpensSession, Greets, SessionOpens, StartFails, UnknownSession, PassesOn,
         Remembers, StartsWorker, EndsSession, Kills, Joins, OnlyLooper, editorVars
<1>2. toClangd' = <<>> \/ UNCHANGED <<toClangd, known>>
  BY DEF LooperStep, OpensSession, Greets, SessionOpens, StartFails, UnknownSession, PassesOn,
         Remembers, StartsWorker, EndsSession, Kills, Joins, OnlyLooper, sessionVars, pipes, clangdVars
<1>3. AskedKept
  BY <1>1 DEF AskedKept
<1>4. CASE toClangd' = <<>>
  <2>1. \A i \in 1 .. Len(toClangd') : FALSE
    BY <1>4
  <2> QED
    BY <2>1 DEF Sent
<1> QED
  BY <1>2, <1>3, <1>4, SentKept

(* What clangd thinks about is its text of that moment.                    *)
LEMMA ClangdThought == ASSUME TypeOK, Sent, Thought, Clangd PROVE Thought'
<1>1. asked' = asked
  BY DEF Clangd, InSession, editorVars
<1>2. AskedKept
  BY <1>1 DEF AskedKept
<1>3. CASE ClangdTakes
  <2> DEFINE h == Head(toClangd)
             g == [h EXCEPT !.text = known]
  <2>1. /\ Len(toClangd) \in Nat \ {0} /\ toClangd[1] = h /\ h \in Frames
    BY <1>3, Receiving DEF ClangdTakes
  <2>2. g.of = h.of /\ g.kind = h.kind /\ g.text = known /\ g.col = h.col
    BY <2>1 DEF Frames
  <2>3. thinking' \subseteq thinking \cup {g}
    BY <1>3 DEF ClangdTakes
  <2> HIDE DEF g, h
  <2>4. ASSUME h.of \in Questions
        PROVE  h.kind = "ask" /\ asked[h.of] # NotAsked /\ Fits(h.of, known, h.col)
    <3>1. 1 \in 1 .. Len(toClangd)
      BY <2>1
    <3>2. h.kind = "ask" /\ asked[h.of] # NotAsked /\ FitsAt(1)
      BY <2>1, <2>4, <3>1 DEF Sent
    <3>3. UpTo(SentTexts, 1) = {}
      BY DEF UpTo, SentTexts
    <3>4. Fits(h.of, known, h.col)
      BY <2>1, <3>2, <3>3 DEF FitsAt, Latest
    <3> QED
      BY <3>2, <3>4
  <2>5. ASSUME NEW f \in thinking', f.of \in Questions
        PROVE  f.kind = "ask" /\ asked[f.of] # NotAsked /\ Fits(f.of, f.text, f.col)
    BY <2>2, <2>3, <2>4, <2>5 DEF Thought
  <2> QED
    BY <1>1, <2>5 DEF Thought, Fits
<1>4. CASE ~ClangdTakes
  <2>1. thinking' \subseteq thinking
    BY <1>4 DEF Clangd, ClangdAnswers, ClangdPublishes, ClangdDies, clangdVars
  <2> QED
    BY <1>2, <2>1, ThoughtKept
<1> QED
  BY <1>3, <1>4

-----------------------------------------------------------------------------
(* An answer.  What clangd makes of a frame that fits its question is one  *)
(* the promise allows,                                                     *)
LEMMA Understands ==
  ASSUME Once, NEW f \in Frames, f.of \in Questions, asked[f.of] # NotAsked,
         Fits(f.of, f.text, f.col), f.text # 0
  PROVE  Understood(f) \in Promise!Answers(f.of)
<1> DEFINE q == f.of
           line == Line(f.text)
           S == {n \in 1 .. Len(line) : Units(line, n - 1) < f.col}
<1>1. f.text \in Versions /\ f.text \in Nat /\ Len(line) \in Nat /\ line \in Seq(1 .. 4)
  BY LineSeq DEF Frames, Versions
<1>2. Cardinality(S) \in 0 .. Len(line)
  <2>1. IsFiniteSet(1 .. Len(line)) /\ Cardinality(1 .. Len(line)) = Len(line)
    BY <1>1, Interval
  <2>2. IsFiniteSet(S) /\ Cardinality(S) <= Len(line)
    BY <2>1, FS_Subset
  <2>3. Cardinality(S) \in Nat
    BY <2>2, FS_CardinalityType
  <2> HIDE DEF S
  <2> QED
    BY <1>1, <2>2, <2>3
<1>3. ByteFromUtf16(line, f.col) \in Places
  <2>1. ByteFromUtf16(line, f.col) = Bytes(line, Cardinality(S))
    BY DEF ByteFromUtf16
  <2> HIDE DEF S
  <2> QED
    BY <1>1, <1>2, <2>1 DEF Places
<1>4. asked[q].text \in Nat /\ EdgeOf(Line(asked[q].text), asked[q].at)
  BY DEF Once
<1>5. f.text > asked[q].text \/ (f.text = asked[q].text /\ f.col = Utf16FromByte(line, asked[q].at))
  BY DEF Fits, Later
<1>6. ASSUME f.text = asked[q].text PROVE ByteFromUtf16(line, f.col) = asked[q].at
  <2>1. f.col = Utf16FromByte(line, asked[q].at)
    BY <1>1, <1>4, <1>5, <1>6
  <2>2. PICK k \in 0 .. Len(line) : asked[q].at = Bytes(line, k)
    BY <1>4, <1>6 DEF EdgeOf
  <2> HIDE DEF line
  <2> QED
    BY <1>1, <2>1, <2>2, ColumnsRoundTrip
<1>7. f.text >= asked[q].text
  BY <1>1, <1>4, <1>5
<1> DEFINE b == ByteFromUtf16(line, f.col)
<1>8. Understood(f) = [of |-> q, text |-> f.text, at |-> b]
  BY DEF Understood
<1> HIDE DEF q, line, b
<1>9. [of |-> q, text |-> f.text, at |-> b] \in Promise!Answers(q)
  BY <1>1, <1>3, <1>6, <1>7 DEF Promise!Answers, b
<1> QED
  BY <1>8, <1>9 DEF q

(* which is what it says,                                                  *)
LEMMA ClangdSaid == ASSUME TypeOK, Once, Thought, Said, Clangd PROVE Said'
<1>1. UNCHANGED <<asked, fReplies, at, got>>
  BY DEF Clangd, InSession, editorVars, ClangdTakes, ClangdAnswers, ClangdPublishes, ClangdDies, callVars
<1>2. AskedKept
  BY <1>1 DEF AskedKept
<1>3. ASSUME NEW m, Says(m), Good(m.answer), NEW i \in 1 .. Len(fromClangd')
      PROVE  (\E j \in 1 .. Len(fromClangd) : fromClangd'[i] = fromClangd[j]) \/ Good(fromClangd[i].answer)'
  <2>1. /\ Len(fromClangd) \in Nat /\ Len(fromClangd') = Len(fromClangd) + 1
        /\ fromClangd'[Len(fromClangd) + 1] = m
        /\ \A j \in 1 .. Len(fromClangd) : fromClangd'[j] = fromClangd[j]
    BY <1>3 DEF Says, TypeOK
  <2>2. CASE i \in 1 .. Len(fromClangd)
    BY <2>1, <2>2
  <2>3. CASE i = Len(fromClangd) + 1
    <3>1. fromClangd'[i] = m
      BY <2>1, <2>3
    <3> QED
      BY <1>1, <1>3, <3>1 DEF Good, Promise!Answers
  <2> QED
    BY <2>1, <2>2, <2>3
<1>4. CASE ClangdAnswers
  <2>1. PICK f \in thinking :
          Says([kind |-> "reply", id |-> f.id,
                answer |-> IF f.kind = "ask" /\ f.text = 0 THEN Nothing ELSE Understood(f)])
    BY <1>4 DEF ClangdAnswers
  <2> DEFINE m == [kind |-> "reply", id |-> f.id,
                   answer |-> IF f.kind = "ask" /\ f.text = 0 THEN Nothing ELSE Understood(f)]
  <2>2. m.answer = IF f.kind = "ask" /\ f.text = 0 THEN Nothing ELSE Understood(f)
    OBVIOUS
  <2>3. f \in Frames /\ Understood(f).of = f.of
    BY DEF TypeOK, Understood
  <2>4. ASSUME f.of \in Questions, f.text # 0
        PROVE  asked[f.of] # NotAsked /\ Understood(f) \in Promise!Answers(f.of)
    <3>1. asked[f.of] # NotAsked /\ Fits(f.of, f.text, f.col)
      BY <2>4 DEF Thought
    <3> QED
      BY <2>3, <2>4, <3>1, Understands
  <2>5. f.of \in Questions => f.kind = "ask"
    BY DEF Thought
  <2>6. Good(m.answer)
    <3> HIDE DEF m
    <3> QED
      BY <2>2, <2>3, <2>4, <2>5 DEF Good
  <2>7. Says(m)
    BY <2>1
  <2> HIDE DEF m
  <2>8. \A i \in 1 .. Len(fromClangd') :
          (\E j \in 1 .. Len(fromClangd) : fromClangd'[i] = fromClangd[j]) \/ Good(fromClangd[i].answer)'
    BY <1>3, <2>6, <2>7
  <2> QED
    BY <1>1, <1>2, <2>8, SaidKept
<1>5. CASE ClangdPublishes
  <2> DEFINE m == [kind |-> "publish", id |-> known, answer |-> Nothing]
  <2>1. Says(m) /\ m.answer = Nothing
    BY <1>5 DEF ClangdPublishes
  <2> HIDE DEF m
  <2>2. Good(m.answer)
    BY <2>1 DEF Good
  <2>3. \A i \in 1 .. Len(fromClangd') :
          (\E j \in 1 .. Len(fromClangd) : fromClangd'[i] = fromClangd[j]) \/ Good(fromClangd[i].answer)'
    BY <1>3, <2>1, <2>2
  <2> QED
    BY <1>1, <1>2, <2>3, SaidKept
<1>6. CASE ClangdTakes \/ ClangdDies
  <2>1. fromClangd' = fromClangd
    BY <1>6 DEF ClangdTakes, ClangdDies, pipes
  <2> QED
    BY <1>1, <1>2, <2>1, SaidKept
<1> QED
  BY <1>4, <1>5, <1>6 DEF Clangd

(* what the reader keeps,                                                  *)
LEMMA ReaderSaid == ASSUME TypeOK, Said, Reader PROVE Said'
<1>1. UNCHANGED <<asked, at, got>>
  BY DEF Reader, Publishes, Reads, Delivers, ReaderEnds, InSession, editorVars, callVars
<1>2. AskedKept
  BY <1>1 DEF AskedKept
<1>3. fromClangd' = fromClangd \/ (fromClangd # <<>> /\ fromClangd' = Tail(fromClangd))
  BY DEF Reader, Publishes, Reads, Delivers, ReaderEnds, Arrives, pipes
<1>4. \A i \in 1 .. Len(fromClangd') : \E j \in 1 .. Len(fromClangd) : fromClangd'[i] = fromClangd[j]
  <2>1. fromClangd \in Seq([kind : {"reply", "publish"}, id : Nat, answer : Answers])
    BY DEF TypeOK
  <2>2. CASE fromClangd # <<>> /\ fromClangd' = Tail(fromClangd)
    BY <2>1, <2>2, TailFrom
  <2>3. CASE fromClangd' = fromClangd
    BY <2>3
  <2> QED
    BY <1>3, <2>2, <2>3
<1>5. ASSUME NEW r \in fReplies', r \notin fReplies PROVE Good(r.answer)'
  <2>1. fromClangd # <<>> /\ r = [id |-> Head(fromClangd).id, answer |-> Head(fromClangd).answer]
    BY <1>5 DEF Reader, Publishes, Reads, Delivers, ReaderEnds, Arrives
  <2>2. 1 \in 1 .. Len(fromClangd) /\ fromClangd[1] = Head(fromClangd)
    BY <2>1, HeadIn DEF TypeOK
  <2>3. Good(r.answer)
    BY <2>1, <2>2 DEF Said
  <2> QED
    BY <1>1, <2>3 DEF Good, Promise!Answers
<1> QED
  BY <1>1, <1>2, <1>4, <1>5, SaidKept

(* and what a caller finds under its own number.                           *)
LEMMA CallerSaid ==
  ASSUME TypeOK, ThreadsMatch, KeptMatch, Writing, Said, NEW t \in Threads, Calls(t)
  PROVE  Said'
<1>0. /\ at \in [Threads -> {"off", "look", "id", "send", "write", "wait", "done", "over"}]
      /\ got \in [Threads -> Answers \cup {NoAnswer}] /\ Questions \subseteq Threads
  BY DEF TypeOK, Threads
<1>1. UNCHANGED <<asked, fromClangd>> /\ fReplies' \subseteq fReplies
  BY DEF Calls, InSession, editorVars, Caller, TakesId, Locks, Writes, WriteFails, Finds, GivesUp, pipes
<1>2. AskedKept
  BY <1>1 DEF AskedKept
<1>3. \A u \in Threads \ {t} : at'[u] = at[u] /\ got'[u] = got[u]
  BY <1>0 DEF Calls, Caller, TakesId, Locks, Writes, WriteFails, Finds, GivesUp, Go, Ends
<1>4. ASSUME t \in Questions, at'[t] = "done"
      PROVE  got'[t] = Nothing \/ (got'[t].of = t /\ Good(got[t])')
  <2>1. CASE Finds(t)
    <3>1. PICK r \in fReplies : r.id = id[t] /\ got' = [got EXCEPT ![t] = r.answer] /\ at[t] = "wait"
      BY <2>1 DEF Finds, Mine, Ends
    <3>2. got'[t] = r.answer /\ Good(r.answer)
      BY <1>0, <3>1 DEF Said
    <3>3. t \in Owners(r.answer)
      BY <3>1 DEF ThreadsMatch, KeptMatch, BelongsTo, Asking
    <3> DEFINE a == r.answer
    <3>4. a = Nothing \/ a.of = t
      BY <3>3 DEF Owners
    <3> QED
      BY <1>1, <3>2, <3>4 DEF Good, Promise!Answers
  <2>2. CASE WriteFails(t) \/ GivesUp(t)
    BY <1>0, <2>2 DEF WriteFails, GivesUp, Ends
  <2>3. CASE Writes(t)
    <3>1. out[t].kind = "ask"
      BY <1>4, <2>3 DEF Writes, Writing
    <3>2. at'[t] = "wait"
      BY <1>0, <2>3, <3>1 DEF Writes, IsRequest, Go
    <3> QED
      BY <1>4, <3>2
  <2>4. CASE TakesId(t) \/ Locks(t)
    BY <1>0, <1>4, <2>4 DEF TakesId, Locks, Go
  <2> QED
    BY <2>1, <2>2, <2>3, <2>4 DEF Calls, Caller
<1>5. \A q \in Questions : at'[q] = "done" =>
        \/ at[q] = "done" /\ got'[q] = got[q]
        \/ got'[q] = Nothing \/ (got'[q].of = q /\ Good(got[q])')
  BY <1>0, <1>3, <1>4
<1> QED
  BY <1>1, <1>2, <1>5, SaidKept

(* Nobody else finds or says anything.                                     *)
LEMMA LooperSaid == ASSUME TypeOK, Said, LooperStep PROVE Said'
<1>0. /\ at \in [Threads -> {"off", "look", "id", "send", "write", "wait", "done", "over"}]
      /\ got \in [Threads -> Answers \cup {NoAnswer}] /\ Questions \subseteq Threads
      /\ Looper \notin Questions
  BY SessionAssumption DEF TypeOK, Threads
<1>1. asked' = asked /\ fReplies' \subseteq fReplies /\ fromClangd' \in {fromClangd, <<>>}
  BY DEF LooperStep, OpensSession, Greets, SessionOpens, StartFails, UnknownSession, PassesOn,
         Remembers, StartsWorker, EndsSession, Kills, Joins, OnlyLooper, editorVars, sessionVars, pipes
<1>2. AskedKept
  BY <1>1 DEF AskedKept
<1>3. /\ got' = got \/ \E g : got' = [got EXCEPT ![Looper] = g]
      /\ \/ at' = at \/ at' = [at EXCEPT ![Head(inbox).q] = "look"]
         \/ \E place : at' = [at EXCEPT ![Looper] = place]
  BY DEF LooperStep, OpensSession, Greets, SessionOpens, StartFails, UnknownSession, PassesOn,
         Remembers, StartsWorker, EndsSession, Kills, Joins, OnlyLooper, sessionVars, callVars,
         Request, Notify, Returns, Go
<1>4. \A q \in Questions : at'[q] = "done" => at[q] = "done" /\ got'[q] = got[q]
  <2> TAKE q \in Questions
  <2>1. got'[q] = got[q]
    BY <1>0, <1>3
  <2>2. at'[q] \in {at[q], "look"}
    BY <1>0, <1>3
  <2> QED
    BY <2>1, <2>2
<1>5. \A i \in 1 .. Len(fromClangd') : \E j \in 1 .. Len(fromClangd) : fromClangd'[i] = fromClangd[j]
  BY <1>1
<1> QED
  BY <1>1, <1>2, <1>4, <1>5, SaidKept

LEMMA WorkerSaid == ASSUME TypeOK, Said, NEW q \in Questions, WorkerStep(q) PROVE Said'
<1>1. UNCHANGED <<asked, fReplies, fromClangd>>
  BY DEF WorkerStep, Looks, Pushes, editorVars, pipes
<1>2. AskedKept
  BY <1>1 DEF AskedKept
<1>3. \A p \in Questions : at'[p] = "done" => at[p] = "done" /\ got'[p] = got[p]
  BY DEF WorkerStep, Looks, Pushes, Request, Returns, Go, TypeOK, Threads
<1> QED
  BY <1>1, <1>2, <1>3, SaidKept

-----------------------------------------------------------------------------
(* What a step of the session alone leaves as it was.                      *)
LEMMA ServerRests ==
  ASSUME Sessions, PortFlows, Posted, UNCHANGED <<serverVars, editorVars>>, out'[Looper] = out[Looper]
  PROVE  Sessions' /\ PortFlows' /\ Posted'
<1> USE DEF serverVars, editorVars
<1>1. Sessions'
  BY DEF Sessions, Ending, InSessionOnly, NoSession
<1>2. Taken' = Taken /\ PostedTexts' = PostedTexts /\ Waiting' = Waiting
  BY DEF Taken, PostedTexts, Waiting
<1> QED
  BY <1>1, <1>2 DEF PortFlows, Posted

LEMMA CallsRest ==
  ASSUME Writing, Once, Started, UNCHANGED <<serverVars, editorVars, answers, callVars>>
  PROVE  Writing' /\ Once' /\ Started'
<1> USE DEF serverVars, editorVars, callVars
<1>1. Passed' = Passed /\ PostedTexts' = PostedTexts
  BY DEF Passed, PostedTexts
<1> QED
  BY <1>1 DEF Writing, Once, Started, Fits

LEMMA EditorTalks == ASSUME TypeOK, Ready, Talk, Editor PROVE Talk'
<1>0. Sessions /\ Writing /\ PortFlows /\ PipeFlows /\ Once /\ Posted /\ Started /\ Sent /\ Thought /\ Said
  BY DEF Talk
<1>1. UNCHANGED <<sessionVars, looper, docText>>
  BY DEF Editor, EditorStarts, EditorSends, EditorCloses, EditorAsks, EditorEnds, OnlyPosts
<1>2. UNCHANGED <<child, toClangd, fromClangd, at, out, got, fReplies, known, thinking, looper, docText>>
  BY <1>1 DEF sessionVars, pipes, callVars, clangdVars
<1>3. AskedKept
  BY AskedStays DEF AskedKept
<1>4. Writing'
  BY <1>0, <1>2 DEF Writing
<1>5. PipeFlows'
  <2>1. Passed' = Passed /\ SentTexts' = SentTexts
    BY <1>2 DEF Passed, SentTexts
  <2> QED
    BY <1>0, <1>2, <2>1 DEF PipeFlows
<1>6. Sent' /\ Thought'
  BY <1>0, <1>2, <1>3, SentKept, ThoughtKept
<1>7. Said'
  BY <1>0, <1>2, <1>3, SaidKept
<1> QED
  BY <1>0, <1>4, <1>5, <1>6, <1>7, EditorSessions, EditorPort, EditorOnce, EditorPosted, EditorStarted
     DEF Talk

LEMMA LooperTalks == ASSUME TypeOK, Ready, Talk, LooperStep PROVE Talk'
<1>0. Sessions /\ Writing /\ PortFlows /\ PipeFlows /\ Once /\ Posted /\ Started /\ Sent /\ Thought /\ Said
  BY DEF Talk
<1>1. asked' = asked /\ thinking' \subseteq thinking
  BY DEF LooperStep, OpensSession, Greets, SessionOpens, StartFails, UnknownSession, PassesOn,
         Remembers, StartsWorker, EndsSession, Kills, Joins, OnlyLooper, editorVars, sessionVars, clangdVars
<1>2. Thought'
  BY <1>0, <1>1, ThoughtKept DEF AskedKept
<1> QED
  BY <1>0, <1>2, LooperSessions, LooperWriting, LooperPort, LooperPipe, LooperOnce, LooperPosted,
     LooperStarted, LooperSent, LooperSaid DEF Talk

LEMMA ReaderTalks == ASSUME TypeOK, Talk, Reader PROVE Talk'
<1>0. Sessions /\ Writing /\ PortFlows /\ PipeFlows /\ Once /\ Posted /\ Started /\ Sent /\ Thought /\ Said
  BY DEF Talk
<1>1. UNCHANGED <<serverVars, editorVars, answers, callVars, child, toClangd, known, thinking>>
  BY DEF Reader, Publishes, Reads, Delivers, ReaderEnds, InSession, pipes, clangdVars
<1>2. out'[Looper] = out[Looper] /\ AskedKept
  BY <1>1 DEF callVars, editorVars, AskedKept
<1>3. Sessions' /\ PortFlows' /\ Posted'
  BY <1>0, <1>1, <1>2, ServerRests
<1>4. Writing' /\ Once' /\ Started'
  BY <1>0, <1>1, CallsRest
<1>5. PipeFlows'
  <2>1. Passed' = Passed /\ SentTexts' = SentTexts
    BY <1>1 DEF Passed, SentTexts, serverVars, callVars
  <2> QED
    BY <1>0, <1>1, <2>1 DEF PipeFlows, serverVars
<1>6. Sent' /\ Thought'
  BY <1>0, <1>1, <1>2, SentKept, ThoughtKept
<1> QED
  BY <1>0, <1>3, <1>4, <1>5, <1>6, ReaderSaid DEF Talk

LEMMA ClangdTalks == ASSUME TypeOK, Talk, Clangd PROVE Talk'
<1>0. Sessions /\ Writing /\ PortFlows /\ PipeFlows /\ Once /\ Posted /\ Started /\ Sent /\ Thought /\ Said
  BY DEF Talk
<1>1. UNCHANGED <<serverVars, editorVars, answers, callVars>>
  BY DEF Clangd, InSession, ClangdTakes, ClangdAnswers, ClangdPublishes, ClangdDies
<1>2. out'[Looper] = out[Looper]
  BY <1>1 DEF callVars
<1>3. Sessions' /\ PortFlows' /\ Posted'
  BY <1>0, <1>1, <1>2, ServerRests
<1>4. Writing' /\ Once' /\ Started'
  BY <1>0, <1>1, CallsRest
<1> QED
  BY <1>0, <1>3, <1>4, ClangdPipe, ClangdSent, ClangdThought, ClangdSaid DEF Talk

LEMMA WorkerTalks == ASSUME TypeOK, Talk, NEW q \in Questions, WorkerStep(q) PROVE Talk'
<1>0. Sessions /\ Writing /\ PortFlows /\ PipeFlows /\ Once /\ Posted /\ Started /\ Sent /\ Thought /\ Said
  BY DEF Talk
<1>1. UNCHANGED <<serverVars, editorVars, toClangd, known, thinking>>
  BY DEF WorkerStep, Looks, Pushes, pipes, clangdVars
<1>2. out'[Looper] = out[Looper] /\ AskedKept
  <2>1. q # Looper /\ Looper \in Threads
    BY SessionAssumption DEF Threads
  <2> QED
    BY <1>1, <2>1 DEF WorkerStep, Looks, Pushes, Request, Returns, TypeOK, editorVars, AskedKept
<1>3. Sessions' /\ PortFlows' /\ Posted'
  BY <1>0, <1>1, <1>2, ServerRests
<1>4. Sent' /\ Thought'
  BY <1>0, <1>1, <1>2, SentKept, ThoughtKept
<1> QED
  BY <1>0, <1>3, <1>4, WorkerWriting, WorkerPipe, ThreadOnce, WorkerStarted, WorkerSaid DEF Talk

LEMMA CallerTalks == ASSUME IInv, Talk, NEW t \in Threads, Calls(t) PROVE Talk'
<1>0. /\ Sessions /\ Writing /\ PortFlows /\ PipeFlows /\ Once /\ Posted /\ Started /\ Sent /\ Thought /\ Said
      /\ TypeOK /\ Ready /\ ThreadsMatch /\ KeptMatch
  BY DEF Talk, IInv, NumbersMatch
<1>1. UNCHANGED <<serverVars, editorVars, thinking, out>>
  BY DEF Calls, InSession, Caller, TakesId, Locks, Writes, WriteFails, Finds, GivesUp, clangdVars
<1>2. AskedKept
  BY <1>1 DEF editorVars, AskedKept
<1>3. Sessions' /\ PortFlows' /\ Posted'
  BY <1>0, <1>1, ServerRests
<1>4. Thought'
  BY <1>0, <1>1, <1>2, ThoughtKept
<1> QED
  BY <1>0, <1>3, <1>4, CallerWriting, CallerPipe, ThreadOnce, CallerStarted, CallerSent, CallerSaid DEF Talk

LEMMA InitTalk == Init => Talk
<1> SUFFICES ASSUME Init PROVE Talk
  OBVIOUS
<1> USE DEF Init
<1>1. \A i \in 1 .. 0 : FALSE
  OBVIOUS
<1>2. Len(inbox) = 0 /\ Len(toClangd) = 0 /\ Len(fromClangd) = 0
  OBVIOUS
<1>3. Waiting = {} /\ PostedTexts = {} /\ SentTexts = {}
  BY <1>1, <1>2 DEF Waiting, PostedTexts, SentTexts
<1>4. Looper \in Threads /\ Questions \subseteq Threads
  BY DEF Threads
<1>5. Sessions
  BY <1>1, <1>2 DEF Sessions, Ending, InSessionOnly, NoSession
<1>6. Writing /\ PortFlows /\ PipeFlows
  BY <1>4 DEF Writing, PortFlows, PipeFlows
<1>7. Once /\ Posted /\ Started
  BY <1>3, <1>4 DEF Once, Posted, Started
<1>8. Sent /\ Thought /\ Said
  BY <1>1, <1>2, <1>4 DEF Sent, Thought, Said
<1> QED
  BY <1>5, <1>6, <1>7, <1>8 DEF Talk

LEMMA StepTalk == IInv /\ Talk /\ [Next]_vars => Talk'
<1> SUFFICES ASSUME IInv, Talk, [Next]_vars PROVE Talk'
  OBVIOUS
<1>0. TypeOK /\ Ready
  BY DEF IInv
<1>1. CASE UNCHANGED vars
  <2>1. UNCHANGED <<serverVars, editorVars, answers, callVars, child, toClangd, fromClangd, fReplies,
                    known, thinking>>
    BY <1>1 DEF vars, sessionVars, pipes, clangdVars
  <2>2. out'[Looper] = out[Looper] /\ AskedKept /\ at' = at /\ got' = got
    BY <2>1 DEF callVars, editorVars, AskedKept
  <2>3. Sessions' /\ PortFlows' /\ Posted'
    BY <2>1, <2>2, ServerRests DEF Talk
  <2>4. Writing' /\ Once' /\ Started'
    BY <2>1, CallsRest DEF Talk
  <2>5. PipeFlows'
    <3>1. Passed' = Passed /\ SentTexts' = SentTexts
      BY <2>1 DEF Passed, SentTexts, serverVars, callVars
    <3> QED
      BY <2>1, <3>1 DEF PipeFlows, serverVars, Talk
  <2>6. Sent' /\ Thought'
    BY <2>1, <2>2, SentKept, ThoughtKept DEF Talk
  <2>7. Said'
    BY <2>1, <2>2, SaidKept DEF Talk
  <2> QED
    BY <2>3, <2>4, <2>5, <2>6, <2>7 DEF Talk
<1> QED
  BY <1>0, <1>1, EditorTalks, LooperTalks, ReaderTalks, ClangdTalks, WorkerTalks, CallerTalks DEF Next

LEMMA TalkInvariance == Spec => [](IInv /\ Talk)
BY InitIInv, StepIInv, InitTalk, StepTalk, PTL DEF Spec

-----------------------------------------------------------------------------
(* When the port and the pipe are empty and nothing is half done, clangd,  *)
(* the server's copy for columns (RememberText(), main.cpp) and the editor *)
(* hold one text, for any questions, texts and bounds.                     *)
THEOREM TextsAlwaysAgree == Spec => []TextsAgree
<1>1. IInv /\ Talk => TextsAgree
  <2> SUFFICES ASSUME Sessions, PortFlows, PipeFlows, session # 0, looper = "idle", inbox = <<>>,
                      toClangd = <<>>, child = "alive"
               PROVE  known = docText /\ (editor = "in" => docText = IF open THEN version ELSE 0)
    BY DEF Talk, TextsAgree
  <2>1. PostedTexts = {} /\ SentTexts = {}
    <3>1. \A i \in 1 .. Len(inbox) : FALSE
      OBVIOUS
    <3>2. \A i \in 1 .. Len(toClangd) : FALSE
      OBVIOUS
    <3> QED
      BY <3>1, <3>2 DEF PostedTexts, SentTexts
  <2>2. Taken = docText /\ Passed = docText
    BY DEF Taken, Passed
  <2>3. known = docText
    BY <2>1, <2>2 DEF PipeFlows, Latest
  <2>4. editor = "in" => docText = IF open THEN version ELSE 0
    BY <2>1, <2>2 DEF PortFlows, Latest
  <2> QED
    BY <2>3, <2>4
<1> QED
  BY <1>1, TalkInvariance, PTL

(* Asking is the promise's Ask and pushing its Answer.                     *)
LEMMA AskKept ==
  ASSUME TypeOK, EditorAsks, answers' = answers
  PROVE  \E q \in Questions : Promise!Ask(q)
<1>1. PICK q \in Questions : asked[q] = NotAsked /\ q = CHOOSE x \in Questions : asked[x] = NotAsked
  BY DEF EditorAsks
<1>2. PICK i \in 0 .. Len(Line(version)) :
        asked' = [asked EXCEPT ![q] = [text |-> version, at |-> Bytes(Line(version), i)]]
  BY <1>1 DEF EditorAsks
<1>3. version \in Versions /\ Bytes(Line(version), i) \in Places
  BY DEF TypeOK, Places
<1> QED
  BY <1>1, <1>2, <1>3 DEF Promise!Ask

LEMMA AnswerKept ==
  ASSUME TypeOK, Ready, Once, Said, NEW q \in Questions, Pushes(q)
  PROVE  Promise!Answer(q)
<1>1. at[q] = "done" /\ answers' = [answers EXCEPT ![q] = got[q]] /\ asked' = asked
  BY DEF Pushes, editorVars
<1>2. asked[q] # NotAsked /\ answers[q] = NoAnswer
  BY <1>1 DEF Ready, Once
<1>3. got[q] \in Promise!Answers(q) \cup {Nothing}
  BY <1>1 DEF Said, Good
<1> QED
  BY <1>1, <1>2, <1>3 DEF Promise!Answer

(* The protocol in main.cpp's head: a question is answered at most once,   *)
(* with nothing or with an answer to it, about the text it was asked of at *)
(* the place it was asked of, or about a later text, however edits race    *)
(* the looper, the worker, clangd and the reader.                          *)
THEOREM QuestionsAnswered == Spec => KeepsPromise
<1>1. Init => Promise!Init
  BY DEF Init, Promise!Init
<1>2. IInv /\ Talk /\ [Next]_vars => [Promise!Next]_<<asked, answers>>
  <2> SUFFICES ASSUME TypeOK, Ready, Once, Said, [Next]_vars
               PROVE  (\E q \in Questions : Promise!Ask(q) \/ Promise!Answer(q)) \/ UNCHANGED <<asked, answers>>
    BY DEF IInv, Talk, Promise!Next
  <2>1. CASE EditorAsks
    BY <2>1, AskKept DEF EditorAsks, OnlyPosts
  <2>2. CASE Editor /\ ~EditorAsks
    BY <2>2 DEF Editor, EditorStarts, EditorSends, EditorCloses, EditorEnds, OnlyPosts
  <2>3. CASE LooperStep
    BY <2>3 DEF LooperStep, OpensSession, Greets, SessionOpens, StartFails, UnknownSession, PassesOn,
                Remembers, StartsWorker, EndsSession, Kills, Joins, OnlyLooper, editorVars
  <2>4. CASE Reader \/ Clangd \/ (\E t \in Threads : Calls(t)) \/ UNCHANGED vars
    BY <2>4 DEF Reader, Publishes, Clangd, Calls, InSession, editorVars, vars
  <2>5. ASSUME NEW q \in Questions, WorkerStep(q) PROVE Promise!Answer(q) \/ UNCHANGED <<asked, answers>>
    BY <2>5, AnswerKept DEF WorkerStep, Looks, editorVars
  <2> QED
    BY <2>1, <2>2, <2>3, <2>4, <2>5 DEF Next
<1> QED
  BY <1>1, <1>2, TalkInvariance, PTL DEF Spec, KeepsPromise, Promise!Spec
=============================================================================

---------------------------- MODULE ClangdSession ----------------------------
(* One clangd and the threads that talk to it (clangdserver/app/src/       *)
(* lsp.cpp): the two pipes, the lock that keeps frames whole, the table of *)
(* replies, the reader thread, and Request() and Notify() as every thread  *)
(* goes through them.  A frame is whole, readable and below kMaxFrame      *)
(* here; a text is a line, a line the sequence of its characters' widths.  *)
EXTENDS Naturals, Sequences, FiniteSets

CONSTANTS Questions,  \* requests of the editor, each with its worker thread
          Looper,     \* the server's own thread
          NoOne,      \* nobody holds the lock
          NotAsked, NoAnswer, Nothing,
          Lines,      \* the editor's text, version by version
          PipeRoom    \* frames a pipe holds

Threads == Questions \cup {Looper}
ASSUME SessionAssumption ==
    /\ Looper \notin Questions /\ NoOne \notin Threads
    /\ NotAsked \notin [text : Nat, at : Nat]
    /\ Lines \in Seq(Seq(1 .. 4)) /\ PipeRoom \in Nat \ {0}

VARIABLES child,        \* clangd: "none", "alive" or "dead"
          fLock, fNextId, fReplies, fReaderGone,
          toClangd, fromClangd,
          at, id, out, got,  \* each thread's place in Request() or Notify()
          known,        \* clangd: the version it has open, 0 for none
          thinking,     \* clangd: requests it has read and not answered
          due           \* clangd: it has not published about that version

callVars == <<at, id, out, got>>
clangdVars == <<known, thinking, due>>
pipes == <<toClangd, fromClangd>>
sessionVars == <<child, fLock, fNextId, fReplies, fReaderGone, pipes, callVars, clangdVars>>

Versions == 0 .. Len(Lines)
Line(v) == IF v = 0 THEN <<>> ELSE Lines[v]

-----------------------------------------------------------------------------
(* Columns.  The first n characters are Bytes(line, n) long, and           *)
(* Units(line, n) in UTF-16.                                               *)
Bytes(line, n) == Cardinality({p \in (1 .. n) \X (1 .. 4) : p[2] <= line[p[1]]})
Units(line, n) == n + Cardinality({i \in 1 .. n : line[i] = 4})

(* A four-byte character counts its first unit before the column is seen   *)
(* to land inside it.                                                      *)
UnitsAreBytes(line, col) == col
Utf16FromByte(line, col) ==
    LET whole == Cardinality({n \in 1 .. Len(line) : Bytes(line, n) <= col})
        inside == whole < Len(line) /\ Bytes(line, whole) < col /\ line[whole + 1] = 4
    IN Units(line, whole) + (IF inside THEN 1 ELSE 0)

ByteFromUtf16(line, units) ==
    Bytes(line, Cardinality({n \in 1 .. Len(line) : Units(line, n - 1) < units}))

-----------------------------------------------------------------------------
(* Request() and Notify(), for a thread t.  A thread that is not in them   *)
(* is at a place its owner gives it.                                       *)
Kinds == {"initialize", "initialized", "open", "change", "close", "ask"}
Note(t, kind, v) == [kind |-> kind, of |-> t, text |-> v, col |-> 0]
IsRequest(f) == f.kind \in {"initialize", "ask"}

Go(t, place) == at' = [at EXCEPT ![t] = place]
Ends(t, result) == Go(t, "done") /\ got' = [got EXCEPT ![t] = result]

(* Request() with frame f, whose id is still to come.                      *)
Request(t, f) == Go(t, "id") /\ out' = [out EXCEPT ![t] = f] /\ UNCHANGED <<id, got>>
Notify(t, f) == Go(t, "send") /\ out' = [out EXCEPT ![t] = f] /\ UNCHANGED <<id, got>>

(* The call is over, and what it held with it.                             *)
Returns(t, place) ==
    /\ Go(t, place) /\ id' = [id EXCEPT ![t] = 0]
    /\ out' = [out EXCEPT ![t] = Note(t, "close", 0)] /\ got' = [got EXCEPT ![t] = NoAnswer]

TakesId(t) ==
    /\ at[t] = "id" /\ fLock = NoOne
    /\ fNextId' = fNextId + 1
    /\ id' = [id EXCEPT ![t] = fNextId'] /\ Go(t, "send")
    /\ UNCHANGED <<child, fLock, fReplies, fReaderGone, pipes, out, got, clangdVars>>

(* Send() takes the lock and keeps it until the frame is in the pipe.      *)
LocksRegardless(t) ==
    /\ at[t] = "send" /\ fLock' = t /\ Go(t, "write")
    /\ UNCHANGED <<child, fNextId, fReplies, fReaderGone, pipes, id, out, got, clangdVars>>
Locks(t) ==
    /\ at[t] = "send" /\ fLock = NoOne
    /\ fLock' = t /\ Go(t, "write")
    /\ UNCHANGED <<child, fNextId, fReplies, fReaderGone, pipes, id, out, got, clangdVars>>

Framed(t) == [kind |-> out[t].kind, of |-> out[t].of, id |-> id[t],
              text |-> out[t].text, col |-> out[t].col]
Writes(t) ==
    /\ at[t] = "write" /\ child = "alive" /\ Len(toClangd) < PipeRoom
    /\ toClangd' = Append(toClangd, Framed(t)) /\ fLock' = NoOne
    /\ IF IsRequest(out[t]) THEN Go(t, "wait") /\ UNCHANGED got ELSE Ends(t, NoAnswer)
    /\ UNCHANGED <<child, fNextId, fReplies, fReaderGone, fromClangd, id, out, clangdVars>>

(* write() fails once nobody reads the pipe; Notify() goes on regardless.  *)
WriteFails(t) ==
    /\ at[t] = "write" /\ child = "dead"
    /\ fLock' = NoOne /\ Ends(t, Nothing)
    /\ UNCHANGED <<child, fNextId, fReplies, fReaderGone, pipes, id, out, clangdVars>>

(* The loop of Request(): a reply, the end of the reader, the deadline.    *)
Oldest(t) == fReplies
Mine(t) == {r \in fReplies : r.id = id[t]}
Finds(t) ==
    /\ at[t] = "wait" /\ fLock = NoOne
    /\ \E r \in Mine(t) : fReplies' = fReplies \ {r} /\ Ends(t, r.answer)
    /\ UNCHANGED <<child, fLock, fNextId, fReaderGone, pipes, id, out, clangdVars>>
GivesUp(t) ==
    /\ at[t] = "wait" /\ Ends(t, Nothing)
    /\ UNCHANGED <<child, fLock, fNextId, fReplies, fReaderGone, pipes, id, out, clangdVars>>

Caller(t) == TakesId(t) \/ Locks(t) \/ Writes(t) \/ WriteFails(t) \/ Finds(t) \/ GivesUp(t)

-----------------------------------------------------------------------------
(* The reader thread.  Published(f) is what the notifier does with f.      *)
Arrives(kind) == ~fReaderGone /\ fromClangd # <<>> /\ Head(fromClangd).kind = kind
Delivers ==
    /\ Arrives("reply") /\ fLock = NoOne
    /\ fReplies' = fReplies \cup {[id |-> Head(fromClangd).id, answer |-> Head(fromClangd).answer]}
    /\ fromClangd' = Tail(fromClangd)
    /\ UNCHANGED <<child, fLock, fNextId, fReaderGone, toClangd, callVars, clangdVars>>
Reads ==
    /\ fromClangd' = Tail(fromClangd)
    /\ UNCHANGED <<child, fLock, fNextId, fReplies, fReaderGone, toClangd, callVars, clangdVars>>

(* The pipe ends with clangd.                                              *)
ReaderEnds ==
    /\ ~fReaderGone /\ fLock = NoOne
    /\ child = "dead" /\ fromClangd = <<>>
    /\ fReaderGone' = TRUE
    /\ UNCHANGED <<child, fLock, fNextId, fReplies, pipes, callVars, clangdVars>>

-----------------------------------------------------------------------------
(* clangd, as the session sees it: it reads on while it thinks, answers in *)
(* an order of its own, and publishes about the versions it comes to.      *)
ClangdTakes ==
    /\ child = "alive" /\ toClangd # <<>>
    /\ LET f == Head(toClangd) IN
       /\ known' = IF f.kind \in {"open", "change", "close"} THEN f.text ELSE known
       /\ due' = (f.kind \in {"open", "change"} \/ (due /\ f.kind # "close"))
       /\ thinking' = IF IsRequest(f) THEN thinking \cup {[f EXCEPT !.text = known]} ELSE thinking
    /\ toClangd' = Tail(toClangd)
    /\ UNCHANGED <<child, fLock, fNextId, fReplies, fReaderGone, fromClangd, callVars>>

Says(f) == Len(fromClangd) < PipeRoom /\ fromClangd' = Append(fromClangd, f)
Understood(f) == [of |-> f.of, text |-> f.text, at |-> ByteFromUtf16(Line(f.text), f.col)]
ClangdAnswers ==
    /\ child = "alive"
    /\ \E f \in thinking :
         /\ Says([kind |-> "reply", id |-> f.id,
                  answer |-> IF f.kind = "ask" /\ f.text = 0 THEN Nothing ELSE Understood(f)])
         /\ thinking' = thinking \ {f}
    /\ UNCHANGED <<child, fLock, fNextId, fReplies, fReaderGone, toClangd, callVars, known, due>>
ClangdPublishes ==
    /\ child = "alive" /\ due /\ due' = FALSE
    /\ Says([kind |-> "publish", id |-> known, answer |-> Nothing])
    /\ UNCHANGED <<child, fLock, fNextId, fReplies, fReaderGone, toClangd, callVars, known, thinking>>
ClangdDies ==
    /\ child = "alive" /\ child' = "dead"
    /\ UNCHANGED <<fLock, fNextId, fReplies, fReaderGone, pipes, callVars, clangdVars>>
=============================================================================

---------------------------- MODULE Portal_proofs ---------------------------
(* Proofs about the Prose Portal, for any number of requests, buffers,     *)
(* parts of a result and falls: its types, that no buffer is lost or used  *)
(* twice, that the daemon deals with requests in their order, that a       *)
(* result's parts come in order, and that the portal keeps its promise.    *)
EXTENDS Portal, Integers, SequenceTheorems, TLAPS

-----------------------------------------------------------------------------
(* Sequences.                                                              *)

Injective(s)  == \A i, j \in 1..Len(s) : s[i] = s[j] => i = j
Increasing(s) == \A i, j \in 1..Len(s) : i < j => s[i] < s[j]
Below(S, T)   == \A x \in S, y \in T : x < y
Apart(S, T)   == S \cap T = {}

LEMMA Widened ==
  ASSUME NEW S, NEW T, S \subseteq T, NEW s \in Seq(S)
  PROVE  s \in Seq(T)
OBVIOUS

(* What concatenation does, place by place,                                *)
LEMMA Concat ==
  ASSUME NEW S, NEW s \in Seq(S), NEW t \in Seq(S)
  PROVE  /\ s \o t \in Seq(S) /\ Len(s) \in Nat /\ Len(t) \in Nat
         /\ Len(s \o t) = Len(s) + Len(t)
         /\ \A i \in 1..Len(s) : (s \o t)[i] = s[i]
         /\ \A i \in 1..Len(t) : (s \o t)[Len(s) + i] = t[i]
         /\ \A k \in 1..Len(s \o t) :
              \/ k \in 1..Len(s)
              \/ k - Len(s) \in 1..Len(t) /\ (s \o t)[k] = t[k - Len(s)]
OBVIOUS

(* and to the set of elements.                                             *)
LEMMA ToSetIs ==
  ASSUME NEW S, NEW s \in Seq(S)
  PROVE  /\ ToSet(s) = {s[i] : i \in 1..Len(s)} /\ ToSet(s) \subseteq S
         /\ \A i \in 1..Len(s) : s[i] \in ToSet(s)
         /\ \A x \in ToSet(s) : \E i \in 1..Len(s) : s[i] = x
BY DEF ToSet

LEMMA ToSetConcat ==
  ASSUME NEW S, NEW s \in Seq(S), NEW t \in Seq(S)
  PROVE  ToSet(s \o t) = ToSet(s) \cup ToSet(t)
<1>1. ASSUME NEW x \in ToSet(s \o t) PROVE x \in ToSet(s) \cup ToSet(t)
  <2>1. PICK k \in 1..Len(s \o t) : (s \o t)[k] = x
    <3>1. s \o t \in Seq(S)
      BY Concat
    <3> QED
      BY <3>1, ToSetIs
  <2>2. CASE k \in 1..Len(s)
    BY <2>1, <2>2, Concat, ToSetIs
  <2>3. CASE k - Len(s) \in 1..Len(t) /\ (s \o t)[k] = t[k - Len(s)]
    BY <2>1, <2>3, ToSetIs
  <2> QED
    BY <2>2, <2>3, Concat
<1>2. ASSUME NEW x \in ToSet(s) PROVE x \in ToSet(s \o t)
  <2>1. PICK k \in 1..Len(s) : s[k] = x
    BY ToSetIs
  <2>2. k \in 1..Len(s \o t) /\ (s \o t)[k] = x
    BY <2>1, Concat
  <2> QED
    BY <2>2, Concat, ToSetIs
<1>3. ASSUME NEW x \in ToSet(t) PROVE x \in ToSet(s \o t)
  <2>1. PICK k \in 1..Len(t) : t[k] = x
    BY ToSetIs
  <2>2. Len(s) + k \in 1..Len(s \o t) /\ (s \o t)[Len(s) + k] = x
    BY <2>1, Concat
  <2> QED
    BY <2>2, Concat, ToSetIs
<1> QED
  BY <1>1, <1>2, <1>3

(* The empty sequence, one element more, and one less.                     *)
LEMMA ToSetEmpty == ToSet(<<>>) = {} /\ \A x : ToSet(<<x>>) = {x}
BY DEF ToSet

LEMMA AppendIs ==
  ASSUME NEW S, NEW s \in Seq(S), NEW x \in S
  PROVE  /\ Append(s, x) \in Seq(S) /\ Len(s) \in Nat /\ Len(Append(s, x)) = Len(s) + 1
         /\ Append(s, x)[Len(s) + 1] = x /\ \A i \in 1..Len(s) : Append(s, x)[i] = s[i]
         /\ Append(s, x) = s \o <<x>> /\ <<x>> \in Seq(S)
OBVIOUS

LEMMA ToSetAppend ==
  ASSUME NEW S, NEW s \in Seq(S), NEW x \in S
  PROVE  ToSet(Append(s, x)) = ToSet(s) \cup {x}
<1>1. Append(s, x) = s \o <<x>> /\ <<x>> \in Seq(S)
  BY AppendIs
<1>2. ToSet(s \o <<x>>) = ToSet(s) \cup ToSet(<<x>>)
  BY ZenonT(60), <1>1, ToSetConcat
<1> QED
  BY <1>1, <1>2, ToSetEmpty

LEMMA HeadTail ==
  ASSUME NEW S, NEW s \in Seq(S), s # <<>>
  PROVE  /\ Head(s) \in S /\ Head(s) = s[1] /\ Tail(s) \in Seq(S)
         /\ Len(s) \in Nat \ {0} /\ Len(Tail(s)) = Len(s) - 1
         /\ \A i \in 1..Len(s) - 1 : Tail(s)[i] = s[i + 1]
OBVIOUS

LEMMA ToSetTail ==
  ASSUME NEW S, NEW s \in Seq(S), s # <<>>
  PROVE  ToSet(s) = {Head(s)} \cup ToSet(Tail(s))
<1>1. ASSUME NEW x \in ToSet(s), x # Head(s) PROVE x \in ToSet(Tail(s))
  <2>1. PICK k \in 1..Len(s) : s[k] = x
    BY ToSetIs
  <2>2. k - 1 \in 1..Len(Tail(s)) /\ Tail(s)[k - 1] = x
    BY <1>1, <2>1, HeadTail
  <2> QED
    BY <2>2, HeadTail, ToSetIs
<1>2. ASSUME NEW x \in ToSet(Tail(s)) PROVE x \in ToSet(s)
  <2>1. PICK k \in 1..Len(Tail(s)) : Tail(s)[k] = x
    BY ZenonT(60), HeadTail, ToSetIs
  <2>2. k + 1 \in 1..Len(s) /\ s[k + 1] = x
    BY <2>1, HeadTail
  <2> QED
    BY <2>2, ToSetIs
<1>3. Head(s) \in ToSet(s)
  BY HeadTail, ToSetIs
<1> QED
  BY <1>1, <1>2, <1>3

LEMMA PutBack ==
  ASSUME NEW S, NEW s \in Seq(S), s # <<>>
  PROVE  s = <<Head(s)>> \o Tail(s) /\ <<Head(s)>> \in Seq(S)
<1> DEFINE t == <<Head(s)>> \o Tail(s)
<1>1. Tail(s) \in Seq(S) /\ Head(s) = s[1] /\ <<Head(s)>> \in Seq(S) /\ Len(s) \in Nat \ {0}
  BY HeadTail
<1>2. /\ t \in Seq(S) /\ Len(t) = Len(s) /\ t[1] = s[1]
      /\ \A i \in 1..Len(s) - 1 : t[1 + i] = Tail(s)[i]
  BY <1>1, HeadTail
<1>3. \A i \in 1..Len(s) - 1 : t[1 + i] = s[i + 1]
  BY <1>2, HeadTail
<1> HIDE DEF t
<1>4. \A k \in 1..Len(s) : t[k] = s[k]
  <2> TAKE k \in 1..Len(s)
  <2>1. CASE k = 1
    BY <1>2, <2>1
  <2>2. CASE k # 1
    <3>1. k - 1 \in 1..Len(s) - 1 /\ 1 + (k - 1) = k /\ (k - 1) + 1 = k
      BY <1>1, <2>2
    <3> QED
      BY <1>3, <3>1
  <2> QED
    BY <2>1, <2>2
<1>5. s = t
  BY <1>2, <1>4, SeqEqual
<1> QED
  BY <1>1, <1>5 DEF t

(* A sequence cut in two.                                                  *)
Taken(s, n) == SubSeq(s, 1, n)
Left(s, n)  == SubSeq(s, n + 1, Len(s))

LEMMA Cut ==
  ASSUME NEW S, NEW s \in Seq(S), NEW n \in 0..Len(s)
  PROVE  /\ Taken(s, n) \in Seq(S) /\ Left(s, n) \in Seq(S)
         /\ Len(s) \in Nat /\ Len(Taken(s, n)) = n /\ Len(Left(s, n)) = Len(s) - n
         /\ \A i \in 1..n : Taken(s, n)[i] = s[i]
         /\ s = Taken(s, n) \o Left(s, n)
<1> DEFINE a == Taken(s, n)
           b == Left(s, n)
<1>1. /\ a \in Seq(S) /\ b \in Seq(S) /\ Len(s) \in Nat /\ Len(a) = n /\ Len(b) = Len(s) - n
      /\ (\A i \in 1..n : a[i] = s[i]) /\ (\A i \in 1..Len(s) - n : b[i] = s[n + i])
  BY DEF Taken, Left
<1> HIDE DEF a, b
<1>2. Len(a \o b) = Len(s) /\ a \o b \in Seq(S)
  <2>1. Len(a \o b) = Len(a) + Len(b) /\ a \o b \in Seq(S)
    BY <1>1, Concat
  <2> QED
    BY <1>1, <2>1
<1>3. ASSUME NEW k \in 1..Len(s) PROVE (a \o b)[k] = s[k]
  <2>1. k \in 1..Len(a \o b) /\ k \in Nat /\ n \in Nat
    BY <1>1, <1>2
  <2>2. CASE k \in 1..n
    BY <1>1, <2>2, Concat
  <2>3. CASE k - n \in 1..Len(b) /\ (a \o b)[k] = b[k - n]
    BY <1>1, <2>1, <2>3
  <2>4. k \in 1..Len(a) \/ (k - Len(a) \in 1..Len(b) /\ (a \o b)[k] = b[k - Len(a)])
    BY <1>1, <2>1, Concat
  <2> QED
    BY <1>1, <2>2, <2>3, <2>4
<1>4. s = a \o b
  BY <1>2, <1>3, SeqEqual
<1> QED
  BY <1>1, <1>4 DEF a, b

(* The parts of a sequence that is injective, or increases, are too, and   *)
(* two such make one if they are apart, or one below the other.            *)
LEMMA InjectiveConcat ==
  ASSUME NEW S, NEW s \in Seq(S), NEW t \in Seq(S)
  PROVE  Injective(s \o t) <=> Injective(s) /\ Injective(t) /\ Apart(ToSet(s), ToSet(t))
<1> DEFINE u == s \o t
<1>1. /\ u \in Seq(S) /\ Len(s) \in Nat /\ Len(t) \in Nat /\ Len(u) = Len(s) + Len(t)
      /\ \A i \in 1..Len(s) : u[i] = s[i] /\ s[i] \in ToSet(s)
      /\ \A i \in 1..Len(t) : u[Len(s) + i] = t[i] /\ t[i] \in ToSet(t)
  BY Concat, ToSetIs
<1>2. \A k \in 1..Len(u) :
        \/ k \in 1..Len(s) /\ u[k] = s[k]
        \/ k - Len(s) \in 1..Len(t) /\ u[k] = t[k - Len(s)]
  <2> TAKE k \in 1..Len(u)
  <2>1. k \in 1..Len(s) \/ (k - Len(s) \in 1..Len(t) /\ u[k] = t[k - Len(s)])
    BY Concat
  <2>2. \A i \in 1..Len(s) : u[i] = s[i]
    BY <1>1
  <2> HIDE DEF u
  <2> QED
    BY <2>1, <2>2
<1> HIDE DEF u
<1>3. ASSUME Injective(u) PROVE Injective(s) /\ Injective(t) /\ Apart(ToSet(s), ToSet(t))
  <2>1. Injective(s)
    BY <1>1, <1>3 DEF Injective
  <2>2. ASSUME NEW i \in 1..Len(t), NEW j \in 1..Len(t), t[i] = t[j] PROVE i = j
    <3>1. Len(s) + i \in 1..Len(u) /\ Len(s) + j \in 1..Len(u) /\ u[Len(s) + i] = u[Len(s) + j]
      BY <1>1, <2>2
    <3>2. Len(s) + i = Len(s) + j
      BY <1>3, <3>1 DEF Injective
    <3> QED
      BY <1>1, <3>2
  <2>3. ASSUME NEW x \in ToSet(s), x \in ToSet(t) PROVE FALSE
    <3>1. PICK i \in 1..Len(s) : s[i] = x
      BY ToSetIs
    <3>2. PICK j \in 1..Len(t) : t[j] = x
      BY <2>3, ToSetIs
    <3>3. i \in 1..Len(u) /\ Len(s) + j \in 1..Len(u) /\ u[i] = u[Len(s) + j]
      BY <1>1, <3>1, <3>2
    <3>4. i = Len(s) + j
      BY <1>3, <3>3 DEF Injective
    <3> QED
      BY <1>1, <3>1, <3>2, <3>4
  <2> QED
    BY <2>1, <2>2, <2>3 DEF Injective, Apart
<1>4. ASSUME Injective(s), Injective(t), Apart(ToSet(s), ToSet(t)),
             NEW i \in 1..Len(u), NEW j \in 1..Len(u), u[i] = u[j]
      PROVE  i = j
  <2>1. CASE i \in 1..Len(s) /\ j \in 1..Len(s)
    BY <1>1, <1>4, <2>1 DEF Injective
  <2>2. CASE i - Len(s) \in 1..Len(t) /\ j - Len(s) \in 1..Len(t) /\ u[i] = t[i - Len(s)] /\ u[j] = t[j - Len(s)]
    <3>1. i - Len(s) = j - Len(s)
      BY <1>4, <2>2 DEF Injective
    <3> QED
      BY <1>1, <3>1
  <2>3. CASE i \in 1..Len(s) /\ j - Len(s) \in 1..Len(t) /\ u[j] = t[j - Len(s)]
    BY <1>1, <1>4, <2>3 DEF Apart
  <2>4. CASE j \in 1..Len(s) /\ i - Len(s) \in 1..Len(t) /\ u[i] = t[i - Len(s)]
    BY <1>1, <1>4, <2>4 DEF Apart
  <2> QED
    BY <1>2, <2>1, <2>2, <2>3, <2>4
<1>5. Injective(u) <=> Injective(s) /\ Injective(t) /\ Apart(ToSet(s), ToSet(t))
  BY <1>3, <1>4 DEF Injective
<1> QED
  BY <1>5 DEF u

LEMMA IncreasingConcat ==
  ASSUME NEW s \in Seq(Nat), NEW t \in Seq(Nat)
  PROVE  Increasing(s \o t) <=> Increasing(s) /\ Increasing(t) /\ Below(ToSet(s), ToSet(t))
<1> DEFINE u == s \o t
<1>1. /\ u \in Seq(Nat) /\ Len(s) \in Nat /\ Len(t) \in Nat /\ Len(u) = Len(s) + Len(t)
      /\ \A i \in 1..Len(s) : u[i] = s[i] /\ s[i] \in ToSet(s) /\ s[i] \in Nat
      /\ \A i \in 1..Len(t) : u[Len(s) + i] = t[i] /\ t[i] \in ToSet(t) /\ t[i] \in Nat
  BY Concat, ToSetIs
<1>2. \A k \in 1..Len(u) :
        \/ k \in 1..Len(s) /\ u[k] = s[k]
        \/ k - Len(s) \in 1..Len(t) /\ u[k] = t[k - Len(s)]
  <2> TAKE k \in 1..Len(u)
  <2>1. k \in 1..Len(s) \/ (k - Len(s) \in 1..Len(t) /\ u[k] = t[k - Len(s)])
    BY Concat
  <2>2. \A i \in 1..Len(s) : u[i] = s[i]
    BY <1>1
  <2> HIDE DEF u
  <2> QED
    BY <2>1, <2>2
<1> HIDE DEF u
<1>3. ASSUME Increasing(u) PROVE Increasing(s) /\ Increasing(t) /\ Below(ToSet(s), ToSet(t))
  <2>1. Increasing(s)
    BY <1>1, <1>3 DEF Increasing
  <2>2. ASSUME NEW i \in 1..Len(t), NEW j \in 1..Len(t), i < j PROVE t[i] < t[j]
    <3>1. Len(s) + i \in 1..Len(u) /\ Len(s) + j \in 1..Len(u) /\ Len(s) + i < Len(s) + j
      BY SMTT(30), <1>1, <2>2
    <3>2. u[Len(s) + i] < u[Len(s) + j]
      BY <1>3, <3>1 DEF Increasing
    <3> QED
      BY <1>1, <3>2
  <2>3. ASSUME NEW x \in ToSet(s), NEW y \in ToSet(t) PROVE x < y
    <3>1. PICK i \in 1..Len(s) : s[i] = x
      BY ToSetIs
    <3>2. PICK j \in 1..Len(t) : t[j] = y
      BY ToSetIs
    <3>0. Len(s) \in Nat /\ Len(t) \in Nat /\ Len(u) = Len(s) + Len(t)
      BY <1>1
    <3>3. i \in 1..Len(u) /\ Len(s) + j \in 1..Len(u) /\ i < Len(s) + j
      BY <3>0
    <3>4. u[i] < u[Len(s) + j]
      BY <1>3, <3>3 DEF Increasing
    <3> QED
      BY <1>1, <3>1, <3>2, <3>4
  <2> QED
    BY <2>1, <2>2, <2>3 DEF Increasing, Below
<1>4. ASSUME Increasing(s), Increasing(t), Below(ToSet(s), ToSet(t)),
             NEW i \in 1..Len(u), NEW j \in 1..Len(u), i < j
      PROVE  u[i] < u[j]
  <2>1. CASE i \in 1..Len(s) /\ j \in 1..Len(s)
    BY <1>1, <1>4, <2>1 DEF Increasing
  <2>2. CASE i - Len(s) \in 1..Len(t) /\ j - Len(s) \in 1..Len(t) /\ u[i] = t[i - Len(s)] /\ u[j] = t[j - Len(s)]
    <3>1. i - Len(s) < j - Len(s)
      BY <1>1, <1>4
    <3> QED
      BY <1>4, <2>2, <3>1 DEF Increasing
  <2>3. CASE i \in 1..Len(s) /\ j - Len(s) \in 1..Len(t) /\ u[j] = t[j - Len(s)]
    BY <1>1, <1>4, <2>3 DEF Below
  <2>4. CASE j \in 1..Len(s) /\ i - Len(s) \in 1..Len(t)
    BY <1>1, <1>4, <2>4
  <2> QED
    BY <1>2, <2>1, <2>2, <2>3, <2>4
<1>5. Increasing(u) <=> Increasing(s) /\ Increasing(t) /\ Below(ToSet(s), ToSet(t))
  BY <1>3, <1>4 DEF Increasing
<1> QED
  BY <1>5 DEF u

(* A single element is both.                                               *)
LEMMA SingleIs == \A x : Injective(<<x>>) /\ Increasing(<<x>>)
BY DEF Injective, Increasing
LEMMA EmptyIs == Injective(<<>>) /\ Increasing(<<>>)
BY DEF Injective, Increasing

-----------------------------------------------------------------------------
(* The inductive invariant.                                                *)

(* Every request buffer that is somewhere is in one place, and while the   *)
(* guest is up none is missing; so with the reply buffers.                 *)
Held(m) == IF m = 0 THEN <<>> ELSE <<m>>
Joined(a, b, c, d, e) == a \o (b \o (c \o (d \o e)))
Places == Joined(rxPosted, elements, rxUsed, rxFifo, Held(mine))
BuffersOnce ==
  /\ Injective(Places)
  /\ txFree + Len(txRing) + txUsed <= BufferCount
  /\ guest = "up" => /\ Len(Places) = BufferCount /\ ToSet(Places) = Buffers
                     /\ txFree + Len(txRing) + txUsed = BufferCount

(* Where the read loop is, what it has in hand, and what the guest's being *)
(* down leaves.                                                            *)
Stages ==
  /\ mine # 0 <=> reader = "copy"
  /\ reader = "handle" => current # 0
  /\ reader = "reply" => reply \in {"hello", "pong", "error"} /\ (reply = "hello" <=> current = 0)
  /\ reader = "gone" => current = 0
  /\ guest # "up" => reader = "gone"
  /\ guest = "reset" =>
       /\ ~heard
       /\ rxPosted = <<>> /\ elements = <<>> /\ rxUsed = <<>> /\ rxFifo = <<>>
       /\ txFree = 0 /\ txRing = <<>> /\ txUsed = 0

(* From those dealt with to those still waiting, the requests stand in     *)
(* line: behind the buffers are the requests in them.                      *)
Texts(s) == [i \in 1..Len(s) |-> content[s[i]]]
Now      == IF reader = "handle" THEN <<current>> ELSE <<>>
Line     == Joined(handled, Now, Texts(Held(mine)), Texts(rxFifo), Texts(rxUsed) \o waiting)
InLine ==
  /\ Increasing(Line)
  /\ \A id \in ToSet(Line) : 1 <= id /\ id < nextID

(* A request still waited for has been made and not been answered.         *)
StillOpen ==
  /\ \A id \in pending : told[id] = "nothing" /\ id < nextID
  /\ \A id \in Ids : id >= nextID => told[id] = "nothing"

(* Only what was dealt with is answered, as what it is.                    *)
Answered ==
  /\ reader = "reply" /\ reply # "hello" => current \in ToSet(handled)
  /\ reader = "reply" /\ reply = "pong" => kind[current] = "ping"
  /\ \A id \in Ids : job[id] # "none" => id \in ToSet(handled) /\ kind[id] = "run"
  /\ writer # 0 => job[writer] = "running" /\ 1 <= part /\ part <= parts
RingAnswered ==
  \A i \in 1..Len(txRing) :
    /\ txRing[i].type # "hello" => txRing[i].id \in ToSet(handled)
    /\ txRing[i].type = "pong" => kind[txRing[i].id] = "ping"

(* A result on the ring is of one piece: a part follows the one before it, *)
(* the first stands before a body that is empty, and the ring's first goes *)
(* on where a body that still waits has got to.                            *)
OfResult(frame) == frame.type \in {"result", "more"}
Unsent(id) == job[id] # "over" /\ ~(writer = id /\ part > 1)
Placed(f) ==
  /\ OfResult(f) => f.part # 0 /\ ~Unsent(f.id)
  /\ f.type = "result" => f.part = 1 /\ f.of # 0 /\ body[f.id] = <<>>
  /\ f.type = "more" => f.part > 1
  /\ OfResult(f) /\ f.id = writer => f.part < part
Follows(f, g) == g.type = "more" => OfResult(f) /\ f.id = g.id /\ g.part = f.part + 1
Ascends(f, g) == OfResult(f) /\ OfResult(g) /\ f.id = g.id => f.part < g.part
InOrder(ring) ==
  /\ \A i \in 2..Len(ring) : Follows(ring[i - 1], ring[i])
  /\ \A i, j \in 1..Len(ring) : i < j => Ascends(ring[i], ring[j])
RingInPieces == InOrder(txRing) /\ \A i \in 1..Len(txRing) : Placed(txRing[i])
Joins ==
  /\ txRing # <<>> /\ txRing[1].type = "more" /\ txRing[1].id \in pending
       => txRing[1].part = Len(body[txRing[1].id]) + 1
  /\ writer # 0 /\ part > 1 =>
       IF txRing = <<>> THEN writer \in pending => part = Len(body[writer]) + 1
       ELSE /\ OfResult(txRing[Len(txRing)]) /\ txRing[Len(txRing)].id = writer
            /\ part = txRing[Len(txRing)].part + 1

(* A body is begun by its result and not yet whole, while it is waited for.*)
Bodies ==
  /\ \A id \in Ids : Unsent(id) => body[id] = <<>> /\ total[id] = 0
  /\ \A id \in pending : IF body[id] = <<>> THEN total[id] = 0 ELSE Len(body[id]) < total[id]
  /\ BodyIsPrefix

IInv ==
  /\ TypeOK /\ BuffersOnce /\ Stages /\ InLine /\ StillOpen
  /\ Answered /\ RingAnswered /\ RingInPieces /\ Joins /\ Bodies

-----------------------------------------------------------------------------
(* Two sequences end to end, and five, as the places of a buffer are.      *)
LEMMA TwoParts ==
  ASSUME NEW S, NEW s \in Seq(S), NEW t \in Seq(S)
  PROVE  /\ s \o t \in Seq(S) /\ Len(s \o t) = Len(s) + Len(t)
         /\ ToSet(s \o t) = ToSet(s) \cup ToSet(t)
         /\ Injective(s \o t) <=> Injective(s) /\ Injective(t) /\ Apart(ToSet(s), ToSet(t))
<1>1. s \o t \in Seq(S) /\ Len(s \o t) = Len(s) + Len(t)
  BY Concat
<1>2. ToSet(s \o t) = ToSet(s) \cup ToSet(t)
  BY ToSetConcat
<1>3. Injective(s \o t) <=> Injective(s) /\ Injective(t) /\ Apart(ToSet(s), ToSet(t))
  BY InjectiveConcat
<1> QED
  BY <1>1, <1>2, <1>3

AllApart(a, b, c, d, e) ==
  /\ Injective(a) /\ Injective(b) /\ Injective(c) /\ Injective(d) /\ Injective(e)
  /\ Apart(ToSet(a), ToSet(b)) /\ Apart(ToSet(a), ToSet(c)) /\ Apart(ToSet(a), ToSet(d))
  /\ Apart(ToSet(a), ToSet(e)) /\ Apart(ToSet(b), ToSet(c)) /\ Apart(ToSet(b), ToSet(d))
  /\ Apart(ToSet(b), ToSet(e)) /\ Apart(ToSet(c), ToSet(d)) /\ Apart(ToSet(c), ToSet(e))
  /\ Apart(ToSet(d), ToSet(e))

AllOf(a, b, c, d, e) == ToSet(a) \cup ToSet(b) \cup ToSet(c) \cup ToSet(d) \cup ToSet(e)

LEMMA FiveParts ==
  ASSUME NEW S, NEW a \in Seq(S), NEW b \in Seq(S), NEW c \in Seq(S), NEW d \in Seq(S), NEW e \in Seq(S)
  PROVE  /\ Joined(a, b, c, d, e) \in Seq(S)
         /\ Len(Joined(a, b, c, d, e)) = Len(a) + Len(b) + Len(c) + Len(d) + Len(e)
         /\ ToSet(Joined(a, b, c, d, e)) = AllOf(a, b, c, d, e)
         /\ Injective(Joined(a, b, c, d, e)) <=> AllApart(a, b, c, d, e)
<1> DEFINE p4 == d \o e
           p3 == c \o p4
           p2 == b \o p3
           p  == a \o p2
<1>4. /\ p4 \in Seq(S) /\ Len(p4) = Len(d) + Len(e) /\ ToSet(p4) = ToSet(d) \cup ToSet(e)
      /\ Injective(p4) <=> Injective(d) /\ Injective(e) /\ Apart(ToSet(d), ToSet(e))
  BY TwoParts
<1> HIDE DEF p4
<1>3. /\ p3 \in Seq(S) /\ Len(p3) = Len(c) + Len(p4) /\ ToSet(p3) = ToSet(c) \cup ToSet(p4)
      /\ Injective(p3) <=> Injective(c) /\ Injective(p4) /\ Apart(ToSet(c), ToSet(p4))
  <2>1. p4 \in Seq(S)
    BY <1>4
  <2> QED
    BY <2>1, TwoParts
<1> HIDE DEF p3
<1>2. /\ p2 \in Seq(S) /\ Len(p2) = Len(b) + Len(p3) /\ ToSet(p2) = ToSet(b) \cup ToSet(p3)
      /\ Injective(p2) <=> Injective(b) /\ Injective(p3) /\ Apart(ToSet(b), ToSet(p3))
  <2>1. p3 \in Seq(S)
    BY <1>3
  <2> QED
    BY <2>1, TwoParts
<1> HIDE DEF p2
<1>1. /\ p \in Seq(S) /\ Len(p) = Len(a) + Len(p2) /\ ToSet(p) = ToSet(a) \cup ToSet(p2)
      /\ Injective(p) <=> Injective(a) /\ Injective(p2) /\ Apart(ToSet(a), ToSet(p2))
  <2>1. p2 \in Seq(S)
    BY <1>2
  <2> QED
    BY <2>1, TwoParts
<1> HIDE DEF p
<1>5. Len(a) \in Nat /\ Len(b) \in Nat /\ Len(c) \in Nat /\ Len(d) \in Nat /\ Len(e) \in Nat
  OBVIOUS
<1>6. Len(p) = Len(a) + Len(b) + Len(c) + Len(d) + Len(e)
  BY <1>1, <1>2, <1>3, <1>4, <1>5
<1>7. ToSet(p) = ToSet(a) \cup ToSet(b) \cup ToSet(c) \cup ToSet(d) \cup ToSet(e)
  BY <1>1, <1>2, <1>3, <1>4
<1>8. \A X, Y, Z : Apart(X, Y \cup Z) <=> Apart(X, Y) /\ Apart(X, Z)
  BY DEF Apart
<1>9. Injective(p) <=> AllApart(a, b, c, d, e)
  <2> DEFINE A == ToSet(a)  B == ToSet(b)  C == ToSet(c)  D == ToSet(d)  E == ToSet(e)
  <2>4. Injective(p4) <=> Injective(d) /\ Injective(e) /\ Apart(D, E)
    BY <1>4
  <2>3. Injective(p3) <=> Injective(c) /\ Injective(p4) /\ Apart(C, D) /\ Apart(C, E)
    BY <1>3, <1>4, <1>8
  <2>2. Injective(p2) <=> Injective(b) /\ Injective(p3) /\ Apart(B, C) /\ Apart(B, D) /\ Apart(B, E)
    BY <1>2, <1>3, <1>4, <1>8
  <2>1. Injective(p) <=> Injective(a) /\ Injective(p2)
                         /\ Apart(A, B) /\ Apart(A, C) /\ Apart(A, D) /\ Apart(A, E)
    <3>1. ToSet(p2) = B \cup (C \cup (D \cup E))
      BY <1>2, <1>3, <1>4
    <3>2. Apart(A, ToSet(p2)) <=> Apart(A, B) /\ Apart(A, C) /\ Apart(A, D) /\ Apart(A, E)
      BY <3>1 DEF Apart
    <3> QED
      BY <1>1, <3>2
  <2> HIDE DEF A, B, C, D, E
  <2>5. Injective(p) <=>
          /\ Injective(a) /\ Injective(b) /\ Injective(c) /\ Injective(d) /\ Injective(e)
          /\ Apart(A, B) /\ Apart(A, C) /\ Apart(A, D) /\ Apart(A, E) /\ Apart(B, C)
          /\ Apart(B, D) /\ Apart(B, E) /\ Apart(C, D) /\ Apart(C, E) /\ Apart(D, E)
    BY <2>1, <2>2, <2>3, <2>4
  <2> QED
    BY <2>5 DEF A, B, C, D, E, AllApart
<1> QED
  BY <1>1, <1>6, <1>7, <1>9 DEF p, p2, p3, p4, Joined, AllOf

(* The length and the elements do not depend on the brackets.              *)
LEMMA LeftParts ==
  ASSUME NEW S, NEW a \in Seq(S), NEW b \in Seq(S), NEW c \in Seq(S), NEW d \in Seq(S), NEW e \in Seq(S)
  PROVE  /\ Len(a \o b \o c \o d \o e) = Len(a) + Len(b) + Len(c) + Len(d) + Len(e)
         /\ ToSet(a \o b \o c \o d \o e) = AllOf(a, b, c, d, e)
<1> DEFINE p2 == a \o b
           p3 == p2 \o c
           p4 == p3 \o d
           p  == p4 \o e
<1>2. p2 \in Seq(S) /\ Len(p2) = Len(a) + Len(b) /\ ToSet(p2) = ToSet(a) \cup ToSet(b)
  BY TwoParts
<1> HIDE DEF p2
<1>3. p3 \in Seq(S) /\ Len(p3) = Len(p2) + Len(c) /\ ToSet(p3) = ToSet(p2) \cup ToSet(c)
  <2>1. p2 \in Seq(S)
    BY <1>2
  <2> QED
    BY <2>1, TwoParts
<1> HIDE DEF p3
<1>4. p4 \in Seq(S) /\ Len(p4) = Len(p3) + Len(d) /\ ToSet(p4) = ToSet(p3) \cup ToSet(d)
  <2>1. p3 \in Seq(S)
    BY <1>3
  <2> QED
    BY <2>1, TwoParts
<1> HIDE DEF p4
<1>5. Len(p) = Len(p4) + Len(e) /\ ToSet(p) = ToSet(p4) \cup ToSet(e)
  <2>1. p4 \in Seq(S)
    BY <1>4
  <2> QED
    BY <2>1, TwoParts
<1> HIDE DEF p
<1>6. Len(a) \in Nat /\ Len(b) \in Nat /\ Len(c) \in Nat /\ Len(d) \in Nat /\ Len(e) \in Nat
  OBVIOUS
<1>7. Len(p) = Len(a) + Len(b) + Len(c) + Len(d) + Len(e)
  BY <1>2, <1>3, <1>4, <1>5, <1>6
<1>8. ToSet(p) = AllOf(a, b, c, d, e)
  BY <1>2, <1>3, <1>4, <1>5 DEF AllOf
<1> QED
  BY Zenon, <1>7, <1>8 DEF p, p4, p3, p2

(* flushRequests() fills buffers no one else has: the first requests of    *)
(* the queue go to the first of them, and no other buffer is touched.      *)
LEMMA FlushIs ==
  ASSUME TypeOK, NEW queue \in Seq(Ids), NEW buffers \in Seq(Buffers), Injective(buffers),
         Flush(queue, buffers)
  PROVE  \E n \in 0..Len(queue) :
           /\ n \in 0..Len(buffers)
           /\ waiting' = SubSeq(queue, n + 1, Len(queue))
           /\ elements' = SubSeq(buffers, n + 1, Len(buffers))
           /\ rxUsed' = rxUsed \o SubSeq(buffers, 1, n)
           /\ content' \in [Buffers -> Ids \cup {0}]
           /\ \A i \in 1..n : content'[buffers[i]] = queue[i]
           /\ \A b \in Buffers \ ToSet(buffers) : content'[b] = content[b]
           /\ rxIrq' \in BOOLEAN
<1> DEFINE n == Min({Len(queue), Len(buffers)})
           Filled(b) == {i \in 1..n : buffers[i] = b}
<1>0. Len(queue) \in Nat /\ Len(buffers) \in Nat
  OBVIOUS
<1>1. n \in 0..Len(queue) /\ n \in 0..Len(buffers)
  <2>1. \A i, j \in Nat : Min({i, j}) = IF i <= j THEN i ELSE j
    BY DEF Min
  <2> QED
    BY <1>0, <2>1
<1>2. /\ waiting' = SubSeq(queue, n + 1, Len(queue))
      /\ elements' = SubSeq(buffers, n + 1, Len(buffers))
      /\ rxUsed' = rxUsed \o SubSeq(buffers, 1, n)
      /\ content' = [b \in Buffers |->
           IF Filled(b) = {} THEN content[b] ELSE queue[Max(Filled(b))]]
      /\ rxIrq' = (rxIrq \/ n > 0)
  BY DEF Flush
<1> HIDE DEF n
<1>3. \A i \in 1..n : Filled(buffers[i]) = {i} /\ queue[i] \in Ids /\ buffers[i] \in Buffers
  BY <1>0, <1>1 DEF Injective
<1>4. \A b : b \notin ToSet(buffers) => Filled(b) = {}
  BY <1>0, <1>1, ToSetIs
<1>5. \A i \in 1..n : Max({i}) = i
  BY <1>1 DEF Max
<1> HIDE DEF Filled
<1>6. \A i \in 1..n : content'[buffers[i]] = queue[i]
  BY <1>2, <1>3, <1>5
<1>7. \A b \in Buffers \ ToSet(buffers) : content'[b] = content[b]
  BY <1>2, <1>4
<1>8. content' \in [Buffers -> Ids \cup {0}]
  <2>1. ASSUME NEW b \in Buffers PROVE content'[b] \in Ids \cup {0}
    <3>1. CASE Filled(b) = {}
      BY <1>2, <3>1 DEF TypeOK
    <3>2. CASE Filled(b) # {}
      <4>1. PICK i \in 1..n : buffers[i] = b
        BY <3>2 DEF Filled
      <4> QED
        BY <4>1, <1>3, <1>6
    <3> QED
      BY <3>1, <3>2
  <2> QED
    BY <1>2, <2>1
<1>9. rxIrq' \in BOOLEAN
  BY <1>2 DEF TypeOK
<1> QED
  BY <1>1, <1>2, <1>6, <1>7, <1>8, <1>9

(* What that does to the places of the buffers and to the line.            *)
LEMMA FlushKeeps ==
  ASSUME TypeOK, NEW queue \in Seq(Ids), NEW buffers \in Seq(Buffers),
         Injective(buffers), Injective(rxUsed), Apart(ToSet(buffers), ToSet(rxUsed)),
         Flush(queue, buffers)
  PROVE  /\ waiting' \in Seq(Ids) /\ elements' \in Seq(Buffers) /\ rxUsed' \in Seq(Buffers)
         /\ content' \in [Buffers -> Ids \cup {0}] /\ rxIrq' \in BOOLEAN
         /\ Len(elements') + Len(rxUsed') = Len(buffers) + Len(rxUsed)
         /\ ToSet(elements') \cup ToSet(rxUsed') = ToSet(buffers) \cup ToSet(rxUsed)
         /\ Injective(elements') /\ Injective(rxUsed') /\ Apart(ToSet(elements'), ToSet(rxUsed'))
         /\ Texts(rxUsed)' \o waiting' = Texts(rxUsed) \o queue
         /\ \A b \in Buffers \ ToSet(buffers) : content'[b] = content[b]
<1>1. PICK n \in 0..Len(queue) :
        /\ n \in 0..Len(buffers)
        /\ waiting' = SubSeq(queue, n + 1, Len(queue))
        /\ elements' = SubSeq(buffers, n + 1, Len(buffers))
        /\ rxUsed' = rxUsed \o SubSeq(buffers, 1, n)
        /\ content' \in [Buffers -> Ids \cup {0}]
        /\ \A i \in 1..n : content'[buffers[i]] = queue[i]
        /\ \A b \in Buffers \ ToSet(buffers) : content'[b] = content[b]
        /\ rxIrq' \in BOOLEAN
  BY FlushIs
<1> DEFINE taken == Taken(buffers, n)
           rest  == Left(buffers, n)
           sent  == Taken(queue, n)
           kept  == Left(queue, n)
<1>2. /\ taken \in Seq(Buffers) /\ rest \in Seq(Buffers) /\ buffers = taken \o rest
      /\ Len(taken) = n /\ Len(rest) = Len(buffers) - n /\ Len(buffers) \in Nat
      /\ \A i \in 1..n : taken[i] = buffers[i]
  <2>1. n \in 0..Len(buffers)
    BY <1>1
  <2>2. \A m \in 0..Len(buffers) :
          LET t == Taken(buffers, m)
              r == Left(buffers, m)
          IN  /\ t \in Seq(Buffers) /\ r \in Seq(Buffers) /\ buffers = t \o r
              /\ Len(t) = m /\ Len(r) = Len(buffers) - m /\ Len(buffers) \in Nat
              /\ \A i \in 1..m : t[i] = buffers[i]
    BY ZenonT(60), Cut
  <2> QED
    BY Zenon, <2>1, <2>2
<1>3. /\ sent \in Seq(Ids) /\ kept \in Seq(Ids) /\ queue = sent \o kept
      /\ Len(sent) = n /\ Len(kept) = Len(queue) - n /\ Len(queue) \in Nat
      /\ \A i \in 1..n : sent[i] = queue[i]
  <2>1. n \in 0..Len(queue)
    BY <1>1
  <2>2. \A m \in 0..Len(queue) :
          LET t == Taken(queue, m)
              r == Left(queue, m)
          IN  /\ t \in Seq(Ids) /\ r \in Seq(Ids) /\ queue = t \o r
              /\ Len(t) = m /\ Len(r) = Len(queue) - m /\ Len(queue) \in Nat
              /\ \A i \in 1..m : t[i] = queue[i]
    BY ZenonT(60), Cut
  <2> QED
    BY Zenon, <2>1, <2>2
<1> HIDE DEF taken, rest, sent, kept
<1>4. waiting' = kept /\ elements' = rest /\ rxUsed' = rxUsed \o taken
  BY <1>1 DEF taken, rest, kept, Taken, Left
<1>5. rxUsed \in Seq(Buffers) /\ Len(rxUsed) \in Nat /\ n \in Nat
  BY DEF TypeOK
<1>6. /\ Injective(taken) /\ Injective(rest) /\ Apart(ToSet(taken), ToSet(rest))
      /\ ToSet(buffers) = ToSet(taken) \cup ToSet(rest)
  <2>1. ToSet(taken \o rest) = ToSet(taken) \cup ToSet(rest)
    BY <1>2, TwoParts
  <2>2. Injective(taken \o rest) <=> Injective(taken) /\ Injective(rest) /\ Apart(ToSet(taken), ToSet(rest))
    BY <1>2, TwoParts
  <2> QED
    BY <1>2, <2>1, <2>2
<1>7. /\ rxUsed' \in Seq(Buffers) /\ Len(rxUsed') = Len(rxUsed) + n
      /\ ToSet(rxUsed') = ToSet(rxUsed) \cup ToSet(taken)
      /\ Injective(rxUsed') <=> Injective(rxUsed) /\ Injective(taken) /\ Apart(ToSet(rxUsed), ToSet(taken))
  <2>1. rxUsed \in Seq(Buffers) /\ taken \in Seq(Buffers) /\ Len(taken) = n
    BY <1>2, <1>5
  <2>2. /\ rxUsed \o taken \in Seq(Buffers) /\ Len(rxUsed \o taken) = Len(rxUsed) + Len(taken)
        /\ ToSet(rxUsed \o taken) = ToSet(rxUsed) \cup ToSet(taken)
        /\ Injective(rxUsed \o taken)
             <=> Injective(rxUsed) /\ Injective(taken) /\ Apart(ToSet(rxUsed), ToSet(taken))
    BY SMTT(30), <2>1, TwoParts
  <2> QED
    BY Zenon, <1>4, <2>1, <2>2
<1>8. Injective(rxUsed') /\ Apart(ToSet(elements'), ToSet(rxUsed'))
  BY <1>4, <1>6, <1>7 DEF Apart
<1>9. Texts(rxUsed)' \o waiting' = Texts(rxUsed) \o queue
  <2> DEFINE before == Texts(rxUsed)
             after  == Texts(rxUsed)'
  <2>1. /\ before \in Seq(Ids \cup {0}) /\ Len(before) = Len(rxUsed)
        /\ \A i \in 1..Len(rxUsed) : before[i] = content[rxUsed[i]]
    BY SMTT(60), <1>5 DEF Texts, TypeOK
  <2>2. /\ after \in Seq(Ids \cup {0}) /\ Len(after) = Len(rxUsed) + n
        /\ \A i \in 1..Len(rxUsed) + n : after[i] = content'[rxUsed'[i]]
    BY <1>1, <1>7 DEF Texts
  <2> HIDE DEF before, after
  <2>3. ASSUME NEW i \in 1..Len(rxUsed) PROVE after[i] = before[i]
    <3>1. rxUsed'[i] = rxUsed[i] /\ rxUsed[i] \in Buffers /\ rxUsed[i] \in ToSet(rxUsed)
      BY <1>2, <1>4, <1>5, Concat, ToSetIs
    <3>2. rxUsed[i] \notin ToSet(buffers)
      BY <3>1 DEF Apart
    <3>3. i \in 1..Len(rxUsed) + n
      BY <1>5
    <3> QED
      <4>1. content'[rxUsed[i]] = content[rxUsed[i]]
        BY <1>1, <3>1, <3>2
      <4>2. after[i] = content'[rxUsed'[i]]
        BY <2>2, <3>3
      <4>3. before[i] = content[rxUsed[i]]
        BY <2>1
      <4> QED
        BY <3>1, <4>1, <4>2, <4>3
  <2>4. ASSUME NEW i \in 1..n PROVE after[Len(rxUsed) + i] = sent[i]
    <3>1. rxUsed'[Len(rxUsed) + i] = taken[i]
      BY <1>2, <1>4, <1>5, Concat
    <3>2. Len(rxUsed) + i \in 1..Len(rxUsed) + n
      BY <1>5
    <3> QED
      <4>1. after[Len(rxUsed) + i] = content'[rxUsed'[Len(rxUsed) + i]]
        BY <2>2, <3>2
      <4>2. taken[i] = buffers[i] /\ sent[i] = queue[i]
        BY <1>2, <1>3
      <4>3. content'[buffers[i]] = queue[i]
        BY <1>1
      <4> QED
        BY <3>1, <4>1, <4>2, <4>3
  <2>5. after = before \o sent
    <3>1. sent \in Seq(Ids \cup {0}) /\ Len(sent) = n
      BY <1>3
    <3>2. /\ before \o sent \in Seq(Ids \cup {0}) /\ Len(before \o sent) = Len(rxUsed) + n
          /\ \A i \in 1..Len(rxUsed) : (before \o sent)[i] = before[i]
          /\ \A i \in 1..n : (before \o sent)[Len(rxUsed) + i] = sent[i]
      <4>1. before \in Seq(Ids \cup {0})
        BY <2>1
      <4>2. /\ before \o sent \in Seq(Ids \cup {0}) /\ Len(before \o sent) = Len(before) + Len(sent)
            /\ \A i \in 1..Len(before) : (before \o sent)[i] = before[i]
            /\ \A i \in 1..Len(sent) : (before \o sent)[Len(before) + i] = sent[i]
        <5>1. sent \in Seq(Ids \cup {0})
          BY <3>1
        <5> QED
          BY <4>1, <5>1, Concat
      <4> QED
        BY <2>1, <3>1, <4>2
    <3>3. ASSUME NEW k \in 1..Len(rxUsed) + n PROVE after[k] = (before \o sent)[k]
      <4>1. CASE k <= Len(rxUsed)
        BY <1>5, <2>3, <3>2, <4>1
      <4>2. CASE k > Len(rxUsed)
        <5>1. k - Len(rxUsed) \in 1..n /\ k = Len(rxUsed) + (k - Len(rxUsed))
          BY <1>5, <4>2
        <5> QED
          BY <2>4, <3>2, <5>1
      <4> QED
        <5>1. k <= Len(rxUsed) \/ k > Len(rxUsed)
          BY <1>5
        <5> QED
          BY <4>1, <4>2, <5>1
    <3> QED
      BY <2>2, <3>2, <3>3, SeqEqual
  <2>6. (before \o sent) \o kept = before \o (sent \o kept)
    <3>1. sent \in Seq(Ids \cup {0}) /\ kept \in Seq(Ids \cup {0})
      BY <1>3
    <3> QED
      BY SMTT(60), <2>1, <3>1, ConcatAssociative
  <2>7. after \o waiting' = before \o queue
    BY <1>3, <1>4, <2>5, <2>6
  <2> QED
    BY <2>7 DEF before, after
<1>10. Len(elements') + Len(rxUsed') = Len(buffers) + Len(rxUsed)
  <2>1. Len(elements') = Len(buffers) - n /\ Len(rxUsed') = Len(rxUsed) + n /\ Len(buffers) \in Nat
    BY <1>2, <1>4, <1>7
  <2> QED
    BY <1>5, <2>1
<1>11. ToSet(elements') \cup ToSet(rxUsed') = ToSet(buffers) \cup ToSet(rxUsed)
  BY <1>4, <1>6, <1>7
<1> QED
  BY <1>1, <1>2, <1>3, <1>4, <1>6, <1>7, <1>8, <1>9, <1>10, <1>11

LEMMA HeldIs ==
  ASSUME NEW S, NEW m \in S \cup {0}
  PROVE  /\ Held(m) \in Seq(S) /\ Injective(Held(m))
         /\ m = 0 => Held(m) = <<>> /\ Len(Held(m)) = 0 /\ ToSet(Held(m)) = {}
         /\ m # 0 => Held(m) = <<m>> /\ Len(Held(m)) = 1 /\ ToSet(Held(m)) = {m}
BY ToSetEmpty, SingleIs, EmptyIs DEF Held

(* What the invariant says of the places of the buffers, one by one.       *)
LEMMA PlacesAre ==
  ASSUME TypeOK
  PROVE  /\ Len(Places) = Len(rxPosted) + Len(elements) + Len(rxUsed) + Len(rxFifo) + Len(Held(mine))
         /\ ToSet(Places) = AllOf(rxPosted, elements, rxUsed, rxFifo, Held(mine))
         /\ Injective(Places) <=> AllApart(rxPosted, elements, rxUsed, rxFifo, Held(mine))
<1>1. /\ rxPosted \in Seq(Buffers) /\ elements \in Seq(Buffers) /\ rxUsed \in Seq(Buffers)
      /\ rxFifo \in Seq(Buffers) /\ Held(mine) \in Seq(Buffers)
  BY HeldIs DEF TypeOK
<1> QED
  <2> DEFINE a == rxPosted  b == elements  c == rxUsed  d == rxFifo  e == Held(mine)
  <2>1. a \in Seq(Buffers) /\ b \in Seq(Buffers) /\ c \in Seq(Buffers)
    BY <1>1
  <2>2. d \in Seq(Buffers) /\ e \in Seq(Buffers)
    BY <1>1
  <2> HIDE DEF a, b, c, d, e
  <2>3. Len(Joined(a, b, c, d, e)) = Len(a) + Len(b) + Len(c) + Len(d) + Len(e)
    BY SMT, <2>1, <2>2, FiveParts
  <2>4. ToSet(Joined(a, b, c, d, e)) = AllOf(a, b, c, d, e)
    BY SMT, <2>1, <2>2, FiveParts
  <2>5. Injective(Joined(a, b, c, d, e)) <=> AllApart(a, b, c, d, e)
    BY Zenon, <2>1, <2>2, FiveParts
  <2> QED
    BY <2>3, <2>4, <2>5 DEF Places, a, b, c, d, e

-----------------------------------------------------------------------------
(* The types.                                                              *)
LEMMA InitTypes == Init => TypeOK
<1> SUFFICES ASSUME Init PROVE TypeOK
  OBVIOUS
<1>1. /\ nextID \in 1..(MaxRequests + 1) /\ kind \in [Ids -> {"none", "ping", "run"}]
      /\ pending \subseteq Ids /\ total \in [Ids -> 0..MaxParts]
      /\ told \in [Ids -> Promise!Outcomes \cup {"nothing"}]
      /\ content \in [Buffers -> Ids \cup {0}]
      /\ job \in [Ids -> {"none", "running", "over"}]
  BY PortalAssumption DEF Init
<1>2. body \in [Ids -> Seq(1..MaxParts)]
  BY DEF Init
<1>3. /\ waiting \in Seq(Ids) /\ elements \in Seq(Buffers) /\ txRing \in Seq(Frames)
      /\ rxPosted \in Seq(Buffers) /\ rxUsed \in Seq(Buffers) /\ rxFifo \in Seq(Buffers)
      /\ handled \in Seq(Ids)
  BY DEF Init
<1> QED
  <2>0. heard \in BOOLEAN /\ rxIrq \in BOOLEAN /\ txIrq \in BOOLEAN
    BY DEF Init
  <2>1. /\ txFree \in 0..BufferCount /\ txUsed \in 0..BufferCount
        /\ part \in 0..MaxParts /\ parts \in 0..MaxParts /\ falls \in 0..MaxFalls
    BY PortalAssumption DEF Init
  <2>2. /\ guest \in {"down", "reset", "up"} /\ reader \in {"gone", "read", "copy", "handle", "reply"}
        /\ mine \in Buffers \cup {0} /\ current \in Ids \cup {0} /\ writer \in Ids \cup {0}
        /\ reply \in FrameTypes \cup {"none"}
    BY DEF Init
  <2> QED
    BY <1>1, <1>2, <1>3, <2>0, <2>1, <2>2 DEF TypeOK

(* Frames the guest sends are frames.                                      *)
LEMMA FramesAre ==
  /\ \A type \in FrameTypes, id \in Ids \cup {0} : Frame(type, id) \in Frames
  /\ \A type \in FrameTypes, id \in Ids \cup {0}, k, n \in 0..MaxParts :
       [type |-> type, id |-> id, part |-> k, of |-> n] \in Frames
BY PortalAssumption DEF Frame, Frames

(* With the place a frame was written from, the reply buffers suffice.     *)
LEMMA WriteTypes ==
  ASSUME IInv, NEW frame \in Frames, Write(frame)
  PROVE  /\ txFree' \in 0..BufferCount /\ txUsed' = txUsed /\ txIrq' = txIrq
         /\ txRing' = Append(txRing, frame) /\ txRing' \in Seq(Frames)
         /\ txFree' + Len(txRing') + txUsed' = txFree + Len(txRing) + txUsed
         /\ txRing \in Seq(Frames) /\ Len(txRing) \in Nat /\ Len(txRing') = Len(txRing) + 1
<1>1. txFree \in 0..BufferCount /\ txUsed \in 0..BufferCount /\ txRing \in Seq(Frames)
  BY DEF IInv, TypeOK
<1>2. /\ txFree > 0 /\ txFree' = txFree - 1 /\ txRing' = Append(txRing, frame)
      /\ txUsed' = txUsed /\ txIrq' = txIrq
  BY DEF Write
<1>3. txRing' \in Seq(Frames) /\ Len(txRing) \in Nat /\ Len(txRing') = Len(txRing) + 1
  BY <1>1, <1>2, AppendIs
<1> QED
  BY <1>1, <1>2, <1>3, PortalAssumption

(* The frame send_result() writes next is one.                             *)
NextPart == [type |-> IF part = 1 THEN "result" ELSE "more", id |-> writer,
             part |-> part, of |-> IF part = 1 THEN parts ELSE 0]

LEMMA NextPartIs ==
  ASSUME IInv, WritePart
  PROVE  NextPart \in Frames /\ Write(NextPart)
<1>1. part \in 0..MaxParts /\ parts \in 0..MaxParts /\ writer \in Ids \cup {0} /\ 0 \in 0..MaxParts
  BY PortalAssumption DEF IInv, TypeOK
<1>2. NextPart \in Frames
  BY <1>1 DEF NextPart, Frames, FrameTypes
<1> QED
  BY <1>2 DEF WritePart, NextPart

(* The two ways flushRequests() is called leave a line of requests and the *)
(* buffers in their places.                                                *)
LEMMA FlushTypes ==
  ASSUME IInv,
         NEW queue \in Seq(Ids), NEW buffers,
         buffers = elements \/ buffers = elements \o rxPosted,
         Flush(queue, buffers)
  PROVE  /\ waiting' \in Seq(Ids) /\ elements' \in Seq(Buffers) /\ rxUsed' \in Seq(Buffers)
         /\ content' \in [Buffers -> Ids \cup {0}] /\ rxIrq' \in BOOLEAN
         /\ Len(elements') + Len(rxUsed') = Len(buffers) + Len(rxUsed)
         /\ ToSet(elements') \cup ToSet(rxUsed') = ToSet(buffers) \cup ToSet(rxUsed)
         /\ Injective(elements') /\ Injective(rxUsed') /\ Apart(ToSet(elements'), ToSet(rxUsed'))
         /\ Texts(rxUsed)' \o waiting' = Texts(rxUsed) \o queue
         /\ \A b \in Buffers \ ToSet(buffers) : content'[b] = content[b]
<1>1. TypeOK /\ elements \in Seq(Buffers) /\ rxPosted \in Seq(Buffers)
  BY DEF IInv, TypeOK
<1>2. AllApart(rxPosted, elements, rxUsed, rxFifo, Held(mine))
  BY <1>1, PlacesAre DEF IInv, BuffersOnce
<1>3. /\ Injective(elements \o rxPosted) /\ elements \o rxPosted \in Seq(Buffers)
      /\ ToSet(elements \o rxPosted) = ToSet(elements) \cup ToSet(rxPosted)
  <2>1. Injective(elements) /\ Injective(rxPosted) /\ Apart(ToSet(elements), ToSet(rxPosted))
    BY <1>2 DEF AllApart, Apart
  <2> QED
    BY <1>1, <2>1, TwoParts
<1>4. /\ buffers \in Seq(Buffers) /\ Injective(buffers) /\ Injective(rxUsed)
      /\ Apart(ToSet(buffers), ToSet(rxUsed))
  <2>1. /\ Injective(elements) /\ Injective(rxUsed)
        /\ Apart(ToSet(elements), ToSet(rxUsed)) /\ Apart(ToSet(rxPosted), ToSet(rxUsed))
    BY <1>2 DEF AllApart
  <2> QED
    BY <1>1, <1>3, <2>1 DEF Apart
<1> QED
  BY <1>1, <1>4, FlushKeeps

LEMMA StepTypes ==
  ASSUME IInv, [Next]_vars
  PROVE  TypeOK'
<1> USE PortalAssumption DEF IInv, Promise!Outcomes, Promise!Unsuccessful, Promise!Replies
<1>1. ASSUME NEW what \in {"ping", "run"}, Send(what) PROVE TypeOK'
  <2>1. nextID \in Ids /\ Append(waiting, nextID) \in Seq(Ids)
    BY <1>1, AppendIs DEF TypeOK, Send
  <2>2. Flush(Append(waiting, nextID), elements)
    BY <1>1 DEF Send
  <2>3. /\ waiting' \in Seq(Ids) /\ elements' \in Seq(Buffers) /\ rxUsed' \in Seq(Buffers)
        /\ content' \in [Buffers -> Ids \cup {0}] /\ rxIrq' \in BOOLEAN
    BY <2>1, <2>2, FlushTypes
  <2>4. nextID' \in 1..(MaxRequests + 1)
    BY <1>1, <2>1 DEF Send, Ids
  <2>5. kind' \in [Ids -> {"none", "ping", "run"}] /\ pending' \subseteq Ids
    BY <1>1, <2>1 DEF TypeOK, Send
  <2> QED
    BY ZenonT(60), <1>1, <2>3, <2>4, <2>5 DEF TypeOK, Send, txVars, loopVars, jobVars
<1>2. ASSUME NEW id \in Ids, Expire(id) PROVE TypeOK'
  BY SMTT(60), <1>2 DEF TypeOK, Expire, Complete, askVars, rxVars, txVars, loopVars, jobVars
<1>3. CASE TakeBuffers
  <2>1. /\ rxPosted' = <<>> /\ <<>> \in Seq(Buffers)
        /\ waiting \in Seq(Ids) /\ Flush(waiting, elements \o rxPosted)
    BY <1>3 DEF TakeBuffers, TypeOK
  <2>2. /\ waiting' \in Seq(Ids) /\ elements' \in Seq(Buffers) /\ rxUsed' \in Seq(Buffers)
        /\ content' \in [Buffers -> Ids \cup {0}] /\ rxIrq' \in BOOLEAN
    BY <2>1, FlushTypes
  <2>3. UNCHANGED <<askVars, replyVars, rxFifo, txVars, guest, loopVars, jobVars, falls>>
    BY <1>3 DEF TakeBuffers
  <2>4. rxPosted' \in Seq(Buffers)
    BY <2>1
  <2> HIDE <2>1
  <2> QED
    BY SMTT(30), <2>2, <2>3, <2>4 DEF TypeOK, askVars, replyVars, txVars, loopVars, jobVars
<1>4. CASE TakeFrame
  <2> DEFINE frame == Head(txRing)
  <2>1. /\ txRing # <<>> /\ txRing \in Seq(Frames) /\ frame \in Frames /\ frame = txRing[1]
        /\ txRing' \in Seq(Frames) /\ Len(txRing) \in Nat \ {0}
    BY <1>4, HeadTail DEF TypeOK, TakeFrame
  <2>2. txUsed' \in 0..BufferCount
    <3>1. txUsed' = txUsed + 1 /\ txUsed \in Nat /\ txFree \in Nat
      BY <1>4 DEF TypeOK, TakeFrame
    <3>2. txFree + Len(txRing) + txUsed <= BufferCount
      BY DEF BuffersOnce
    <3> QED
      BY <2>1, <3>1, <3>2
  <2>3. OfResult(frame) => frame.part \in 1..MaxParts
    <3>1. 1 \in 1..Len(txRing) /\ frame.part \in 0..MaxParts
      BY <2>1 DEF Frames
    <3>2. OfResult(frame) => frame.part # 0
      BY <2>1, <3>1 DEF RingInPieces, Placed
    <3> QED
      BY <3>1, <3>2
  <2>4. Handle(frame)
    BY <1>4 DEF TakeFrame
  <2> HIDE DEF frame
  <2>5. /\ pending' \subseteq Ids /\ heard' \in BOOLEAN /\ body' \in [Ids -> Seq(1..MaxParts)]
        /\ total' \in [Ids -> 0..MaxParts] /\ told' \in [Ids -> Promise!Outcomes \cup {"nothing"}]
    <3>1. CASE frame.type = "hello" \/ frame.id \notin pending
      BY <2>4, <3>1 DEF TypeOK, Handle, replyVars
    <3>2. CASE frame.type \in {"pong", "error"}
      BY <2>4, <3>2 DEF TypeOK, Handle, Complete, replyVars
    <3>3. CASE OfResult(frame) /\ frame.id \in pending
      <4>1. CASE Assemble(frame)
        <5>1. frame.id \in Ids /\ frame.of \in 0..MaxParts /\ frame.part \in 1..MaxParts
          BY <2>1, <2>3, <3>3 DEF TypeOK, Frames
        <5>2. Append(body[frame.id], frame.part) \in Seq(1..MaxParts)
          BY <5>1, AppendIs DEF TypeOK
        <5>3. body' \in [Ids -> Seq(1..MaxParts)]
          BY <4>1, <5>1, <5>2 DEF TypeOK, Assemble
        <5>4. total' \in [Ids -> 0..MaxParts]
          BY <4>1, <5>1 DEF TypeOK, Assemble
        <5>5. pending' \subseteq Ids /\ told' \in [Ids -> Promise!Outcomes \cup {"nothing"}]
          BY <4>1 DEF TypeOK, Assemble, Complete
        <5> QED
          BY <2>4, <3>3, <5>3, <5>4, <5>5 DEF TypeOK, Handle, OfResult
      <4>2. CASE ~Assemble(frame)
        BY ZenonT(60), <2>4, <3>3, <4>2 DEF TypeOK, Handle, OfResult, Complete
      <4> QED
        BY <4>1, <4>2
    <3> QED
      BY <2>1, <3>1, <3>2, <3>3 DEF Frames, FrameTypes, OfResult
  <2> QED
    BY ZenonT(60), <1>4, <2>1, <2>2, <2>5 DEF TypeOK, TakeFrame, askVars, rxVars, loopVars, jobVars
<1>5. CASE RxCallback
  <2>1. rxFifo \o rxUsed \in Seq(Buffers)
    BY Concat DEF TypeOK
  <2>2. <<>> \in Seq(Buffers)
    OBVIOUS
  <2> QED
    BY ZenonT(60), <1>5, <2>1, <2>2 DEF TypeOK, RxCallback, hostVars, txVars, loopVars, jobVars
<1>6. CASE TxCallback
  <2>1. txFree' \in 0..BufferCount /\ txUsed' \in 0..BufferCount /\ txIrq' \in BOOLEAN
    <3>1. Len(txRing) \in Nat /\ txFree \in 0..BufferCount /\ txUsed \in 0..BufferCount
      BY DEF TypeOK
    <3>2. txFree' = txFree + txUsed /\ txUsed' = 0 /\ txIrq' = FALSE
      BY <1>6 DEF TxCallback
    <3>3. txFree + Len(txRing) + txUsed <= BufferCount
      BY DEF BuffersOnce
    <3> QED
      <4>1. txFree' \in 0..BufferCount /\ txUsed' \in 0..BufferCount
        BY <3>1, <3>2, <3>3
      <4> QED
        BY <3>2, <4>1
  <2> QED
    BY SMTT(60), <1>6, <2>1 DEF TypeOK, TxCallback, hostVars, rxVars, loopVars, jobVars
<1>7. CASE ReadTakes
  BY <1>7, HeadTail DEF TypeOK, ReadTakes, hostVars, txVars, jobVars
<1>8. CASE ReadCopies
  <2>1. /\ mine \in Buffers /\ rxPosted \in Seq(Buffers) /\ content \in [Buffers -> Ids \cup {0}]
    BY <1>8 DEF TypeOK, Stages, ReadCopies
  <2>2. rxPosted' \in Seq(Buffers) /\ current' \in Ids \cup {0} /\ mine' \in Buffers \cup {0}
    BY <1>8, <2>1 DEF ReadCopies
  <2> QED
    <3>1. /\ UNCHANGED <<hostVars, content, rxUsed, rxFifo, rxIrq, txVars, guest>>
          /\ UNCHANGED <<reply, handled, jobVars, falls>> /\ reader' = "handle"
      BY <1>8 DEF ReadCopies
    <3> QED
      BY SMTT(30), <2>2, <3>1 DEF TypeOK, hostVars, txVars, jobVars
<1>9. CASE Deal
  <2>1. current \in Ids
    BY <1>9 DEF TypeOK, Stages, Deal
  <2>2. /\ handled' \in Seq(Ids) /\ job' \in [Ids -> {"none", "running", "over"}]
        /\ current' \in Ids \cup {0} /\ reply' \in FrameTypes \cup {"none"}
        /\ reader' \in {"gone", "read", "copy", "handle", "reply"}
    BY ZenonT(60), <1>9, <2>1, AppendIs DEF TypeOK, Deal, FrameTypes
  <2> QED
    BY <1>9, <2>2 DEF TypeOK, Deal, hostVars, rxVars, txVars
<1>10. CASE Reply
  <2>1. Frame(reply, current) \in Frames /\ Write(Frame(reply, current))
    BY <1>10, FramesAre DEF TypeOK, Stages, Reply, FrameTypes
  <2>2. txFree' \in 0..BufferCount /\ txUsed' = txUsed /\ txIrq' = txIrq /\ txRing' \in Seq(Frames)
    BY <2>1, WriteTypes
  <2> QED
    BY <1>10, <2>2 DEF TypeOK, Reply, hostVars, rxVars, jobVars
<1>11. CASE ReplyFails
  BY <1>11 DEF TypeOK, ReplyFails, hostVars, rxVars, txVars, jobVars
<1>12. CASE DaemonStarts
  BY <1>12 DEF TypeOK, DaemonStarts, FrameTypes, hostVars, rxVars, txVars, jobVars
<1>13. CASE WritePart
  <2>1. NextPart \in Frames /\ Write(NextPart)
    BY <1>13, NextPartIs
  <2>2. txFree' \in 0..BufferCount /\ txUsed' = txUsed /\ txIrq' = txIrq /\ txRing' \in Seq(Frames)
    BY <2>1, WriteTypes
  <2>3. /\ job' \in [Ids -> {"none", "running", "over"}] /\ writer' \in Ids \cup {0}
        /\ part' \in 0..MaxParts /\ parts' \in 0..MaxParts
    <3>1. CASE part < parts
      <4>1. part' = part + 1 /\ UNCHANGED <<job, writer, parts>>
        BY <1>13, <3>1 DEF WritePart
      <4> QED
        BY <3>1, <4>1 DEF TypeOK
    <3>2. CASE ~(part < parts)
      <4>1. ResultEnds /\ 0 \in 0..MaxParts
        BY <1>13, <3>2 DEF WritePart
      <4> QED
        BY <4>1 DEF TypeOK, ResultEnds
    <3> QED
      BY <3>1, <3>2
  <2> QED
    <3>1. UNCHANGED <<hostVars, rxVars, guest, loopVars, falls>>
      BY <1>13 DEF WritePart
    <3> QED
      BY ZenonT(60), <2>2, <2>3, <3>1 DEF TypeOK, hostVars, rxVars, loopVars
<1>14. CASE WriteFails
  BY SMTT(60), <1>14 DEF TypeOK, WriteFails, ResultEnds, hostVars, rxVars, txVars, loopVars
<1>15. ASSUME NEW id \in Ids, ResultBegins(id) PROVE TypeOK'
  BY SMTT(30), <1>15 DEF TypeOK, ResultBegins, hostVars, rxVars, txVars, loopVars
<1>16. ASSUME NEW id \in Ids, ResultLost(id) PROVE TypeOK'
  BY SMTT(60), <1>16 DEF TypeOK, ResultLost, hostVars, rxVars, txVars, loopVars
<1>17. ASSUME NEW id \in Ids, RunFails(id) PROVE TypeOK'
  <2>1. Frame("error", id) \in Frames /\ Write(Frame("error", id))
    BY <1>17, FramesAre DEF RunFails, FrameTypes
  <2>2. txFree' \in 0..BufferCount /\ txUsed' = txUsed /\ txIrq' = txIrq /\ txRing' \in Seq(Frames)
    BY <2>1, WriteTypes
  <2> QED
    BY SMTT(60), <1>17, <2>2 DEF TypeOK, RunFails, hostVars, rxVars, loopVars
<1>18. CASE DaemonDies
  BY SMTT(60), <1>18 DEF TypeOK, DaemonDies, Killed, hostVars, rxVars, txVars
<1>19. CASE GuestFalls
  BY SMTT(60), <1>19 DEF TypeOK, GuestFalls, Killed, hostVars, rxVars, txVars
<1>20. CASE Reset
  <2>1. /\ elements' \in Seq(Buffers) /\ waiting' \in Seq(Ids) /\ txRing' \in Seq(Frames)
        /\ rxPosted' \in Seq(Buffers) /\ rxUsed' \in Seq(Buffers) /\ rxFifo' \in Seq(Buffers)
    BY <1>20 DEF Reset
  <2>2. /\ told' \in [Ids -> Promise!Outcomes \cup {"nothing"}] /\ pending' \subseteq Ids
        /\ content' \in [Buffers -> Ids \cup {0}] /\ guest' \in {"down", "reset", "up"}
    BY <1>20 DEF TypeOK, Reset
  <2>3. heard' \in BOOLEAN /\ rxIrq' \in BOOLEAN /\ txIrq' \in BOOLEAN
    BY <1>20 DEF Reset
  <2>4. txFree' \in 0..BufferCount /\ txUsed' \in 0..BufferCount
    BY <1>20 DEF Reset
  <2> QED
    BY <1>20, <2>1, <2>2, <2>3, <2>4 DEF TypeOK, Reset, askVars, loopVars, jobVars
<1>21. CASE DriverStarts
  <2>1. rxPosted' \in Seq(Buffers)
    BY <1>21 DEF DriverStarts, Buffers
  <2>2. txFree' \in 0..BufferCount
    BY <1>21 DEF DriverStarts
  <2> QED
    BY ZenonT(60), <1>21, <2>1, <2>2 DEF TypeOK, DriverStarts, hostVars, loopVars, jobVars
<1>22. CASE UNCHANGED vars
  BY SMTT(60), <1>22 DEF TypeOK, vars, hostVars, rxVars, txVars, loopVars, jobVars
<1> QED
  BY <1>1, <1>2, <1>3, <1>4, <1>5, <1>6, <1>7, <1>8, <1>9, <1>10, <1>11, <1>12, <1>13,
     <1>14, <1>15, <1>16, <1>17, <1>18, <1>19, <1>20, <1>21, <1>22
     DEF Next, HostStep, LoopStep, WriteFailure

-----------------------------------------------------------------------------
(* The buffers.  A buffer moves from one place to another, and none is     *)
(* made or lost but when the guest goes down or comes up.                  *)
LEMMA TypesAre ==
  ASSUME IInv, TypeOK'
  PROVE  /\ TypeOK
         /\ rxPosted \in Seq(Buffers) /\ elements \in Seq(Buffers) /\ rxUsed \in Seq(Buffers)
         /\ rxFifo \in Seq(Buffers) /\ Held(mine) \in Seq(Buffers)
         /\ rxPosted' \in Seq(Buffers) /\ elements' \in Seq(Buffers) /\ rxUsed' \in Seq(Buffers)
         /\ rxFifo' \in Seq(Buffers) /\ Held(mine)' \in Seq(Buffers)
         /\ Places' = Joined(rxPosted', elements', rxUsed', rxFifo', Held(mine)')
         /\ Held(mine)' = Held(mine')
<1>1. Held(mine)' = Held(mine')
  BY DEF Held
<1>2. mine \in Buffers \cup {0} /\ mine' \in Buffers \cup {0}
  BY DEF IInv, TypeOK
<1>3. Held(mine) \in Seq(Buffers) /\ Held(mine') \in Seq(Buffers)
  BY <1>2, HeldIs
<1> QED
  BY <1>1, <1>3 DEF IInv, TypeOK, Places

(* What has to be shown of a step that moves buffers.                      *)
LEMMA MovesBuffers ==
  ASSUME IInv, TypeOK',
         Len(rxPosted') + Len(elements') + Len(rxUsed') + Len(rxFifo') + Len(Held(mine'))
           = Len(rxPosted) + Len(elements) + Len(rxUsed) + Len(rxFifo) + Len(Held(mine)),
         AllOf(rxPosted', elements', rxUsed', rxFifo', Held(mine'))
           = AllOf(rxPosted, elements, rxUsed, rxFifo, Held(mine)),
         AllApart(rxPosted, elements, rxUsed, rxFifo, Held(mine))
           => AllApart(rxPosted', elements', rxUsed', rxFifo', Held(mine')),
         txFree' + Len(txRing') + txUsed' = txFree + Len(txRing) + txUsed,
         guest' = guest
  PROVE  BuffersOnce'
<1>1. /\ Len(Places) = Len(rxPosted) + Len(elements) + Len(rxUsed) + Len(rxFifo) + Len(Held(mine))
      /\ ToSet(Places) = AllOf(rxPosted, elements, rxUsed, rxFifo, Held(mine))
      /\ Injective(Places) <=> AllApart(rxPosted, elements, rxUsed, rxFifo, Held(mine))
  BY PlacesAre DEF IInv
<1>2. /\ rxPosted' \in Seq(Buffers) /\ elements' \in Seq(Buffers) /\ rxUsed' \in Seq(Buffers)
      /\ rxFifo' \in Seq(Buffers) /\ Held(mine') \in Seq(Buffers)
      /\ Places' = Joined(rxPosted', elements', rxUsed', rxFifo', Held(mine'))
  BY TypesAre
<1>3. Len(Places') = Len(rxPosted') + Len(elements') + Len(rxUsed') + Len(rxFifo') + Len(Held(mine'))
  BY SMT, <1>2, FiveParts
<1>4. ToSet(Places') = AllOf(rxPosted', elements', rxUsed', rxFifo', Held(mine'))
  BY SMT, <1>2, FiveParts
<1>5. Injective(Places') <=> AllApart(rxPosted', elements', rxUsed', rxFifo', Held(mine'))
  BY Zenon, <1>2, FiveParts
<1>6. Injective(Places') /\ ToSet(Places') = ToSet(Places) /\ Len(Places') = Len(Places)
  BY <1>1, <1>3, <1>4, <1>5 DEF IInv, BuffersOnce
<1> QED
  BY <1>6 DEF IInv, BuffersOnce

LEMMA LeavesBuffers ==
  ASSUME IInv, TypeOK', UNCHANGED <<rxPosted, elements, rxUsed, rxFifo, mine>>,
         txFree' + Len(txRing') + txUsed' = txFree + Len(txRing) + txUsed,
         guest' = "up" => guest = "up"
  PROVE  BuffersOnce'
<1>1. Places' = Places
  BY DEF Places, Held
<1> QED
  BY <1>1 DEF IInv, BuffersOnce

LEMMA StepBuffers ==
  ASSUME IInv, [Next]_vars, TypeOK'
  PROVE  BuffersOnce'
<1>0. /\ Len(rxPosted) \in Nat /\ Len(elements) \in Nat /\ Len(rxUsed) \in Nat /\ Len(rxFifo) \in Nat
      /\ Len(elements') \in Nat /\ Len(rxUsed') \in Nat /\ Len(rxFifo') \in Nat /\ Len(rxPosted') \in Nat
  <2>1. /\ rxPosted \in Seq(Buffers) /\ elements \in Seq(Buffers) /\ rxUsed \in Seq(Buffers)
        /\ rxFifo \in Seq(Buffers)
        /\ rxPosted' \in Seq(Buffers) /\ elements' \in Seq(Buffers) /\ rxUsed' \in Seq(Buffers)
        /\ rxFifo' \in Seq(Buffers)
    BY TypesAre
  <2> QED
    BY <2>1
<1>00. Len(Held(mine)) \in Nat /\ Len(Held(mine')) \in Nat
  BY TypesAre
<1> DEFINE All     == AllOf(rxPosted, elements, rxUsed, rxFifo, Held(mine))
           AllNext == AllOf(rxPosted', elements', rxUsed', rxFifo', Held(mine'))
           Once     == AllApart(rxPosted, elements, rxUsed, rxFifo, Held(mine))
           OnceNext == AllApart(rxPosted', elements', rxUsed', rxFifo', Held(mine'))
<1>1. ASSUME NEW what \in {"ping", "run"}, Send(what) PROVE BuffersOnce'
  <2>1. nextID \in Ids /\ Append(waiting, nextID) \in Seq(Ids)
    BY <1>1, AppendIs DEF IInv, TypeOK, Send
  <2>2. Flush(Append(waiting, nextID), elements)
    BY <1>1 DEF Send
  <2>3. /\ Len(elements') + Len(rxUsed') = Len(elements) + Len(rxUsed)
        /\ ToSet(elements') \cup ToSet(rxUsed') = ToSet(elements) \cup ToSet(rxUsed)
        /\ Injective(elements') /\ Injective(rxUsed') /\ Apart(ToSet(elements'), ToSet(rxUsed'))
    BY <2>1, <2>2, FlushTypes
  <2>4. UNCHANGED <<rxPosted, rxFifo, mine, txFree, txRing, txUsed, guest>>
    BY <1>1 DEF Send, txVars, loopVars
  <2>5. AllNext = All
    BY <2>3, <2>4 DEF AllOf
  <2>6. Once => OnceNext
    BY <2>3, <2>4 DEF AllApart, Apart
  <2> HIDE DEF All, AllNext, Once, OnceNext
  <2>7. Len(rxPosted') + Len(elements') + Len(rxUsed') + Len(rxFifo') + Len(Held(mine'))
           = Len(rxPosted) + Len(elements) + Len(rxUsed) + Len(rxFifo) + Len(Held(mine))
    BY <1>0, <1>00, <2>3, <2>4
  <2> QED
    BY <2>4, <2>5, <2>6, <2>7, MovesBuffers DEF All, AllNext, Once, OnceNext
<1>2. CASE TakeBuffers
  <2>1. waiting \in Seq(Ids) /\ Flush(waiting, elements \o rxPosted) /\ rxPosted' = <<>>
    BY <1>2 DEF IInv, TypeOK, TakeBuffers
  <2>2. /\ Len(elements') + Len(rxUsed') = Len(elements \o rxPosted) + Len(rxUsed)
        /\ ToSet(elements') \cup ToSet(rxUsed') = ToSet(elements \o rxPosted) \cup ToSet(rxUsed)
        /\ Injective(elements') /\ Injective(rxUsed') /\ Apart(ToSet(elements'), ToSet(rxUsed'))
    BY <2>1, FlushTypes
  <2>3. UNCHANGED <<rxFifo, mine, txFree, txRing, txUsed, guest>>
    BY <1>2 DEF TakeBuffers, txVars, loopVars
  <2>4. /\ Len(elements \o rxPosted) = Len(elements) + Len(rxPosted)
        /\ ToSet(elements \o rxPosted) = ToSet(elements) \cup ToSet(rxPosted)
    BY TypesAre, TwoParts
  <2>5. Len(rxPosted') = 0 /\ ToSet(rxPosted') = {} /\ Injective(rxPosted')
    BY <2>1, ToSetEmpty, EmptyIs
  <2>6. AllNext = All
    BY <2>2, <2>3, <2>4, <2>5 DEF AllOf
  <2>7. Once => OnceNext
    BY <2>2, <2>3, <2>4, <2>5 DEF AllApart, Apart
  <2> HIDE DEF All, AllNext, Once, OnceNext
  <2>8. Len(rxPosted') + Len(elements') + Len(rxUsed') + Len(rxFifo') + Len(Held(mine'))
           = Len(rxPosted) + Len(elements) + Len(rxUsed) + Len(rxFifo) + Len(Held(mine))
    BY <1>0, <1>00, <2>2, <2>3, <2>4, <2>5
  <2> QED
    BY <2>3, <2>6, <2>7, <2>8, MovesBuffers DEF All, AllNext, Once, OnceNext
<1>3. CASE RxCallback
  <2>1. rxFifo' = rxFifo \o rxUsed /\ rxUsed' = <<>>
    BY <1>3 DEF RxCallback
  <2>2. UNCHANGED <<rxPosted, elements, mine, txFree, txRing, txUsed, guest>>
    BY <1>3 DEF RxCallback, hostVars, txVars, loopVars
  <2>3. /\ Len(rxFifo') = Len(rxFifo) + Len(rxUsed) /\ ToSet(rxFifo') = ToSet(rxFifo) \cup ToSet(rxUsed)
        /\ Injective(rxFifo') <=> Injective(rxFifo) /\ Injective(rxUsed) /\ Apart(ToSet(rxFifo), ToSet(rxUsed))
    BY <2>1, TypesAre, TwoParts
  <2>4. Len(rxUsed') = 0 /\ ToSet(rxUsed') = {} /\ Injective(rxUsed')
    BY <2>1, ToSetEmpty, EmptyIs
  <2>5. AllNext = All
    BY <2>2, <2>3, <2>4 DEF AllOf
  <2>6. Once => OnceNext
    BY <2>2, <2>3, <2>4 DEF AllApart, Apart
  <2> HIDE DEF All, AllNext, Once, OnceNext
  <2>7. Len(rxPosted') + Len(elements') + Len(rxUsed') + Len(rxFifo') + Len(Held(mine'))
           = Len(rxPosted) + Len(elements) + Len(rxUsed) + Len(rxFifo) + Len(Held(mine))
    BY <1>0, <1>00, <2>2, <2>3, <2>4
  <2> QED
    BY <2>2, <2>5, <2>6, <2>7, MovesBuffers DEF All, AllNext, Once, OnceNext
<1>4. CASE ReadTakes
  <2>1. rxFifo # <<>> /\ mine' = Head(rxFifo) /\ rxFifo' = Tail(rxFifo) /\ mine = 0
    BY <1>4 DEF IInv, Stages, ReadTakes
  <2>2. UNCHANGED <<rxPosted, elements, rxUsed, txFree, txRing, txUsed, guest>>
    BY <1>4 DEF ReadTakes, hostVars, txVars
  <2>3. Len(Held(mine)) = 0 /\ ToSet(Held(mine)) = {}
    BY <2>1, ToSetEmpty DEF Held
  <2>4. mine' \in Buffers /\ mine' # 0
    <3>1. rxFifo \in Seq(Buffers) /\ 0 \notin Buffers
      BY TypesAre DEF Buffers
    <3> QED
      BY <2>1, <3>1, HeadTail
  <2>5. Len(Held(mine')) = 1 /\ ToSet(Held(mine')) = {mine'} /\ Injective(Held(mine')) /\ Held(mine') = <<mine'>>
    <3>1. mine' \in Buffers \cup {0}
      BY <2>4
    <3> QED
      BY <2>4, <3>1, HeldIs
  <2>6. rxFifo = <<mine'>> \o rxFifo'
    BY <2>1, TypesAre, HeadTail, PutBack
  <2>7. /\ Len(rxFifo) = 1 + Len(rxFifo') /\ ToSet(rxFifo) = {mine'} \cup ToSet(rxFifo')
        /\ Injective(rxFifo) => Injective(rxFifo') /\ Apart({mine'}, ToSet(rxFifo'))
    <3>1. <<mine'>> \in Seq(Buffers) /\ rxFifo' \in Seq(Buffers)
      BY <2>4, TypesAre
    <3>2. /\ Len(<<mine'>> \o rxFifo') = Len(<<mine'>>) + Len(rxFifo')
          /\ ToSet(<<mine'>> \o rxFifo') = ToSet(<<mine'>>) \cup ToSet(rxFifo')
          /\ Injective(<<mine'>> \o rxFifo')
               <=> Injective(<<mine'>>) /\ Injective(rxFifo') /\ Apart(ToSet(<<mine'>>), ToSet(rxFifo'))
      BY SMTT(60), <3>1, TwoParts
    <3> QED
      BY <2>5, <2>6, <3>2
  <2>8. AllNext = All
    BY <2>2, <2>3, <2>5, <2>7 DEF AllOf
  <2>9. Once => OnceNext
    BY <2>2, <2>3, <2>5, <2>7 DEF AllApart, Apart
  <2> HIDE DEF All, AllNext, Once, OnceNext
  <2>10. Len(rxPosted') + Len(elements') + Len(rxUsed') + Len(rxFifo') + Len(Held(mine'))
           = Len(rxPosted) + Len(elements) + Len(rxUsed) + Len(rxFifo) + Len(Held(mine))
    BY <1>0, <1>00, <2>2, <2>3, <2>5, <2>7
  <2> QED
    BY <2>2, <2>8, <2>9, <2>10, MovesBuffers DEF All, AllNext, Once, OnceNext
<1>5. CASE ReadCopies
  <2>1. mine \in Buffers /\ mine # 0 /\ rxPosted' = Append(rxPosted, mine) /\ mine' = 0
    BY <1>5 DEF IInv, TypeOK, Stages, ReadCopies
  <2>2. UNCHANGED <<elements, rxUsed, rxFifo, txFree, txRing, txUsed, guest>>
    BY <1>5 DEF ReadCopies, hostVars, txVars
  <2>3. Len(Held(mine)) = 1 /\ ToSet(Held(mine)) = {mine} /\ Held(mine) = <<mine>>
    <3>1. mine \in Buffers \cup {0}
      BY <2>1
    <3> QED
      BY <2>1, <3>1, HeldIs
  <2>4. Len(Held(mine')) = 0 /\ ToSet(Held(mine')) = {} /\ Injective(Held(mine'))
    BY <2>1, ToSetEmpty, EmptyIs DEF Held
  <2>5. rxPosted' = rxPosted \o Held(mine)
    BY <2>1, <2>3, TypesAre, AppendIs
  <2>6. /\ Len(rxPosted') = Len(rxPosted) + 1 /\ ToSet(rxPosted') = ToSet(rxPosted) \cup {mine}
        /\ Injective(rxPosted') <=> Injective(rxPosted) /\ Injective(Held(mine)) /\ Apart(ToSet(rxPosted), {mine})
    <3>1. rxPosted \in Seq(Buffers) /\ Held(mine) \in Seq(Buffers)
      BY TypesAre
    <3> QED
      <4>1. /\ Len(rxPosted \o Held(mine)) = Len(rxPosted) + Len(Held(mine))
            /\ ToSet(rxPosted \o Held(mine)) = ToSet(rxPosted) \cup ToSet(Held(mine))
            /\ Injective(rxPosted \o Held(mine))
                 <=> Injective(rxPosted) /\ Injective(Held(mine)) /\ Apart(ToSet(rxPosted), ToSet(Held(mine)))
        BY <3>1, TwoParts
      <4> QED
        BY <2>3, <2>5, <4>1
  <2>7. AllNext = All
    BY <2>2, <2>3, <2>4, <2>6 DEF AllOf
  <2>8. Once => OnceNext
    BY <2>2, <2>3, <2>4, <2>6 DEF AllApart, Apart
  <2> HIDE DEF All, AllNext, Once, OnceNext
  <2>9. Len(rxPosted') + Len(elements') + Len(rxUsed') + Len(rxFifo') + Len(Held(mine'))
           = Len(rxPosted) + Len(elements) + Len(rxUsed) + Len(rxFifo) + Len(Held(mine))
    BY <1>0, <1>00, <2>2, <2>3, <2>4, <2>6
  <2> QED
    BY <2>2, <2>7, <2>8, <2>9, MovesBuffers DEF All, AllNext, Once, OnceNext
<1>6. ASSUME NEW id \in Ids, Expire(id) PROVE BuffersOnce'
  BY <1>6, LeavesBuffers DEF Expire, rxVars, txVars, loopVars
<1>7. CASE TakeFrame
  <2>1. txRing \in Seq(Frames) /\ txRing # <<>> /\ txRing' = Tail(txRing)
    BY <1>7 DEF IInv, TypeOK, TakeFrame
  <2>2. Len(txRing) \in Nat /\ Len(txRing') = Len(txRing) - 1
    BY <2>1, HeadTail
  <2>3. txFree' + Len(txRing') + txUsed' = txFree + Len(txRing) + txUsed
    BY <1>7, <2>2 DEF IInv, TypeOK, TakeFrame
  <2> QED
    BY <1>7, <2>3, LeavesBuffers DEF TakeFrame, rxVars, loopVars
<1>8. CASE TxCallback
  <2>1. txRing \in Seq(Frames) /\ txFree \in Nat /\ txUsed \in Nat
    BY DEF IInv, TypeOK
  <2>2. txFree' + Len(txRing') + txUsed' = txFree + Len(txRing) + txUsed
    BY <1>8, <2>1 DEF TxCallback
  <2> QED
    BY <1>8, <2>2, LeavesBuffers DEF TxCallback, hostVars, rxVars, loopVars
<1>9. CASE Deal
  BY <1>9, LeavesBuffers DEF Deal, hostVars, rxVars, txVars
<1>10. CASE Reply
  <2>1. Frame(reply, current) \in Frames /\ Write(Frame(reply, current))
    BY <1>10, FramesAre DEF IInv, TypeOK, Stages, Reply, FrameTypes
  <2>2. txFree' + Len(txRing') + txUsed' = txFree + Len(txRing) + txUsed
    BY <2>1, WriteTypes
  <2> QED
    BY <1>10, <2>2, LeavesBuffers DEF Reply, hostVars, rxVars
<1>11. CASE ReplyFails
  BY <1>11, LeavesBuffers DEF ReplyFails, hostVars, rxVars, txVars
<1>12. CASE DaemonStarts
  BY <1>12, LeavesBuffers DEF DaemonStarts, hostVars, rxVars, txVars
<1>13. CASE WritePart
  <2>1. NextPart \in Frames /\ Write(NextPart)
    BY <1>13, NextPartIs
  <2>2. txFree' + Len(txRing') + txUsed' = txFree + Len(txRing) + txUsed
    BY <2>1, WriteTypes
  <2> QED
    BY <1>13, <2>2, LeavesBuffers DEF WritePart, hostVars, rxVars, loopVars
<1>14. CASE WriteFails
  BY <1>14, LeavesBuffers DEF WriteFails, hostVars, rxVars, txVars, loopVars
<1>15. ASSUME NEW id \in Ids, ResultBegins(id) \/ ResultLost(id) PROVE BuffersOnce'
  BY <1>15, LeavesBuffers DEF ResultBegins, ResultLost, hostVars, rxVars, txVars, loopVars
<1>16. ASSUME NEW id \in Ids, RunFails(id) PROVE BuffersOnce'
  <2>1. Frame("error", id) \in Frames /\ Write(Frame("error", id))
    BY <1>16, FramesAre DEF RunFails, FrameTypes
  <2>2. txFree' + Len(txRing') + txUsed' = txFree + Len(txRing) + txUsed
    BY <2>1, WriteTypes
  <2> QED
    BY <1>16, <2>2, LeavesBuffers DEF RunFails, hostVars, rxVars, loopVars
<1>17. CASE DaemonDies
  BY <1>17, LeavesBuffers DEF DaemonDies, hostVars, rxVars, txVars
<1>18. CASE GuestFalls
  <2>1. UNCHANGED <<rxPosted, elements, rxUsed, rxFifo, txFree, txRing, txUsed>> /\ mine' = 0 /\ guest' # "up"
    BY <1>18 DEF GuestFalls, hostVars, rxVars, txVars
  <2>2. ToSet(Held(mine')) = {} /\ Injective(Held(mine'))
    BY <2>1, ToSetEmpty, EmptyIs DEF Held
  <2>3. Once => OnceNext
    BY <2>1, <2>2 DEF AllApart, Apart
  <2>4. Once
    BY PlacesAre DEF IInv, BuffersOnce
  <2> HIDE DEF Once, OnceNext
  <2>5. OnceNext => Injective(Places)'
    <3>1. /\ rxPosted' \in Seq(Buffers) /\ elements' \in Seq(Buffers) /\ rxUsed' \in Seq(Buffers)
          /\ rxFifo' \in Seq(Buffers) /\ Held(mine') \in Seq(Buffers)
          /\ Places' = Joined(rxPosted', elements', rxUsed', rxFifo', Held(mine'))
      BY TypesAre
    <3>2. Injective(Places') <=> AllApart(rxPosted', elements', rxUsed', rxFifo', Held(mine'))
      BY Zenon, <3>1, FiveParts
    <3> QED
      BY <3>2 DEF OnceNext
  <2> QED
    BY <2>1, <2>3, <2>4, <2>5 DEF IInv, BuffersOnce
<1>19. CASE Reset
  <2>1. /\ rxPosted' = <<>> /\ elements' = <<>> /\ rxUsed' = <<>> /\ rxFifo' = <<>> /\ mine' = 0
        /\ txFree' = 0 /\ txRing' = <<>> /\ txUsed' = 0 /\ guest' = "reset"
    BY <1>19 DEF IInv, Stages, Reset, loopVars
  <2>2. Places' = <<>>
    BY <2>1 DEF Places, Joined, Held
  <2>3. Injective(Places)'
    BY <2>2, EmptyIs
  <2> QED
    BY <2>1, <2>3, PortalAssumption DEF BuffersOnce
<1>20. CASE DriverStarts
  <2>1. /\ rxPosted' = [i \in Buffers |-> i] /\ elements' = <<>> /\ rxUsed' = <<>> /\ rxFifo' = <<>> /\ mine' = 0
        /\ txFree' = BufferCount /\ txRing' = <<>> /\ txUsed' = 0
    BY <1>20 DEF IInv, Stages, DriverStarts, hostVars, loopVars
  <2>2. Places' = rxPosted'
    <3>1. rxPosted' \in Seq(Buffers)
      BY TypesAre
    <3>2. Places' = rxPosted' \o (<<>> \o (<<>> \o (<<>> \o <<>>)))
      BY <2>1 DEF Places, Joined, Held
    <3> QED
      BY <3>1, <3>2
  <2>3. Len(rxPosted') = BufferCount /\ Injective(rxPosted') /\ \A i \in 1..BufferCount : rxPosted'[i] = i
    BY <2>1, PortalAssumption DEF Buffers, Injective
  <2>4. ToSet(rxPosted') = Buffers
    <3>1. rxPosted' \in Seq(Buffers)
      BY TypesAre
    <3>2. ToSet(rxPosted') = {rxPosted'[i] : i \in 1..Len(rxPosted')}
      BY <3>1, ToSetIs
    <3> QED
      BY <2>3, <3>2 DEF Buffers
  <2> QED
    BY <2>1, <2>2, <2>3, <2>4, PortalAssumption DEF BuffersOnce
<1>21. CASE UNCHANGED vars
  BY <1>21, LeavesBuffers DEF vars, hostVars, rxVars, txVars, loopVars
<1> QED
  BY <1>1, <1>2, <1>3, <1>4, <1>5, <1>6, <1>7, <1>8, <1>9, <1>10, <1>11, <1>12, <1>13,
     <1>14, <1>15, <1>16, <1>17, <1>18, <1>19, <1>20, <1>21
     DEF Next, HostStep, LoopStep, WriteFailure

-----------------------------------------------------------------------------
(* The line.                                                               *)

(* Numbers end to end rise if the parts do and stand in order.             *)
AllRising(a, b, c, d, e) ==
  /\ Increasing(a) /\ Increasing(b) /\ Increasing(c) /\ Increasing(d) /\ Increasing(e)
  /\ Below(ToSet(a), ToSet(b)) /\ Below(ToSet(a), ToSet(c)) /\ Below(ToSet(a), ToSet(d))
  /\ Below(ToSet(a), ToSet(e)) /\ Below(ToSet(b), ToSet(c)) /\ Below(ToSet(b), ToSet(d))
  /\ Below(ToSet(b), ToSet(e)) /\ Below(ToSet(c), ToSet(d)) /\ Below(ToSet(c), ToSet(e))
  /\ Below(ToSet(d), ToSet(e))

LEMMA FiveRising ==
  ASSUME NEW a \in Seq(Nat), NEW b \in Seq(Nat), NEW c \in Seq(Nat), NEW d \in Seq(Nat), NEW e \in Seq(Nat)
  PROVE  Increasing(Joined(a, b, c, d, e)) <=> AllRising(a, b, c, d, e)
<1> DEFINE p4 == d \o e
           p3 == c \o p4
           p2 == b \o p3
           p  == a \o p2
           A == ToSet(a)  B == ToSet(b)  C == ToSet(c)  D == ToSet(d)  E == ToSet(e)
<1>0. \A X, Y, Z : Below(X, Y \cup Z) <=> Below(X, Y) /\ Below(X, Z)
  BY DEF Below
<1>4. p4 \in Seq(Nat) /\ ToSet(p4) = D \cup E /\ (Increasing(p4) <=> Increasing(d) /\ Increasing(e) /\ Below(D, E))
  BY Concat, ToSetConcat, IncreasingConcat
<1> HIDE DEF p4
<1>3. p3 \in Seq(Nat) /\ ToSet(p3) = C \cup (D \cup E)
      /\ (Increasing(p3) <=> Increasing(c) /\ Increasing(p4) /\ Below(C, D \cup E))
  <2>1. p4 \in Seq(Nat)
    BY <1>4
  <2>2. p3 \in Seq(Nat) /\ ToSet(p3) = C \cup ToSet(p4)
    BY <2>1, TwoParts
  <2>3. Increasing(p3) <=> Increasing(c) /\ Increasing(p4) /\ Below(C, ToSet(p4))
    BY <2>1, IncreasingConcat
  <2> QED
    BY <1>4, <2>2, <2>3
<1> HIDE DEF p3
<1>2. p2 \in Seq(Nat) /\ ToSet(p2) = B \cup (C \cup (D \cup E))
      /\ (Increasing(p2) <=> Increasing(b) /\ Increasing(p3) /\ Below(B, C \cup (D \cup E)))
  <2>1. p3 \in Seq(Nat)
    BY <1>3
  <2>2. p2 \in Seq(Nat) /\ ToSet(p2) = B \cup ToSet(p3)
    BY <2>1, TwoParts
  <2>3. Increasing(p2) <=> Increasing(b) /\ Increasing(p3) /\ Below(B, ToSet(p3))
    BY <2>1, IncreasingConcat
  <2> QED
    BY <1>3, <2>2, <2>3
<1> HIDE DEF p2
<1>1. Increasing(p) <=> Increasing(a) /\ Increasing(p2) /\ Below(A, B \cup (C \cup (D \cup E)))
  <2>1. p2 \in Seq(Nat)
    BY <1>2
  <2>2. Increasing(p) <=> Increasing(a) /\ Increasing(p2) /\ Below(A, ToSet(p2))
    BY <2>1, IncreasingConcat
  <2> QED
    BY <1>2, <2>2
<1> HIDE DEF p
<1>5. Increasing(p) <=>
        /\ Increasing(a) /\ Increasing(b) /\ Increasing(c) /\ Increasing(d) /\ Increasing(e)
        /\ Below(A, B) /\ Below(A, C) /\ Below(A, D) /\ Below(A, E) /\ Below(B, C)
        /\ Below(B, D) /\ Below(B, E) /\ Below(C, D) /\ Below(C, E) /\ Below(D, E)
  <2> HIDE DEF A, B, C, D, E
  <2> QED
    BY <1>0, <1>1, <1>2, <1>3, <1>4
<1> QED
  BY <1>5 DEF p, p2, p3, p4, A, B, C, D, E, Joined, AllRising

(* The texts of the buffers are requests' numbers.                         *)
LEMMA TextsAre ==
  TypeOK => \A s \in Seq(Buffers) :
              /\ Texts(s) \in Seq(Nat) /\ Len(Texts(s)) = Len(s) /\ Len(s) \in Nat
              /\ \A i \in 1..Len(s) : Texts(s)[i] = content[s[i]] /\ content[s[i]] \in Ids \cup {0}
<1> SUFFICES ASSUME TypeOK, NEW s \in Seq(Buffers)
             PROVE  /\ Texts(s) \in Seq(Nat) /\ Len(Texts(s)) = Len(s) /\ Len(s) \in Nat
                    /\ \A i \in 1..Len(s) : Texts(s)[i] = content[s[i]] /\ content[s[i]] \in Ids \cup {0}
  OBVIOUS
<1>1. \A i \in 1..Len(s) : content[s[i]] \in Ids \cup {0}
  BY SMTT(30) DEF TypeOK
<1>2. Ids \cup {0} \subseteq Nat
  BY PortalAssumption DEF Ids
<1> QED
  BY <1>1, <1>2 DEF Texts

LEMMA TextsConcat ==
  ASSUME TypeOK, NEW s \in Seq(Buffers), NEW t \in Seq(Buffers)
  PROVE  Texts(s \o t) = Texts(s) \o Texts(t)
<1> DEFINE x == Texts(s)  y == Texts(t)  z == Texts(s \o t)
<1>0. s \o t \in Seq(Buffers) /\ Len(s \o t) = Len(s) + Len(t)
  BY Concat
<1>1. /\ x \in Seq(Nat) /\ Len(x) = Len(s) /\ Len(s) \in Nat /\ \A i \in 1..Len(s) : x[i] = content[s[i]]
      /\ y \in Seq(Nat) /\ Len(y) = Len(t) /\ Len(t) \in Nat /\ \A i \in 1..Len(t) : y[i] = content[t[i]]
  BY TextsAre
<1>2. z \in Seq(Nat) /\ Len(z) = Len(s) + Len(t) /\ \A i \in 1..Len(s) + Len(t) : z[i] = content[(s \o t)[i]]
  BY <1>0, TextsAre
<1> HIDE DEF x, y, z
<1>3. /\ x \o y \in Seq(Nat) /\ Len(x \o y) = Len(x) + Len(y)
      /\ \A i \in 1..Len(x) : (x \o y)[i] = x[i]
      /\ \A i \in 1..Len(y) : (x \o y)[Len(x) + i] = y[i]
  <2>1. x \in Seq(Nat) /\ y \in Seq(Nat)
    BY <1>1
  <2> QED
    BY SMTT(60), <2>1, Concat
<1>4. ASSUME NEW k \in 1..Len(s) + Len(t) PROVE z[k] = (x \o y)[k]
  <2>1. CASE k \in 1..Len(s)
    <3>1. (s \o t)[k] = s[k]
      BY <2>1, Concat
    <3>2. (x \o y)[k] = x[k]
      BY <1>1, <1>3, <2>1
    <3> QED
      BY <1>1, <1>2, <2>1, <3>1, <3>2
  <2>2. CASE k - Len(s) \in 1..Len(t)
    <3>1. (s \o t)[k] = t[k - Len(s)]
      <4>1. \A i \in 1..Len(t) : (s \o t)[Len(s) + i] = t[i]
        BY Concat
      <4>2. k = Len(s) + (k - Len(s))
        BY <1>1
      <4> QED
        BY <2>2, <4>1, <4>2
    <3>2. (x \o y)[k] = y[k - Len(s)]
      <4>1. k = Len(x) + (k - Len(s)) /\ k - Len(s) \in 1..Len(y)
        BY <1>1, <2>2
      <4> QED
        BY <1>3, <4>1
    <3> QED
      BY <1>1, <1>2, <2>2, <3>1, <3>2
  <2> QED
    BY <1>1, <2>1, <2>2
<1>5. z = x \o y
  BY <1>1, <1>2, <1>3, <1>4, SeqEqual
<1> QED
  BY <1>5 DEF x, y, z

LEMMA TextsOfOne ==
  ASSUME TypeOK, NEW b \in Buffers
  PROVE  Texts(<<b>>) = <<content[b]>> /\ Texts(<<>>) = <<>>
BY DEF Texts

(* The parts of the line, before and after a step.                         *)
LEMMA LineParts ==
  TypeOK => /\ handled \in Seq(Nat) /\ Now \in Seq(Nat) /\ Texts(Held(mine)) \in Seq(Nat)
            /\ Texts(rxFifo) \in Seq(Nat) /\ Texts(rxUsed) \in Seq(Nat) /\ waiting \in Seq(Nat)
            /\ Texts(rxUsed) \o waiting \in Seq(Nat)
<1> SUFFICES ASSUME TypeOK
             PROVE  /\ handled \in Seq(Nat) /\ Now \in Seq(Nat) /\ Texts(Held(mine)) \in Seq(Nat)
                    /\ Texts(rxFifo) \in Seq(Nat) /\ Texts(rxUsed) \in Seq(Nat) /\ waiting \in Seq(Nat)
                    /\ Texts(rxUsed) \o waiting \in Seq(Nat)
  OBVIOUS
<1>1. Ids \subseteq Nat
  BY PortalAssumption DEF Ids
<1>2. handled \in Seq(Nat) /\ waiting \in Seq(Nat) /\ current \in Nat
  <2>1. handled \in Seq(Ids) /\ waiting \in Seq(Ids) /\ current \in Ids \cup {0}
    BY DEF TypeOK
  <2>2. handled \in Seq(Nat) /\ waiting \in Seq(Nat)
    BY <1>1, <2>1, Widened
  <2> QED
    BY <1>1, <2>1, <2>2
<1>3. Now \in Seq(Nat)
  BY <1>2 DEF Now
<1>4. rxFifo \in Seq(Buffers) /\ rxUsed \in Seq(Buffers) /\ Held(mine) \in Seq(Buffers)
  BY HeldIs DEF TypeOK
<1>5. Texts(Held(mine)) \in Seq(Nat) /\ Texts(rxFifo) \in Seq(Nat) /\ Texts(rxUsed) \in Seq(Nat)
  BY <1>4, TextsAre
<1>6. Texts(rxUsed) \o waiting \in Seq(Nat)
  BY <1>2, <1>5, Concat
<1> QED
  BY <1>2, <1>3, <1>5, <1>6

LEMMA LineIs ==
  TypeOK => /\ Line \in Seq(Nat)
            /\ ToSet(Line) = AllOf(handled, Now, Texts(Held(mine)), Texts(rxFifo), Texts(rxUsed) \o waiting)
            /\ Increasing(Line) <=>
                 AllRising(handled, Now, Texts(Held(mine)), Texts(rxFifo), Texts(rxUsed) \o waiting)
<1> SUFFICES ASSUME TypeOK
             PROVE  /\ Line \in Seq(Nat)
                    /\ ToSet(Line) = AllOf(handled, Now, Texts(Held(mine)), Texts(rxFifo), Texts(rxUsed) \o waiting)
                    /\ Increasing(Line) <=>
                         AllRising(handled, Now, Texts(Held(mine)), Texts(rxFifo), Texts(rxUsed) \o waiting)
  OBVIOUS
<1> DEFINE a == handled  b == Now  c == Texts(Held(mine))  d == Texts(rxFifo)  e == Texts(rxUsed) \o waiting
<1>1. a \in Seq(Nat) /\ b \in Seq(Nat) /\ c \in Seq(Nat) /\ d \in Seq(Nat) /\ e \in Seq(Nat)
  BY LineParts
<1> HIDE DEF a, b, c, d, e
<1>2. Joined(a, b, c, d, e) \in Seq(Nat) /\ ToSet(Joined(a, b, c, d, e)) = AllOf(a, b, c, d, e)
  BY SMT, <1>1, FiveParts
<1>3. Increasing(Joined(a, b, c, d, e)) <=> AllRising(a, b, c, d, e)
  BY <1>1, FiveRising
<1> QED
  BY <1>2, <1>3 DEF Line, a, b, c, d, e

(* So what read() copies out is a request.                                 *)
LEMMA ReadIs ==
  ASSUME IInv, ReadCopies
  PROVE  /\ mine \in Buffers /\ Held(mine) = <<mine>> /\ current' = content[mine]
         /\ current' \in Ids /\ current' # 0 /\ Texts(Held(mine)) = <<current'>>
<1>1. mine \in Buffers /\ mine # 0 /\ current' = content[mine] /\ TypeOK
  BY DEF IInv, TypeOK, Stages, ReadCopies
<1>2. Held(mine) = <<mine>> /\ Texts(<<mine>>) = <<content[mine]>>
  BY <1>1, TextsOfOne DEF Held
<1>3. content[mine] \in ToSet(Line)
  <2>1. content[mine] \in ToSet(Texts(Held(mine)))
    BY <1>2, ToSetEmpty
  <2> QED
    BY <1>1, <2>1, LineIs DEF AllOf
<1>4. content[mine] \in Ids /\ content[mine] # 0
  BY SMTT(60), <1>1, <1>3 DEF IInv, InLine, TypeOK
<1> QED
  BY <1>1, <1>2, <1>4

-----------------------------------------------------------------------------
(* The read loop.                                                          *)
LEMMA StepStages ==
  ASSUME IInv, [Next]_vars
  PROVE  Stages'
<1>0. Stages /\ 0 \notin Buffers /\ 0 \notin Ids
  BY DEF IInv, Buffers, Ids
<1>1. ASSUME NEW what \in {"ping", "run"}, Send(what) PROVE Stages'
  BY <1>0, <1>1 DEF Stages, Send, txVars, loopVars
<1>2. ASSUME NEW id \in Ids, Expire(id) PROVE Stages'
  BY <1>0, <1>2 DEF Stages, Expire, rxVars, txVars, loopVars
<1>3. CASE TakeBuffers
  BY <1>0, <1>3 DEF Stages, TakeBuffers, txVars, loopVars
<1>4. CASE TakeFrame
  BY <1>0, <1>4 DEF Stages, TakeFrame, rxVars, loopVars
<1>5. CASE RxCallback
  BY <1>0, <1>5 DEF Stages, RxCallback, hostVars, txVars, loopVars
<1>6. CASE TxCallback
  BY <1>0, <1>6 DEF Stages, TxCallback, hostVars, rxVars, loopVars
<1>7. CASE ReadTakes
  <2>1. mine' \in Buffers
    BY <1>7, HeadTail DEF IInv, TypeOK, ReadTakes
  <2> QED
    BY <1>0, <1>7, <2>1 DEF Stages, ReadTakes, hostVars, txVars
<1>8. CASE ReadCopies
  <2>1. current' # 0
    BY <1>8, ReadIs
  <2> QED
    BY <1>0, <1>8, <2>1 DEF Stages, ReadCopies, hostVars, txVars
<1>9. CASE Deal
  BY <1>0, <1>9 DEF Stages, Deal, hostVars, rxVars, txVars
<1>10. CASE Reply
  BY <1>0, <1>10 DEF Stages, Reply, hostVars, rxVars
<1>11. CASE ReplyFails
  BY <1>0, <1>11 DEF Stages, ReplyFails, hostVars, rxVars, txVars
<1>12. CASE DaemonStarts
  BY <1>0, <1>12 DEF Stages, DaemonStarts, hostVars, rxVars, txVars
<1>13. CASE WritePart
  <2>1. guest # "reset"
    BY <1>0, <1>13 DEF Stages, WritePart, Write
  <2> QED
    BY <1>0, <1>13, <2>1 DEF Stages, WritePart, hostVars, rxVars, loopVars
<1>14. CASE WriteFails
  BY <1>0, <1>14 DEF Stages, WriteFails, hostVars, rxVars, txVars, loopVars
<1>15. ASSUME NEW id \in Ids, ResultBegins(id) \/ ResultLost(id) PROVE Stages'
  BY <1>0, <1>15 DEF Stages, ResultBegins, ResultLost, hostVars, rxVars, txVars, loopVars
<1>16. ASSUME NEW id \in Ids, RunFails(id) PROVE Stages'
  <2>1. guest # "reset"
    BY <1>0, <1>16 DEF Stages, RunFails, Write
  <2> QED
    BY <1>0, <1>16, <2>1 DEF Stages, RunFails, hostVars, rxVars, loopVars
<1>17. CASE DaemonDies
  BY <1>0, <1>17 DEF Stages, DaemonDies, hostVars, rxVars, txVars
<1>18. CASE GuestFalls
  BY <1>0, <1>18 DEF Stages, GuestFalls, hostVars, rxVars, txVars
<1>19. CASE Reset
  BY <1>0, <1>19 DEF Stages, Reset, loopVars
<1>20. CASE DriverStarts
  BY <1>0, <1>20 DEF Stages, DriverStarts, hostVars, loopVars
<1>21. CASE UNCHANGED vars
  BY <1>0, <1>21 DEF Stages, vars, hostVars, rxVars, txVars, loopVars
<1> QED
  BY <1>1, <1>2, <1>3, <1>4, <1>5, <1>6, <1>7, <1>8, <1>9, <1>10, <1>11, <1>12, <1>13,
     <1>14, <1>15, <1>16, <1>17, <1>18, <1>19, <1>20, <1>21
     DEF Next, HostStep, LoopStep, WriteFailure

-----------------------------------------------------------------------------
(* No step brings a request to the line out of its turn.                   *)
LEMMA LeavesLine ==
  ASSUME IInv, UNCHANGED <<handled, mine, content, rxFifo, rxUsed, waiting, nextID>>, Now' = Now
  PROVE  InLine'
<1>1. Line' = Line
  BY DEF Line, Texts, Held
<1> QED
  BY <1>1 DEF IInv, InLine

LEMMA FlushLine ==
  ASSUME IInv, TypeOK', NEW queue \in Seq(Ids), NEW buffers,
         buffers = elements \/ buffers = elements \o rxPosted,
         Flush(queue, buffers),
         UNCHANGED <<handled, reader, current, mine, rxFifo>>
  PROVE  Line' = Joined(handled, Now, Texts(Held(mine)), Texts(rxFifo), Texts(rxUsed) \o queue)
<1>1. /\ Texts(rxUsed)' \o waiting' = Texts(rxUsed) \o queue
      /\ \A b \in Buffers \ ToSet(buffers) : content'[b] = content[b]
  BY FlushTypes
<1>2. /\ elements \in Seq(Buffers) /\ rxPosted \in Seq(Buffers) /\ rxFifo \in Seq(Buffers)
      /\ Held(mine) \in Seq(Buffers)
  BY TypesAre
<1>3. Apart(ToSet(buffers), ToSet(rxFifo)) /\ Apart(ToSet(buffers), ToSet(Held(mine)))
  <2>1. AllApart(rxPosted, elements, rxUsed, rxFifo, Held(mine))
    BY PlacesAre DEF IInv, BuffersOnce
  <2>2. ToSet(elements \o rxPosted) = ToSet(elements) \cup ToSet(rxPosted)
    BY <1>2, TwoParts
  <2> QED
    BY <2>1, <2>2 DEF AllApart, Apart
<1>4. ASSUME NEW s \in Seq(Buffers), Apart(ToSet(buffers), ToSet(s))
      PROVE  [i \in 1..Len(s) |-> content'[s[i]]] = Texts(s)
  <2>1. ASSUME NEW i \in 1..Len(s) PROVE content'[s[i]] = content[s[i]]
    <3>1. s[i] \in Buffers /\ s[i] \in ToSet(s)
      BY ToSetIs
    <3> QED
      BY <1>1, <1>4, <3>1 DEF Apart
  <2> QED
    BY <2>1 DEF Texts
<1>5. Texts(rxFifo)' = Texts(rxFifo) /\ Texts(Held(mine))' = Texts(Held(mine))
  <2>1. /\ Texts(rxFifo)' = [i \in 1..Len(rxFifo) |-> content'[rxFifo[i]]]
        /\ Texts(Held(mine))' = [i \in 1..Len(Held(mine)) |-> content'[Held(mine)[i]]]
    BY DEF Texts, Held
  <2> QED
    BY <1>2, <1>3, <1>4, <2>1
<1> QED
  BY <1>1, <1>5 DEF Line, Now

LEMMA StepLine ==
  ASSUME IInv, [Next]_vars, TypeOK'
  PROVE  InLine'
<1>0. /\ TypeOK /\ nextID \in Nat /\ Increasing(Line) /\ \A id \in ToSet(Line) : 1 <= id /\ id < nextID
  <2>1. TypeOK /\ nextID \in 1..(MaxRequests + 1)
    BY DEF IInv, TypeOK
  <2>2. Increasing(Line) /\ \A id \in ToSet(Line) : 1 <= id /\ id < nextID
    BY DEF IInv, InLine
  <2> QED
    BY <2>1, <2>2, PortalAssumption
<1>00. /\ rxFifo \in Seq(Buffers) /\ rxUsed \in Seq(Buffers) /\ rxFifo' \in Seq(Buffers)
       /\ mine \in Buffers \cup {0} /\ current \in Ids \cup {0} /\ 0 \notin Ids /\ 0 \notin Buffers
  BY SMTT(30), TypesAre DEF TypeOK, Ids, Buffers
<1> DEFINE a == handled  b == Now  c == Texts(Held(mine))  d == Texts(rxFifo)
           u == Texts(rxUsed)  w == waiting  e == u \o w
<1>a. /\ a \in Seq(Nat) /\ b \in Seq(Nat) /\ c \in Seq(Nat) /\ d \in Seq(Nat) /\ e \in Seq(Nat)
      /\ u \in Seq(Nat) /\ w \in Seq(Nat)
  BY <1>0, LineParts
<1>b. Line = Joined(a, b, c, d, e)
  BY DEF Line
<1>c. ToSet(Line) = AllOf(a, b, c, d, e) /\ AllRising(a, b, c, d, e)
  BY <1>0, LineIs
<1> HIDE DEF a, b, c, d, e, u, w
<1>1. ASSUME NEW what \in {"ping", "run"}, Send(what) PROVE InLine'
  <2> DEFINE n == nextID  f == e \o <<n>>
  <2>1. n \in Ids /\ n \in Nat /\ Append(waiting, n) \in Seq(Ids) /\ <<n>> \in Seq(Nat)
        /\ Append(waiting, n) = w \o <<n>> /\ nextID' = n + 1
    <3>1. n \in Ids /\ nextID' = n + 1
      BY <1>1 DEF Send
    <3>2. waiting \in Seq(Ids)
      BY <1>0 DEF TypeOK
    <3>3. Append(waiting, n) \in Seq(Ids) /\ Append(waiting, n) = waiting \o <<n>>
      BY <3>1, <3>2, AppendIs
    <3>4. n \in Nat
      BY <1>0
    <3> HIDE DEF n
    <3> QED
      BY <3>1, <3>3, <3>4 DEF w
  <2>2. Flush(Append(waiting, n), elements) /\ UNCHANGED <<handled, reader, current, mine, rxFifo>>
    BY <1>1 DEF Send, loopVars
  <2> HIDE DEF n
  <2>3. Line' = Joined(a, b, c, d, u \o Append(waiting, n))
    BY <2>1, <2>2, FlushLine DEF a, b, c, d, u
  <2>4. u \o Append(waiting, n) = f
    <3>1. u \in Seq(Nat) /\ w \in Seq(Nat) /\ <<n>> \in Seq(Nat)
      BY <1>a, <2>1
    <3>2. (u \o w) \o <<n>> = u \o (w \o <<n>>)
      BY SMTT(60), <3>1, ConcatAssociative
    <3> QED
      BY <2>1, <3>2 DEF e
  <2>5. ToSet(<<n>>) = {n} /\ Increasing(<<n>>)
    BY ToSetEmpty, SingleIs
  <2>6. f \in Seq(Nat) /\ ToSet(f) = ToSet(e) \cup {n}
    <3>1. e \in Seq(Nat) /\ <<n>> \in Seq(Nat)
      BY <1>a, <2>1
    <3>2. e \o <<n>> \in Seq(Nat) /\ ToSet(e \o <<n>>) = ToSet(e) \cup ToSet(<<n>>)
      <4> DEFINE one == <<n>>
      <4>1. one \in Seq(Nat)
        BY <3>1
      <4> HIDE DEF one
      <4>2. e \o one \in Seq(Nat) /\ ToSet(e \o one) = ToSet(e) \cup ToSet(one)
        BY SMTT(30), <3>1, <4>1, TwoParts
      <4> QED
        BY <4>2 DEF one
    <3> QED
      BY <2>5, <3>2
  <2>7. Increasing(f) <=> Increasing(e) /\ Increasing(<<n>>) /\ Below(ToSet(e), {n})
    BY ZenonT(60), <1>a, <2>1, <2>5, IncreasingConcat
  <2>8. Below(ToSet(Line), {n})
    BY <1>0 DEF Below, n
  <2> HIDE DEF f
  <2>9. AllRising(a, b, c, d, f)
    BY <1>c, <2>5, <2>6, <2>7, <2>8 DEF AllRising, AllOf, Below
  <2>10. Increasing(Line')
    BY <1>a, <2>3, <2>4, <2>6, <2>9, FiveRising
  <2>11. ToSet(Line') = ToSet(Line) \cup {n}
    <3>1. ToSet(Joined(a, b, c, d, f)) = AllOf(a, b, c, d, f)
      BY SMTT(60), <1>a, <2>6, FiveParts
    <3> QED
      BY <1>c, <2>3, <2>4, <2>6, <3>1 DEF AllOf
  <2>12. \A id \in ToSet(Line') : 1 <= id /\ id < nextID'
    <3>1. 1 <= n /\ n < n + 1 /\ \A id \in ToSet(Line) : id \in Nat
      BY SMTT(60), <1>0, <2>1, LineIs, ToSetIs DEF Ids
    <3>2. \A id \in ToSet(Line) : id < n + 1
      BY <1>0, <2>1, <3>1 DEF n
    <3> QED
      BY <1>0, <2>1, <2>11, <3>1, <3>2
  <2> QED
    BY <2>10, <2>12 DEF InLine
<1>2. CASE TakeBuffers
  <2>1. waiting \in Seq(Ids) /\ Flush(waiting, elements \o rxPosted)
    BY <1>2 DEF IInv, TypeOK, TakeBuffers
  <2>2. UNCHANGED <<handled, reader, current, mine, rxFifo, nextID>>
    BY <1>2 DEF TakeBuffers, askVars, loopVars
  <2>3. Line' = Line
    BY <1>b, <2>1, <2>2, FlushLine DEF a, b, c, d, e, u, w
  <2> QED
    BY <2>2, <2>3 DEF IInv, InLine
<1>3. CASE RxCallback
  <2>1. /\ UNCHANGED <<handled, reader, current, mine, waiting, content, nextID>>
        /\ rxFifo' = rxFifo \o rxUsed /\ rxUsed' = <<>>
    BY <1>3 DEF RxCallback, hostVars, loopVars
  <2>2. Texts(rxFifo)' = Texts(rxFifo') /\ Texts(rxUsed)' = <<>>
    BY <2>1 DEF Texts
  <2>3. Texts(rxFifo') = d \o u
    BY <1>0, <1>00, <2>1, TextsConcat DEF d, u
  <2>4. Line' = Joined(a, b, c, d \o u, <<>> \o w)
    BY <2>1, <2>2, <2>3 DEF Line, Now, Texts, Held, a, b, c, w
  <2>5. <<>> \o w = w /\ (d \o u) \o w = d \o e
    <3>1. d \in Seq(Nat) /\ u \in Seq(Nat) /\ w \in Seq(Nat)
      BY <1>a
    <3> QED
      BY SMTT(60), <3>1, ConcatAssociative, ConcatEmptySeq DEF e
  <2>6. Line' = Line
    BY <1>b, <2>4, <2>5 DEF Joined
  <2> QED
    BY <2>1, <2>6 DEF IInv, InLine
<1>4. CASE ReadTakes
  <2>1. /\ UNCHANGED <<handled, rxUsed, waiting, content, nextID>>
        /\ rxFifo # <<>> /\ mine' = Head(rxFifo) /\ rxFifo' = Tail(rxFifo) /\ mine = 0
        /\ Now' = <<>> /\ Now = <<>>
    BY <1>4 DEF IInv, Stages, ReadTakes, hostVars, Now
  <2>2. rxFifo = <<mine'>> \o rxFifo' /\ <<mine'>> \in Seq(Buffers) /\ mine' \in Buffers
    BY <1>00, <2>1, PutBack, HeadTail
  <2>3. d = Texts(<<mine'>>) \o Texts(rxFifo')
    BY <1>0, <1>00, <2>2, TextsConcat DEF d
  <2>4. c = <<>>
    BY <2>1 DEF c, Held, Texts
  <2>5. Held(mine)' = <<mine'>>
    BY <1>00, <2>2 DEF Held
  <2>6. Line' = Joined(a, <<>>, Texts(<<mine'>>), Texts(rxFifo'), e)
    BY <2>1, <2>5 DEF Line, Texts, a, e, u, w
  <2>7. Texts(<<mine'>>) \in Seq(Nat) /\ Texts(rxFifo') \in Seq(Nat)
    BY <1>0, <1>00, <2>2, TextsAre
  <2>8. Texts(<<mine'>>) \o (Texts(rxFifo') \o e) = <<>> \o (d \o e)
    <3>1. d \o e = Texts(<<mine'>>) \o (Texts(rxFifo') \o e)
      <4>1. e \in Seq(Nat)
        BY <1>a
      <4>2. (Texts(<<mine'>>) \o Texts(rxFifo')) \o e = Texts(<<mine'>>) \o (Texts(rxFifo') \o e)
        BY SMTT(30), <2>7, <4>1, ConcatAssociative
      <4> QED
        BY <2>3, <4>2
    <3>2. d \o e \in Seq(Nat)
      BY <1>a, Concat
    <3> QED
      BY <3>1, <3>2, ConcatEmptySeq
  <2>9. Line' = Line
    BY <1>b, <2>1, <2>4, <2>6, <2>8 DEF Joined, b
  <2> QED
    BY <2>1, <2>9 DEF IInv, InLine
<1>5. CASE ReadCopies
  <2>1. /\ UNCHANGED <<handled, rxFifo, rxUsed, waiting, content, nextID>>
        /\ Now' = <<current'>> /\ Now = <<>> /\ mine' = 0
    BY <1>5 DEF ReadCopies, hostVars, Now
  <2>2. c = <<current'>> /\ current' \in Ids /\ <<current'>> \in Seq(Nat)
    BY <1>5, <1>a, ReadIs DEF c
  <2>3. Texts(Held(mine))' = <<>>
    BY <2>1 DEF Held, Texts
  <2>4. Line' = Joined(a, <<current'>>, <<>>, d, e)
    BY <2>1, <2>3 DEF Line, Texts, a, d, e, u, w
  <2>5. d \o e \in Seq(Nat)
    BY <1>a, Concat
  <2>6. <<>> \o (d \o e) = d \o e /\ <<>> \o (c \o (d \o e)) = c \o (d \o e)
    <3>1. c \o (d \o e) \in Seq(Nat)
      BY <1>a, <2>5, Concat
    <3> QED
      BY <2>5, <3>1, ConcatEmptySeq
  <2>7. Line' = Line
    BY <1>b, <2>1, <2>2, <2>4, <2>6 DEF Joined, b
  <2> QED
    BY <2>1, <2>7 DEF IInv, InLine
<1>6. CASE Deal
  <2>1. /\ UNCHANGED <<mine, rxFifo, rxUsed, waiting, content, nextID>>
        /\ Now' = <<>> /\ Now = <<current>> /\ handled' = Append(handled, current) /\ current \in Ids /\ mine = 0
    BY <1>6, <1>00 DEF IInv, Stages, Deal, hostVars, rxVars, Now
  <2>2. handled' = a \o <<current>> /\ <<current>> \in Seq(Nat)
    <3>1. handled \in Seq(Ids)
      BY <1>0 DEF TypeOK
    <3>2. Append(handled, current) = handled \o <<current>>
      BY <2>1, <3>1, AppendIs
    <3>3. b = <<current>>
      BY <2>1 DEF b
    <3> QED
      BY <1>a, <2>1, <3>2, <3>3 DEF a
  <2>3. Line' = Joined(a \o <<current>>, <<>>, c, d, e)
    BY <2>1, <2>2 DEF Line, Texts, Held, c, d, e, u, w
  <2>4. c \o (d \o e) \in Seq(Nat)
    BY <1>a, Concat
  <2>5. <<>> \o (c \o (d \o e)) = c \o (d \o e)
    BY <2>4, ConcatEmptySeq
  <2>6. (a \o <<current>>) \o (c \o (d \o e)) = a \o (<<current>> \o (c \o (d \o e)))
    <3>1. a \in Seq(Nat) /\ <<current>> \in Seq(Nat)
      BY <1>a, <2>2
    <3> QED
      <4> DEFINE rest == c \o (d \o e)  this == <<current>>
      <4>1. rest \in Seq(Nat) /\ a \in Seq(Nat) /\ this \in Seq(Nat)
        BY <2>4, <3>1
      <4> HIDE DEF rest, this
      <4>2. (a \o this) \o rest = a \o (this \o rest)
        BY SMTT(60), <4>1, ConcatAssociative
      <4> QED
        BY <4>2 DEF rest, this
  <2>7. Line' = Line
    BY <1>b, <2>1, <2>3, <2>5, <2>6 DEF Joined, b
  <2> QED
    BY <2>1, <2>7 DEF IInv, InLine
<1>7. ASSUME NEW id \in Ids, Expire(id) PROVE InLine'
  BY <1>7, LeavesLine DEF Expire, askVars, rxVars, loopVars, Now
<1>8. CASE TakeFrame
  BY <1>8, LeavesLine DEF TakeFrame, askVars, rxVars, loopVars, Now
<1>9. CASE TxCallback
  BY <1>9, LeavesLine DEF TxCallback, hostVars, rxVars, loopVars, Now
<1>10. CASE Reply \/ ReplyFails
  BY <1>10, LeavesLine DEF Reply, ReplyFails, hostVars, rxVars, Now
<1>11. CASE DaemonStarts
  BY <1>11, LeavesLine DEF DaemonStarts, hostVars, rxVars, Now
<1>12. CASE WritePart \/ WriteFails
  BY <1>12, LeavesLine DEF WritePart, WriteFails, hostVars, rxVars, loopVars, Now
<1>13. ASSUME NEW id \in Ids, ResultBegins(id) \/ ResultLost(id) \/ RunFails(id) PROVE InLine'
  BY <1>13, LeavesLine DEF ResultBegins, ResultLost, RunFails, hostVars, rxVars, loopVars, Now
<1>14. CASE DaemonDies
  <2>1. /\ UNCHANGED <<handled, mine, rxFifo, rxUsed, waiting, content, nextID>> /\ Now' = <<>>
    BY <1>14 DEF DaemonDies, hostVars, rxVars, Now
  <2>2. Line' = Joined(a, <<>>, c, d, e)
    BY <2>1 DEF Line, Texts, Held, a, c, d, e, u, w
  <2>3. AllRising(a, <<>>, c, d, e)
    BY <1>c, ToSetEmpty, EmptyIs DEF AllRising, Below
  <2>4. <<>> \in Seq(Nat)
    OBVIOUS
  <2>5. Increasing(Line')
    BY <1>a, <2>2, <2>3, <2>4, FiveRising
  <2>6. ToSet(Line') = AllOf(a, <<>>, c, d, e)
    <3>1. a \in Seq(Nat) /\ c \in Seq(Nat) /\ d \in Seq(Nat) /\ e \in Seq(Nat)
      BY <1>a
    <3>2. ToSet(Joined(a, <<>>, c, d, e)) = AllOf(a, <<>>, c, d, e)
      <4> DEFINE none == <<>>
      <4>1. none \in Seq(Nat)
        BY <2>4
      <4> HIDE DEF none
      <4>2. ToSet(Joined(a, none, c, d, e)) = AllOf(a, none, c, d, e)
        BY SMT, <3>1, <4>1, FiveParts
      <4> QED
        BY <4>2 DEF none
    <3> QED
      BY <2>2, <3>2
  <2>7. ToSet(Line') \subseteq ToSet(Line)
    BY <1>c, <2>6, ToSetEmpty DEF AllOf
  <2> QED
    BY <1>0, <2>1, <2>5, <2>7 DEF InLine
<1>15. CASE GuestFalls
  <2>1. /\ UNCHANGED <<handled, rxFifo, rxUsed, waiting, content, nextID>> /\ Now' = <<>> /\ mine' = 0
    BY <1>15 DEF GuestFalls, hostVars, rxVars, Now
  <2>2. Line' = Joined(a, <<>>, <<>>, d, e)
    BY <2>1 DEF Line, Texts, Held, a, d, e, u, w
  <2>3. AllRising(a, <<>>, <<>>, d, e)
    BY <1>c, ToSetEmpty, EmptyIs DEF AllRising, Below
  <2>4. <<>> \in Seq(Nat)
    OBVIOUS
  <2>5. Increasing(Line')
    BY <1>a, <2>2, <2>3, <2>4, FiveRising
  <2>6. ToSet(Line') = AllOf(a, <<>>, <<>>, d, e)
    <3>1. a \in Seq(Nat) /\ c \in Seq(Nat) /\ d \in Seq(Nat) /\ e \in Seq(Nat)
      BY <1>a
    <3>2. ToSet(Joined(a, <<>>, <<>>, d, e)) = AllOf(a, <<>>, <<>>, d, e)
      <4> DEFINE none == <<>>
      <4>1. none \in Seq(Nat)
        BY <2>4
      <4> HIDE DEF none
      <4>2. ToSet(Joined(a, none, none, d, e)) = AllOf(a, none, none, d, e)
        BY SMT, <3>1, <4>1, FiveParts
      <4> QED
        BY <4>2 DEF none
    <3> QED
      BY <2>2, <3>2
  <2>7. ToSet(Line') \subseteq ToSet(Line)
    BY <1>c, <2>6, ToSetEmpty DEF AllOf
  <2> QED
    BY <1>0, <2>1, <2>5, <2>7 DEF InLine
<1>16. CASE Reset
  <2>1. /\ UNCHANGED <<handled, nextID>> /\ Now' = <<>> /\ mine' = 0
        /\ rxFifo' = <<>> /\ rxUsed' = <<>> /\ waiting' = <<>>
    BY <1>16 DEF IInv, Stages, Reset, askVars, loopVars, Now
  <2>2. Line' = Joined(a, <<>>, <<>>, <<>>, <<>> \o <<>>)
    BY <2>1 DEF Line, Texts, Held, a
  <2>3. Line' = a
    <3>1. <<>> \o <<>> = <<>>
      OBVIOUS
    <3> QED
      BY <1>a, <2>2, <3>1, ConcatEmptySeq DEF Joined
  <2>4. Increasing(a) /\ ToSet(a) \subseteq ToSet(Line)
    BY <1>c DEF AllRising, AllOf
  <2> QED
    BY <1>0, <2>1, <2>3, <2>4 DEF InLine
<1>17. CASE DriverStarts
  BY <1>17, LeavesLine DEF DriverStarts, hostVars, loopVars, Now
<1>18. CASE UNCHANGED vars
  BY <1>18, LeavesLine DEF vars, hostVars, rxVars, loopVars, Now
<1> QED
  BY <1>1, <1>2, <1>3, <1>4, <1>5, <1>6, <1>7, <1>8, <1>9, <1>10, <1>11, <1>12, <1>13,
     <1>14, <1>15, <1>16, <1>17, <1>18
     DEF Next, HostStep, LoopStep, WriteFailure

-----------------------------------------------------------------------------
(* What is waited for, and what is answered.                               *)

(* A frame completes the request it names, if that is waited for, or none. *)
LEMMA HandleCompletes ==
  ASSUME NEW frame, Handle(frame)
  PROVE  \/ UNCHANGED <<pending, told>>
         \/ /\ frame.type # "hello" /\ frame.id \in pending
            /\ \E outcome \in Promise!Outcomes : Complete(frame.id, outcome)
BY DEF Handle, Assemble, replyVars, Promise!Outcomes, Promise!Replies, Promise!Unsuccessful

LEMMA StepOpen ==
  ASSUME IInv, [Next]_vars
  PROVE  StillOpen'
<1>0. /\ StillOpen /\ nextID \in Nat /\ Ids \subseteq Nat
      /\ pending \subseteq Ids /\ told \in [Ids -> Promise!Outcomes \cup {"nothing"}]
  <2>1. nextID \in 1..(MaxRequests + 1)
    BY DEF IInv, TypeOK
  <2>2. nextID \in Nat
    BY <2>1, PortalAssumption
  <2> QED
    BY SMTT(60), <2>2 DEF IInv, TypeOK, Ids
<1>1. ASSUME NEW what \in {"ping", "run"}, Send(what) PROVE StillOpen'
  <2>1. nextID \in Ids /\ nextID' = nextID + 1 /\ pending' = pending \cup {nextID} /\ told' = told
    BY <1>1 DEF Send
  <2>2. \A id \in pending' : told'[id] = "nothing" /\ id < nextID'
    BY <1>0, <2>1 DEF StillOpen
  <2>3. \A id \in Ids : id >= nextID' => told'[id] = "nothing"
    BY <1>0, <2>1 DEF StillOpen
  <2> QED
    BY <2>2, <2>3 DEF StillOpen
<1>2. ASSUME NEW id \in Ids, NEW outcome, id \in pending, Complete(id, outcome), nextID' = nextID
      PROVE  StillOpen'
  <2>1. pending' = pending \ {id} /\ told' = [told EXCEPT ![id] = outcome]
    BY <1>2 DEF Complete
  <2>2. \A k \in Ids : k # id => told'[k] = told[k]
    BY <1>0, <2>1
  <2>3. id < nextID
    BY <1>0, <1>2 DEF StillOpen
  <2> QED
    BY <1>0, <1>2, <2>1, <2>2, <2>3 DEF StillOpen
<1>3. ASSUME UNCHANGED <<pending, told, nextID>> PROVE StillOpen'
  BY <1>0, <1>3 DEF StillOpen
<1>4. ASSUME NEW id \in Ids, Expire(id) PROVE StillOpen'
  BY <1>2, <1>4 DEF Expire, askVars
<1>5. CASE TakeFrame
  <2>1. nextID' = nextID /\ Handle(Head(txRing))
    BY <1>5 DEF TakeFrame, askVars
  <2>2. CASE UNCHANGED <<pending, told>>
    BY <1>3, <2>1, <2>2
  <2>3. CASE Head(txRing).id \in pending /\ \E outcome \in Promise!Outcomes : Complete(Head(txRing).id, outcome)
    BY <1>0, <1>2, <2>1, <2>3
  <2> QED
    BY <2>1, <2>2, <2>3, HandleCompletes
<1>6. CASE Reset
  <2>1. /\ pending' = {} /\ nextID' = nextID
        /\ told' = [id \in Ids |-> IF id \in pending THEN "notAnswering" ELSE told[id]]
    BY <1>6 DEF Reset, askVars
  <2>2. \A id \in Ids : id >= nextID => id \notin pending
    BY <1>0 DEF StillOpen
  <2> QED
    BY <1>0, <2>1, <2>2 DEF StillOpen
<1>7. CASE TakeBuffers
  BY <1>3, <1>7 DEF TakeBuffers, askVars, replyVars
<1>8. CASE RxCallback \/ TxCallback \/ ReadTakes \/ ReadCopies
  BY <1>3, <1>8 DEF RxCallback, TxCallback, ReadTakes, ReadCopies, hostVars
<1>9. CASE Deal \/ Reply \/ ReplyFails \/ DaemonStarts \/ WritePart \/ WriteFails
  BY <1>3, <1>9 DEF Deal, Reply, ReplyFails, DaemonStarts, WritePart, WriteFails, hostVars
<1>10. ASSUME NEW id \in Ids, ResultBegins(id) \/ ResultLost(id) \/ RunFails(id) PROVE StillOpen'
  BY <1>3, <1>10 DEF ResultBegins, ResultLost, RunFails, hostVars
<1>11. CASE DaemonDies \/ GuestFalls \/ DriverStarts \/ UNCHANGED vars
  BY <1>3, <1>11 DEF DaemonDies, GuestFalls, DriverStarts, vars, hostVars
<1> QED
  BY <1>1, <1>4, <1>5, <1>6, <1>7, <1>8, <1>9, <1>10, <1>11
     DEF Next, HostStep, LoopStep, WriteFailure

(* What was dealt with stays so, and was asked for, as what it was.        *)
LEMMA HandledIs ==
  IInv => /\ handled \in Seq(Ids) /\ ToSet(handled) \subseteq Ids
          /\ \A id \in ToSet(handled) : id # nextID /\ id # 0
<1> SUFFICES ASSUME IInv
             PROVE  /\ handled \in Seq(Ids) /\ ToSet(handled) \subseteq Ids
                    /\ \A id \in ToSet(handled) : id # nextID /\ id # 0
  OBVIOUS
<1>1. TypeOK /\ handled \in Seq(Ids) /\ nextID \in 1..(MaxRequests + 1) /\ 0 \notin Ids
  BY SMTT(30) DEF IInv, TypeOK, Ids
<1>2. ToSet(handled) \subseteq Ids
  BY <1>1, ToSetIs
<1>3. ToSet(handled) \subseteq ToSet(Line)
  BY <1>1, LineIs DEF AllOf
<1>4. \A id \in ToSet(Line) : id < nextID
  BY DEF IInv, InLine
<1>5. \A id \in Ids : id < nextID => id # nextID
  BY <1>1 DEF Ids
<1> QED
  BY <1>1, <1>2, <1>3, <1>4, <1>5

LEMMA StepAnswered ==
  ASSUME IInv, [Next]_vars, TypeOK'
  PROVE  Answered'
<1>0. /\ Answered /\ Stages /\ TypeOK /\ ToSet(handled) \subseteq Ids /\ 0 \notin Ids
      /\ \A id \in ToSet(handled) : id # nextID /\ id # 0
  BY HandledIs DEF IInv, Ids
<1>1. ASSUME NEW what \in {"ping", "run"}, Send(what) PROVE Answered'
  <2>1. /\ nextID \in Ids /\ kind' = [kind EXCEPT ![nextID] = what]
        /\ UNCHANGED <<handled, reader, reply, current, job, writer, part, parts>>
    BY <1>1 DEF Send, loopVars, jobVars
  <2>2. \A id \in Ids : id # nextID => kind'[id] = kind[id]
    BY <1>0, <2>1 DEF TypeOK
  <2> QED
    BY <1>0, <2>1, <2>2 DEF Answered, Stages
<1>2. ASSUME NEW id \in Ids, Expire(id) PROVE Answered'
  BY <1>0, <1>2 DEF Answered, Expire, askVars, loopVars, jobVars
<1>3. CASE TakeBuffers \/ TakeFrame
  BY <1>0, <1>3 DEF Answered, TakeBuffers, TakeFrame, askVars, loopVars, jobVars
<1>4. CASE RxCallback \/ TxCallback \/ DriverStarts
  BY <1>0, <1>4 DEF Answered, RxCallback, TxCallback, DriverStarts, hostVars, loopVars, jobVars
<1>5. CASE ReadTakes \/ ReadCopies
  BY <1>0, <1>5 DEF Answered, ReadTakes, ReadCopies, hostVars, jobVars
<1>6. CASE Deal
  <2>1. current \in Ids /\ handled \in Seq(Ids) /\ handled' = Append(handled, current)
    BY <1>0, <1>6 DEF TypeOK, Stages, Deal
  <2>2. ToSet(handled') = ToSet(handled) \cup {current}
    BY <2>1, ToSetAppend
  <2>3. UNCHANGED <<kind, writer, part, parts>>
    BY <1>6 DEF Deal, hostVars
  <2>4. CASE reader' = "reply" /\ UNCHANGED <<current, job>>
    <3>1. reply' = "pong" => kind[current] = "ping"
      BY <1>6, <2>4 DEF Deal
    <3> QED
      BY <1>0, <2>2, <2>3, <2>4, <3>1 DEF Answered
  <2>5. CASE reader' = "read" /\ kind[current] = "run" /\ job' = [job EXCEPT ![current] = "running"]
    <3>1. \A id \in Ids : job'[id] = IF id = current THEN "running" ELSE job[id]
      BY <1>0, <2>1, <2>5 DEF TypeOK
    <3>2. writer # 0 => writer \in Ids
      BY <1>0 DEF TypeOK
    <3> QED
      BY <1>0, <2>1, <2>2, <2>3, <2>5, <3>1, <3>2 DEF Answered
  <2> QED
    BY <1>6, <2>4, <2>5 DEF Deal
<1>7. CASE Reply \/ ReplyFails
  BY <1>0, <1>7 DEF Answered, Reply, ReplyFails, hostVars, jobVars
<1>8. CASE DaemonStarts
  BY <1>0, <1>8 DEF Answered, DaemonStarts, hostVars, jobVars
<1>9. CASE WritePart \/ WriteFails
  <2>1. writer \in Ids /\ UNCHANGED <<kind, handled, reader, reply, current>>
    BY <1>0, <1>9 DEF TypeOK, WritePart, WriteFails, hostVars, loopVars
  <2>2. CASE ResultEnds
    <3>1. \A id \in Ids : job'[id] = IF id = writer THEN "over" ELSE job[id]
      BY <1>0, <2>1, <2>2 DEF TypeOK, ResultEnds
    <3> QED
      BY <1>0, <2>1, <2>2, <3>1 DEF Answered, ResultEnds
  <2>3. CASE part < parts /\ part' = part + 1 /\ UNCHANGED <<job, writer, parts>>
    <3>1. part \in Nat /\ parts \in Nat
      BY <1>0 DEF TypeOK
    <3>2. 1 <= part' /\ part' <= parts'
      BY <2>3, <3>1
    <3> QED
      BY <1>0, <2>1, <2>3, <3>2 DEF Answered
  <2> QED
    BY <1>9, <2>2, <2>3 DEF WritePart, WriteFails
<1>10. ASSUME NEW id \in Ids, ResultBegins(id) PROVE Answered'
  <2>1. /\ job[id] = "running" /\ writer' = id /\ part' = 1 /\ parts' \in 1..MaxParts
        /\ UNCHANGED <<kind, handled, reader, reply, current, job>>
    BY <1>10 DEF ResultBegins, hostVars, loopVars
  <2>2. 1 <= part' /\ part' <= parts'
    BY <2>1, PortalAssumption
  <2> QED
    BY <1>0, <2>1, <2>2 DEF Answered
<1>11. ASSUME NEW id \in Ids, ResultLost(id) \/ RunFails(id) PROVE Answered'
  <2>1. /\ job[id] = "running" /\ writer # id /\ job' = [job EXCEPT ![id] = "over"]
        /\ UNCHANGED <<kind, handled, reader, reply, current, writer, part, parts>>
    BY <1>0, <1>11 DEF ResultLost, RunFails, hostVars, loopVars
  <2>2. \A k \in Ids : job'[k] = IF k = id THEN "over" ELSE job[k]
    BY <1>0, <2>1 DEF TypeOK
  <2>3. writer # 0 => writer \in Ids
    BY <1>0 DEF TypeOK
  <2> QED
    BY <1>0, <2>1, <2>2, <2>3 DEF Answered
<1>12. CASE DaemonDies \/ GuestFalls
  <2>1. reader' = "gone" /\ job' = Killed /\ writer' = 0 /\ UNCHANGED <<kind, handled>>
    BY <1>12 DEF DaemonDies, GuestFalls, hostVars
  <2>2. \A id \in Ids : job'[id] # "none" => job[id] # "none"
    BY <2>1 DEF Killed
  <2> QED
    BY <1>0, <2>1, <2>2 DEF Answered
<1>13. CASE Reset
  BY <1>0, <1>13 DEF Answered, Reset, askVars, loopVars, jobVars
<1>14. CASE UNCHANGED vars
  BY <1>0, <1>14 DEF Answered, vars, hostVars, loopVars, jobVars
<1> QED
  BY <1>1, <1>2, <1>3, <1>4, <1>5, <1>6, <1>7, <1>8, <1>9, <1>10, <1>11, <1>12, <1>13, <1>14
     DEF Next, HostStep, LoopStep, WriteFailure

-----------------------------------------------------------------------------
(* The replies on their ring.                                              *)

(* A frame on the ring is a frame, and of a request that was dealt with.   *)
LEMMA RingIs ==
  IInv => /\ txRing \in Seq(Frames) /\ Len(txRing) \in Nat
          /\ \A i \in 1..Len(txRing) :
               /\ txRing[i] \in Frames /\ txRing[i].type \in FrameTypes
               /\ txRing[i].part \in 0..MaxParts /\ txRing[i].of \in 0..MaxParts
               /\ OfResult(txRing[i]) => txRing[i].id \in Ids /\ txRing[i].id # 0
<1> SUFFICES ASSUME IInv
             PROVE  /\ txRing \in Seq(Frames) /\ Len(txRing) \in Nat
                    /\ \A i \in 1..Len(txRing) :
                         /\ txRing[i] \in Frames /\ txRing[i].type \in FrameTypes
                         /\ txRing[i].part \in 0..MaxParts /\ txRing[i].of \in 0..MaxParts
                         /\ OfResult(txRing[i]) => txRing[i].id \in Ids /\ txRing[i].id # 0
  OBVIOUS
<1>1. txRing \in Seq(Frames) /\ Len(txRing) \in Nat
  BY DEF IInv, TypeOK
<1>2. \A frame \in Frames : /\ frame.type \in FrameTypes
                            /\ frame.part \in 0..MaxParts /\ frame.of \in 0..MaxParts
  BY DEF Frames
<1>3. \A i \in 1..Len(txRing) : OfResult(txRing[i]) => txRing[i].id \in Ids /\ txRing[i].id # 0
  BY HandledIs DEF IInv, RingAnswered, OfResult
<1>4. \A i \in 1..Len(txRing) : txRing[i] \in Frames
  BY <1>1
<1> QED
  BY <1>1, <1>2, <1>3, <1>4

LEMMA StepRingAnswered ==
  ASSUME IInv, [Next]_vars
  PROVE  RingAnswered'
<1>0. /\ RingAnswered /\ Answered /\ Stages /\ TypeOK /\ ToSet(handled) \subseteq Ids /\ 0 \notin Ids
      /\ \A id \in ToSet(handled) : id # nextID /\ id # 0
  BY HandledIs DEF IInv, Ids
<1>1. ASSUME UNCHANGED <<txRing, handled, kind>> PROVE RingAnswered'
  BY <1>0, <1>1 DEF RingAnswered
<1>2. ASSUME NEW what \in {"ping", "run"}, Send(what) PROVE RingAnswered'
  <2>1. /\ kind' = [kind EXCEPT ![nextID] = what] /\ UNCHANGED <<txRing, handled>>
    BY <1>2 DEF Send, txVars, loopVars
  <2>2. \A id \in Ids : id # nextID => kind'[id] = kind[id]
    BY <1>0, <2>1 DEF TypeOK
  <2>3. ASSUME NEW i \in 1..Len(txRing), txRing[i].type = "pong" PROVE kind'[txRing[i].id] = "ping"
    <3>1. txRing[i].id \in ToSet(handled) /\ kind[txRing[i].id] = "ping"
      BY <1>0, <2>3 DEF RingAnswered
    <3> QED
      BY <1>0, <2>2, <3>1
  <2> QED
    BY <1>0, <2>1, <2>3 DEF RingAnswered
<1>3. CASE TakeFrame
  <2>1. txRing # <<>> /\ txRing' = Tail(txRing) /\ UNCHANGED <<handled, kind>>
    BY <1>3 DEF TakeFrame, askVars, loopVars
  <2>2. ASSUME NEW i \in 1..Len(txRing') PROVE i + 1 \in 1..Len(txRing) /\ txRing'[i] = txRing[i + 1]
    BY <2>1, RingIs, HeadTail
  <2> QED
    BY <1>0, <2>1, <2>2 DEF RingAnswered
<1>4. CASE Deal
  <2>1. /\ current \in Ids /\ handled \in Seq(Ids) /\ handled' = Append(handled, current)
        /\ UNCHANGED <<txRing, kind>>
    BY <1>0, <1>4 DEF TypeOK, Stages, Deal, hostVars, txVars
  <2>2. ToSet(handled') = ToSet(handled) \cup {current}
    BY <2>1, ToSetAppend
  <2> QED
    BY <1>0, <2>1, <2>2 DEF RingAnswered
<1>5. ASSUME NEW frame \in Frames, Write(frame), UNCHANGED <<handled, kind>>,
             frame.type # "hello" => frame.id \in ToSet(handled),
             frame.type = "pong" => kind[frame.id] = "ping"
      PROVE  RingAnswered'
  <2>1. txRing \in Seq(Frames) /\ txRing' = Append(txRing, frame)
    BY <1>5, RingIs DEF Write
  <2>2. ASSUME NEW i \in 1..Len(txRing') PROVE (i \in 1..Len(txRing) /\ txRing'[i] = txRing[i]) \/ txRing'[i] = frame
    BY <2>1, AppendIs
  <2> QED
    BY <1>0, <1>5, <2>2 DEF RingAnswered
<1>6. CASE Reply
  <2>1. Frame(reply, current) \in Frames /\ Write(Frame(reply, current)) /\ UNCHANGED <<handled, kind>>
    BY <1>0, <1>6, FramesAre DEF TypeOK, Stages, Reply, FrameTypes, hostVars
  <2>2. Frame(reply, current).type = reply /\ Frame(reply, current).id = current
    BY DEF Frame
  <2> QED
    BY <1>0, <1>5, <1>6, <2>1, <2>2 DEF Reply, Answered
<1>7. CASE WritePart
  <2>1. NextPart \in Frames /\ Write(NextPart) /\ UNCHANGED <<handled, kind>>
    BY <1>7, NextPartIs DEF WritePart, hostVars, loopVars
  <2>2. NextPart.type # "pong" /\ NextPart.id = writer
    BY DEF NextPart
  <2>3. writer \in ToSet(handled)
    <3>1. writer \in Ids /\ job[writer] = "running"
      BY <1>0, <1>7 DEF TypeOK, Answered, WritePart
    <3> QED
      BY <1>0, <3>1 DEF Answered
  <2> QED
    BY <1>5, <2>1, <2>2, <2>3
<1>8. ASSUME NEW id \in Ids, RunFails(id) PROVE RingAnswered'
  <2>1. Frame("error", id) \in Frames /\ Write(Frame("error", id)) /\ UNCHANGED <<handled, kind>>
    BY <1>8, FramesAre DEF RunFails, FrameTypes, hostVars, loopVars
  <2>2. Frame("error", id).type = "error" /\ Frame("error", id).id = id
    BY DEF Frame
  <2>3. id \in ToSet(handled)
    BY <1>0, <1>8 DEF RunFails, Answered
  <2> QED
    BY <1>5, <2>1, <2>2, <2>3
<1>9. CASE Reset
  BY <1>9 DEF Reset, RingAnswered
<1>10. ASSUME NEW id \in Ids, Expire(id) \/ ResultBegins(id) \/ ResultLost(id) PROVE RingAnswered'
  BY <1>1, <1>10 DEF Expire, ResultBegins, ResultLost, hostVars, askVars, txVars, loopVars
<1>11. CASE TakeBuffers \/ RxCallback \/ TxCallback \/ ReadTakes \/ ReadCopies
  BY <1>1, <1>11 DEF TakeBuffers, RxCallback, TxCallback, ReadTakes, ReadCopies, hostVars, askVars, txVars, loopVars
<1>12. CASE ReplyFails \/ DaemonStarts \/ WriteFails
  BY <1>1, <1>12 DEF ReplyFails, DaemonStarts, WriteFails, hostVars, txVars, loopVars
<1>13. CASE DaemonDies \/ GuestFalls \/ DriverStarts \/ UNCHANGED vars
  BY <1>1, <1>13 DEF DaemonDies, GuestFalls, DriverStarts, vars, hostVars, txVars, loopVars
<1> QED
  BY <1>2, <1>3, <1>4, <1>6, <1>7, <1>8, <1>9, <1>10, <1>11, <1>12, <1>13
     DEF Next, HostStep, LoopStep, WriteFailure

(* A result whose writing has begun is not begun again.                    *)
UnsentNext(id) == job'[id] # "over" /\ ~(writer' = id /\ part' > 1)

LEMMA UnsentGoes ==
  ASSUME IInv, [Next]_vars
  PROVE  \A id \in Ids : UnsentNext(id) => Unsent(id)
<1>0. /\ Answered /\ Stages /\ TypeOK /\ 0 \notin Ids
  BY DEF IInv, Ids
<1>1. ASSUME UNCHANGED <<job, writer, part>> PROVE \A id \in Ids : UnsentNext(id) => Unsent(id)
  BY <1>1 DEF Unsent, UnsentNext
<1>2. ASSUME NEW who \in Ids, job[who] = "running", job' = [job EXCEPT ![who] = "over"], writer' \in {0, writer},
             writer' = 0 => writer \in {0, who}, writer' = writer => part' = part
      PROVE  \A id \in Ids : UnsentNext(id) => Unsent(id)
  <2>1. \A id \in Ids : job'[id] = IF id = who THEN "over" ELSE job[id]
    BY <1>0, <1>2 DEF TypeOK
  <2> QED
    BY <1>0, <1>2, <2>1 DEF Unsent, UnsentNext
<1>3. CASE Deal
  <2>1. UNCHANGED <<writer, part>>
    BY <1>3 DEF Deal
  <2>2. CASE job' = [job EXCEPT ![current] = "running"]
    <3>1. current \in Ids /\ current \notin ToSet(handled)
      <4>1. AllRising(handled, Now, Texts(Held(mine)), Texts(rxFifo), Texts(rxUsed) \o waiting)
        BY LineIs DEF IInv, InLine
      <4>2. Now = <<current>> /\ current \in Ids
        BY <1>0, <1>3 DEF Now, Deal, Stages, TypeOK
      <4>3. Below(ToSet(handled), {current})
        BY <4>1, <4>2, ToSetEmpty DEF AllRising
      <4> QED
        BY <4>2, <4>3 DEF Below, Ids
    <3>2. job[current] = "none"
      BY <1>0, <3>1 DEF Answered, TypeOK
    <3>3. \A id \in Ids : id # current => job'[id] = job[id]
      BY <1>0, <2>2 DEF TypeOK
    <3>4. writer # current
      BY <1>0, <3>1, <3>2 DEF Answered
    <3> QED
      BY <2>1, <3>2, <3>3, <3>4 DEF Unsent, UnsentNext
  <2>3. CASE job' = job
    BY <1>1, <2>1, <2>3
  <2> QED
    BY <1>3, <2>2, <2>3 DEF Deal
<1>4. CASE WritePart \/ WriteFails
  <2>1. writer \in Ids /\ writer # 0 /\ job[writer] = "running"
    BY <1>0, <1>4 DEF TypeOK, Answered, WritePart, WriteFails
  <2>2. CASE ResultEnds
    <3>1. job' = [job EXCEPT ![writer] = "over"] /\ writer' = 0
      BY <2>2 DEF ResultEnds
    <3> QED
      BY <1>2, <2>1, <3>1
  <2>3. CASE part' = part + 1 /\ UNCHANGED <<job, writer>>
    <3>1. part > 1 => part' > 1
      BY <1>0, <2>3 DEF TypeOK
    <3> QED
      BY <2>3, <3>1 DEF Unsent, UnsentNext
  <2> QED
    BY <1>4, <2>2, <2>3 DEF WritePart, WriteFails
<1>5. ASSUME NEW id \in Ids, ResultBegins(id) PROVE \A k \in Ids : UnsentNext(k) => Unsent(k)
  <2>1. job' = job /\ writer = 0
    BY <1>5 DEF ResultBegins
  <2> QED
    BY <1>0, <2>1 DEF Unsent, UnsentNext
<1>6. ASSUME NEW id \in Ids, ResultLost(id) \/ RunFails(id) PROVE \A k \in Ids : UnsentNext(k) => Unsent(k)
  <2>1. /\ job[id] = "running" /\ job' = [job EXCEPT ![id] = "over"] /\ UNCHANGED <<writer, part>>
    BY <1>6 DEF ResultLost, RunFails
  <2>2. \A k \in Ids : job'[k] = IF k = id THEN "over" ELSE job[k]
    BY <1>0, <2>1 DEF TypeOK
  <2> QED
    BY <2>1, <2>2 DEF Unsent, UnsentNext
<1>7. CASE DaemonDies \/ GuestFalls
  <2>1. job' = Killed
    BY <1>7 DEF DaemonDies, GuestFalls
  <2>2. \A k \in Ids : job'[k] # "over" => job[k] # "over" /\ job[k] # "running"
    BY <2>1 DEF Killed
  <2> QED
    BY <1>0, <2>2 DEF Unsent, UnsentNext, Answered
<1>8. ASSUME NEW what \in {"ping", "run"}, Send(what) PROVE \A id \in Ids : UnsentNext(id) => Unsent(id)
  BY <1>1, <1>8 DEF Send, jobVars
<1>9. ASSUME NEW id \in Ids, Expire(id) PROVE \A k \in Ids : UnsentNext(k) => Unsent(k)
  BY <1>1, <1>9 DEF Expire, jobVars
<1>10. CASE TakeBuffers \/ TakeFrame \/ RxCallback \/ TxCallback \/ ReadTakes \/ ReadCopies
  BY <1>1, <1>10 DEF TakeBuffers, TakeFrame, RxCallback, TxCallback, ReadTakes, ReadCopies, jobVars
<1>11. CASE Reply \/ ReplyFails \/ DaemonStarts \/ Reset \/ DriverStarts \/ UNCHANGED vars
  BY <1>1, <1>11 DEF Reply, ReplyFails, DaemonStarts, Reset, DriverStarts, vars, jobVars
<1> QED
  BY <1>3, <1>4, <1>5, <1>6, <1>7, <1>8, <1>9, <1>10, <1>11
     DEF Next, HostStep, LoopStep, WriteFailure

(* Only a part that comes changes a body, and only its own request's.      *)
LEMMA HandleBody ==
  ASSUME IInv, TakeFrame
  PROVE  LET frame == txRing[1]
         IN  /\ frame \in Frames /\ Handle(frame)
             /\ \A id \in Ids : body'[id] # body[id] \/ total'[id] # total[id] =>
                  OfResult(frame) /\ id = frame.id /\ id \in pending /\ Assemble(frame)
<1>1. txRing # <<>> /\ txRing \in Seq(Frames) /\ Handle(Head(txRing))
  BY DEF IInv, TypeOK, TakeFrame
<1>2. Head(txRing) = txRing[1] /\ txRing[1] \in Frames
  BY <1>1, HeadTail
<1> DEFINE frame == txRing[1]
<1>3. Handle(frame) /\ frame \in Frames
  BY <1>1, <1>2
<1> HIDE DEF frame
<1>4. UNCHANGED <<body, total>> \/ (OfResult(frame) /\ frame.id \in pending /\ Assemble(frame))
  BY <1>3 DEF Handle, OfResult, replyVars
<1>5. ASSUME Assemble(frame), NEW id \in Ids, id # frame.id
      PROVE  body'[id] = body[id] /\ total'[id] = total[id]
  BY <1>5 DEF Assemble, IInv, TypeOK
<1> QED
  BY <1>3, <1>4, <1>5 DEF frame

(* A ring in order stays so when its first frame is taken, and when one    *)
(* comes after that fits.                                                  *)
LEMMA InOrderTail ==
  ASSUME NEW ring \in Seq(Frames), ring # <<>>, InOrder(ring)
  PROVE  InOrder(Tail(ring))
<1> DEFINE rest == Tail(ring)
<1>1. /\ Len(ring) \in Nat /\ Len(rest) = Len(ring) - 1
      /\ \A i \in 1..Len(rest) : rest[i] = ring[i + 1]
  BY HeadTail
<1> HIDE DEF rest
<1>2. ASSUME NEW i \in 2..Len(rest) PROVE Follows(rest[i - 1], rest[i])
  <2> DEFINE k == i + 1
  <2>1. k \in 2..Len(ring) /\ rest[i] = ring[k] /\ rest[i - 1] = ring[k - 1]
    BY SMTT(60), <1>1
  <2> HIDE DEF k
  <2> QED
    BY <2>1 DEF InOrder
<1>3. ASSUME NEW i \in 1..Len(rest), NEW j \in 1..Len(rest), i < j PROVE Ascends(rest[i], rest[j])
  <2> DEFINE k == i + 1
             m == j + 1
  <2>1. k \in 1..Len(ring) /\ m \in 1..Len(ring) /\ k < m /\ rest[i] = ring[k] /\ rest[j] = ring[m]
    BY <1>1, <1>3
  <2> HIDE DEF k, m
  <2> QED
    BY <2>1 DEF InOrder
<1> QED
  BY <1>2, <1>3 DEF InOrder, rest

LEMMA InOrderAppend ==
  ASSUME NEW ring \in Seq(Frames), NEW f \in Frames, InOrder(ring),
         ring # <<>> => Follows(ring[Len(ring)], f),
         \A i \in 1..Len(ring) : Ascends(ring[i], f)
  PROVE  InOrder(Append(ring, f))
<1> DEFINE more == Append(ring, f)
<1>1. /\ Len(ring) \in Nat /\ Len(more) = Len(ring) + 1 /\ more[Len(ring) + 1] = f
      /\ \A i \in 1..Len(ring) : more[i] = ring[i]
      /\ Len(ring) # 0 => ring # <<>>
  BY AppendIs
<1> HIDE DEF more
<1>2. ASSUME NEW i \in 2..Len(more) PROVE Follows(more[i - 1], more[i])
  <2>1. CASE i \in 2..Len(ring)
    <3>1. more[i - 1] = ring[i - 1] /\ more[i] = ring[i]
      BY <1>1, <2>1
    <3> QED
      BY <2>1, <3>1 DEF InOrder
  <2>2. CASE i = Len(ring) + 1
    <3>1. Len(ring) # 0 /\ i - 1 = Len(ring) /\ more[i] = f /\ more[i - 1] = ring[Len(ring)]
      BY <1>1, <2>2
    <3> QED
      BY <1>1, <3>1
  <2> QED
    BY <1>1, <2>1, <2>2
<1>3. ASSUME NEW i \in 1..Len(more), NEW j \in 1..Len(more), i < j PROVE Ascends(more[i], more[j])
  <2>1. i \in 1..Len(ring) /\ more[i] = ring[i]
    BY <1>1, <1>3
  <2>2. CASE j \in 1..Len(ring)
    <3>1. more[j] = ring[j]
      BY <1>1, <2>2
    <3> QED
      BY <1>3, <2>1, <2>2, <3>1 DEF InOrder
  <2>3. CASE j = Len(ring) + 1
    BY <1>1, <2>1, <2>3
  <2> QED
    BY <1>1, <2>2, <2>3
<1> QED
  BY <1>2, <1>3 DEF InOrder, more

(* What a frame has to be after a step to be in its place then.            *)
PlacedNext(f) ==
  /\ OfResult(f) => f.part # 0 /\ ~UnsentNext(f.id)
  /\ f.type = "result" => f.part = 1 /\ f.of # 0 /\ body'[f.id] = <<>>
  /\ f.type = "more" => f.part > 1
  /\ OfResult(f) /\ f.id = writer' => f.part < part'

LEMMA StaysPlaced ==
  ASSUME IInv, [Next]_vars, NEW i \in 1..Len(txRing),
         txRing[i].type = "result" => body'[txRing[i].id] = body[txRing[i].id],
         writer' = 0 \/ UNCHANGED <<writer, part>>
           \/ (OfResult(txRing[i]) /\ txRing[i].id = writer' => txRing[i].part < part')
  PROVE  PlacedNext(txRing[i])
<1> DEFINE f == txRing[i]
<1>1. Placed(f) /\ (OfResult(f) => f.id \in Ids /\ f.id # 0)
  BY RingIs DEF IInv, RingInPieces
<1>2. OfResult(f) => ~UnsentNext(f.id)
  BY <1>1, UnsentGoes DEF Placed
<1> HIDE DEF f
<1>3. OfResult(f) /\ f.id = writer' => f.part < part'
  BY <1>1 DEF f, Placed
<1>4. f.type = "result" => body'[f.id] = <<>>
  BY <1>1 DEF f, Placed
<1> QED
  BY <1>1, <1>2, <1>3, <1>4 DEF f, Placed, PlacedNext

LEMMA RingPlaced ==
  ASSUME InOrder(txRing'), \A i \in 1..Len(txRing') : PlacedNext(txRing'[i])
  PROVE  RingInPieces'
BY DEF RingInPieces, Placed, PlacedNext, Unsent, UnsentNext

LEMMA StepRing ==
  ASSUME IInv, [Next]_vars
  PROVE  RingInPieces'
<1>0. /\ InOrder(txRing) /\ Answered /\ Stages /\ TypeOK /\ 0 \notin Ids
      /\ txRing \in Seq(Frames) /\ Len(txRing) \in Nat
  BY RingIs DEF IInv, RingInPieces, Ids
<1>1. ASSUME UNCHANGED <<txRing, body>>,
             \/ writer' = 0 \/ UNCHANGED <<writer, part>>
             \/ \A i \in 1..Len(txRing) : OfResult(txRing[i]) /\ txRing[i].id = writer' => txRing[i].part < part'
      PROVE  RingInPieces'
  <2>1. \A i \in 1..Len(txRing) : PlacedNext(txRing[i])
    BY <1>1, StaysPlaced
  <2> QED
    BY <1>0, <1>1, <2>1, RingPlaced
<1>2. CASE TakeFrame
  <2> DEFINE frame == txRing[1]
  <2>1. /\ txRing # <<>> /\ txRing' = Tail(txRing) /\ Len(txRing') = Len(txRing) - 1
        /\ \A i \in 1..Len(txRing') : txRing'[i] = txRing[i + 1]
        /\ UNCHANGED <<writer, part>>
    BY <1>0, <1>2, HeadTail DEF TakeFrame, jobVars
  <2>2. \A id \in Ids : body'[id] # body[id] => OfResult(frame) /\ id = frame.id
    BY <1>2, HandleBody
  <2>3. 1 \in 1..Len(txRing)
    BY <1>0, <2>1, HeadTail
  <2>4. ASSUME NEW i \in 1..Len(txRing') PROVE PlacedNext(txRing'[i])
    <3> DEFINE k == i + 1
    <3>1. k \in 1..Len(txRing) /\ 1 < k /\ txRing'[i] = txRing[k]
      BY <1>0, <2>1
    <3> HIDE DEF k
    <3>2. ASSUME txRing[k].type = "result" PROVE body'[txRing[k].id] = body[txRing[k].id]
      <4>1. OfResult(txRing[k]) /\ txRing[k].part = 1 /\ txRing[k].id \in Ids
        BY <3>1, <3>2, RingIs DEF IInv, RingInPieces, Placed, OfResult
      <4>2. OfResult(frame) => frame.part # 0 /\ frame.part \in 0..MaxParts
        BY <2>3, RingIs DEF IInv, RingInPieces, Placed
      <4>3. OfResult(frame) /\ frame.id = txRing[k].id => frame.part < txRing[k].part
        BY <1>0, <2>3, <3>1, <4>1 DEF InOrder, Ascends
      <4>4. ~(OfResult(frame) /\ frame.id = txRing[k].id)
        BY <4>1, <4>2, <4>3
      <4> QED
        BY <2>2, <4>1, <4>4
    <3>3. PlacedNext(txRing[k])
      BY <2>1, <3>1, <3>2, StaysPlaced
    <3> QED
      BY <3>1, <3>3
  <2>5. InOrder(txRing')
    BY <1>0, <2>1, InOrderTail
  <2> QED
    BY <2>4, <2>5, RingPlaced
<1>3. ASSUME NEW frame \in Frames, Write(frame), body' = body,
             txRing # <<>> => Follows(txRing[Len(txRing)], frame),
             \A i \in 1..Len(txRing) : Ascends(txRing[i], frame) /\ PlacedNext(txRing[i]),
             PlacedNext(frame)
      PROVE  RingInPieces'
  <2>1. txRing' = Append(txRing, frame)
    BY <1>3 DEF Write
  <2>2. InOrder(txRing')
    BY <1>0, <1>3, <2>1, InOrderAppend
  <2>3. ASSUME NEW i \in 1..Len(txRing') PROVE (i \in 1..Len(txRing) /\ txRing'[i] = txRing[i]) \/ txRing'[i] = frame
    BY <1>0, <2>1, AppendIs
  <2>4. \A i \in 1..Len(txRing') : PlacedNext(txRing'[i])
    BY <1>3, <2>3
  <2> QED
    BY <2>2, <2>4, RingPlaced
<1>4. ASSUME NEW frame \in Frames, Write(frame), ~OfResult(frame), UNCHANGED <<body, writer, part>>
      PROVE  RingInPieces'
  <2>1. /\ \A i \in 1..Len(txRing) : Follows(txRing[i], frame) /\ Ascends(txRing[i], frame) /\ PlacedNext(txRing[i])
        /\ PlacedNext(frame)
    BY <1>4, StaysPlaced DEF Follows, Ascends, OfResult, PlacedNext
  <2>2. txRing # <<>> => Len(txRing) \in 1..Len(txRing)
    BY <1>0, HeadTail
  <2> QED
    BY <1>3, <1>4, <2>1, <2>2
<1>5. CASE Reply
  <2>1. Frame(reply, current) \in Frames /\ Write(Frame(reply, current)) /\ UNCHANGED <<body, writer, part>>
    BY <1>0, <1>5, FramesAre DEF TypeOK, Stages, Reply, FrameTypes, hostVars, jobVars
  <2>2. ~OfResult(Frame(reply, current))
    BY <1>0, <1>5 DEF OfResult, Frame, Reply, Stages
  <2> QED
    BY <1>4, <2>1, <2>2
<1>6. ASSUME NEW id \in Ids, RunFails(id) PROVE RingInPieces'
  <2>1. Frame("error", id) \in Frames /\ Write(Frame("error", id)) /\ UNCHANGED <<body, writer, part>>
    BY <1>6, FramesAre DEF RunFails, FrameTypes, hostVars
  <2>2. ~OfResult(Frame("error", id))
    BY DEF OfResult, Frame
  <2> QED
    BY <1>4, <2>1, <2>2
<1>7. CASE WritePart
  <2> DEFINE frame == NextPart
  <2>1. /\ frame \in Frames /\ Write(frame) /\ body' = body
        /\ writer \in Ids /\ writer # 0 /\ job[writer] = "running" /\ 1 <= part /\ part <= parts
        /\ part \in Nat /\ parts \in Nat
    BY <1>0, <1>7, NextPartIs DEF WritePart, Answered, TypeOK, hostVars
  <2>2. /\ frame.type = IF part = 1 THEN "result" ELSE "more"
        /\ frame.id = writer /\ frame.part = part /\ (part = 1 => frame.of = parts)
    BY DEF NextPart
  <2>3. OfResult(frame) /\ (frame.type = "result" <=> part = 1)
    BY <2>2 DEF OfResult
  <2>4. \/ job' = [job EXCEPT ![writer] = "over"] /\ writer' = 0
        \/ part' = part + 1 /\ writer' = writer
    BY <1>7 DEF WritePart, ResultEnds
  <2>5. ~UnsentNext(writer) /\ (writer' = writer => part < part')
    <3>1. CASE job' = [job EXCEPT ![writer] = "over"] /\ writer' = 0
      BY <1>0, <2>1, <3>1 DEF UnsentNext, TypeOK
    <3>2. CASE part' = part + 1 /\ writer' = writer
      BY <2>1, <3>2 DEF UnsentNext
    <3> QED
      BY <2>4, <3>1, <3>2
  <2>6. part = 1 => body[writer] = <<>>
    BY <2>1 DEF IInv, Bodies, Unsent
  <2> HIDE DEF frame
  <2>7. PlacedNext(frame)
    BY <2>1, <2>2, <2>3, <2>5, <2>6 DEF PlacedNext
  <2>8. ASSUME NEW i \in 1..Len(txRing) PROVE Ascends(txRing[i], frame) /\ PlacedNext(txRing[i])
    <3>1. OfResult(txRing[i]) /\ txRing[i].id = writer => txRing[i].part < part
      BY DEF IInv, RingInPieces, Placed
    <3>2. Ascends(txRing[i], frame)
      BY <2>2, <3>1 DEF Ascends
    <3>3. txRing[i].part \in 0..MaxParts
      BY RingIs
    <3>4. writer' = 0 \/ (OfResult(txRing[i]) /\ txRing[i].id = writer' => txRing[i].part < part')
      BY <2>1, <2>4, <3>1, <3>3
    <3>5. PlacedNext(txRing[i])
      BY <2>1, <3>4, StaysPlaced
    <3> QED
      BY <3>2, <3>5
  <2>9. txRing # <<>> => Follows(txRing[Len(txRing)], frame)
    <3>1. part > 1 /\ txRing # <<>> => /\ OfResult(txRing[Len(txRing)]) /\ txRing[Len(txRing)].id = writer
                                       /\ part = txRing[Len(txRing)].part + 1
      BY <2>1 DEF IInv, Joins
    <3> QED
      BY <2>1, <2>2, <2>3, <3>1 DEF Follows
  <2> QED
    BY <1>3, <2>1, <2>7, <2>8, <2>9
<1>8. ASSUME NEW id \in Ids, ResultBegins(id) PROVE RingInPieces'
  <2>1. job[id] = "running" /\ writer = 0 /\ writer' = id /\ UNCHANGED <<txRing, body>>
    BY <1>8 DEF ResultBegins, hostVars, txVars
  <2>2. Unsent(id)
    BY <1>0, <2>1 DEF Unsent
  <2>3. ASSUME NEW i \in 1..Len(txRing), OfResult(txRing[i]) PROVE txRing[i].id # id
    BY <2>2, <2>3 DEF IInv, RingInPieces, Placed
  <2> QED
    BY <1>1, <2>1, <2>3
<1>9. CASE WriteFails
  BY <1>1, <1>9 DEF WriteFails, ResultEnds, hostVars, txVars
<1>10. CASE DaemonDies \/ GuestFalls
  BY <1>1, <1>10 DEF DaemonDies, GuestFalls, hostVars, txVars
<1>11. CASE Reset
  BY <1>11 DEF Reset, RingInPieces, InOrder
<1>12. ASSUME NEW id \in Ids, Expire(id) \/ ResultLost(id) PROVE RingInPieces'
  BY <1>1, <1>12 DEF Expire, ResultLost, hostVars, txVars, jobVars
<1>13. ASSUME NEW what \in {"ping", "run"}, Send(what) PROVE RingInPieces'
  BY <1>1, <1>13 DEF Send, txVars, jobVars
<1>14. CASE TakeBuffers \/ RxCallback \/ TxCallback \/ ReadTakes \/ ReadCopies
  BY <1>1, <1>14 DEF TakeBuffers, RxCallback, TxCallback, ReadTakes, ReadCopies, hostVars, replyVars, txVars, jobVars
<1>15. CASE Deal \/ ReplyFails \/ DaemonStarts \/ DriverStarts \/ UNCHANGED vars
  BY <1>1, <1>15 DEF Deal, ReplyFails, DaemonStarts, DriverStarts, vars, hostVars, txVars, jobVars
<1> QED
  BY <1>2, <1>5, <1>6, <1>7, <1>8, <1>9, <1>10, <1>11, <1>12, <1>13, <1>14, <1>15
     DEF Next, HostStep, LoopStep, WriteFailure

-----------------------------------------------------------------------------
(* The bodies.                                                             *)

(* A part of a result that is waited for comes right behind the parts that *)
(* came before it, and completes the request if, and only if, it is the    *)
(* last; but a part with no beginning completes it as malformed.           *)
LEMMA PartComes ==
  ASSUME IInv, TakeFrame, OfResult(txRing[1]), txRing[1].id \in pending
  PROVE  LET id == txRing[1].id
         IN  /\ id \in Ids
             /\ \/ /\ UNCHANGED <<body, total>> /\ Complete(id, "malformed")
                \/ /\ txRing[1].part = Len(body[id]) + 1
                   /\ body'[id] = Append(body[id], txRing[1].part)
                   /\ Len(body[id]) + 1 <= total'[id]
                   /\ \/ Complete(id, "success") /\ Len(body[id]) + 1 = total'[id]
                      \/ UNCHANGED <<pending, told>> /\ Len(body[id]) + 1 < total'[id]
<1> DEFINE frame == txRing[1]
           id == frame.id
<1>1. txRing # <<>> /\ 1 \in 1..Len(txRing)
  BY RingIs, HeadTail DEF TakeFrame
<1>2. /\ frame \in Frames /\ frame.type \in FrameTypes /\ frame.part \in 0..MaxParts /\ frame.of \in 0..MaxParts
      /\ id \in Ids /\ Placed(frame)
  BY <1>1, RingIs DEF IInv, RingInPieces
<1>3. Handle(frame)
  BY HandleBody
<1>4. frame.type = "more" => frame.part = Len(body[id]) + 1
  BY <1>1 DEF IInv, Joins
<1>5. IF body[id] = <<>> THEN total[id] = 0 ELSE Len(body[id]) < total[id]
  BY DEF IInv, Bodies
<1>6. /\ body \in [Ids -> Seq(1..MaxParts)] /\ total \in [Ids -> 0..MaxParts]
      /\ body[id] \in Seq(1..MaxParts) /\ Len(body[id]) \in Nat /\ total[id] \in Nat
  <2> HIDE DEF id
  <2>1. body \in [Ids -> Seq(1..MaxParts)] /\ total \in [Ids -> 0..MaxParts]
    BY DEF IInv, TypeOK
  <2>2. body[id] \in Seq(1..MaxParts) /\ total[id] \in 0..MaxParts
    BY <1>2, <2>1
  <2>3. Len(body[id]) \in Nat
    BY <2>2
  <2>4. total[id] \in Nat
    BY <2>2
  <2> QED
    BY <2>1, <2>2, <2>3, <2>4
<1>7. OfResult(frame) /\ id \in pending
  OBVIOUS
<1> HIDE DEF frame, id
<1>8. CASE UNCHANGED <<body, total>> /\ Complete(frame.id, "malformed")
  BY <1>2, <1>8 DEF frame, id
<1>9. CASE Assemble(frame) /\ (frame.type = "result" \/ (frame.type = "more" /\ total[frame.id] > 0))
  <2>0. id = frame.id
    BY DEF id
  <2>1. frame.part = Len(body[id]) + 1
    <3>1. CASE frame.type = "result"
      <4>1. frame.part = 1 /\ body[id] = <<>>
        BY <1>2, <2>0, <3>1 DEF Placed
      <4> QED
        BY <4>1
    <3> QED
      BY <1>4, <1>9, <3>1
  <2>2. body'[id] = Append(body[id], frame.part) /\ total'[id] = IF frame.type = "result" THEN frame.of ELSE total[id]
    BY <1>2, <1>6, <1>9, <2>0 DEF Assemble
  <2>3. IF Len(body[id]) + 1 >= total'[id] THEN Complete(id, "success") ELSE UNCHANGED <<pending, told>>
    BY <1>2, <1>6, <1>9, <2>0, <2>2 DEF Assemble
  <2>4. Len(body[id]) + 1 <= total'[id] /\ total'[id] \in Nat
    <3>1. CASE frame.type = "result"
      <4>1. body[id] = <<>> /\ frame.of # 0 /\ total'[id] = frame.of
        BY <1>2, <2>0, <2>2, <3>1 DEF Placed
      <4>2. Len(body[id]) = 0
        BY <4>1
      <4> QED
        BY <1>2, <4>1, <4>2
    <3>2. CASE frame.type # "result"
      <4>1. total[id] > 0 /\ total'[id] = total[id]
        BY <1>9, <2>0, <2>2, <3>2
      <4>2. Len(body[id]) < total[id]
        BY <1>5, <1>6, <4>1
      <4> QED
        BY <1>6, <4>1, <4>2
    <3> QED
      BY <3>1, <3>2
  <2>5. \/ Complete(id, "success") /\ Len(body[id]) + 1 = total'[id]
        \/ UNCHANGED <<pending, told>> /\ Len(body[id]) + 1 < total'[id]
    BY <1>6, <2>3, <2>4
  <2> QED
    BY <1>2, <2>0, <2>1, <2>2, <2>4, <2>5 DEF frame
<1> QED
  BY <1>3, <1>7, <1>8, <1>9 DEF Handle, OfResult, id

LEMMA StepBodies ==
  ASSUME IInv, [Next]_vars
  PROVE  Bodies'
<1>0. /\ Bodies /\ BodyIsPrefix /\ StillOpen /\ Answered /\ TypeOK /\ pending \subseteq Ids
      /\ body \in [Ids -> Seq(1..MaxParts)] /\ total \in [Ids -> 0..MaxParts]
      /\ told \in [Ids -> Promise!Outcomes \cup {"nothing"}] /\ kind \in [Ids -> {"none", "ping", "run"}]
  BY DEF IInv, TypeOK, Bodies
<1>00. \A id \in Ids : UnsentNext(id) => Unsent(id)
  BY UnsentGoes
<1> DEFINE Begun(id) == UnsentNext(id) => body'[id] = <<>> /\ total'[id] = 0
           Open(id)  == id \in pending' => IF body'[id] = <<>> THEN total'[id] = 0 ELSE Len(body'[id]) < total'[id]
           Start(id) == /\ body'[id] = [i \in 1..Len(body'[id]) |-> i]
                        /\ kind'[id] = "run" /\ told'[id] = "success" => Len(body'[id]) = total'[id]
<1>1. ASSUME pending' \subseteq Ids, \A id \in Ids : Begun(id) /\ Open(id) /\ Start(id) PROVE Bodies'
  BY <1>1 DEF Bodies, BodyIsPrefix, Unsent, UnsentNext
<1>2. ASSUME NEW id \in Ids, body'[id] = body[id], total'[id] = total[id],
             id \in pending' => id \in pending \/ Unsent(id),
             (kind'[id] = kind[id] /\ (told'[id] = told[id] \/ told'[id] # "success")) \/ told'[id] = "nothing"
      PROVE  Begun(id) /\ Open(id) /\ Start(id)
  <2>1. Begun(id)
    BY <1>0, <1>00, <1>2 DEF Bodies
  <2>2. Open(id)
    BY <1>0, <1>2 DEF Bodies
  <2>3. Start(id)
    BY <1>0, <1>2 DEF BodyIsPrefix
  <2> QED
    BY <2>1, <2>2, <2>3
<1>3. ASSUME UNCHANGED <<body, total, kind>>, pending' \subseteq pending,
             \A id \in Ids : told'[id] = told[id] \/ told'[id] # "success"
      PROVE  Bodies'
  BY <1>0, <1>1, <1>2, <1>3
<1>4. ASSUME NEW what \in {"ping", "run"}, Send(what) PROVE Bodies'
  <2>1. /\ UNCHANGED <<body, total, told>> /\ kind' = [kind EXCEPT ![nextID] = what]
        /\ nextID \in Ids /\ pending' = pending \cup {nextID}
    BY <1>4 DEF Send
  <2>2. Unsent(nextID) /\ told[nextID] = "nothing"
    <3>1. nextID \notin ToSet(handled) /\ nextID \in Nat
      BY <2>1, HandledIs DEF Ids
    <3>2. job[nextID] = "none"
      BY <1>0, <2>1, <3>1 DEF Answered, TypeOK
    <3>3. writer # nextID
      BY <1>0, <2>1, <3>2 DEF Answered, Ids
    <3> QED
      BY <1>0, <2>1, <3>1, <3>2, <3>3 DEF StillOpen, Unsent
  <2>3. \A id \in Ids : id # nextID => kind'[id] = kind[id]
    BY <1>0, <2>1
  <2>4. ASSUME NEW id \in Ids PROVE Begun(id) /\ Open(id) /\ Start(id)
    <3>1. id \in pending' => id \in pending \/ Unsent(id)
      BY <2>1, <2>2
    <3>2. kind'[id] = kind[id] \/ told'[id] = "nothing"
      BY <2>1, <2>2, <2>3
    <3> QED
      BY <1>2, <2>1, <3>1, <3>2
  <2> QED
    BY <1>0, <1>1, <2>1, <2>4
<1>5. ASSUME NEW id \in Ids, Expire(id) PROVE Bodies'
  <2>1. /\ UNCHANGED <<body, total, kind>> /\ pending' \subseteq pending
        /\ told' = [told EXCEPT ![id] = "timedOut"]
    BY <1>5 DEF Expire, Complete, askVars
  <2> QED
    BY <1>0, <1>3, <2>1
<1>6. CASE Reset
  <2>1. /\ UNCHANGED <<body, total, kind>> /\ pending' \subseteq pending
        /\ \A id \in Ids : told'[id] = told[id] \/ told'[id] # "success"
    BY <1>6 DEF Reset, askVars
  <2> QED
    BY <1>3, <2>1
<1>7. CASE TakeFrame
  <2> DEFINE frame == txRing[1]
  <2>1. kind' = kind /\ Handle(frame) /\ frame \in Frames
    BY <1>7, HandleBody DEF TakeFrame, askVars
  <2>2. \A id \in Ids : body'[id] # body[id] \/ total'[id] # total[id] =>
          OfResult(frame) /\ id = frame.id /\ id \in pending
    BY <1>7, HandleBody
  <2>3. pending' \subseteq pending
    BY <1>0, <2>1, HandleCompletes DEF Complete
  <2>4. \A id \in Ids : told'[id] # told[id] => id = frame.id /\ id \in pending /\ frame.type # "hello"
    BY <1>0, <2>1, HandleCompletes DEF Complete
  <2>5. CASE OfResult(frame) /\ frame.id \in pending
    <3> DEFINE id == frame.id
    <3>1. id \in Ids /\ id \in pending /\ told[id] = "nothing"
      BY <1>0, <2>5 DEF StillOpen
    <3>2. \/ UNCHANGED <<body, total>> /\ Complete(id, "malformed")
          \/ /\ frame.part = Len(body[id]) + 1
             /\ body'[id] = Append(body[id], frame.part)
             /\ Len(body[id]) + 1 <= total'[id]
             /\ \/ Complete(id, "success") /\ Len(body[id]) + 1 = total'[id]
                \/ UNCHANGED <<pending, told>> /\ Len(body[id]) + 1 < total'[id]
      BY <1>7, <2>5, PartComes
    <3>3. 1 \in 1..Len(txRing) /\ Placed(frame) /\ frame.part \in 0..MaxParts
      <4>1. 1 \in 1..Len(txRing)
        BY <1>7, RingIs, HeadTail DEF TakeFrame
      <4> QED
        BY <4>1, RingIs DEF IInv, RingInPieces
    <3> HIDE DEF id
    <3>4. CASE UNCHANGED <<body, total>> /\ Complete(id, "malformed")
      BY <1>0, <1>3, <2>1, <2>3, <3>4 DEF Complete
    <3>5. CASE /\ frame.part = Len(body[id]) + 1
               /\ body'[id] = Append(body[id], frame.part)
               /\ Len(body[id]) + 1 <= total'[id]
               /\ \/ Complete(id, "success") /\ Len(body[id]) + 1 = total'[id]
                  \/ UNCHANGED <<pending, told>> /\ Len(body[id]) + 1 < total'[id]
      <4>1. body[id] \in Seq(1..MaxParts) /\ Len(body[id]) \in Nat /\ body[id] = [i \in 1..Len(body[id]) |-> i]
        BY <1>0, <3>1 DEF BodyIsPrefix
      <4>2. Len(body'[id]) = Len(body[id]) + 1 /\ body'[id] # <<>>
        BY <3>5, <4>1
      <4>3. body'[id] = [i \in 1..Len(body'[id]) |-> i]
        BY <3>5, <4>1, <4>2
      <4>4. ~UnsentNext(id)
        BY <1>00, <2>5, <3>1, <3>3 DEF Placed, id
      <4>5. Open(id) /\ Start(id)
        <5>1. CASE Complete(id, "success") /\ Len(body[id]) + 1 = total'[id]
          BY <4>2, <4>3, <5>1 DEF Complete
        <5>2. CASE UNCHANGED <<pending, told>> /\ Len(body[id]) + 1 < total'[id]
          BY <3>1, <4>2, <4>3, <5>2
        <5> QED
          BY <3>5, <5>1, <5>2
      <4>6. ASSUME NEW k \in Ids, k # id PROVE Begun(k) /\ Open(k) /\ Start(k)
        BY <1>2, <2>1, <2>2, <2>3, <2>4, <4>6 DEF id
      <4> QED
        BY <1>0, <1>1, <2>3, <4>4, <4>5, <4>6
    <3> QED
      BY <3>2, <3>4, <3>5
  <2>6. CASE ~(OfResult(frame) /\ frame.id \in pending)
    <3>1. \A id \in Ids : body'[id] = body[id] /\ total'[id] = total[id]
      BY <2>2, <2>6
    <3>2. ASSUME NEW id \in Ids, kind[id] = "run", told'[id] # told[id] PROVE told'[id] # "success"
      <4>1. id = frame.id /\ id \in pending /\ frame.type # "hello"
        BY <2>4, <3>2
      <4>2. frame.type \in {"pong", "error"}
        BY <2>1, <2>6, <4>1 DEF Frames, FrameTypes, OfResult
      <4>3. frame.type # "pong"
        <5>1. 1 \in 1..Len(txRing)
          BY <1>7, RingIs, HeadTail DEF TakeFrame
        <5> QED
          BY <3>2, <4>1, <5>1 DEF IInv, RingAnswered
      <4>4. Complete(frame.id, "guestError")
        BY <2>1, <4>1, <4>2, <4>3 DEF Handle
      <4> QED
        BY <1>0, <4>1, <4>4 DEF Complete
    <3>3. ASSUME NEW id \in Ids PROVE Begun(id) /\ Open(id) /\ Start(id)
      <4>1. Begun(id) /\ Open(id)
        BY <1>0, <1>00, <2>3, <3>1 DEF Bodies
      <4>2. Start(id)
        BY <1>0, <2>1, <3>1, <3>2 DEF BodyIsPrefix
      <4> QED
        BY <4>1, <4>2
    <3> QED
      BY <1>0, <1>1, <2>3, <3>3
  <2> QED
    BY <2>5, <2>6
<1>8. ASSUME UNCHANGED <<body, total, kind, pending, told>> PROVE Bodies'
  BY <1>3, <1>8
<1>9. CASE TakeBuffers \/ RxCallback \/ TxCallback \/ ReadTakes \/ ReadCopies
  BY <1>8, <1>9 DEF TakeBuffers, RxCallback, TxCallback, ReadTakes, ReadCopies, hostVars, askVars, replyVars
<1>10. CASE Deal \/ Reply \/ ReplyFails \/ DaemonStarts \/ WritePart \/ WriteFails
  BY <1>8, <1>10 DEF Deal, Reply, ReplyFails, DaemonStarts, WritePart, WriteFails, hostVars
<1>11. ASSUME NEW id \in Ids, ResultBegins(id) \/ ResultLost(id) \/ RunFails(id) PROVE Bodies'
  BY <1>8, <1>11 DEF ResultBegins, ResultLost, RunFails, hostVars
<1>12. CASE DaemonDies \/ GuestFalls \/ DriverStarts \/ UNCHANGED vars
  BY <1>8, <1>12 DEF DaemonDies, GuestFalls, DriverStarts, vars, hostVars
<1> QED
  BY <1>4, <1>5, <1>6, <1>7, <1>9, <1>10, <1>11, <1>12
     DEF Next, HostStep, LoopStep, WriteFailure

-----------------------------------------------------------------------------
(* The joins: a part goes on where the one before it, or the body, ended.  *)
LEMMA StepJoins ==
  ASSUME IInv, [Next]_vars
  PROVE  Joins'
<1>0. /\ Joins /\ Answered /\ Stages /\ TypeOK /\ 0 \notin Ids
      /\ txRing \in Seq(Frames) /\ Len(txRing) \in Nat
  BY RingIs DEF IInv, Ids
<1>1. ASSUME UNCHANGED <<txRing, body>>,
             writer' = 0 \/ part' = 1 \/ UNCHANGED <<writer, part>>,
             \A id \in pending' : id \in pending \/ (id # writer /\ id \notin ToSet(handled))
      PROVE  Joins'
  <2>1. ASSUME txRing # <<>>, txRing[1].type = "more", txRing[1].id \in pending'
        PROVE  txRing[1].part = Len(body[txRing[1].id]) + 1
    <3>1. 1 \in 1..Len(txRing)
      BY <1>0, <2>1, HeadTail
    <3>2. txRing[1].id \in ToSet(handled)
      BY <2>1, <3>1 DEF IInv, RingAnswered
    <3> QED
      BY <1>0, <1>1, <2>1, <3>2 DEF Joins
  <2>2. ASSUME writer' # 0, part' > 1
        PROVE  IF txRing = <<>> THEN writer' \in pending' => part' = Len(body[writer']) + 1
               ELSE /\ OfResult(txRing[Len(txRing)]) /\ txRing[Len(txRing)].id = writer'
                    /\ part' = txRing[Len(txRing)].part + 1
    <3>1. writer' = writer /\ part' = part
      BY <1>1, <2>2
    <3> QED
      BY <1>0, <1>1, <2>2, <3>1 DEF Joins
  <2> QED
    BY <1>1, <2>1, <2>2 DEF Joins, OfResult
<1>2. CASE TakeFrame
  <2> DEFINE frame == txRing[1]
             id == frame.id
  <2>1. /\ txRing # <<>> /\ txRing' = Tail(txRing) /\ Len(txRing') = Len(txRing) - 1
        /\ \A i \in 1..Len(txRing') : txRing'[i] = txRing[i + 1]
        /\ UNCHANGED <<writer, part>>
        /\ 1 \in 1..Len(txRing) /\ txRing' \in Seq(Frames)
    BY <1>0, <1>2, HeadTail DEF TakeFrame, jobVars
  <2>2. pending' \subseteq pending
    <3>1. Handle(frame)
      BY <1>2, HandleBody
    <3> QED
      BY <3>1, HandleCompletes DEF Complete
  <2>3. ASSUME OfResult(frame), id \in pending'
        PROVE  frame.part \in Nat /\ Len(body'[id]) = frame.part
    <3>1. id \in Ids /\ body[id] \in Seq(1..MaxParts)
      BY <2>1, <2>3, RingIs DEF IInv, TypeOK
    <3> HIDE DEF id
    <3>2. ~Complete(id, "malformed")
      BY <2>3 DEF Complete
    <3>3. frame.part = Len(body[id]) + 1 /\ body'[id] = Append(body[id], frame.part)
      BY <1>2, <2>2, <2>3, <3>2, PartComes DEF id
    <3>4. Len(body[id]) \in Nat /\ Len(Append(body[id], frame.part)) = Len(body[id]) + 1
      BY <3>1
    <3> QED
      BY <3>3, <3>4
  <2>4. ASSUME txRing' # <<>>, txRing'[1].type = "more", txRing'[1].id \in pending'
        PROVE  txRing'[1].part = Len(body'[txRing'[1].id]) + 1
    <3>1. 2 \in 2..Len(txRing) /\ txRing'[1] = txRing[2]
      <4>1. 1 \in 1..Len(txRing')
        BY <2>1, <2>4, HeadTail
      <4> QED
        BY <1>0, <2>1, <4>1
    <3>2. Follows(frame, txRing[2])
      <4>1. Follows(txRing[2 - 1], txRing[2])
        BY <3>1 DEF IInv, RingInPieces, InOrder
      <4> QED
        BY <4>1
    <3>3. OfResult(frame) /\ txRing[2].id = id /\ txRing[2].part = frame.part + 1
      BY <2>4, <3>1, <3>2 DEF Follows
    <3> QED
      BY <2>3, <2>4, <3>1, <3>3
  <2>5. ASSUME writer' # 0, part' > 1
        PROVE  IF txRing' = <<>> THEN writer' \in pending' => part' = Len(body'[writer']) + 1
               ELSE /\ OfResult(txRing'[Len(txRing')]) /\ txRing'[Len(txRing')].id = writer'
                    /\ part' = txRing'[Len(txRing')].part + 1
    <3>1. /\ OfResult(txRing[Len(txRing)]) /\ txRing[Len(txRing)].id = writer
          /\ part = txRing[Len(txRing)].part + 1
      BY <1>0, <2>1, <2>5 DEF Joins
    <3>2. CASE txRing' = <<>>
      <4>1. Len(txRing) = 1
        <5>1. Len(txRing') = 0
          BY <3>2
        <5>2. Len(txRing) - 1 = 0
          BY <2>1, <5>1
        <5> QED
          BY <1>0, <5>2
      <4> QED
        BY <2>1, <2>3, <3>1, <3>2, <4>1
    <3>3. CASE txRing' # <<>>
      <4>1. Len(txRing') \in 1..Len(txRing')
        BY <2>1, <3>3, HeadTail
      <4>2. txRing'[Len(txRing')] = txRing[Len(txRing)]
        BY <1>0, <2>1, <4>1
      <4> QED
        BY <2>1, <3>1, <3>3, <4>2
    <3> QED
      BY <3>2, <3>3
  <2> QED
    BY <2>4, <2>5 DEF Joins, OfResult
<1>3. ASSUME NEW frame \in Frames, Write(frame), UNCHANGED <<body, pending>>,
             txRing = <<>> /\ frame.type = "more" /\ frame.id \in pending => frame.part = Len(body[frame.id]) + 1,
             writer' # 0 /\ part' > 1 => OfResult(frame) /\ frame.id = writer' /\ part' = frame.part + 1
      PROVE  Joins'
  <2>1. /\ txRing' = Append(txRing, frame) /\ Len(txRing') = Len(txRing) + 1 /\ txRing'[Len(txRing')] = frame
        /\ \A i \in 1..Len(txRing) : txRing'[i] = txRing[i]
    BY <1>0, <1>3, AppendIs DEF Write
  <2>2. txRing' # <<>>
    BY <1>0, <2>1
  <2>3. CASE txRing = <<>>
    <3>1. txRing'[1] = frame
      BY <2>1, <2>3
    <3> QED
      BY <1>3, <2>1, <2>2, <2>3, <3>1 DEF Joins, OfResult
  <2>4. CASE txRing # <<>>
    <3>1. txRing'[1] = txRing[1]
      BY <1>0, <2>1, <2>4, HeadTail
    <3> QED
      BY <1>0, <1>3, <2>1, <2>2, <2>4, <3>1 DEF Joins, OfResult
  <2> QED
    BY <2>3, <2>4
<1>4. CASE Reply
  <2>1. /\ Frame(reply, current) \in Frames /\ Write(Frame(reply, current)) /\ UNCHANGED <<body, pending>>
        /\ writer' = 0
    BY <1>0, <1>4, FramesAre DEF TypeOK, Stages, Reply, FrameTypes, hostVars, jobVars
  <2>2. Frame(reply, current).type # "more"
    BY <1>0, <1>4 DEF Frame, Reply, Stages
  <2> QED
    BY <1>3, <2>1, <2>2
<1>5. ASSUME NEW id \in Ids, RunFails(id) PROVE Joins'
  <2>1. /\ Frame("error", id) \in Frames /\ Write(Frame("error", id)) /\ UNCHANGED <<body, pending>>
        /\ writer' = 0
    BY <1>5, FramesAre DEF RunFails, FrameTypes, hostVars
  <2>2. Frame("error", id).type # "more"
    BY DEF Frame
  <2> QED
    BY <1>3, <2>1, <2>2
<1>6. CASE WritePart
  <2>1. /\ NextPart \in Frames /\ Write(NextPart) /\ UNCHANGED <<body, pending>>
        /\ writer # 0 /\ 1 <= part /\ part \in Nat
    BY <1>0, <1>6, NextPartIs DEF WritePart, Answered, TypeOK, hostVars
  <2>2. /\ NextPart.type = IF part = 1 THEN "result" ELSE "more"
        /\ NextPart.id = writer /\ NextPart.part = part
    BY DEF NextPart
  <2>3. OfResult(NextPart)
    BY <2>2 DEF OfResult
  <2>4. txRing = <<>> /\ NextPart.type = "more" /\ NextPart.id \in pending
          => NextPart.part = Len(body[NextPart.id]) + 1
    BY <1>0, <2>1, <2>2 DEF Joins
  <2>5. writer' = 0 \/ (part' = part + 1 /\ writer' = writer)
    BY <1>6 DEF WritePart, ResultEnds
  <2> QED
    BY <1>3, <2>1, <2>2, <2>3, <2>4, <2>5
<1>7. CASE Reset
  <2>1. txRing' = <<>> /\ pending' = {} /\ writer' = writer
    BY <1>7 DEF Reset, jobVars
  <2> QED
    BY <2>1 DEF Joins
<1>8. ASSUME NEW what \in {"ping", "run"}, Send(what) PROVE Joins'
  <2>1. /\ UNCHANGED <<txRing, body, writer, part>> /\ pending' = pending \cup {nextID}
    BY <1>8 DEF Send, txVars, jobVars
  <2>2. nextID \notin ToSet(handled) /\ nextID # writer
    <3>1. writer # 0 => writer \in ToSet(handled)
      BY <1>0 DEF Answered, TypeOK
    <3>2. nextID # 0
      BY <1>0, <1>8 DEF Send
    <3> QED
      BY <3>1, <3>2, HandledIs
  <2> QED
    BY <1>1, <2>1, <2>2
<1>9. ASSUME NEW id \in Ids, Expire(id) \/ ResultBegins(id) \/ ResultLost(id) PROVE Joins'
  BY <1>1, <1>9 DEF Expire, Complete, ResultBegins, ResultLost, hostVars, txVars, jobVars
<1>10. CASE TakeBuffers \/ RxCallback \/ TxCallback \/ ReadTakes \/ ReadCopies
  BY <1>1, <1>10 DEF TakeBuffers, RxCallback, TxCallback, ReadTakes, ReadCopies, hostVars, replyVars, txVars, jobVars
<1>11. CASE Deal \/ ReplyFails \/ DaemonStarts \/ WriteFails
  BY <1>1, <1>11 DEF Deal, ReplyFails, DaemonStarts, WriteFails, ResultEnds, hostVars, txVars, jobVars
<1>12. CASE DaemonDies \/ GuestFalls \/ DriverStarts \/ UNCHANGED vars
  BY <1>1, <1>12 DEF DaemonDies, GuestFalls, DriverStarts, vars, hostVars, txVars, jobVars
<1> QED
  BY <1>2, <1>4, <1>5, <1>6, <1>7, <1>8, <1>9, <1>10, <1>11, <1>12
     DEF Next, HostStep, LoopStep, WriteFailure

-----------------------------------------------------------------------------
(* The invariant holds in every state of every behaviour.                  *)
LEMMA InitIInv == Init => IInv
<1> SUFFICES ASSUME Init PROVE IInv
  OBVIOUS
<1>1. TypeOK
  BY InitTypes
<1>2. /\ rxPosted = <<>> /\ elements = <<>> /\ rxUsed = <<>> /\ rxFifo = <<>> /\ mine = 0
      /\ handled = <<>> /\ waiting = <<>> /\ Now = <<>> /\ txRing = <<>>
      /\ txFree = 0 /\ txUsed = 0 /\ guest = "reset" /\ pending = {}
  BY DEF Init, Now
<1>3. Held(mine) = <<>> /\ \A s : s = <<>> => Texts(s) = <<>>
  BY <1>2 DEF Held, Texts
<1>4. <<>> \o <<>> = <<>>
  OBVIOUS
<1>5. BuffersOnce
  <2>1. Places = <<>>
    BY <1>2, <1>3, <1>4 DEF Places, Joined
  <2>2. txFree + Len(txRing) + txUsed <= BufferCount
    BY <1>2, PortalAssumption
  <2> QED
    BY <1>2, <2>1, <2>2, EmptyIs DEF BuffersOnce
<1>6. Stages
  BY DEF Init, Stages
<1>7. InLine
  <2>1. Line = <<>>
    BY <1>2, <1>3, <1>4 DEF Line, Joined
  <2> QED
    BY <2>1, EmptyIs, ToSetEmpty DEF InLine
<1>8. StillOpen /\ Answered
  <2>1. \A id \in Ids : told[id] = "nothing" /\ job[id] = "none"
    BY DEF Init
  <2> QED
    BY <1>2, <2>1 DEF Init, StillOpen, Answered
<1>9. RingAnswered /\ RingInPieces /\ Joins
  BY <1>2 DEF Init, RingAnswered, RingInPieces, InOrder, Joins
<1>10. Bodies
  <2>1. \A id \in Ids : body[id] = <<>> /\ total[id] = 0 /\ kind[id] = "none"
    BY DEF Init
  <2>2. BodyIsPrefix
    BY <2>1 DEF BodyIsPrefix
  <2> QED
    BY <1>2, <2>1, <2>2 DEF Bodies
<1> QED
  BY <1>1, <1>5, <1>6, <1>7, <1>8, <1>9, <1>10 DEF IInv

LEMMA StepIInv == IInv /\ [Next]_vars => IInv'
<1> SUFFICES ASSUME IInv, [Next]_vars PROVE IInv'
  OBVIOUS
<1>1. TypeOK'
  BY StepTypes
<1>2. BuffersOnce' /\ InLine' /\ Answered'
  BY <1>1, StepBuffers, StepLine, StepAnswered
<1>3. Stages' /\ StillOpen' /\ RingAnswered' /\ RingInPieces' /\ Joins' /\ Bodies'
  BY StepStages, StepOpen, StepRingAnswered, StepRing, StepJoins, StepBodies
<1> QED
  BY <1>1, <1>2, <1>3 DEF IInv

LEMMA Invariance == Spec => []IInv
BY InitIInv, StepIInv, PTL DEF Spec

-----------------------------------------------------------------------------
(* What follows from it.                                                   *)

\* Every variable of the portal keeps to its type; above all no count of reply
\* buffers leaves 0..BufferCount and no buffer or request is made up.
THEOREM TypeCorrect == Spec => []TypeOK
<1>1. IInv => TypeOK
  BY DEF IInv
<1> QED
  BY Invariance, <1>1, PTL

\* The driver's request buffers and reply buffers are neither lost nor doubled, by
\* any order of interrupts, reads, refills, deaths and resets, however many there are.
THEOREM NoBufferLost == Spec => []BuffersConserved
<1>1. IInv => BuffersConserved
  <2> SUFFICES ASSUME IInv, guest = "up" PROVE BuffersConserved
    BY DEF BuffersConserved
  <2> DEFINE a == rxPosted  b == elements  c == rxUsed  d == rxFifo  e == Held(mine)
  <2>1. a \in Seq(Buffers) /\ b \in Seq(Buffers) /\ c \in Seq(Buffers)
    BY DEF IInv, TypeOK
  <2>2. d \in Seq(Buffers) /\ e \in Seq(Buffers)
    BY HeldIs DEF IInv, TypeOK
  <2>3. /\ Len(Places) = BufferCount /\ ToSet(Places) = Buffers
        /\ txFree + Len(txRing) + txUsed = BufferCount
    BY DEF IInv, BuffersOnce
  <2>4. /\ Len(Places) = Len(a) + Len(b) + Len(c) + Len(d) + Len(e)
        /\ ToSet(Places) = AllOf(a, b, c, d, e)
    BY PlacesAre DEF IInv
  <2> HIDE DEF a, b, c, d, e
  <2>5. Len(a \o b \o c \o d \o e) = BufferCount
    <3>1. Len(a \o b \o c \o d \o e) = Len(a) + Len(b) + Len(c) + Len(d) + Len(e)
      BY SMTT(30), <2>1, <2>2, LeftParts
    <3> QED
      BY Zenon, <2>3, <2>4, <3>1
  <2>6. ToSet(a \o b \o c \o d \o e) = Buffers
    <3>1. ToSet(a \o b \o c \o d \o e) = AllOf(a, b, c, d, e)
      BY SMTT(30), <2>1, <2>2, LeftParts
    <3> QED
      BY Zenon, <2>3, <2>4, <3>1
  <2> QED
    BY Zenon, <2>3, <2>5, <2>6 DEF BuffersConserved, Held, a, b, c, d, e
<1> QED
  BY Invariance, <1>1, PTL

\* The daemon sees requests in the order they were numbered, each at most once.
THEOREM OrderKept == Spec => []HandledInOrder
<1>1. IInv => HandledInOrder
  <2> SUFFICES ASSUME IInv PROVE HandledInOrder
    OBVIOUS
  <2>1. Increasing(handled)
    BY LineIs DEF IInv, InLine, AllRising
  <2>2. DOMAIN handled = 1..Len(handled)
    BY DEF IInv, TypeOK
  <2> QED
    BY <2>1, <2>2 DEF Increasing, HandledInOrder
<1> QED
  BY Invariance, <1>1, PTL

\* The host never joins parts of two results, nor leaves one out between two others,
\* and calls a command a success only with the whole of its result.
THEOREM ResultsWhole == Spec => []BodyIsPrefix
<1>1. IInv => BodyIsPrefix
  BY DEF IInv, Bodies
<1> QED
  BY Invariance, <1>1, PTL

(* Some of what is asked and not answered is told one outcome.             *)
LEMMA Tells ==
  ASSUME IInv, NEW S \in SUBSET pending, S # {}, NEW outcome \in Promise!Outcomes,
         outcome \in Promise!Replies => S \subseteq ToSet(handled),
         told' = [id \in Ids |-> IF id \in S THEN outcome ELSE told[id]],
         UNCHANGED <<nextID, handled>>
  PROVE  Promise!Tell
<1>1. S \subseteq {id \in 1..(nextID - 1) : told[id] = "nothing"}
  BY DEF IInv, TypeOK, StillOpen, Ids
<1>2. UNCHANGED <<1..(nextID - 1), ToSet(handled)>>
  OBVIOUS
<1> QED
  BY <1>1, <1>2 DEF Promise!Tell

(* Every step of the portal is a step of its promise, or none.             *)
LEMMA StepPromise ==
  ASSUME IInv, [Next]_vars
  PROVE  [Promise!Next]_(Promise!vars)
<1>0. /\ nextID \in Nat /\ Ids \subseteq Nat /\ pending \subseteq Ids /\ handled \in Seq(Ids)
      /\ told \in [Ids -> Promise!Outcomes \cup {"nothing"}]
  <2>1. nextID \in 1..(MaxRequests + 1)
    BY DEF IInv, TypeOK
  <2> QED
    BY <2>1, PortalAssumption DEF IInv, TypeOK, Ids
<1>1. ASSUME UNCHANGED <<nextID, handled, told>> PROVE [Promise!Next]_(Promise!vars)
  BY <1>1 DEF Promise!vars
<1>2. ASSUME NEW id \in pending, NEW outcome \in Promise!Outcomes, Complete(id, outcome),
             outcome \in Promise!Replies => id \in ToSet(handled),
             UNCHANGED <<nextID, handled>>
      PROVE  Promise!Next
  <2> DEFINE S == {id}
  <2>1. S \in SUBSET pending /\ S # {} /\ (outcome \in Promise!Replies => S \subseteq ToSet(handled))
    BY <1>2
  <2>2. told' = [k \in Ids |-> IF k \in S THEN outcome ELSE told[k]]
    BY <1>0, <1>2 DEF Complete
  <2> HIDE DEF S
  <2> QED
    BY <1>2, <2>1, <2>2, Tells DEF Promise!Next
<1>3. ASSUME NEW what \in {"ping", "run"}, Send(what) PROVE Promise!Next
  <2>1. nextID \in Ids /\ nextID' = nextID + 1 /\ UNCHANGED <<told, handled>>
    BY <1>3 DEF Send, loopVars
  <2>2. nextID \notin 1..(nextID - 1) /\ 1..(nextID' - 1) = 1..(nextID - 1) \cup {nextID}
    BY <1>0, <2>1 DEF Ids
  <2>3. Promise!Ask(nextID)
    BY <2>1, <2>2 DEF Promise!Ask
  <2> QED
    BY <2>1, <2>3 DEF Promise!Next
<1>4. CASE Deal
  <2>1. current \in Ids /\ current # 0 /\ handled' = Append(handled, current) /\ UNCHANGED <<nextID, told>>
    BY <1>4 DEF IInv, TypeOK, Stages, Deal, hostVars
  <2>2. ToSet(handled') = ToSet(handled) \cup {current}
    BY <1>0, <2>1, ToSetAppend
  <2>3. current \notin ToSet(handled) /\ current \in 1..(nextID - 1)
    <3>1. /\ AllRising(handled, Now, Texts(Held(mine)), Texts(rxFifo), Texts(rxUsed) \o waiting)
          /\ ToSet(Now) \subseteq ToSet(Line)
      BY LineIs DEF IInv, InLine, AllOf
    <3>2. Now = <<current>>
      BY <1>4 DEF Now, Deal
    <3>3. Below(ToSet(handled), {current}) /\ current \in ToSet(Line)
      BY <3>1, <3>2, ToSetEmpty DEF AllRising
    <3>4. current < nextID
      BY <3>3 DEF IInv, InLine
    <3> QED
      BY <1>0, <2>1, <3>3, <3>4 DEF Below, Ids
  <2>4. Promise!Deal(current)
    BY <2>1, <2>2, <2>3 DEF Promise!Deal
  <2> QED
    BY <2>1, <2>4 DEF Promise!Next
<1>5. ASSUME NEW id \in Ids, Expire(id) PROVE Promise!Next
  <2>1. id \in pending /\ Complete(id, "timedOut") /\ UNCHANGED <<nextID, handled>>
    BY <1>5 DEF Expire, askVars, loopVars
  <2> QED
    BY <1>2, <2>1 DEF Promise!Outcomes, Promise!Unsuccessful, Promise!Replies
<1>6. CASE TakeFrame
  <2> DEFINE frame == txRing[1]
  <2>1. Handle(frame) /\ UNCHANGED <<nextID, handled>>
    BY <1>6, HandleBody DEF TakeFrame, askVars, loopVars
  <2>2. frame.type # "hello" => frame.id \in ToSet(handled)
    <3>1. 1 \in 1..Len(txRing)
      BY <1>6, RingIs, HeadTail DEF TakeFrame
    <3> QED
      BY <3>1 DEF IInv, RingAnswered
  <2> HIDE DEF frame
  <2>3. CASE UNCHANGED <<pending, told>>
    BY <1>1, <2>1, <2>3
  <2>4. CASE /\ frame.type # "hello" /\ frame.id \in pending
             /\ \E outcome \in Promise!Outcomes : Complete(frame.id, outcome)
    BY <1>2, <2>1, <2>2, <2>4
  <2> QED
    BY <2>1, <2>3, <2>4, HandleCompletes
<1>7. CASE Reset
  <2>1. /\ told' = [id \in Ids |-> IF id \in pending THEN "notAnswering" ELSE told[id]]
        /\ UNCHANGED <<nextID, handled>>
    BY <1>7 DEF Reset, askVars, loopVars
  <2>2. CASE pending = {}
    <3>1. told' = told
      BY <1>0, <2>1, <2>2
    <3> QED
      BY <1>1, <2>1, <3>1
  <2>3. CASE pending # {}
    <3>1. "notAnswering" \in Promise!Outcomes /\ "notAnswering" \notin Promise!Replies
      BY DEF Promise!Outcomes, Promise!Unsuccessful, Promise!Replies
    <3> QED
      BY <2>1, <2>3, <3>1, Tells DEF Promise!Next
  <2> QED
    BY <2>2, <2>3
<1>8. CASE TakeBuffers
  BY <1>1, <1>8 DEF TakeBuffers, askVars, replyVars, loopVars
<1>9. CASE RxCallback \/ TxCallback \/ ReadTakes \/ ReadCopies
  BY <1>1, <1>9 DEF RxCallback, TxCallback, ReadTakes, ReadCopies, hostVars, loopVars
<1>10. CASE Reply \/ ReplyFails \/ DaemonStarts \/ WritePart \/ WriteFails
  BY <1>1, <1>10 DEF Reply, ReplyFails, DaemonStarts, WritePart, WriteFails, hostVars, loopVars
<1>11. ASSUME NEW id \in Ids, ResultBegins(id) \/ ResultLost(id) \/ RunFails(id) PROVE [Promise!Next]_(Promise!vars)
  BY <1>1, <1>11 DEF ResultBegins, ResultLost, RunFails, hostVars, loopVars
<1>12. CASE DaemonDies \/ GuestFalls \/ DriverStarts \/ UNCHANGED vars
  BY <1>1, <1>12 DEF DaemonDies, GuestFalls, DriverStarts, vars, hostVars, loopVars
<1> QED
  BY <1>3, <1>4, <1>5, <1>6, <1>7, <1>8, <1>9, <1>10, <1>11, <1>12
     DEF Next, HostStep, LoopStep, WriteFailure

\* The portal implements its promise: a caller is answered once, with a reply only
\* if the daemon dealt with its request, and nothing is dealt with twice.
THEOREM PromiseKept == Spec => KeepsPromise
<1>1. Init => Promise!Init
  <2> SUFFICES ASSUME Init PROVE Promise!Init
    OBVIOUS
  <2>1. nextID = 1 /\ handled = <<>> /\ told = [id \in Ids |-> "nothing"]
    BY DEF Init
  <2>2. 1..(nextID - 1) = {} /\ ToSet(handled) = {}
    BY <2>1, ToSetEmpty
  <2> QED
    BY <2>1, <2>2 DEF Promise!Init
<1>2. IInv /\ [Next]_vars => [Promise!Next]_(Promise!vars)
  BY StepPromise
<1> QED
  BY Invariance, <1>1, <1>2, PTL DEF Spec, KeepsPromise, Promise!Spec
=============================================================================

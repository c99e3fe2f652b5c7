-------------------------- MODULE RpcSession_proofs --------------------------
(***************************************************************************)
(* The connection keeps the stream aligned and implements Session, for all *)
(* messages and pipes of any length, until a recv on a Unix socket gets    *)
(* half a header and forgets it (ShortHeader).  On a Windows pipe, and     *)
(* with a client that writes its frames whole, that cannot happen.         *)
(***************************************************************************)
EXTENDS RpcConnection_proofs, WellFoundedInduction

\* BaseConnectionUnix::Read asks for a header and gets part of it: the call
\* counts as "nothing read", and what recv returned is gone.
ShortHeader == ReadNothing /\ pipe.kind.transport = "unix" /\ Available = 1

NeverShort == pipe.kind.transport = "windows" \/ pipe.kind.whole

-----------------------------------------------------------------------------
(* What FlattenSeq of the community modules does to a sequence that grows at *)
(* its end or loses its head.  It is a recursive function: its equation and  *)
(* the facts below are shown by induction, in the form of a least            *)
(* counterexample.                                                           *)

\* Every set of naturals that is not empty has a least element.
LEMMA LeastNumber ==
    ASSUME NEW T, T \subseteq Nat, T # {}
    PROVE  \E n \in T : \A m \in T : n <= m
<1>. DEFINE Less == {ss \in Nat \X Nat : ss[1] < ss[2]}
<1>1. IsWellFoundedOn(Less, Nat)  BY NatLessThanWellFounded DEF OpToRel
<1>. HIDE DEF Less
<1>2. PICK n \in T : \A m \in T : <<m, n>> \notin Less  BY <1>1, WFMin
<1>3. ASSUME NEW m \in T PROVE n <= m
  <2>1. <<m, n>> \in Nat \X Nat /\ <<m, n>>[1] = m /\ <<m, n>>[2] = n  BY <1>2
  <2>. QED  BY <1>2, <2>1 DEF Less
<1>. QED  BY <1>2, <1>3

\* The function behind FlattenSeq, up to the n-th sequence.
Flattens(f, s, n) ==
    f = [i \in 1 .. n |-> IF i = 1 THEN s[i] ELSE f[i - 1] \o s[i]]

\* It exists.
LEMMA FlattensExists ==
    ASSUME NEW s, NEW n \in Nat
    PROVE  \E f : Flattens(f, s, n)
<1>. DEFINE Bad == {k \in Nat : ~ \E f : Flattens(f, s, k)}
<1>1. SUFFICES ASSUME Bad # {} PROVE FALSE  OBVIOUS
<1>2. PICK k \in Bad : \A m \in Bad : k <= m
  <2>. HIDE DEF Bad
  <2>1. Bad \subseteq Nat  BY DEF Bad
  <2>. QED  BY <1>1, <2>1, LeastNumber
<1>3. k \in Nat /\ ~ \E f : Flattens(f, s, k)  BY <1>2
<1>4. k # 0
  <2>. DEFINE f == [i \in 1 .. 0 |-> s]
  <2>1. Flattens(f, s, 0)  BY DEF Flattens
  <2>. QED  BY <1>3, <2>1
<1>5. k - 1 \in Nat /\ k - 1 \notin Bad  BY <1>2, <1>3, <1>4
<1>6. PICK f : Flattens(f, s, k - 1)  BY <1>5
<1>. DEFINE g == [i \in 1 .. k |-> IF i = k THEN IF k = 1 THEN s[1] ELSE f[k - 1] \o s[k]
                                   ELSE f[i]]
<1>7. Flattens(g, s, k)
  <2>1. ASSUME NEW i \in 1 .. k
        PROVE  g[i] = IF i = 1 THEN s[i] ELSE g[i - 1] \o s[i]
    <3>1. CASE i = k /\ k = 1  BY <3>1
    <3>2. CASE i = k /\ k # 1
      <4>1. k - 1 \in 1 .. k /\ k - 1 # k  BY <1>3, <1>4, <3>2
      <4>2. g[k - 1] = f[k - 1]  BY <4>1
      <4>. QED  BY <3>2, <4>2
    <3>3. CASE i # k
      <4>1. i \in 1 .. k - 1  BY <1>3, <3>3
      <4>2. f[i] = IF i = 1 THEN s[i] ELSE f[i - 1] \o s[i]  BY <1>6, <4>1 DEF Flattens
      <4>3. g[i] = f[i]  BY <3>3
      <4>4. i # 1 => i - 1 \in 1 .. k /\ i - 1 # k  BY <1>3, <4>1
      <4>5. i # 1 => g[i - 1] = f[i - 1]  BY <4>4
      <4>. QED  BY <4>2, <4>3, <4>5
    <3>. QED  BY <3>1, <3>2, <3>3
  <2>. HIDE DEF g
  <2>2. [i \in 1 .. k |-> g[i]] = [i \in 1 .. k |-> IF i = 1 THEN s[i] ELSE g[i - 1] \o s[i]]
    BY <2>1
  <2>3. g = [i \in 1 .. k |-> g[i]]  BY DEF g
  <2>. QED  BY <2>2, <2>3 DEF Flattens
<1>. QED  BY <1>3, <1>7

\* FlattenSeq is the value of that function at its end.
LEMMA FlattenSeqIs ==
    ASSUME NEW S, NEW s \in Seq(S), s # << >>
    PROVE  \E f : Flattens(f, s, Len(s)) /\ FlattenSeq(s) = f[Len(s)]
<1>1. Len(s) \in Nat /\ Len(s) # 0  BY EmptySeq
<1>. DEFINE F == CHOOSE f : f = [i \in 1 .. Len(s) |-> IF i = 1 THEN s[i] ELSE f[i - 1] \o s[i]]
<1>2. Flattens(F, s, Len(s))  BY <1>1, FlattensExists DEF Flattens
<1>3. FlattenSeq(s) = F[Len(s)]  BY <1>1 DEF FlattenSeq
<1>. QED  BY <1>2, <1>3

\* Two such functions agree as far as their sequences do.
LEMMA FlattensAgree ==
    ASSUME NEW f, NEW g, NEW s, NEW t, NEW m \in Nat, NEW n \in Nat, m <= n,
           Flattens(f, s, m), Flattens(g, t, n), \A i \in 1 .. m : s[i] = t[i]
    PROVE  \A i \in 1 .. m : f[i] = g[i]
<1>. DEFINE Bad == {i \in 1 .. m : f[i] # g[i]}
<1>1. SUFFICES ASSUME Bad # {} PROVE FALSE  OBVIOUS
<1>2. PICK i \in Bad : \A j \in Bad : i <= j
  <2>1. Bad \subseteq Nat  OBVIOUS
  <2>. HIDE DEF Bad
  <2>. QED  BY <1>1, <2>1, LeastNumber
<1>3. i \in 1 .. m /\ i \in 1 .. n /\ f[i] # g[i]  BY <1>2
<1>4. /\ f[i] = IF i = 1 THEN s[i] ELSE f[i - 1] \o s[i]
      /\ g[i] = IF i = 1 THEN t[i] ELSE g[i - 1] \o t[i]
  BY <1>3 DEF Flattens
<1>5. i # 1 => i - 1 \in 1 .. m /\ i - 1 \notin Bad  BY <1>2, <1>3
<1>6. i # 1 => f[i - 1] = g[i - 1]  BY <1>5
<1>. QED  BY <1>3, <1>4, <1>6

\* Its values are sequences.
LEMMA FlattensType ==
    ASSUME NEW S, NEW s \in Seq(Seq(S)), NEW f, Flattens(f, s, Len(s))
    PROVE  \A i \in 1 .. Len(s) : f[i] \in Seq(S)
<1>. DEFINE Bad == {i \in 1 .. Len(s) : f[i] \notin Seq(S)}
<1>1. SUFFICES ASSUME Bad # {} PROVE FALSE  OBVIOUS
<1>2. PICK i \in Bad : \A j \in Bad : i <= j
  <2>1. Bad \subseteq Nat  OBVIOUS
  <2>. HIDE DEF Bad
  <2>. QED  BY <1>1, <2>1, LeastNumber
<1>3. Len(s) \in Nat /\ i \in 1 .. Len(s) /\ f[i] \notin Seq(S)  BY <1>2
<1>4. f[i] = IF i = 1 THEN s[i] ELSE f[i - 1] \o s[i]  BY <1>3 DEF Flattens
<1>5. s[i] \in Seq(S)  BY <1>3, ElementOfSeq
<1>6. i # 1 => i - 1 \in 1 .. Len(s) /\ i - 1 \notin Bad  BY <1>2, <1>3
<1>7. i # 1 => f[i - 1] \in Seq(S)  BY <1>6
<1>8. i # 1 => f[i - 1] \o s[i] \in Seq(S)  BY <1>5, <1>7, ConcatProperties
<1>. QED  BY <1>3, <1>4, <1>5, <1>8

LEMMA FlattenType ==
    ASSUME NEW S, NEW s \in Seq(Seq(S))
    PROVE  FlattenSeq(s) \in Seq(S)
<1>1. CASE s = << >>
  <2>1. Len(s) = 0  BY <1>1
  <2>. QED  BY <1>1, <2>1 DEF FlattenSeq
<1>2. CASE s # << >>
  <2>1. Len(s) \in 1 .. Len(s)  BY <1>2, EmptySeq
  <2>2. PICK f : Flattens(f, s, Len(s)) /\ FlattenSeq(s) = f[Len(s)]  BY <1>2, FlattenSeqIs
  <2>. QED  BY <2>1, <2>2, FlattensType
<1>. QED  BY <1>1, <1>2

\* Its equation after the first index.
LEMMA FlattensNext ==
    ASSUME NEW f, NEW s, NEW n \in Nat, NEW i \in 1 .. n, Flattens(f, s, n + 1)
    PROVE  f[i + 1] = f[i] \o s[i + 1]
<1>1. PICK m : m = i + 1  OBVIOUS
<1>2. m \in 1 .. n + 1 /\ m # 1 /\ m - 1 = i  BY <1>1
<1>3. f[m] = IF m = 1 THEN s[m] ELSE f[m - 1] \o s[m]  BY <1>2 DEF Flattens
<1>4. f[m] = f[i] \o s[m]  BY <1>2, <1>3
<1>. QED  BY <1>1, <1>4

\* Concatenation is associative, in the form in which the provers can match it.
LEMMA Associative ==
    ASSUME NEW S, NEW a, NEW b, NEW c, a \in Seq(S), b \in Seq(S), c \in Seq(S)
    PROVE  (a \o b) \o c = a \o (b \o c)
BY ConcatAssociative

\* The parts of the next lemma, named so that the provers can match them.
OneBehind(t, s, n) == \A i \in 1 .. n : t[i] = s[i + 1]
AllAfter(f, x, g, n) == \A i \in 1 .. n : f[i + 1] = x \o g[i]
AreSequences(f, n, S) == \A i \in 1 .. n : f[i] \in Seq(S)

\* A sequence in front of all others comes first in every value.
LEMMA FlattensShift ==
    ASSUME NEW S, NEW n, NEW f, NEW g, NEW s, NEW t, NEW x, n \in Nat, x \in Seq(S),
           Flattens(f, s, n + 1), s[1] = x,
           Flattens(g, t, n), OneBehind(t, s, n),
           AreSequences(t, n, S), AreSequences(g, n, S)
    PROVE  AllAfter(f, x, g, n)
<1>. DEFINE Bad == {i \in 1 .. n : f[i + 1] # x \o g[i]}
<1>1. SUFFICES ASSUME Bad # {} PROVE FALSE  BY DEF AllAfter
<1>2. PICK i \in Bad : \A j \in Bad : i <= j
  <2>1. Bad \subseteq 1 .. n  BY Zenon
  <2>. HIDE DEF Bad
  <2>2. 1 .. n \subseteq Nat  OBVIOUS
  <2>. QED  BY <1>1, <2>1, <2>2, LeastNumber
<1>3. i \in 1 .. n /\ f[i + 1] # x \o g[i]  BY <1>2
<1>4. f[i + 1] = f[i] \o s[i + 1]  BY <1>3, FlattensNext
<1>5. t[i] = s[i + 1] /\ t[i] \in Seq(S)
  BY <1>3 DEF OneBehind, AreSequences
<1>6. g[i] = IF i = 1 THEN t[i] ELSE g[i - 1] \o t[i]  BY <1>3 DEF Flattens
<1>7. CASE i = 1
  <2>1. 1 \in 1 .. n + 1  OBVIOUS
  <2>2. f[1] = x  BY <2>1 DEF Flattens
  <2>. QED  BY <1>3, <1>4, <1>5, <1>6, <1>7, <2>2
<1>8. CASE i # 1
  <2>1. PICK j \in 1 .. n : j = i - 1  BY <1>3, <1>8
  <2>2. i = j + 1 /\ ~ (i <= j)  BY <2>1, <1>3
  <2>3. j \notin Bad
    <3>. HIDE DEF Bad
    <3>. QED  BY <1>2, <2>2
  <2>4. f[i] = x \o g[j]  BY <2>2, <2>3
  <2>5. g[i] = g[j] \o t[i]
    <3>. HIDE DEF Bad
    <3>. QED  BY ONLY <1>6, <1>8, <2>1
  <2>6. x \in Seq(S) /\ g[j] \in Seq(S) /\ t[i] \in Seq(S)
    BY <1>5, <2>1 DEF AreSequences
  <2>. HIDE DEF Bad
  <2>7. (x \o g[j]) \o t[i] = x \o (g[j] \o t[i])
    <3>1. PICK y, z : y = g[j] /\ z = t[i]  OBVIOUS
    <3>2. x \in Seq(S) /\ y \in Seq(S) /\ z \in Seq(S)  BY ONLY <2>6, <3>1
    <3>3. (x \o y) \o z = x \o (y \o z)  BY ONLY <3>2, Associative
    <3>. QED  BY ONLY <3>1, <3>3
  <2>. QED  BY <1>3, <1>4, <1>5, <2>4, <2>5, <2>7
<1>. QED  BY <1>7, <1>8

\* A sequence that is appended comes last.
LEMMA FlattenAppend ==
    ASSUME NEW S, NEW s \in Seq(Seq(S)), NEW e \in Seq(S)
    PROVE  FlattenSeq(Append(s, e)) = FlattenSeq(s) \o e
<1>1. PICK n \in Nat : n = Len(s)  BY LenProperties
<1>2. PICK t : t = Append(s, e)  OBVIOUS
<1>3. /\ t \in Seq(Seq(S)) /\ t # << >> /\ Len(t) = n + 1
      /\ \A i \in 1 .. n : s[i] = t[i]
      /\ t[n + 1] = e
  BY <1>1, <1>2, AppendProperties
<1>4. PICK g : Flattens(g, t, n + 1) /\ FlattenSeq(t) = g[n + 1]  BY <1>3, FlattenSeqIs
<1>5. CASE s = << >>
  <2>1. n = 0 /\ FlattenSeq(s) = << >>  BY <1>1, <1>5 DEF FlattenSeq
  <2>2. << >> \o e = e  BY ConcatEmptySeq
  <2>3. g[1] = t[1]  BY <1>4, <2>1 DEF Flattens
  <2>. QED  BY <1>2, <1>3, <1>4, <2>1, <2>2, <2>3
<1>6. CASE s # << >>
  <2>1. n # 0 /\ n \in 1 .. n /\ n <= n + 1 /\ n + 1 \in Nat  BY <1>1, <1>6, EmptySeq
  <2>2. PICK f : Flattens(f, s, n) /\ FlattenSeq(s) = f[n]  BY <1>1, <1>6, FlattenSeqIs
  <2>3. Flattens(f, s, n) /\ Flattens(g, t, n + 1)  BY <1>4, <2>2
  <2>4. \A i \in 1 .. n : s[i] = t[i]  BY <1>3
  <2>5. \A i \in 1 .. n : f[i] = g[i]  BY <2>1, <2>3, <2>4, FlattensAgree
  <2>6. g[n + 1] = g[n] \o t[n + 1]  BY <2>1, <2>3, FlattensNext
  <2>7. g[n] = f[n]  BY <2>1, <2>5
  <2>. QED  BY <1>2, <1>3, <1>4, <2>2, <2>6, <2>7
<1>. QED  BY <1>5, <1>6

\* The head of the sequence comes first.
LEMMA FlattenHead ==
    ASSUME NEW S, NEW s \in Seq(Seq(S)), s # << >>
    PROVE  FlattenSeq(s) = Head(s) \o FlattenSeq(Tail(s))
<1>1. PICK t \in Seq(Seq(S)) : t = Tail(s)  BY HeadTailProperties
<1>2. PICK n \in Nat : n = Len(t)  BY LenProperties
<1>3. /\ Len(s) = n + 1 /\ Head(s) = s[1] /\ s[1] \in Seq(S)
      /\ \A i \in 1 .. n : t[i] = s[i + 1]
  BY <1>1, <1>2, HeadTailProperties, EmptySeq
<1>4. PICK f : Flattens(f, s, n + 1) /\ FlattenSeq(s) = f[n + 1]  BY <1>3, FlattenSeqIs
<1>5. CASE t = << >>
  <2>1. n = 0 /\ FlattenSeq(t) = << >>  BY <1>2, <1>5 DEF FlattenSeq
  <2>2. f[1] = s[1]  BY <1>4, <2>1 DEF Flattens
  <2>3. s[1] \o << >> = s[1]  BY <1>3, ConcatEmptySeq
  <2>. QED  BY <1>1, <1>3, <1>4, <2>1, <2>2, <2>3
<1>6. CASE t # << >>
  <2>1. n \in 1 .. n  BY <1>2, <1>6, EmptySeq
  <2>2. PICK g : Flattens(g, t, n) /\ FlattenSeq(t) = g[n]  BY <1>2, <1>6, FlattenSeqIs
  <2>3. \A i \in 1 .. n : g[i] \in Seq(S)  BY <1>2, <2>2, FlattensType
  <2>4. \A i \in 1 .. n : t[i] \in Seq(S)  BY <1>2, ElementOfSeq
  <2>5. \A i \in 1 .. n : f[i + 1] = s[1] \o g[i]
    <3>1. PICK x \in Seq(S) : x = s[1]  BY <1>3
    <3>2. Flattens(f, s, n + 1) /\ Flattens(g, t, n)  BY <1>4, <2>2
    <3>3. OneBehind(t, s, n) /\ AreSequences(t, n, S) /\ AreSequences(g, n, S)
      BY <1>3, <2>3, <2>4 DEF OneBehind, AreSequences
    <3>4. AllAfter(f, x, g, n)
      BY <3>1, <3>2, <3>3, FlattensShift
    <3>. QED  BY <3>1, <3>4 DEF AllAfter
  <2>. QED  BY <1>1, <1>3, <1>4, <2>1, <2>2, <2>5
<1>. QED  BY <1>5, <1>6

-----------------------------------------------------------------------------
(* The stream: what the pipe holds and what the peer has still to write. *)

Stream == pipe.bytes \o unsent

\* What comes after a piece, and where a stream may end.
Follows(p, q) ==
    \/ p.part = "header1" /\ q = [of |-> p.of, part |-> "header2"]
    \/ p.part = "header2" /\ p.of.payload # NoPayload /\ q = [of |-> p.of, part |-> "payload1"]
    \/ p.part = "header2" /\ p.of.payload = NoPayload /\ q.part = "header1"
    \/ p.part = "payload1" /\ q = [of |-> p.of, part |-> "payload2"]
    \/ p.part = "payload2" /\ q.part = "header1"
MayEnd(p) == p.part = "payload2" \/ (p.part = "header2" /\ p.of.payload = NoPayload)
Framed(s) == \A i \in 1 .. Len(s) : IF i < Len(s) THEN Follows(s[i], s[i + 1]) ELSE MayEnd(s[i])

\* It starts with the header of a frame, or with the payload of the frame
\* whose header has been read.
StartsAfter(s, h) ==
    IF h = Nobody THEN s # << >> => s[1].part = "header1"
    ELSE s # << >> /\ s[1] = [of |-> h, part |-> "payload1"]

FramedAfter(s, h) == Framed(s) /\ StartsAfter(s, h)

FrameInv ==
    /\ pipe.kind.whole => unsent = << >>
    /\ FramedAfter(Stream, hand)

LEMMA EmptyIsFramed == FramedAfter(<< >>, Nobody)
BY DEF FramedAfter, Framed, StartsAfter

\* The pieces of a frame, one by one.
LEMMA FourAre ==
    ASSUME NEW a, NEW b, NEW c, NEW d
    PROVE  /\ << a, b >> \o << c, d >> = << a, b, c, d >>
           /\ << a, b >> \o << >> = << a, b >>
<1>. DEFINE S == {a, b, c, d}
<1>1. PICK x, y, z : x = << a, b >> /\ y = << c, d >> /\ z = << a, b, c, d >>  OBVIOUS
<1>2. /\ x \in Seq(S) /\ y \in Seq(S) /\ z \in Seq(S)
      /\ Len(x) = 2 /\ Len(y) = 2 /\ Len(z) = 4
      /\ x[1] = a /\ x[2] = b /\ y[1] = c /\ y[2] = d
      /\ z[1] = a /\ z[2] = b /\ z[3] = c /\ z[4] = d
  BY <1>1
<1>. HIDE DEF S
<1>3. /\ x \o y \in Seq(S) /\ Len(x \o y) = 4
      /\ \A i \in 1 .. 4 : (x \o y)[i] = IF i <= 2 THEN x[i] ELSE y[i - 2]
  <2>1. PICK n : n = Len(x) + Len(y)  OBVIOUS
  <2>2. n = 4  BY <1>2, <2>1
  <2>3. PICK w : w = x \o y  OBVIOUS
  <2>4. /\ w \in Seq(S) /\ Len(w) = n
        /\ \A i \in 1 .. n : w[i] = IF i <= Len(x) THEN x[i] ELSE y[i - Len(x)]
    BY <1>2, <2>1, <2>3, ConcatProperties
  <2>. QED  BY ONLY <1>2, <2>2, <2>3, <2>4
<1>4. (x \o y)[1] = a /\ (x \o y)[2] = b /\ (x \o y)[3] = c /\ (x \o y)[4] = d
  BY <1>2, <1>3
<1>5. PICK w : w = x \o y  OBVIOUS
<1>6. \A i \in 1 .. 4 : w[i] = z[i]
  <2>1. w[1] = z[1] /\ w[2] = z[2] /\ w[3] = z[3] /\ w[4] = z[4]  BY <1>2, <1>4, <1>5
  <2>. QED  BY <2>1
<1>7. w = z  BY <1>2, <1>3, <1>5, <1>6, SeqEqual
<1>8. x \o << >> = x  BY <1>2, ConcatEmptySeq
<1>. QED  BY <1>1, <1>5, <1>7, <1>8

LEMMA PiecesAre ==
    ASSUME NEW f
    PROVE  IF f.payload = NoPayload
           THEN /\ Len(Pieces(f)) = 2
                /\ Pieces(f)[1] = [of |-> f, part |-> "header1"]
                /\ Pieces(f)[2] = [of |-> f, part |-> "header2"]
           ELSE /\ Len(Pieces(f)) = 4
                /\ Pieces(f)[1] = [of |-> f, part |-> "header1"]
                /\ Pieces(f)[2] = [of |-> f, part |-> "header2"]
                /\ Pieces(f)[3] = [of |-> f, part |-> "payload1"]
                /\ Pieces(f)[4] = [of |-> f, part |-> "payload2"]
<1>1. PICK a, b, c, d :
          /\ a = [of |-> f, part |-> "header1"] /\ b = [of |-> f, part |-> "header2"]
          /\ c = [of |-> f, part |-> "payload1"] /\ d = [of |-> f, part |-> "payload2"]
  OBVIOUS
<1>2. HeaderOf(f) = << a, b >>  BY <1>1 DEF HeaderOf
<1>3. PayloadOf(f) = IF f.payload = NoPayload THEN << >> ELSE << c, d >>
  BY <1>1 DEF PayloadOf
<1>4. CASE f.payload = NoPayload
  <2>1. Pieces(f) = << a, b >>  BY <1>2, <1>3, <1>4, FourAre DEF Pieces
  <2>. QED  BY <1>1, <1>4, <2>1
<1>5. CASE f.payload # NoPayload
  <2>1. Pieces(f) = << a, b, c, d >>  BY <1>2, <1>3, <1>5, FourAre DEF Pieces
  <2>. QED  BY <1>1, <1>5, <2>1
<1>. QED  BY <1>4, <1>5

LEMMA NotEmpty ==
    ASSUME NEW s, Len(s) # 0
    PROVE  s # << >>
OBVIOUS

\* A frame at the end.
LEMMA FrameIsAdded ==
    ASSUME NEW s \in Seq(Piece), NEW h \in Frames \cup {Nobody}, NEW f \in Frames,
           FramedAfter(s, h)
    PROVE  FramedAfter(s \o Pieces(f), h)
<1>. DEFINE t == Pieces(f)
<1>1. /\ t \in Seq(Piece) /\ t # << >> /\ t[1].part = "header1" /\ Framed(t)
      /\ Len(t) \in Nat
  <2>1. t \in Seq(Piece)  BY PiecesType
  <2>2. CASE f.payload = NoPayload
    <3>1. /\ Len(t) = 2 /\ t[1] = [of |-> f, part |-> "header1"]
          /\ t[2] = [of |-> f, part |-> "header2"]
      BY <2>2, PiecesAre
    <3>. HIDE DEF t
    <3>2. Framed(t)  BY <2>2, <3>1 DEF Framed, Follows, MayEnd
    <3>3. Len(t) # 0  BY <3>1
    <3>4. t # << >>  BY <3>3, NotEmpty
    <3>. QED  BY <2>1, <3>1, <3>2, <3>4
  <2>3. CASE f.payload # NoPayload
    <3>1. /\ Len(t) = 4 /\ t[1] = [of |-> f, part |-> "header1"]
          /\ t[2] = [of |-> f, part |-> "header2"]
          /\ t[3] = [of |-> f, part |-> "payload1"] /\ t[4] = [of |-> f, part |-> "payload2"]
      BY <2>3, PiecesAre
    <3>. HIDE DEF t
    <3>2. Framed(t)  BY <2>3, <3>1 DEF Framed, Follows, MayEnd
    <3>3. Len(t) # 0  BY <3>1
    <3>4. t # << >>  BY <3>3, NotEmpty
    <3>. QED  BY <2>1, <3>1, <3>2, <3>4
  <2>. QED  BY <2>2, <2>3
<1>. HIDE DEF t
<1>2. PICK u : u = s \o t  OBVIOUS
<1>3. PICK n \in Nat : n = Len(s)  BY LenProperties
<1>4. /\ Len(u) = n + Len(t) /\ u # << >> /\ Len(t) # 0
      /\ \A i \in 1 .. n : u[i] = s[i]
      /\ \A i \in n + 1 .. n + Len(t) : u[i] = t[i - n]
  <2>1. Len(t) # 0  BY <1>1, EmptySeq
  <2>2. u \in Seq(Piece) /\ Len(u) = n + Len(t)  BY <1>1, <1>2, <1>3, ConcatProperties
  <2>3. \A i \in 1 .. n + Len(t) : u[i] = IF i <= n THEN s[i] ELSE t[i - n]
    BY <1>1, <1>2, <1>3, ConcatProperties
  <2>4. u # << >>  BY <1>1, <1>3, <2>1, <2>2, EmptySeq
  <2>. QED  BY <1>1, <1>3, <2>1, <2>2, <2>3, <2>4
<1>5. u[n + 1] = t[1]  BY <1>1, <1>4
<1>6. Framed(u)
  <2>1. SUFFICES ASSUME NEW i \in 1 .. n + Len(t)
                 PROVE  IF i < n + Len(t) THEN Follows(u[i], u[i + 1]) ELSE MayEnd(u[i])
    BY <1>4 DEF Framed
  <2>2. CASE i < n
    <3>1. i \in 1 .. n /\ i + 1 \in 1 .. n  BY <1>3, <2>2
    <3>2. Follows(s[i], s[i + 1])  BY <1>3, <2>2, <3>1 DEF FramedAfter, Framed
    <3>. QED  BY <1>1, <1>3, <1>4, <2>2, <3>1, <3>2
  <2>3. CASE i = n
    <3>1. MayEnd(s[i])  BY <1>3, <2>3 DEF FramedAfter, Framed
    <3>2. Follows(s[i], t[1])  BY <1>1, <3>1 DEF MayEnd, Follows
    <3>3. u[i] = s[i] /\ i < n + Len(t)  BY <1>1, <1>3, <1>4, <2>3
    <3>. QED  BY <1>5, <2>3, <3>2, <3>3
  <2>4. CASE i > n
    <3>1. PICK j : j = i - n  OBVIOUS
    <3>2. j \in 1 .. Len(t) /\ i + 1 - n = j + 1 /\ i = n + j  BY <1>1, <1>3, <2>4, <3>1
    <3>3. IF j < Len(t) THEN Follows(t[j], t[j + 1]) ELSE MayEnd(t[j])
      BY <1>1, <3>2 DEF Framed
    <3>4. u[i] = t[j]  BY <1>1, <1>3, <1>4, <2>4, <3>1
    <3>5. j < Len(t) => u[i + 1] = t[j + 1]
      <4>1. j < Len(t) => i + 1 \in n + 1 .. n + Len(t)  BY <1>1, <1>3, <3>2
      <4>. QED  BY <1>4, <3>2, <4>1
    <3>6. i < n + Len(t) <=> j < Len(t)  BY <1>1, <1>3, <3>2
    <3>. QED  BY <3>3, <3>4, <3>5, <3>6
  <2>. QED  BY <1>3, <2>2, <2>3, <2>4
<1>7. StartsAfter(u, h)
  <2>1. CASE n = 0
    <3>1. s = << >>  BY <1>3, <2>1, EmptySeq
    <3>2. h = Nobody  BY <3>1 DEF FramedAfter, StartsAfter
    <3>. QED  BY <1>1, <1>5, <2>1, <3>2 DEF StartsAfter
  <2>2. CASE n # 0
    <3>1. u[1] = s[1] /\ s # << >>  BY <1>3, <1>4, <2>2, EmptySeq
    <3>. QED  BY <1>4, <3>1 DEF FramedAfter, StartsAfter
  <2>. QED  BY <2>1, <2>2
<1>. QED  BY <1>2, <1>6, <1>7 DEF FramedAfter, t

-----------------------------------------------------------------------------
(* A complete read takes two pieces. *)

Rest(s, t) == Len(s) = Len(t) + 2 /\ \A i \in 1 .. Len(t) : t[i] = s[i + 2]

LEMMA TwoAreTaken ==
    ASSUME NEW b \in Seq(Piece), NEW u \in Seq(Piece), Len(b) >= 2
    PROVE  /\ SubSeq(b, 3, Len(b)) \in Seq(Piece)
           /\ Rest(b, SubSeq(b, 3, Len(b)))
           /\ Rest(b \o u, SubSeq(b, 3, Len(b)) \o u)
           /\ (b \o u)[1] = b[1] /\ (b \o u)[2] = b[2]
<1>1. PICK n \in Nat : n = Len(b)  BY LenProperties
<1>2. PICK m \in Nat : m = Len(u)  BY LenProperties
<1>3. PICK r : r = SubSeq(b, 3, Len(b))  OBVIOUS
<1>4. \A i \in 3 .. n : b[i] \in Piece  BY <1>1, ElementOfSeq
<1>5. /\ r \in Seq(Piece) /\ Len(r) = n - 2
      /\ \A i \in 1 .. n - 2 : r[i] = b[i + 2]
  <2>1. /\ SubSeq(b, 3, n) \in Seq(Piece) /\ Len(SubSeq(b, 3, n)) = IF 3 <= n THEN n - 3 + 1 ELSE 0
        /\ \A i \in 1 .. n - 3 + 1 : SubSeq(b, 3, n)[i] = b[3 + i - 1]
    BY <1>4, SubSeqProperties
  <2>2. r \in Seq(Piece) /\ Len(r) = n - 2  BY <1>1, <1>3, <2>1
  <2>3. \A i \in 1 .. n - 2 : r[i] = b[3 + i - 1]  BY <1>1, <1>3, <2>1
  <2>4. ASSUME NEW i \in 1 .. n - 2 PROVE r[i] = b[i + 2]
    <3>1. PICK j : j = 3 + i - 1  OBVIOUS
    <3>2. j = i + 2  BY <1>1, <3>1
    <3>. QED  BY <2>3, <3>1, <3>2
  <2>. QED  BY <2>2, <2>4
<1>6. PICK s : s = b \o u  OBVIOUS
<1>7. PICK t : t = r \o u  OBVIOUS
<1>8. /\ Len(s) = n + m
      /\ \A i \in 1 .. n + m : s[i] = IF i <= n THEN b[i] ELSE u[i - n]
  BY <1>1, <1>2, <1>6, ConcatProperties
<1>9. PICK k \in Nat : k = n - 2  BY <1>1
<1>10. /\ Len(t) = k + m
       /\ \A i \in 1 .. k + m : t[i] = IF i <= k THEN r[i] ELSE u[i - k]
  <2>1. Len(r) = k  BY <1>5, <1>9
  <2>. QED  BY <1>2, <1>5, <1>7, <2>1, ConcatProperties
<1>11. Rest(b, r)  BY <1>1, <1>5 DEF Rest
<1>12. Len(s) = Len(t) + 2  BY <1>1, <1>8, <1>9, <1>10
<1>13. ASSUME NEW i \in 1 .. k + m PROVE t[i] = s[i + 2]
  <2>1. PICK j : j = i + 2  OBVIOUS
  <2>2. j \in 1 .. n + m  BY <1>9, <2>1
  <2>3. s[j] = IF j <= n THEN b[j] ELSE u[j - n]  BY <1>8, <2>2
  <2>4. CASE i <= k
    <3>1. j <= n /\ i \in 1 .. n - 2  BY <1>9, <2>1, <2>4
    <3>2. t[i] = r[i]  BY <1>10, <2>4
    <3>3. r[i] = b[j]  BY <1>5, <2>1, <3>1
    <3>. QED  BY <2>1, <2>3, <3>1, <3>2, <3>3
  <2>5. CASE i > k
    <3>1. ~ j <= n /\ j - n = i - k  BY <1>9, <2>1, <2>5
    <3>2. t[i] = u[i - k]  BY <1>10, <2>5
    <3>. QED  BY <2>1, <2>3, <3>1, <3>2
  <2>. QED  BY <1>9, <2>4, <2>5
<1>14. Rest(s, t)  BY <1>10, <1>12, <1>13 DEF Rest
<1>15. s[1] = b[1] /\ s[2] = b[2]
  <2>1. 1 \in 1 .. n + m /\ 2 \in 1 .. n + m /\ 1 <= n /\ 2 <= n  BY <1>1
  <2>. QED  BY <1>8, <2>1
<1>. QED  BY <1>3, <1>5, <1>6, <1>7, <1>11, <1>14, <1>15

\* What follows the second piece starts what is left.
LEMMA RestIsFramed ==
    ASSUME NEW s \in Seq(Piece), NEW t \in Seq(Piece), Framed(s), Rest(s, t)
    PROVE  /\ Framed(t) /\ Follows(s[1], s[2])
           /\ IF t = << >> THEN MayEnd(s[2]) ELSE Follows(s[2], t[1])
<1>1. PICK k \in Nat : k = Len(t)  BY LenProperties
<1>2. Len(s) = k + 2 /\ \A i \in 1 .. k : t[i] = s[i + 2]  BY <1>1 DEF Rest
<1>3. \A i \in 1 .. k + 2 : IF i < k + 2 THEN Follows(s[i], s[i + 1]) ELSE MayEnd(s[i])
  BY <1>2 DEF Framed
<1>4. Follows(s[1], s[2])
  <2>1. 1 \in 1 .. k + 2 /\ 1 < k + 2  OBVIOUS
  <2>2. Follows(s[1], s[1 + 1])  BY <1>3, <2>1
  <2>. QED  BY <2>2
<1>5. IF k = 0 THEN MayEnd(s[2]) ELSE Follows(s[2], t[1])
  <2>1. CASE k = 0
    <3>1. 2 \in 1 .. k + 2 /\ ~ 2 < k + 2  BY <2>1
    <3>. QED  BY <1>3, <2>1, <3>1
  <2>2. CASE k # 0
    <3>1. 2 \in 1 .. k + 2 /\ 2 < k + 2 /\ 1 \in 1 .. k  BY <2>2
    <3>2. Follows(s[2], s[2 + 1])  BY <1>3, <3>1
    <3>3. t[1] = s[1 + 2]  BY <1>2, <3>1
    <3>4. PICK x : x = t[1]  OBVIOUS
    <3>5. x = s[3]  BY <3>3, <3>4
    <3>6. Follows(s[2], s[3])  BY <3>2
    <3>. QED  BY <2>2, <3>4, <3>5, <3>6
  <2>. QED  BY <2>1, <2>2
<1>6. Framed(t)
  <2>1. SUFFICES ASSUME NEW i \in 1 .. k
                 PROVE  IF i < k THEN Follows(t[i], t[i + 1]) ELSE MayEnd(t[i])
    BY <1>1 DEF Framed
  <2>2. PICK j : j = i + 2  OBVIOUS
  <2>3. PICK i1 : i1 = i + 1  OBVIOUS
  <2>4. j \in 1 .. k + 2 /\ (j < k + 2 <=> i < k)  BY <2>2
  <2>5. IF j < k + 2 THEN Follows(s[j], s[j + 1]) ELSE MayEnd(s[j])  BY <1>3, <2>4
  <2>6. t[i] = s[j]  BY <1>2, <2>2
  <2>7. i < k => t[i1] = s[j + 1]
    <3>1. i < k => i1 \in 1 .. k /\ i1 + 2 = j + 1  BY <2>2, <2>3
    <3>2. i < k => t[i1] = s[i1 + 2]  BY <1>2, <3>1
    <3>. QED  BY <3>1, <3>2
  <2>. QED  BY <2>3, <2>4, <2>5, <2>6, <2>7
<1>7. t = << >> <=> k = 0  BY <1>1, EmptySeq
<1>. QED  BY <1>4, <1>5, <1>6, <1>7

PieceOf(f, p) == [of |-> f, part |-> p]

\* The header of a frame is taken, and the payload comes next, if there is one.
LEMMA HeaderIsTaken ==
    ASSUME NEW s \in Seq(Piece), NEW t \in Seq(Piece), FramedAfter(s, Nobody), Rest(s, t)
    PROVE  \E f \in Frames :
               /\ s[1] = PieceOf(f, "header1") /\ s[2] = PieceOf(f, "header2")
               /\ FramedAfter(t, IF f.payload = NoPayload THEN Nobody ELSE f)
<1>1. Framed(s)  BY DEF FramedAfter
<1>2. Len(s) # 0  BY LenProperties DEF Rest
<1>3. s # << >>  BY <1>2, NotEmpty
<1>4. s[1] \in Piece  BY <1>2, <1>3, EmptySeq, ElementOfSeq
<1>5. s[1].part = "header1"  BY <1>3 DEF FramedAfter, StartsAfter
<1>6. PICK f \in Frames : s[1] = [of |-> f, part |-> "header1"]  BY <1>4, <1>5 DEF Piece
<1>7. /\ Framed(t) /\ Follows(s[1], s[2])
      /\ IF t = << >> THEN MayEnd(s[2]) ELSE Follows(s[2], t[1])
  BY <1>1, RestIsFramed
<1>8. s[2] = [of |-> f, part |-> "header2"]  BY <1>6, <1>7 DEF Follows
<1>9. CASE f.payload = NoPayload
  <2>1. t # << >> => t[1].part = "header1"  BY <1>7, <1>8, <1>9 DEF Follows
  <2>. QED  BY <1>6, <1>7, <1>8, <1>9, <2>1 DEF FramedAfter, StartsAfter, PieceOf
<1>10. CASE f.payload # NoPayload
  <2>1. t # << >>  BY <1>7, <1>8, <1>10 DEF MayEnd
  <2>2. t[1] = [of |-> f, part |-> "payload1"]  BY <1>7, <1>8, <1>10, <2>1 DEF Follows
  <2>. QED
    BY <1>6, <1>7, <1>8, <1>10, <2>1, <2>2, Values DEF FramedAfter, StartsAfter, PieceOf
<1>. QED  BY <1>9, <1>10

\* The payload is taken, and a header comes next.
LEMMA PayloadIsTaken ==
    ASSUME NEW s \in Seq(Piece), NEW t \in Seq(Piece), NEW f \in Frames,
           FramedAfter(s, f), Rest(s, t)
    PROVE  /\ s[1] = PieceOf(f, "payload1") /\ s[2] = PieceOf(f, "payload2")
           /\ FramedAfter(t, Nobody)
<1>1. Framed(s) /\ s[1] = [of |-> f, part |-> "payload1"]
  BY Values DEF FramedAfter, StartsAfter
<1>2. /\ Framed(t) /\ Follows(s[1], s[2])
      /\ IF t = << >> THEN MayEnd(s[2]) ELSE Follows(s[2], t[1])
  BY <1>1, RestIsFramed
<1>3. s[2] = [of |-> f, part |-> "payload2"]  BY <1>1, <1>2 DEF Follows
<1>4. t # << >> => t[1].part = "header1"  BY <1>2, <1>3 DEF Follows
<1>. QED  BY <1>1, <1>2, <1>3, <1>4 DEF FramedAfter, StartsAfter, PieceOf

\* A piece alone is not a frame.
LEMMA OneIsNotFramed ==
    ASSUME NEW s, FramedAfter(s, Nobody), s # << >>
    PROVE  Len(s) # 1
<1>1. SUFFICES ASSUME Len(s) = 1 PROVE FALSE  OBVIOUS
<1>2. 1 \in 1 .. Len(s) /\ ~ 1 < Len(s)  BY <1>1
<1>3. MayEnd(s[1])  BY <1>2 DEF FramedAfter, Framed
<1>4. s[1].part = "header1"  BY DEF FramedAfter, StartsAfter
<1>. QED  BY <1>3, <1>4 DEF MayEnd

-----------------------------------------------------------------------------
(* The steps. *)

LEMMA SessionTypes ==
    ASSUME Session
    PROVE  /\ pipe \in Pipes /\ pipe.bytes \in Seq(Piece) /\ unsent \in Seq(Piece)
           /\ hand \in Frames \cup {Nobody} /\ Len(pipe.bytes) \in Nat
           /\ pipe.kind \in Kinds
BY LenProperties DEF Session, ConnectionType, Pipes

\* A pipe that is closed.
LEMMA CloseKeepsFrames ==
    ASSUME Session, pipe' = ShutPipe, unsent' = << >>, hand' = Nobody
    PROVE  FrameInv'
<1>1. pipe'.bytes = << >>  BY ShutPipeIs, SessionTypes
<1>2. Stream' = << >>  BY <1>1, EmptySeq, ConcatEmptySeq DEF Stream
<1>. QED  BY <1>2, EmptyIsFramed DEF FrameInv

\* What is left after a complete read: in FrameInv, of a pipe whose pieces
\* are taken.
LEMMA WhatIsLeft ==
    ASSUME Session, FrameInv, ReadsAll, UNCHANGED unsent, pipe' = Unconsumed
    PROVE  /\ Stream \in Seq(Piece) /\ Stream' \in Seq(Piece) /\ Rest(Stream, Stream')
           /\ pipe'.kind.whole => unsent' = << >>
           /\ Stream[1] = pipe.bytes[1] /\ Stream[2] = pipe.bytes[2]
<1>1. pipe'.bytes = SubSeq(pipe.bytes, 3, Len(pipe.bytes)) /\ pipe'.kind = pipe.kind
  BY UnconsumedIs
<1>2. Len(pipe.bytes) >= 2  BY DEF ReadsAll, Available
<1>3. SubSeq(pipe.bytes, 3, Len(pipe.bytes)) \in Seq(Piece)
  BY <1>2, SessionTypes, TwoAreTaken
<1>4. Stream \in Seq(Piece)  BY SessionTypes, ConcatProperties DEF Stream
<1>5. Stream' = SubSeq(pipe.bytes, 3, Len(pipe.bytes)) \o unsent  BY <1>1 DEF Stream
<1>6. Stream' \in Seq(Piece)  BY <1>3, <1>5, SessionTypes, ConcatProperties
<1>7. Rest(Stream, Stream') /\ Stream[1] = pipe.bytes[1] /\ Stream[2] = pipe.bytes[2]
  BY <1>2, <1>5, SessionTypes, TwoAreTaken DEF Stream
<1>8. pipe'.kind.whole => unsent' = << >>  BY <1>1 DEF FrameInv
<1>. QED  BY <1>4, <1>6, <1>7, <1>8

\* A header in the pipe is read as that of the frame it belongs to.
LEMMA HeaderIsRight ==
    ASSUME Session, FrameInv, pc = "header", ReadsAll,
           NEW f \in FramesReadAs(SubSeq(pipe.bytes, 1, 2))
    PROVE  /\ f \in Frames
           /\ pipe.bytes[1] = PieceOf(f, "header1") /\ pipe.bytes[2] = PieceOf(f, "header2")
<1>1. PICK b \in Seq(Piece) : b = pipe.bytes  BY SessionTypes
<1>2. Len(b) \in Nat /\ Len(b) >= 2  BY <1>1, LenProperties DEF ReadsAll, Available
<1>3. PICK r \in Seq(Piece) : r = SubSeq(b, 3, Len(b))  BY <1>2, TwoAreTaken
<1>4. hand = Nobody  BY DEF Session, Places
<1>5. /\ Stream \in Seq(Piece) /\ Rest(Stream, r \o unsent)
      /\ Stream[1] = b[1] /\ Stream[2] = b[2] /\ r \o unsent \in Seq(Piece)
  BY <1>1, <1>2, <1>3, SessionTypes, TwoAreTaken, ConcatProperties DEF Stream
<1>6. FramedAfter(Stream, Nobody)  BY <1>4 DEF FrameInv
<1>7. PICK g \in Frames :
          Stream[1] = PieceOf(g, "header1") /\ Stream[2] = PieceOf(g, "header2")
  BY <1>5, <1>6, HeaderIsTaken
<1>8. b[1] = PieceOf(g, "header1") /\ b[2] = PieceOf(g, "header2")  BY <1>5, <1>7
<1>9. SubSeq(b, 1, 2) = HeaderOf(g)
  <2>1. PICK x : x = SubSeq(b, 1, 2)  OBVIOUS
  <2>2. PICK y : y = HeaderOf(g)  OBVIOUS
  <2>3. \A i \in 1 .. 2 : b[i] \in Piece  BY <1>2, ElementOfSeq
  <2>4. /\ SubSeq(b, 1, 2) \in Seq(Piece)
        /\ Len(SubSeq(b, 1, 2)) = IF 1 <= 2 THEN 2 - 1 + 1 ELSE 0
        /\ \A i \in 1 .. 2 - 1 + 1 : SubSeq(b, 1, 2)[i] = b[1 + i - 1]
    BY <2>3, SubSeqProperties
  <2>5. x \in Seq(Piece) /\ Len(x) = 2  BY <2>1, <2>4
  <2>6. x[1] = b[1] /\ x[2] = b[2]
    <3>1. \A i \in 1 .. 2 - 1 + 1 : x[i] = b[1 + i - 1]  BY <2>1, <2>4
    <3>2. x[1] = b[1 + 1 - 1] /\ x[2] = b[1 + 2 - 1]  BY <3>1
    <3>. QED  BY <3>2
  <2>7. y \in Seq(Piece) /\ Len(y) = 2 /\ y[1] = b[1] /\ y[2] = b[2]
    BY <1>8, <2>2, <2>3 DEF HeaderOf, PieceOf
  <2>8. \A i \in 1 .. 2 : x[i] = y[i]
    <3>1. x[1] = y[1] /\ x[2] = y[2]  BY <2>6, <2>7
    <3>. QED  BY <3>1
  <2>. QED  BY <2>1, <2>2, <2>5, <2>7, <2>8, SeqEqual
<1>10. HeaderOf(g)[1].of = g  BY DEF HeaderOf
<1>11. f = g  BY <1>1, <1>9, <1>10 DEF FramesReadAs
<1>. QED  BY <1>1, <1>8, <1>11

\* A step that does not touch the stream.
LEMMA FramesRest ==
    ASSUME FrameInv, pipe'.bytes = pipe.bytes, pipe'.kind = pipe.kind, UNCHANGED <<unsent, hand>>
    PROVE  FrameInv'
BY DEF FrameInv, Stream

\* A complete frame leaves what follows it, or a closed pipe.
LEMMA DispatchLeaves ==
    ASSUME NEW f, NEW left, Dispatch(f, left)
    PROVE  /\ hand' = Nobody
           /\ \/ pipe' = left /\ UNCHANGED unsent
              \/ pipe' = ShutPipe /\ unsent' = << >>
BY DEF Dispatch, ReturnMessage, AnswerPing, Close

LEMMA OpeningKeepsFrames ==
    ASSUME Session, Searching, FrameInv, Opening
    PROVE  FrameInv'
<1>. USE SessionTypes DEF Pipes
<1>1. CASE StartSearch \/ SearchGoesOn \/ SearchSucceeds
  <2>1. pipe'.bytes = pipe.bytes /\ pipe'.kind = pipe.kind /\ UNCHANGED <<unsent, hand>>
    BY <1>1 DEF StartSearch, SearchGoesOn, SearchSucceeds
  <2>. QED  BY <2>1, FramesRest
<1>2. CASE SearchFails \/ SearchTimesOut
  <2>1. pipe' = ShutPipe /\ UNCHANGED <<unsent, hand>> /\ name # Nowhere
    BY <1>2 DEF SearchFails, SearchTimesOut, SearchEndsWith, Search!GiveUp, Search!TimesOut,
                Search!Passes
  <2>2. pc = "search"  BY <2>1 DEF Searching, SearchType
  <2>3. unsent = << >> /\ hand = Nobody  BY <2>2 DEF Session, Places
  <2>. QED  BY <2>1, <2>3, CloseKeepsFrames
<1>3. CASE SendHandshake
  <2>1. hand = Nobody /\ hand' = hand
    BY <1>3 DEF SendHandshake, Session, Places
  <2>2. CASE Close(lastError)  BY <2>1, <2>2, CloseKeepsFrames DEF Close
  <2>3. CASE UNCHANGED <<pipe, unsent>>  BY <2>1, <2>3, FramesRest
  <2>. QED  BY <1>3, <2>2, <2>3 DEF SendHandshake
<1>. QED  BY <1>1, <1>2, <1>3 DEF Opening

LEMMA HeaderKeepsFrames ==
    ASSUME Session, FrameInv, ReadHeader
    PROVE  FrameInv'
<1>1. pc = "header" /\ ReadsAll /\ hand = Nobody  BY DEF ReadHeader, Session, Places
<1>2. PICK f \in FramesReadAs(SubSeq(pipe.bytes, 1, 2)) :
          IF f.payload = NoPayload
          THEN Dispatch(f, Unconsumed)
          ELSE /\ hand' = f /\ pc' = "payload" /\ pipe' = Unconsumed
               /\ UNCHANGED <<state, lastError, unsent, got, announced>>
  BY DEF ReadHeader
<1>3. /\ f \in Frames
      /\ pipe.bytes[1] = PieceOf(f, "header1") /\ pipe.bytes[2] = PieceOf(f, "header2")
  BY <1>1, HeaderIsRight
<1>4. CASE pipe' = ShutPipe /\ unsent' = << >> /\ hand' = Nobody
  BY <1>4, CloseKeepsFrames
<1>5. CASE pipe' = Unconsumed /\ UNCHANGED unsent
           /\ hand' = IF f.payload = NoPayload THEN Nobody ELSE f
  <2>1. /\ Stream \in Seq(Piece) /\ Stream' \in Seq(Piece) /\ Rest(Stream, Stream')
        /\ pipe'.kind.whole => unsent' = << >>
        /\ Stream[1] = pipe.bytes[1]
    BY <1>1, <1>5, WhatIsLeft
  <2>2. FramedAfter(Stream, Nobody)  BY <1>1 DEF FrameInv
  <2>3. PICK g \in Frames :
            /\ Stream[1] = PieceOf(g, "header1")
            /\ FramedAfter(Stream', IF g.payload = NoPayload THEN Nobody ELSE g)
    BY <2>1, <2>2, HeaderIsTaken
  <2>4. g = f  BY <1>3, <2>1, <2>3 DEF PieceOf
  <2>. QED  BY <1>5, <2>1, <2>3, <2>4 DEF FrameInv
<1>6. CASE f.payload = NoPayload  BY <1>2, <1>4, <1>5, <1>6, DispatchLeaves
<1>7. CASE f.payload # NoPayload  BY <1>2, <1>5, <1>7
<1>. QED  BY <1>6, <1>7

LEMMA PayloadKeepsFrames ==
    ASSUME Session, FrameInv, ReadPayload
    PROVE  FrameInv'
<1>1. pc = "payload" /\ ReadsAll /\ hand \in Frames /\ Dispatch(hand, Unconsumed)
  BY DEF ReadPayload, Session, Places
<1>2. CASE pipe' = ShutPipe /\ unsent' = << >> /\ hand' = Nobody
  BY <1>2, CloseKeepsFrames
<1>3. CASE pipe' = Unconsumed /\ UNCHANGED unsent /\ hand' = Nobody
  <2>1. /\ Stream \in Seq(Piece) /\ Stream' \in Seq(Piece) /\ Rest(Stream, Stream')
        /\ pipe'.kind.whole => unsent' = << >>
    BY <1>1, <1>3, WhatIsLeft
  <2>2. FramedAfter(Stream, hand)  BY DEF FrameInv
  <2>3. FramedAfter(Stream', Nobody)  BY <1>1, <2>1, <2>2, PayloadIsTaken
  <2>. QED  BY <1>3, <2>1, <2>3 DEF FrameInv
<1>. QED  BY <1>1, <1>2, <1>3, DispatchLeaves

LEMMA NothingKeepsFrames ==
    ASSUME NeverShort \/ ~ ShortHeader, Session, FrameInv, ReadNothing
    PROVE  FrameInv' /\ pipe' = pipe
<1>1. /\ pc = "header" /\ hand = Nobody /\ ReadsShort
      /\ pipe' = [pipe EXCEPT !.bytes = Leftover] /\ UNCHANGED <<unsent, hand>>
  BY DEF ReadNothing, Session, Places
<1>2. Leftover = pipe.bytes
  <2>1. CASE pipe.kind.transport = "unix" /\ NeverShort
    <3>1. unsent = << >>  BY <2>1 DEF NeverShort, FrameInv
    <3>2. Stream = pipe.bytes  BY <3>1, SessionTypes, ConcatEmptySeq DEF Stream
    <3>3. FramedAfter(pipe.bytes, Nobody)  BY <1>1, <3>2 DEF FrameInv
    <3>4. Len(pipe.bytes) \in {0, 1}  BY <1>1 DEF ReadsShort, Available
    <3>5. pipe.bytes = << >>
      <4>1. SUFFICES ASSUME pipe.bytes # << >> PROVE FALSE  OBVIOUS
      <4>2. Len(pipe.bytes) # 1  BY <3>3, <4>1, OneIsNotFramed
      <4>3. Len(pipe.bytes) # 0  BY <4>1, SessionTypes, EmptySeq
      <4>. QED  BY <3>4, <4>2, <4>3
    <3>. QED  BY <2>1, <3>5 DEF Leftover
  <2>2. CASE pipe.kind.transport = "unix" /\ ~ ShortHeader
    <3>1. Len(pipe.bytes) = 0  BY <1>1, <2>2 DEF ShortHeader, ReadsShort, Available
    <3>2. pipe.bytes = << >>  BY <3>1, SessionTypes, EmptySeq
    <3>. QED  BY <2>2, <3>2 DEF Leftover
  <2>3. CASE pipe.kind.transport # "unix"  BY <2>3 DEF Leftover
  <2>. QED  BY <2>1, <2>2, <2>3
<1>3. pipe' = pipe  BY <1>1, <1>2, SessionTypes DEF Pipes
<1>. QED  BY <1>1, <1>3, FramesRest

LEMMA ReadingKeepsFrames ==
    ASSUME NeverShort \/ ~ ShortHeader, Session, FrameInv, Reading
    PROVE  FrameInv'
<1>1. CASE CallRead  BY <1>1, FramesRest DEF CallRead
<1>2. CASE ReadPipeClosed
  BY <1>2, CloseKeepsFrames DEF ReadPipeClosed, Close, Session, Places
<1>3. CASE ReadPartial  BY <1>3, CloseKeepsFrames DEF ReadPartial, Close
<1>. QED
  BY <1>1, <1>2, <1>3, HeaderKeepsFrames, PayloadKeepsFrames, NothingKeepsFrames DEF Reading

LEMMA HeadIsFirst ==
    ASSUME NEW S, NEW s, s \in Seq(S), s # << >>
    PROVE  s = << Head(s) >> \o Tail(s)
<1>1. Len(s) \in Nat /\ Len(s) # 0 /\ 1 \in 1 .. Len(s)  BY EmptySeq
<1>2. SubSeq(s, 1, Len(s)) = << s[1] >> \o SubSeq(s, 1 + 1, Len(s))
  BY <1>1, SubSeqRecursiveFirst
<1>3. SubSeq(s, 1, Len(s)) = s  BY SubSeqFull
<1>4. Tail(s) = SubSeq(s, 2, Len(s)) /\ Head(s) = s[1]  BY TailIsSubSeq
<1>. QED  BY <1>2, <1>3, <1>4

LEMMA PeerKeepsFrames ==
    ASSUME Session, FrameInv, Peer
    PROVE  FrameInv'
<1>1. ASSUME NEW f \in Frames, PeerSends(f) PROVE FrameInv'
  <2>1. unsent = << >> /\ hand' = hand  BY <1>1 DEF PeerSends
  <2>2. Stream = pipe.bytes  BY <2>1, SessionTypes, ConcatEmptySeq DEF Stream
  <2>3. Pieces(f) \in Seq(Piece)  BY PiecesType
  <2>4. FramedAfter(pipe.bytes \o Pieces(f), hand)
    BY <2>2, SessionTypes, FrameIsAdded DEF FrameInv
  <2>5. CASE pipe.kind.whole
    <3>1. pipe' = [pipe EXCEPT !.bytes = pipe.bytes \o Pieces(f)] /\ unsent' = << >>
      BY <1>1, <2>1, <2>5 DEF PeerSends
    <3>2. pipe'.bytes = pipe.bytes \o Pieces(f)  BY <3>1, SessionTypes DEF Pipes
    <3>3. pipe.bytes \o Pieces(f) \in Seq(Piece)  BY <2>3, SessionTypes, ConcatProperties
    <3>4. Stream' = pipe.bytes \o Pieces(f)  BY <3>1, <3>2, <3>3, ConcatEmptySeq DEF Stream
    <3>. QED  BY <2>1, <2>4, <3>1, <3>4 DEF FrameInv
  <2>6. CASE ~ pipe.kind.whole
    <3>1. pipe' = pipe /\ unsent' = Pieces(f)  BY <1>1, <2>6 DEF PeerSends
    <3>2. Stream' = pipe.bytes \o Pieces(f)  BY <3>1 DEF Stream
    <3>. QED  BY <2>1, <2>4, <2>6, <3>1, <3>2 DEF FrameInv
  <2>. QED  BY <2>5, <2>6
<1>2. CASE PeerWritesPiece
  <2>1. PICK p, q : p = Head(unsent) /\ q = Tail(unsent)  OBVIOUS
  <2>2. unsent # << >> /\ hand' = hand /\ unsent' = q
        /\ pipe' = [pipe EXCEPT !.bytes = Append(pipe.bytes, p)]
    BY <1>2, <2>1 DEF PeerWritesPiece
  <2>3. pipe'.bytes = Append(pipe.bytes, p) /\ pipe'.kind = pipe.kind
    BY <2>2, SessionTypes DEF Pipes
  <2>4. p \in Piece /\ q \in Seq(Piece)  BY <2>1, <2>2, SessionTypes, HeadTailProperties
  <2>5. unsent = << p >> \o q
    BY <2>1, <2>2, <2>4, SessionTypes, HeadIsFirst
  <2>6. Append(pipe.bytes, p) \o q = pipe.bytes \o unsent
    <3>1. PICK o : o = << p >>  OBVIOUS
    <3>2. o \in Seq(Piece)  BY <2>4, <3>1
    <3>3. Append(pipe.bytes, p) = pipe.bytes \o o  BY <2>4, <3>1, SessionTypes, AppendIsConcat
    <3>4. PICK b : b = pipe.bytes  OBVIOUS
    <3>5. b \in Seq(Piece)  BY <3>4, SessionTypes
    <3>6. (b \o o) \o q = b \o (o \o q)  BY <2>4, <3>2, <3>5, Associative
    <3>. QED  BY <2>5, <3>1, <3>3, <3>4, <3>6
  <2>7. Stream' = Stream  BY <2>2, <2>3, <2>6 DEF Stream
  <2>8. ~ pipe.kind.whole  BY <2>2 DEF FrameInv
  <2>. QED  BY <2>2, <2>3, <2>7, <2>8 DEF FrameInv
<1>3. CASE PeerCloses
  <2>1. pipe'.bytes = pipe.bytes /\ pipe'.kind = pipe.kind /\ UNCHANGED <<unsent, hand>>
    BY <1>3, SessionTypes DEF PeerCloses, Pipes
  <2>. QED  BY <2>1, FramesRest
<1>4. CASE ClientChanges  BY <1>4, FramesRest DEF ClientChanges
<1>. QED  BY <1>1, <1>2, <1>3, <1>4 DEF Peer

-----------------------------------------------------------------------------
(* The stream stays aligned. *)

FullInv == ConnInv /\ FrameInv

LEMMA FullInvInitially == Init => FullInv
<1>. SUFFICES ASSUME Init PROVE FullInv  OBVIOUS
<1>1. ConnInv  BY ConnInvInitially
<1>2. pipe.bytes = << >> /\ unsent = << >> /\ hand = Nobody  BY DEF Init
<1>3. Stream = << >>  BY <1>2, EmptySeq, ConcatEmptySeq DEF Stream
<1>. QED  BY <1>1, <1>2, <1>3, EmptyIsFramed DEF FullInv, FrameInv

LEMMA FullInvIsInductive ==
    ASSUME FullInv, [Next]_vars, NeverShort \/ ~ ShortHeader
    PROVE  FullInv'
<1>1. ConnInv'  BY ConnInvIsInductive DEF FullInv
<1>2. Session /\ Searching /\ FrameInv  BY DEF FullInv, ConnInv
<1>3. CASE Opening  BY <1>1, <1>2, <1>3, OpeningKeepsFrames DEF FullInv
<1>4. CASE Reading  BY <1>1, <1>2, <1>4, ReadingKeepsFrames DEF FullInv
<1>5. CASE WriteFails
  <2>1. pipe' = ShutPipe /\ unsent' = << >> /\ hand' = Nobody
    BY <1>2, <1>5 DEF WriteFails, Close, Session, Places
  <2>. QED  BY <1>1, <1>2, <2>1, CloseKeepsFrames DEF FullInv
<1>6. CASE Peer  BY <1>1, <1>2, <1>6, PeerKeepsFrames DEF FullInv
<1>7. CASE UNCHANGED vars  BY <1>1, <1>2, <1>7, FramesRest DEF FullInv, vars
<1>. QED  BY <1>3, <1>4, <1>5, <1>6, <1>7 DEF Next

\* A step that changes nothing is no short read.
LEMMA StutterIsNotShort == UNCHANGED vars => ~ ShortHeader
BY DEF vars, ShortHeader, ReadNothing

\* The stream is whole frames, but for the header that has been read.
THEOREM StreamInvariant == Spec /\ [][~ ShortHeader]_vars => []FullInv
<1>1. FullInv /\ [Next]_vars /\ [~ ShortHeader]_vars => FullInv'
  BY FullInvIsInductive, StutterIsNotShort
<1>. QED  BY <1>1, FullInvInitially, PTL DEF Spec

LEMMA FramedIsAligned == FullInv => Aligned
<1>. SUFFICES ASSUME FullInv, pc # "payload", pipe.bytes # << >>
              PROVE  pipe.bytes[1].part = "header1"
  BY DEF Aligned
<1>1. Session /\ hand = Nobody  BY DEF FullInv, ConnInv, Session, Places
<1>2. PICK b \in Seq(Piece) : b = pipe.bytes  BY <1>1, SessionTypes
<1>3. unsent \in Seq(Piece)  BY <1>1, SessionTypes
<1>4. Len(b) \in Nat /\ Len(b) # 0 /\ Len(unsent) \in Nat  BY <1>2, <1>3, EmptySeq, LenProperties
<1>5. /\ Stream \in Seq(Piece) /\ Len(Stream) = Len(b) + Len(unsent)
      /\ \A i \in 1 .. Len(b) + Len(unsent) :
             Stream[i] = IF i <= Len(b) THEN b[i] ELSE unsent[i - Len(b)]
  BY <1>2, <1>3, ConcatProperties DEF Stream
<1>6. Stream[1] = b[1] /\ Len(Stream) # 0
  <2>1. 1 \in 1 .. Len(b) + Len(unsent) /\ 1 <= Len(b)  BY <1>4
  <2>. QED  BY <1>4, <1>5, <2>1
<1>7. Stream # << >>  BY <1>6, NotEmpty
<1>. QED  BY <1>1, <1>2, <1>6, <1>7 DEF FullInv, FrameInv, FramedAfter, StartsAfter

\* As long as no recv gets part of a header, on either platform and however
\* the client writes its frames, the stream stands at the start of a frame
\* between two calls of Read.
THEOREM StreamStaysAligned == Spec /\ [][~ ShortHeader]_vars => []Aligned
BY StreamInvariant, FramedIsAligned, PTL

\* A pipe keeps its kind.
LEMMA KindStays ==
    ASSUME Session, [Next]_vars
    PROVE  pipe'.kind = pipe.kind
<1>. USE SessionTypes, ShutPipeIs, UnconsumedIs DEF Pipes
<1>1. CASE Opening
  BY <1>1 DEF Opening, StartSearch, SearchGoesOn, SearchSucceeds, SearchFails, SearchTimesOut,
              SearchEndsWith, SendHandshake, Close
<1>2. CASE Reading
  <2>1. CASE ReadHeader
    BY <2>1 DEF ReadHeader, Dispatch, ReturnMessage, AnswerPing, Close
  <2>2. CASE ReadPayload
    BY <2>2 DEF ReadPayload, Dispatch, ReturnMessage, AnswerPing, Close
  <2>. QED
    BY <1>2, <2>1, <2>2 DEF Reading, CallRead, ReadNothing, ReadPipeClosed, ReadPartial, Close
<1>3. CASE WriteFails  BY <1>3 DEF WriteFails, Close
<1>4. CASE Peer
  BY <1>4 DEF Peer, PeerSends, PeerWritesPiece, PeerCloses, ClientChanges
<1>5. CASE UNCHANGED vars  BY <1>5 DEF vars
<1>. QED  BY <1>1, <1>2, <1>3, <1>4, <1>5 DEF Next

\* On a Windows pipe, however the client writes its frames, and on a Unix
\* socket whose client writes each frame whole, the stream stands at the
\* start of a frame between two calls of Read.
THEOREM PipesNeverShortStayAligned == Spec => [](NeverShort => Aligned)
<1>. DEFINE KeptInv == ConnInv /\ (NeverShort => FullInv)
<1>1. Init => KeptInv  BY ConnInvInitially, FullInvInitially
<1>2. KeptInv /\ [Next]_vars => KeptInv'
  <2>. SUFFICES ASSUME KeptInv, [Next]_vars PROVE KeptInv'  OBVIOUS
  <2>1. ConnInv'  BY ConnInvIsInductive
  <2>2. NeverShort' => NeverShort  BY KindStays DEF ConnInv, NeverShort
  <2>. QED  BY <2>1, <2>2, FullInvIsInductive
<1>3. KeptInv => (NeverShort => Aligned)  BY FramedIsAligned
<1>. QED  BY <1>1, <1>2, <1>3, PTL DEF Spec

-----------------------------------------------------------------------------
(* The messages that pieces carry. *)

Burden(s) == [k \in 1 .. Len(s) |-> Carried(s[k])]

LEMMA CarriedType ==
    ASSUME NEW p \in Piece
    PROVE  Carried(p) \in Seq(Messages)
<1>1. p.of \in Frames  BY DEF Piece
<1>2. CASE p.part = "header1" /\ p.of.op = "Frame"
  <2>1. PICK m : m = p.of.payload  OBVIOUS
  <2>2. m \in Messages  BY <1>1, <1>2, <2>1, Values
  <2>3. Carried(p) = << m >>  BY <1>2, <2>1 DEF Carried
  <2>. QED  BY <2>2, <2>3
<1>3. CASE ~ (p.part = "header1" /\ p.of.op = "Frame")  BY <1>3, EmptySeq DEF Carried
<1>. QED  BY <1>2, <1>3

LEMMA BurdenType ==
    ASSUME NEW s \in Seq(Piece)
    PROVE  /\ Burden(s) \in Seq(Seq(Messages)) /\ Len(Burden(s)) = Len(s)
           /\ \A k \in 1 .. Len(s) : Burden(s)[k] = Carried(s[k])
<1>1. Len(s) \in Nat  BY LenProperties
<1>2. \A k \in 1 .. Len(s) : Carried(s[k]) \in Seq(Messages)  BY ElementOfSeq, CarriedType
<1>3. Burden(s) \in Seq(Seq(Messages))
  <2>. DEFINE e(k) == Carried(s[k])
  <2>1. \A k \in 1 .. Len(s) : e(k) \in Seq(Messages)  BY <1>2
  <2>. HIDE DEF e
  <2>2. [k \in 1 .. Len(s) |-> e(k)] \in Seq(Seq(Messages))  BY <1>1, <2>1, IsASeq
  <2>. QED  BY <2>2 DEF e, Burden
<1>4. Len(Burden(s)) = Len(s)  BY <1>1 DEF Burden
<1>. QED  BY <1>3, <1>4 DEF Burden

LEMMA CarriesType ==
    ASSUME NEW s \in Seq(Piece)
    PROVE  Carries(s) \in Seq(Messages)
BY BurdenType, FlattenType DEF Carries, Burden

LEMMA CarriesNothing == Carries(<< >>) = << >>
<1>1. Burden(<< >>) = << >>  BY DEF Burden
<1>2. Carries(<< >>) = FlattenSeq(Burden(<< >>))  BY DEF Carries, Burden
<1>3. Len(<< >>) = 0  OBVIOUS
<1>. QED  BY <1>1, <1>2, <1>3 DEF FlattenSeq

LEMMA CarriesOneMore ==
    ASSUME NEW s \in Seq(Piece), NEW p \in Piece
    PROVE  Carries(Append(s, p)) = Carries(s) \o Carried(p)
<1>1. PICK t \in Seq(Piece) : t = Append(s, p)  BY AppendProperties
<1>2. PICK n \in Nat : n = Len(s)  BY LenProperties
<1>3. Len(t) = n + 1 /\ t[n + 1] = p /\ \A i \in 1 .. n : t[i] = s[i]
  BY <1>1, <1>2, AppendProperties
<1>4. PICK u : u = Append(Burden(s), Carried(p))  OBVIOUS
<1>5. Burden(s) \in Seq(Seq(Messages)) /\ Carried(p) \in Seq(Messages) /\ Len(Burden(s)) = n
  BY <1>2, BurdenType, CarriedType
<1>6. /\ u \in Seq(Seq(Messages)) /\ Len(u) = n + 1 /\ u[n + 1] = Carried(p)
      /\ \A i \in 1 .. n : u[i] = Burden(s)[i]
  BY <1>4, <1>5, AppendProperties
<1>7. /\ Burden(t) \in Seq(Seq(Messages)) /\ Len(Burden(t)) = n + 1
      /\ \A i \in 1 .. n + 1 : Burden(t)[i] = Carried(t[i])
  BY <1>3, BurdenType
<1>8. ASSUME NEW i \in 1 .. n + 1 PROVE Burden(t)[i] = u[i]
  <2>1. Burden(t)[i] = Carried(t[i])  BY <1>7
  <2>2. CASE i = n + 1  BY <1>3, <1>6, <2>1, <2>2
  <2>3. CASE i # n + 1
    <3>1. i \in 1 .. n  BY <2>3
    <3>2. t[i] = s[i] /\ u[i] = Burden(s)[i]  BY <1>3, <1>6, <3>1
    <3>3. Burden(s)[i] = Carried(s[i])  BY <1>2, <3>1, BurdenType
    <3>. QED  BY <2>1, <3>2, <3>3
  <2>. QED  BY <2>2, <2>3
<1>9. Burden(t) = u  BY <1>6, <1>7, <1>8, SeqEqual
<1>10. FlattenSeq(u) = FlattenSeq(Burden(s)) \o Carried(p)  BY <1>4, <1>5, FlattenAppend
<1>11. Carries(t) = FlattenSeq(Burden(t)) /\ Carries(s) = FlattenSeq(Burden(s))
  BY DEF Carries, Burden
<1>. QED  BY <1>1, <1>9, <1>10, <1>11

LEMMA CarriesHead ==
    ASSUME NEW s \in Seq(Piece), s # << >>
    PROVE  Carries(s) = Carried(s[1]) \o Carries(Tail(s))
<1>1. PICK t \in Seq(Piece) : t = Tail(s)  BY HeadTailProperties
<1>2. PICK n \in Nat : n = Len(t)  BY LenProperties
<1>3. /\ Len(s) = n + 1 /\ \A i \in 1 .. n : t[i] = s[i + 1]
  <2>1. Len(s) \in Nat /\ Len(t) = Len(s) - 1 /\ \A i \in 1 .. Len(t) : t[i] = s[i + 1]
    BY <1>1, HeadTailProperties, LenProperties
  <2>. QED  BY <1>2, <2>1
<1>4. PICK b \in Seq(Seq(Messages)) : b = Burden(s)  BY BurdenType
<1>5. Len(b) = n + 1 /\ \A i \in 1 .. n + 1 : b[i] = Carried(s[i])  BY <1>3, <1>4, BurdenType
<1>6. b # << >>
  <2>1. Len(b) # 0  BY <1>5
  <2>. QED  BY <2>1, NotEmpty
<1>7. PICK u : u = Tail(b)  OBVIOUS
<1>8. u \in Seq(Seq(Messages)) /\ Len(u) = n /\ \A i \in 1 .. n : u[i] = b[i + 1]
  BY <1>5, <1>6, <1>7, HeadTailProperties
<1>9. /\ Burden(t) \in Seq(Seq(Messages)) /\ Len(Burden(t)) = n
      /\ \A i \in 1 .. n : Burden(t)[i] = Carried(t[i])
  BY <1>2, BurdenType
<1>10. ASSUME NEW i \in 1 .. n PROVE Burden(t)[i] = u[i]
  <2>1. PICK j : j = i + 1  OBVIOUS
  <2>2. j \in 1 .. n + 1  BY <2>1
  <2>3. b[j] = Carried(s[j])  BY <1>5, <2>2
  <2>4. t[i] = s[j] /\ u[i] = b[j]  BY <1>3, <1>8, <2>1
  <2>5. Burden(t)[i] = Carried(t[i])  BY <1>9
  <2>. QED  BY <2>3, <2>4, <2>5
<1>11. Burden(t) = u  BY <1>8, <1>9, <1>10, SeqEqual
<1>12. FlattenSeq(b) = Head(b) \o FlattenSeq(Tail(b))  BY <1>6, FlattenHead
<1>13. Head(b) = Carried(s[1])
  <2>1. 1 \in 1 .. n + 1  OBVIOUS
  <2>2. b[1] = Carried(s[1])  BY <1>5, <2>1
  <2>. QED  BY <2>2
<1>14. Carries(t) = FlattenSeq(Burden(t)) /\ Carries(s) = FlattenSeq(Burden(s))
  BY DEF Carries, Burden
<1>. QED  BY <1>1, <1>4, <1>7, <1>11, <1>12, <1>13, <1>14

\* Two pieces are taken.
LEMMA CarriesRest ==
    ASSUME NEW s \in Seq(Piece), Len(s) >= 2
    PROVE  Carries(s) = Carried(s[1]) \o (Carried(s[2]) \o Carries(SubSeq(s, 3, Len(s))))
<1>1. PICK t \in Seq(Piece) : t = SubSeq(s, 3, Len(s))  BY TwoAreTaken
<1>2. Len(s) = Len(t) + 2 /\ \A i \in 1 .. Len(t) : t[i] = s[i + 2]
  BY <1>1, TwoAreTaken DEF Rest
<1>3. s # << >>
  <2>1. Len(s) # 0  BY <1>2, LenProperties
  <2>. QED  BY <2>1, NotEmpty
<1>4. PICK u \in Seq(Piece) : u = Tail(s)  BY <1>3, HeadTailProperties
<1>5. Len(u) = Len(t) + 1 /\ \A i \in 1 .. Len(t) + 1 : u[i] = s[i + 1]
  <2>1. Len(u) = Len(s) - 1 /\ \A i \in 1 .. Len(u) : u[i] = s[i + 1]
    BY <1>3, <1>4, HeadTailProperties
  <2>2. Len(u) = Len(t) + 1  BY <1>2, <2>1, LenProperties
  <2>. QED  BY <2>1, <2>2
<1>6. u # << >>
  <2>1. Len(u) # 0  BY <1>5, LenProperties
  <2>. QED  BY <2>1, NotEmpty
<1>7. PICK v \in Seq(Piece) : v = Tail(u)  BY <1>6, HeadTailProperties
<1>8. PICK n \in Nat : n = Len(t)  BY LenProperties
<1>9. Len(v) = n /\ \A i \in 1 .. n : v[i] = u[i + 1]
  <2>1. Len(v) = Len(u) - 1 /\ \A i \in 1 .. Len(v) : v[i] = u[i + 1]
    BY <1>6, <1>7, HeadTailProperties
  <2>2. Len(v) = n  BY <1>5, <1>8, <2>1
  <2>. QED  BY <2>1, <2>2
<1>10. ASSUME NEW i \in 1 .. n PROVE v[i] = t[i]
  <2>1. PICK j : j = i + 1  OBVIOUS
  <2>2. j \in 1 .. Len(t) + 1 /\ j + 1 = i + 2  BY <1>8, <2>1
  <2>3. u[j] = s[j + 1]  BY <1>5, <2>2
  <2>4. v[i] = u[j]  BY <1>9, <2>1
  <2>5. t[i] = s[i + 2]  BY <1>2, <1>8
  <2>. QED  BY <2>2, <2>3, <2>4, <2>5
<1>11. v = t  BY <1>8, <1>9, <1>10, SeqEqual
<1>12. u[1] = s[2]
  <2>1. 1 \in 1 .. Len(t) + 1  BY LenProperties
  <2>2. u[1] = s[1 + 1]  BY <1>5, <2>1
  <2>. QED  BY <2>2
<1>13. Carries(s) = Carried(s[1]) \o Carries(u)  BY <1>3, <1>4, CarriesHead
<1>14. Carries(u) = Carried(s[2]) \o Carries(t)  BY <1>6, <1>7, <1>11, <1>12, CarriesHead
<1>. QED  BY <1>1, <1>13, <1>14

\* Only the first piece of a frame carries its message.
LEMMA OnlyTheFirstCarries ==
    ASSUME NEW f \in Frames
    PROVE  /\ Carried(PieceOf(f, "header1")) = IF f.op = "Frame" THEN << f.payload >> ELSE << >>
           /\ Carried(PieceOf(f, "header2")) = << >>
           /\ Carried(PieceOf(f, "payload1")) = << >>
           /\ Carried(PieceOf(f, "payload2")) = << >>
           /\ \A p \in Parts : PieceOf(f, p) \in Piece
BY DEF Carried, PieceOf, Piece, Parts

LEMMA TwoAre ==
    ASSUME NEW a, NEW b
    PROVE  Append(<< a >>, b) = << a, b >>
<1>. DEFINE S == {a, b}
<1>1. PICK x, z : x = << a >> /\ z = << a, b >>  OBVIOUS
<1>2. x \in Seq(S) /\ z \in Seq(S) /\ Len(x) = 1 /\ Len(z) = 2 /\ b \in S
      /\ x[1] = a /\ z[1] = a /\ z[2] = b
  BY <1>1
<1>. HIDE DEF S
<1>3. PICK w : w = Append(x, b)  OBVIOUS
<1>4. w \in Seq(S) /\ Len(w) = 2 /\ w[2] = b /\ w[1] = x[1]
  BY <1>2, <1>3, AppendProperties
<1>5. \A i \in 1 .. 2 : w[i] = z[i]
  <2>1. w[1] = z[1] /\ w[2] = z[2]  BY <1>2, <1>4
  <2>. QED  BY <2>1
<1>6. w = z  BY <1>2, <1>4, <1>5, SeqEqual
<1>. QED  BY <1>1, <1>3, <1>6

LEMMA CarriesTwoMore ==
    ASSUME NEW s \in Seq(Piece), NEW a \in Piece, NEW b \in Piece, Carried(b) = << >>
    PROVE  s \o << a, b >> \in Seq(Piece) /\ Carries(s \o << a, b >>) = Carries(s) \o Carried(a)
<1>1. PICK t \in Seq(Piece) : t = Append(s, a)  BY AppendProperties
<1>2. PICK u \in Seq(Piece) : u = Append(t, b)  BY AppendProperties
<1>3. u = s \o << a, b >>
  <2>1. PICK x, y : x = << a >> /\ y = << b >>  OBVIOUS
  <2>2. x \in Seq(Piece) /\ y \in Seq(Piece)  BY <2>1
  <2>3. t = s \o x /\ u = t \o y  BY <1>1, <1>2, <2>1, AppendIsConcat
  <2>4. (s \o x) \o y = s \o (x \o y)  BY <2>2, Associative
  <2>5. x \o y = << a, b >>
    <3>1. Append(x, b) = x \o y  BY <2>1, <2>2, AppendIsConcat
    <3>2. Append(x, b) = << a, b >>  BY <2>1, TwoAre
    <3>. QED  BY <3>1, <3>2
  <2>. QED  BY <2>3, <2>4, <2>5
<1>4. Carries(u) = Carries(t) \o Carried(b) /\ Carries(t) = Carries(s) \o Carried(a)
  BY <1>1, <1>2, CarriesOneMore
<1>5. Carries(t) \in Seq(Messages)  BY CarriesType
<1>6. Carries(t) \o << >> = Carries(t)  BY <1>5, ConcatEmptySeq
<1>. QED  BY <1>3, <1>4, <1>6

LEMMA CarriesFrame ==
    ASSUME NEW s \in Seq(Piece), NEW f \in Frames
    PROVE  Carries(s \o Pieces(f)) = Carries(s) \o Carried(PieceOf(f, "header1"))
<1>1. PICK a, b, c, d :
          /\ a = PieceOf(f, "header1") /\ b = PieceOf(f, "header2")
          /\ c = PieceOf(f, "payload1") /\ d = PieceOf(f, "payload2")
  OBVIOUS
<1>2. /\ a \in Piece /\ b \in Piece /\ c \in Piece /\ d \in Piece
      /\ Carried(b) = << >> /\ Carried(c) = << >> /\ Carried(d) = << >>
  BY <1>1, OnlyTheFirstCarries DEF Parts
<1>3. HeaderOf(f) = << a, b >>  BY <1>1 DEF HeaderOf, PieceOf
<1>4. PayloadOf(f) = IF f.payload = NoPayload THEN << >> ELSE << c, d >>
  BY <1>1 DEF PayloadOf, PieceOf
<1>5. PICK t \in Seq(Piece) : t = s \o << a, b >>  BY <1>2, CarriesTwoMore
<1>6. Carries(t) = Carries(s) \o Carried(a)  BY <1>2, <1>5, CarriesTwoMore
<1>7. CASE f.payload = NoPayload
  <2>1. Pieces(f) = << a, b >>  BY <1>3, <1>4, <1>7, FourAre DEF Pieces
  <2>. QED  BY <1>1, <1>5, <1>6, <2>1
<1>8. CASE f.payload # NoPayload
  <2>1. PICK x, y : x = << a, b >> /\ y = << c, d >>  OBVIOUS
  <2>2. x \in Seq(Piece) /\ y \in Seq(Piece)  BY <1>2, <2>1
  <2>3. Pieces(f) = x \o y  BY <1>3, <1>4, <1>8, <2>1 DEF Pieces
  <2>4. (s \o x) \o y = s \o (x \o y)  BY <2>2, Associative
  <2>5. s \o Pieces(f) = t \o << c, d >>  BY <1>5, <2>1, <2>3, <2>4
  <2>6. Carries(t \o << c, d >>) = Carries(t) \o Carried(c)  BY <1>2, CarriesTwoMore
  <2>7. Carries(t) \in Seq(Messages)  BY CarriesType
  <2>8. Carries(t) \o << >> = Carries(t)  BY <2>7, ConcatEmptySeq
  <2>. QED  BY <1>1, <1>2, <1>6, <2>5, <2>6, <2>8
<1>. QED  BY <1>7, <1>8

-----------------------------------------------------------------------------
(* Every step is a step of Session, or none. *)

HeldBy(h) == IF h.op = "Frame" THEN << h.payload >> ELSE << >>

AbstractStep == [Abstract!Next]_(Abstract!vars)

LEMMA InFlightIs == InFlight = HeldBy(hand) \o Carries(pipe.bytes)
BY DEF InFlight, HeldBy

LEMMA NobodyHolds ==
    /\ HeldBy(Nobody) = << >>
    /\ \A s \in Seq(Piece) : HeldBy(Nobody) \o Carries(s) = Carries(s)
<1>1. HeldBy(Nobody) = << >>  BY DEF HeldBy, Nobody
<1>2. ASSUME NEW s \in Seq(Piece) PROVE HeldBy(Nobody) \o Carries(s) = Carries(s)
  <2>1. Carries(s) \in Seq(Messages)  BY CarriesType
  <2>. QED  BY <1>1, <2>1, ConcatEmptySeq
<1>. QED  BY <1>1, <1>2

\* Nothing that Session speaks of changes.
LEMMA NothingHappens ==
    ASSUME InFlight' = InFlight, UNCHANGED <<state, got, announced>>
    PROVE  AbstractStep
<1>1. Status' = Status  BY DEF Status
<1>. QED  BY <1>1 DEF AbstractStep, Abstract!vars

LEMMA NothingMoves ==
    ASSUME pipe'.bytes = pipe.bytes, UNCHANGED <<hand, state, got, announced>>
    PROVE  AbstractStep
<1>1. InFlight' = InFlight  BY DEF InFlight
<1>. QED  BY <1>1, NothingHappens

\* The connection is closed: the end of the session, if there was one.
LEMMA SessionEnds ==
    ASSUME Session, state' = "Disconnected", pipe' = ShutPipe, hand' = Nobody, got' = got,
           announced' = IF state = "Disconnected" THEN announced
                        ELSE Append(announced, "disconnect")
    PROVE  AbstractStep
<1>1. pipe'.bytes = << >>  BY SessionTypes, ShutPipeIs
<1>2. InFlight' = << >>
  BY <1>1, InFlightIs, NobodyHolds, CarriesNothing, EmptySeq DEF InFlight, HeldBy
<1>3. Status' = "down"  BY DEF Status
<1>4. CASE state = "Disconnected"
  <2>1. pipe.bytes = << >> /\ hand = Nobody  BY <1>4 DEF Session, Places
  <2>2. InFlight = << >>  BY <2>1, NobodyHolds, CarriesNothing, EmptySeq DEF InFlight, HeldBy
  <2>. QED  BY <1>2, <1>4, <2>2, NothingHappens
<1>5. CASE state # "Disconnected"
  <2>1. Status # "down"  BY <1>5 DEF Status, Session, ConnectionType, States
  <2>2. Abstract!End  BY <1>2, <1>3, <1>5, <2>1 DEF Abstract!End
  <2>. QED  BY <2>2 DEF AbstractStep, Abstract!Next
<1>. QED  BY <1>4, <1>5

LEMMA CloseEndsSession ==
    ASSUME Session, NEW code, Close(code), hand' = Nobody, got' = got
    PROVE  AbstractStep
<1>1. announced' = IF state = "Disconnected" THEN announced
                   ELSE Append(announced, "disconnect")
  BY DEF Close, Session, ConnectionType, States
<1>. QED  BY <1>1, SessionEnds DEF Close

\* A piece arrives, with its message if it carries one.
LEMMA PieceArrives ==
    ASSUME Session, state # "Disconnected", NEW p \in Piece,
           UNCHANGED <<hand, state, got, announced>>,
           Carries(pipe'.bytes) = Carries(pipe.bytes) \o Carried(p)
    PROVE  AbstractStep
<1>1. PICK c \in Seq(Messages) : c = Carries(pipe.bytes)  BY SessionTypes, CarriesType
<1>0. HeldBy(hand) \in Seq(Messages)
  <2>1. CASE hand.op = "Frame"
    <3>1. hand \in Frames  BY <2>1, SessionTypes DEF Nobody
    <3>2. PICK m : m = hand.payload  OBVIOUS
    <3>3. m \in Messages  BY <2>1, <3>1, <3>2, Values
    <3>4. PICK x : x = << m >>  OBVIOUS
    <3>5. HeldBy(hand) = x  BY <2>1, <3>2, <3>4 DEF HeldBy
    <3>6. x \in Seq(Messages)  BY <3>3, <3>4
    <3>. QED  BY <3>5, <3>6
  <2>2. CASE hand.op # "Frame"  BY <2>2, EmptySeq DEF HeldBy
  <2>. QED  BY <2>1, <2>2
<1>2. PICK h \in Seq(Messages) : h = HeldBy(hand)  BY <1>0
<1>3. PICK e \in Seq(Messages) : e = Carried(p)  BY CarriedType
<1>4. InFlight = h \o c  BY <1>1, <1>2, InFlightIs
<1>5. InFlight' = h \o (c \o e)  BY <1>1, <1>2, <1>3 DEF InFlight, HeldBy
<1>6. (h \o c) \o e = h \o (c \o e)  BY Associative
<1>7. CASE p.part = "header1" /\ p.of.op = "Frame"
  <2>1. PICK m : m = p.of.payload  OBVIOUS
  <2>2. m \in Messages  BY <1>7, <2>1, Values DEF Piece
  <2>3. e = << m >>  BY <1>3, <1>7, <2>1 DEF Carried
  <2>4. h \o c \in Seq(Messages)  BY ConcatProperties
  <2>5. Append(h \o c, m) = (h \o c) \o << m >>  BY <2>2, <2>4, AppendIsConcat
  <2>6. InFlight' = Append(InFlight, m)  BY <1>4, <1>5, <1>6, <2>3, <2>5
  <2>7. Status' = Status /\ Status # "down"
    BY DEF Status, Session, ConnectionType, States
  <2>8. Abstract!Arrive(m)  BY <2>6, <2>7 DEF Abstract!Arrive
  <2>. QED  BY <2>2, <2>8 DEF AbstractStep, Abstract!Next
<1>8. CASE ~ (p.part = "header1" /\ p.of.op = "Frame")
  <2>1. e = << >>  BY <1>3, <1>8 DEF Carried
  <2>2. c \o << >> = c  BY ConcatEmptySeq
  <2>3. InFlight' = InFlight  BY <1>4, <1>5, <2>1, <2>2
  <2>. QED  BY <2>3, NothingHappens
<1>. QED  BY <1>7, <1>8

LEMMA HeadAndTail ==
    ASSUME NEW S, NEW m \in S, NEW c \in Seq(S)
    PROVE  /\ << m >> \o c # << >>
           /\ Head(<< m >> \o c) = m /\ Tail(<< m >> \o c) = c
<1>1. PICK x : x = << m >>  OBVIOUS
<1>2. x \in Seq(S) /\ Len(x) = 1 /\ x[1] = m  BY <1>1
<1>3. PICK n \in Nat : n = Len(c)  BY LenProperties
<1>4. PICK y : y = x \o c  OBVIOUS
<1>5. /\ y \in Seq(S) /\ Len(y) = n + 1
      /\ \A i \in 1 .. n + 1 : y[i] = IF i <= 1 THEN x[i] ELSE c[i - 1]
  <2>1. /\ y \in Seq(S) /\ Len(y) = Len(x) + Len(c)
        /\ \A i \in 1 .. Len(x) + Len(c) : y[i] = IF i <= Len(x) THEN x[i] ELSE c[i - Len(x)]
    BY <1>2, <1>4, ConcatProperties
  <2>2. Len(x) + Len(c) = n + 1  BY <1>2, <1>3
  <2>. QED  BY <1>2, <2>1, <2>2
<1>6. y # << >>
  <2>1. Len(y) # 0  BY <1>5
  <2>. QED  BY <2>1, NotEmpty
<1>7. Head(y) = m
  <2>1. 1 \in 1 .. n + 1 /\ 1 <= 1  OBVIOUS
  <2>2. y[1] = x[1]  BY <1>5, <2>1
  <2>. QED  BY <1>2, <2>2
<1>8. PICK t : t = Tail(y)  OBVIOUS
<1>9. t \in Seq(S) /\ Len(t) = n /\ \A i \in 1 .. n : t[i] = y[i + 1]
  BY <1>5, <1>6, <1>8, HeadTailProperties
<1>10. ASSUME NEW i \in 1 .. n PROVE t[i] = c[i]
  <2>1. PICK j : j = i + 1  OBVIOUS
  <2>2. j \in 1 .. n + 1 /\ ~ j <= 1 /\ j - 1 = i  BY <2>1
  <2>3. y[j] = c[j - 1]  BY <1>5, <2>2
  <2>. QED  BY <1>9, <2>1, <2>2, <2>3
<1>11. t = c  BY <1>3, <1>9, <1>10, SeqEqual
<1>. QED  BY <1>1, <1>4, <1>6, <1>7, <1>8, <1>11

\* A complete frame is dispatched: one that carries a message is at the head
\* of the inbox.
LEMMA DispatchRefines ==
    ASSUME Session, pc \in {"header", "payload"}, ReadsAll, NEW f \in Frames,
           Dispatch(f, Unconsumed),
           NEW c \in Seq(Messages), InFlight = HeldBy(f) \o c, Carries(Unconsumed.bytes) = c
    PROVE  AbstractStep
<1>1. hand' = Nobody  BY DEF Dispatch
<1>2. pipe' = Unconsumed => InFlight' = c
  <2>1. << >> \o c = c  BY ConcatEmptySeq
  <2>. QED  BY <1>1, <2>1, NobodyHolds DEF InFlight, HeldBy
<1>3. f.op # "Frame" => InFlight = c
  <2>1. << >> \o c = c  BY ConcatEmptySeq
  <2>. QED  BY <2>1 DEF HeldBy
<1>4. state \in {"SentHandshake", "Connected"}
  BY DEF Session, ConnectionType, States, SocketMatchesState, ReadsAll
<1>5. CASE f.op = "Frame" /\ ReturnMessage(f, Unconsumed)
  <2>1. PICK m \in Messages : m = f.payload  BY <1>5, Values
  <2>2. InFlight = << m >> \o c  BY <1>5, <2>1 DEF HeldBy
  <2>3. InFlight # << >> /\ Head(InFlight) = m /\ Tail(InFlight) = c
    BY <2>2, HeadAndTail
  <2>4. pipe' = Unconsumed /\ InFlight' = c  BY <1>2, <1>5 DEF ReturnMessage
  <2>5. CASE state = "Connected"
    <3>1. got' = m /\ UNCHANGED <<state, announced>>
      BY <1>5, <2>1, <2>5 DEF ReturnMessage
    <3>2. Status = "up" /\ Status' = "up"  BY <2>5, <3>1 DEF Status
    <3>3. Abstract!Deliver  BY <2>3, <2>4, <3>1, <3>2 DEF Abstract!Deliver
    <3>. QED  BY <3>3 DEF AbstractStep, Abstract!Next
  <2>6. CASE state = "SentHandshake" /\ m = Ready
    <3>1. got' = got /\ state' = "Connected" /\ announced' = Append(announced, "connect")
      BY <1>5, <2>1, <2>6 DEF ReturnMessage
    <3>2. Status = "handshaking" /\ Status' = "up"  BY <2>6, <3>1 DEF Status
    <3>3. Abstract!BecomeUp  BY <2>3, <2>4, <2>6, <3>1, <3>2 DEF Abstract!BecomeUp
    <3>. QED  BY <3>3 DEF AbstractStep, Abstract!Next
  <2>7. CASE state = "SentHandshake" /\ m # Ready
    <3>1. got' = got /\ UNCHANGED <<state, announced>>
      BY <1>5, <2>1, <2>7 DEF ReturnMessage
    <3>2. Status = "handshaking" /\ Status' = "handshaking"  BY <2>7, <3>1 DEF Status
    <3>3. Abstract!Ignore  BY <2>3, <2>4, <2>7, <3>1, <3>2 DEF Abstract!Ignore
    <3>. QED  BY <3>3 DEF AbstractStep, Abstract!Next
  <2>. QED  BY <1>4, <2>5, <2>6, <2>7
<1>6. CASE f.op = "Ping" /\ AnswerPing(Unconsumed)
  <2>1. CASE pipe' = Unconsumed /\ UNCHANGED <<state, got, announced>>
    BY <1>2, <1>3, <1>6, <2>1, NothingHappens
  <2>2. CASE Close(lastError) /\ got' = got  BY <1>1, <2>2, CloseEndsSession
  <2>. QED  BY <1>6, <2>1, <2>2 DEF AnswerPing
<1>7. CASE f.op = "Pong" /\ pipe' = Unconsumed /\ UNCHANGED <<state, got, announced>>
  BY <1>2, <1>3, <1>7, NothingHappens
<1>8. CASE (Close("FromPeer") \/ Close("ReadCorrupt")) /\ UNCHANGED got
  BY <1>1, <1>8, CloseEndsSession
<1>. QED  BY <1>5, <1>6, <1>7, <1>8 DEF Dispatch

LEMMA OpeningRefines ==
    ASSUME FullInv, Opening
    PROVE  AbstractStep
<1>1. Session /\ Searching  BY DEF FullInv, ConnInv
<1>2. CASE StartSearch \/ SearchGoesOn \/ SearchSucceeds
  <2>1. pipe'.bytes = pipe.bytes /\ UNCHANGED <<hand, state, got, announced>>
    BY <1>1, <1>2, SessionTypes DEF StartSearch, SearchGoesOn, SearchSucceeds, Pipes
  <2>. QED  BY <2>1, NothingMoves
<1>3. CASE SearchFails \/ SearchTimesOut
  <2>1. pipe' = ShutPipe /\ UNCHANGED <<state, got, announced, hand>> /\ name # Nowhere
    BY <1>3 DEF SearchFails, SearchTimesOut, SearchEndsWith, Search!GiveUp, Search!TimesOut,
                Search!Passes
  <2>2. state = "Disconnected" /\ hand = Nobody
    BY <1>1, <2>1 DEF Searching, SearchType, Session, Places
  <2>. QED  BY <1>1, <2>1, <2>2, SessionEnds
<1>4. CASE SendHandshake
  <2>1. /\ state = "Disconnected" /\ hand = Nobody /\ hand' = hand /\ got' = got
        /\ pipe.bytes = << >>
    BY <1>1, <1>4 DEF SendHandshake, Session, Places
  <2>2. CASE Close(lastError)  BY <1>1, <2>1, <2>2, CloseEndsSession
  <2>3. CASE state' = "SentHandshake" /\ announced' = << >> /\ UNCHANGED pipe
    <3>1. InFlight = << >>  BY <2>1, NobodyHolds, CarriesNothing, EmptySeq DEF InFlight, HeldBy
    <3>2. InFlight' = InFlight  BY <2>1, <2>3 DEF InFlight
    <3>3. Status = "down" /\ Status' = "handshaking"  BY <2>1, <2>3 DEF Status
    <3>4. Abstract!Begin  BY <2>1, <2>3, <3>1, <3>2, <3>3 DEF Abstract!Begin
    <3>. QED  BY <3>4 DEF AbstractStep, Abstract!Next
  <2>. QED  BY <1>4, <2>2, <2>3 DEF SendHandshake
<1>. QED  BY <1>2, <1>3, <1>4 DEF Opening

LEMMA HeaderRefines ==
    ASSUME FullInv, ReadHeader
    PROVE  AbstractStep
<1>1. Session /\ FrameInv  BY DEF FullInv, ConnInv
<1>2. pc = "header" /\ ReadsAll /\ hand = Nobody  BY <1>1 DEF ReadHeader, Session, Places
<1>3. PICK f \in FramesReadAs(SubSeq(pipe.bytes, 1, 2)) :
          IF f.payload = NoPayload
          THEN Dispatch(f, Unconsumed)
          ELSE /\ hand' = f /\ pc' = "payload" /\ pipe' = Unconsumed
               /\ UNCHANGED <<state, lastError, unsent, got, announced>>
  BY DEF ReadHeader
<1>4. /\ f \in Frames
      /\ pipe.bytes[1] = PieceOf(f, "header1") /\ pipe.bytes[2] = PieceOf(f, "header2")
  BY <1>1, <1>2, HeaderIsRight
<1>5. PICK b \in Seq(Piece) : b = pipe.bytes  BY <1>1, SessionTypes
<1>6. Len(b) >= 2  BY <1>2, <1>5 DEF ReadsAll, Available
<1>7. PICK r \in Seq(Piece) : r = SubSeq(b, 3, Len(b))  BY <1>6, TwoAreTaken
<1>8. PICK c \in Seq(Messages) : c = Carries(r)  BY CarriesType
<1>9. Unconsumed.bytes = r  BY <1>1, <1>5, <1>7, UnconsumedIs
<1>10. Carries(b) = Carried(PieceOf(f, "header1")) \o (Carried(PieceOf(f, "header2")) \o c)
  BY <1>4, <1>5, <1>6, <1>7, <1>8, CarriesRest
<1>11. InFlight = HeldBy(f) \o c
  <2>1. << >> \o c = c  BY ConcatEmptySeq
  <2>2. Carries(b) = HeldBy(f) \o c
    BY <1>4, <1>10, <2>1, OnlyTheFirstCarries DEF HeldBy
  <2>3. InFlight = Carries(b)  BY <1>2, <1>5, InFlightIs, NobodyHolds
  <2>. QED  BY <2>2, <2>3
<1>12. CASE f.payload = NoPayload
  BY <1>1, <1>2, <1>3, <1>4, <1>8, <1>9, <1>11, <1>12, DispatchRefines
<1>13. CASE f.payload # NoPayload
  <2>1. hand' = f /\ pipe' = Unconsumed /\ UNCHANGED <<state, got, announced>>
    BY <1>3, <1>13
  <2>2. InFlight' = HeldBy(f) \o c  BY <1>8, <1>9, <2>1 DEF InFlight, HeldBy
  <2>. QED  BY <1>11, <2>1, <2>2, NothingHappens
<1>. QED  BY <1>12, <1>13

LEMMA PayloadRefines ==
    ASSUME FullInv, ReadPayload
    PROVE  AbstractStep
<1>1. Session /\ FrameInv  BY DEF FullInv, ConnInv
<1>2. pc = "payload" /\ ReadsAll /\ hand \in Frames /\ Dispatch(hand, Unconsumed)
  BY <1>1 DEF ReadPayload, Session, Places
<1>3. PICK b \in Seq(Piece) : b = pipe.bytes  BY <1>1, SessionTypes
<1>4. Len(b) >= 2  BY <1>2, <1>3 DEF ReadsAll, Available
<1>5. PICK r \in Seq(Piece) : r = SubSeq(b, 3, Len(b))  BY <1>4, TwoAreTaken
<1>6. PICK c \in Seq(Messages) : c = Carries(r)  BY CarriesType
<1>7. Unconsumed.bytes = r  BY <1>1, <1>3, <1>5, UnconsumedIs
<1>8. b[1] = PieceOf(hand, "payload1") /\ b[2] = PieceOf(hand, "payload2")
  <2>1. FramedAfter(Stream, hand)  BY <1>1 DEF FrameInv
  <2>2. PICK t : t = r \o unsent  OBVIOUS
  <2>3. t \in Seq(Piece)  BY <1>1, <2>2, SessionTypes, ConcatProperties
  <2>4. Stream \in Seq(Piece)  BY <1>1, SessionTypes, ConcatProperties DEF Stream
  <2>5. Rest(Stream, t) /\ Stream[1] = b[1] /\ Stream[2] = b[2]
    BY <1>1, <1>3, <1>4, <1>5, <2>2, SessionTypes, TwoAreTaken DEF Stream
  <2>. QED  BY <1>2, <2>1, <2>3, <2>4, <2>5, PayloadIsTaken
<1>9. Carries(b) = Carried(b[1]) \o (Carried(b[2]) \o c)  BY <1>4, <1>5, <1>6, CarriesRest
<1>10. Carried(b[1]) = << >> /\ Carried(b[2]) = << >>
  BY <1>2, <1>8, OnlyTheFirstCarries
<1>11. << >> \o c = c  BY ConcatEmptySeq
<1>12. InFlight = HeldBy(hand) \o c  BY <1>3, <1>9, <1>10, <1>11, InFlightIs
<1>. QED  BY <1>1, <1>2, <1>6, <1>7, <1>12, DispatchRefines

LEMMA ReadingRefines ==
    ASSUME NeverShort \/ ~ ShortHeader, FullInv, Reading
    PROVE  AbstractStep
<1>1. Session /\ FrameInv  BY DEF FullInv, ConnInv
<1>2. CASE CallRead  BY <1>2, NothingMoves DEF CallRead
<1>3. CASE ReadNothing
  <2>1. pipe' = pipe  BY <1>1, <1>3, NothingKeepsFrames
  <2>. QED  BY <1>3, <2>1, NothingMoves DEF ReadNothing
<1>4. CASE ReadPipeClosed
  BY <1>1, <1>4, CloseEndsSession DEF ReadPipeClosed, Session, Places
<1>5. CASE ReadPartial  BY <1>1, <1>5, CloseEndsSession DEF ReadPartial
<1>. QED  BY <1>2, <1>3, <1>4, <1>5, HeaderRefines, PayloadRefines DEF Reading

LEMMA PeerRefines ==
    ASSUME FullInv, Peer
    PROVE  AbstractStep
<1>1. Session  BY DEF FullInv, ConnInv
<1>2. ASSUME NEW f \in Frames, PeerSends(f) PROVE AbstractStep
  <2>1. state # "Disconnected" /\ UNCHANGED <<hand, state, got, announced>>
    BY <1>2 DEF PeerSends
  <2>2. CASE pipe.kind.whole
    <3>1. pipe'.bytes = pipe.bytes \o Pieces(f)
      BY <1>1, <1>2, <2>2, SessionTypes DEF PeerSends, Pipes
    <3>2. PieceOf(f, "header1") \in Piece  BY OnlyTheFirstCarries DEF Parts
    <3>3. Carries(pipe'.bytes) = Carries(pipe.bytes) \o Carried(PieceOf(f, "header1"))
      BY <1>1, <3>1, SessionTypes, CarriesFrame
    <3>. QED  BY <1>1, <2>1, <3>2, <3>3, PieceArrives
  <2>3. CASE ~ pipe.kind.whole
    <3>1. pipe' = pipe  BY <1>2, <2>3 DEF PeerSends
    <3>. QED  BY <2>1, <3>1, NothingMoves
  <2>. QED  BY <2>2, <2>3
<1>3. CASE PeerWritesPiece
  <2>1. unsent # << >> /\ UNCHANGED <<hand, state, got, announced>>
        /\ pipe'.bytes = Append(pipe.bytes, Head(unsent))
    BY <1>1, <1>3, SessionTypes DEF PeerWritesPiece, Pipes
  <2>2. state # "Disconnected"  BY <1>1, <2>1 DEF Session, Places
  <2>3. Head(unsent) \in Piece  BY <1>1, <2>1, SessionTypes, HeadTailProperties
  <2>4. Carries(pipe'.bytes) = Carries(pipe.bytes) \o Carried(Head(unsent))
    BY <1>1, <2>1, <2>3, SessionTypes, CarriesOneMore
  <2>. QED  BY <1>1, <2>1, <2>2, <2>3, <2>4, PieceArrives
<1>4. CASE PeerCloses
  <2>1. pipe'.bytes = pipe.bytes  BY <1>1, <1>4, SessionTypes DEF PeerCloses, Pipes
  <2>. QED  BY <1>4, <2>1, NothingMoves DEF PeerCloses
<1>5. CASE ClientChanges  BY <1>5, NothingMoves DEF ClientChanges
<1>. QED  BY <1>2, <1>3, <1>4, <1>5 DEF Peer

LEMMA StepsRefine ==
    ASSUME FullInv, [Next]_vars, ~ ShortHeader
    PROVE  AbstractStep
<1>1. Session  BY DEF FullInv, ConnInv
<1>2. CASE WriteFails
  <2>1. Close(lastError) /\ hand' = Nobody /\ got' = got
    BY <1>1, <1>2 DEF WriteFails, Session, Places
  <2>. QED  BY <1>1, <2>1, CloseEndsSession
<1>3. CASE UNCHANGED vars  BY <1>3, NothingMoves DEF vars
<1>. QED  BY <1>2, <1>3, OpeningRefines, ReadingRefines, PeerRefines DEF Next

LEMMA InitRefines == Init => Abstract!Init
<1>. SUFFICES ASSUME Init PROVE Abstract!Init  OBVIOUS
<1>1. pipe.bytes = << >> /\ hand = Nobody /\ state = "Disconnected" /\ announced = << >>
  BY DEF Init
<1>2. InFlight = << >>  BY <1>1, NobodyHolds, CarriesNothing, EmptySeq DEF InFlight, HeldBy
<1>3. Status = "down"  BY <1>1 DEF Status
<1>. QED  BY <1>1, <1>2, <1>3 DEF Abstract!Init

\* As long as no recv gets part of a header the connection is a session:
\* messages are read once and in the order in which they were sent, frames
\* that carry none are invisible, and onDisconnect is called once for every
\* session, also where the connection is closed a second time.
THEOREM ConnectionIsSession == Spec /\ [][~ ShortHeader]_vars => IsSession
<1>1. FullInv /\ [Next]_vars /\ [~ ShortHeader]_vars => [Abstract!Next]_(Abstract!vars)
  BY StepsRefine, StutterIsNotShort DEF AbstractStep
<1>. QED
  BY <1>1, InitRefines, StreamInvariant, PTL DEF Spec, IsSession, Abstract!Spec
=============================================================================

--------------------------- MODULE QueueUse_proofs ---------------------------
(***************************************************************************)
(* The queue discipline of QueueUse, proved for every queue size, every    *)
(* counter width and every set of messages.                                *)
(***************************************************************************)
EXTENDS QueueUse, SequenceTheorems, TLAPS

-----------------------------------------------------------------------------
(* Arithmetic of the ring. *)

\* Division with remainder, as the provers need it.
LEMMA DivMod ==
    ASSUME NEW a \in Int, NEW n \in Nat \ {0}
    PROVE  /\ a = n * (a \div n) + (a % n)
           /\ a % n \in 0 .. (n - 1)
           /\ a \div n \in Int
OBVIOUS

\* Distinct multiples of n are at least n apart.
LEMMA MultipleGap ==
    ASSUME NEW x \in Int, NEW y \in Int, NEW n \in Nat \ {0}, x < y
    PROVE  n * x + n <= n * y
<1>1. n * (y - x) >= n  OBVIOUS
<1>2. n * (y - x) = n * y - n * x  OBVIOUS
<1>. QED  BY <1>1, <1>2

\* The remainder is unique.
LEMMA ModUnique ==
    ASSUME NEW q \in Int, NEW r \in Int, NEW n \in Nat \ {0}, 0 <= r, r < n
    PROVE  (n * q + r) % n = r
<1>. DEFINE a == n * q + r
<1>. DEFINE d == a \div n
<1>1. a \in Int  OBVIOUS
<1>2. /\ n * q + r = n * d + (a % n)
      /\ a % n \in 0 .. (n - 1)
      /\ d \in Int
  BY <1>1, DivMod
<1>. HIDE DEF d
<1>3. ~ (d < q)
  <2>. SUFFICES ASSUME d < q PROVE FALSE  OBVIOUS
  <2>1. n * d + n <= n * q  BY <1>2, MultipleGap
  <2>. QED  BY <2>1, <1>2
<1>4. ~ (q < d)
  <2>. SUFFICES ASSUME q < d PROVE FALSE  OBVIOUS
  <2>1. n * q + n <= n * d  BY <1>2, MultipleGap
  <2>. QED  BY <2>1, <1>2
<1>5. d = q  BY <1>2, <1>3, <1>4
<1>. QED  BY <1>5, <1>2

\* Congruent numbers stay congruent when the same amount is added.
LEMMA ModAdd ==
    ASSUME NEW a \in Int, NEW b \in Int, NEW k \in Int, NEW n \in Nat \ {0},
           a % n = b % n
    PROVE  (a + k) % n = (b + k) % n
<1>. DEFINE qa == a \div n
            qb == b \div n
            c  == b + k
            qc == c \div n
<1>1. a = n * qa + (a % n) /\ qa \in Int  BY DivMod
<1>2. b = n * qb + (b % n) /\ qb \in Int  BY DivMod
<1>3. c \in Int  OBVIOUS
<1>4. c = n * qc + (c % n) /\ c % n \in 0 .. (n - 1) /\ qc \in Int  BY <1>3, DivMod
<1>. HIDE DEF qa, qb, qc
<1>5. a - b = n * qa - n * qb  BY <1>1, <1>2
<1>6. n * qa - n * qb + n * qc = n * (qa - qb + qc)  BY <1>1, <1>2, <1>4
<1>7. a + k = n * (qa - qb + qc) + (c % n)  BY <1>4, <1>5, <1>6
<1>8. (n * (qa - qb + qc) + (c % n)) % n = c % n
  <2>. DEFINE q == qa - qb + qc
              r == c % n
  <2>1. q \in Int /\ r \in Int /\ 0 <= r /\ r < n  BY <1>1, <1>2, <1>4
  <2>. HIDE DEF q, r
  <2>2. (n * q + r) % n = r  BY <2>1, ModUnique
  <2>. QED  BY <2>2 DEF q, r
<1>. QED  BY <1>7, <1>8

\* Two numbers less than n apart are not congruent.
LEMMA ModApart ==
    ASSUME NEW a \in Int, NEW b \in Int, NEW n \in Nat \ {0}, a < b, b - a < n
    PROVE  a % n # b % n
<1>. SUFFICES ASSUME a % n = b % n PROVE FALSE  OBVIOUS
<1>. DEFINE qa == a \div n
            qb == b \div n
<1>1. a = n * qa + (a % n) /\ a % n \in 0 .. (n - 1) /\ qa \in Int  BY DivMod
<1>2. b = n * qb + (b % n) /\ qb \in Int  BY DivMod
<1>. HIDE DEF qa, qb
<1>3. n * qa < n * qb  BY <1>1, <1>2
<1>4. ~ (qb < qa)
  <2>. SUFFICES ASSUME qb < qa PROVE FALSE  OBVIOUS
  <2>1. n * qb + n <= n * qa  BY <1>1, <1>2, MultipleGap
  <2>. QED  BY <2>1, <1>1, <1>2, <1>3
<1>5. qa # qb  BY <1>1, <1>2, <1>3
<1>6. n * qa + n <= n * qb  BY <1>1, <1>2, <1>4, <1>5, MultipleGap
<1>. QED  BY <1>6, <1>1, <1>2

\* A counter that wraps at CounterRange selects the slot it would select had
\* it not wrapped.
LEMMA WrapKeepsSlot ==
    ASSUME NEW a \in Int
    PROVE  (a % CounterRange) % QueueSize = a % QueueSize
<1>. DEFINE w == CounterRange
            n == QueueSize
            m == w \div n
            q == a \div w
            r == a % w
            s == r \div n
<1>1. w \in Nat \ {0} /\ n \in Nat \ {0} /\ w % n = 0  BY QueueAssumption
<1>2. w = n * m /\ m \in Int  BY <1>1, DivMod
<1>3. a = w * q + r /\ r \in Int /\ q \in Int  BY <1>1, DivMod
<1>4. r = n * s + (r % n) /\ r % n \in 0 .. (n - 1) /\ s \in Int  BY <1>1, <1>3, DivMod
<1>. HIDE DEF w, n, m, q, r, s
<1>5. w * q = n * (m * q)  BY <1>1, <1>2, <1>3
<1>6. m * q \in Int  BY <1>2, <1>3
<1>. DEFINE mq == m * q
<1>. HIDE DEF mq
<1>7. mq \in Int /\ w * q = n * mq  BY <1>5, <1>6 DEF mq
<1>8. n * mq + n * s = n * (mq + s)  BY <1>1, <1>4, <1>7
<1>9. a = n * (mq + s) + (r % n)  BY <1>1, <1>3, <1>4, <1>7, <1>8
<1>10. (n * (mq + s) + (r % n)) % n = r % n
  <2>. DEFINE u == mq + s
              v == r % n
  <2>1. u \in Int /\ v \in Int /\ 0 <= v /\ v < n  BY <1>1, <1>4, <1>7
  <2>. HIDE DEF u, v
  <2>2. (n * u + v) % n = v  BY <1>1, <2>1, ModUnique
  <2>. QED  BY <2>2 DEF u, v
<1>. QED  BY <1>9, <1>10 DEF w, n, r

-----------------------------------------------------------------------------
(* Types. *)

\* Constants and counters, as the step proofs use them.
LEMMA CounterFacts ==
    /\ QueueSize \in Nat \ {0}
    /\ CounterRange \in Nat \ {0}
    /\ CounterRange > QueueSize
    /\ \A c \in Int : c % CounterRange \in Counter /\ c % QueueSize \in Slot
    /\ \A c \in Counter : Inc(c) \in Counter /\ Dec(c) \in Counter
<1>1. \A c \in Int : c % CounterRange \in 0 .. (CounterRange - 1)
  BY QueueAssumption, DivMod
<1>2. \A c \in Int : c % QueueSize \in 0 .. (QueueSize - 1)
  BY QueueAssumption, DivMod
<1>3. \A c \in Counter : c \in Int /\ c + 1 \in Int /\ c - 1 \in Int
  BY QueueAssumption DEF Counter
<1>4. \A c \in Counter : Inc(c) \in Counter /\ Dec(c) \in Counter
  BY <1>1, <1>3 DEF Counter, Inc, Dec
<1>. QED  BY <1>1, <1>2, <1>4, QueueAssumption DEF Counter, Slot

\* TypeOK is not inductive: a thread that is past the reservation must also
\* hold the index of a real slot.
TypeInv ==
    /\ TypeOK
    /\ \A p \in Producers : Holds(p) => add[p].index \in Slot
    /\ Using => send.index \in Slot

LEMMA TypeInit == Init => TypeInv
<1>. SUFFICES ASSUME Init PROVE TypeInv  OBVIOUS
<1>1. 0 \in Counter  BY CounterFacts DEF Counter
<1>2. EmptyRing \in RingOf(Items \cup {Junk})  BY <1>1 DEF EmptyRing, RingOf
<1>. QED  BY <1>2 DEF Init, TypeInv, TypeOK, AddState, SendState, Holds, Using

\* What each operation of the ring does to its type.
LEMMA RingTypes ==
    ASSUME NEW r \in RingOf(Items \cup {Junk})
    PROVE  /\ Reserve(r) \in RingOf(Items \cup {Junk})
           /\ Take(r) \in RingOf(Items \cup {Junk})
           /\ CommitAdd(r) \in RingOf(Items \cup {Junk})
           /\ CommitSend(r) \in RingOf(Items \cup {Junk})
           /\ AddIndex(r) \in Slot
           /\ SendIndex(r) \in Slot
           /\ \A i \in Slot, v \in Items \cup {Junk} :
                  Store(r, i, v) \in RingOf(Items \cup {Junk})
<1>1. /\ r.nextAdd \in Counter /\ r.nextSend \in Counter
      /\ r.pendingSends \in Counter
  BY DEF RingOf
<1>2. r.nextAdd \in Int /\ r.nextSend \in Int
  <2>1. \A c \in Counter : c \in Int  BY QueueAssumption DEF Counter
  <2>. QED  BY ONLY <1>1, <2>1
<1>3. AddIndex(r) \in Slot /\ SendIndex(r) \in Slot
  BY <1>2, CounterFacts DEF AddIndex, SendIndex
<1>4. \A i \in Slot, v \in Items \cup {Junk} : Store(r, i, v) \in RingOf(Items \cup {Junk})
  BY DEF Store, RingOf
<1>5. /\ Inc(r.nextAdd) \in Counter /\ Inc(r.nextSend) \in Counter
      /\ Inc(r.pendingSends) \in Counter /\ Dec(r.pendingSends) \in Counter
  BY <1>1, CounterFacts
<1>. HIDE DEF Counter
<1>6. Reserve(r) \in RingOf(Items \cup {Junk})
  BY <1>5 DEF Reserve, RingOf
<1>7. Take(r) \in RingOf(Items \cup {Junk})
  BY <1>5 DEF Take, RingOf
<1>8. CommitAdd(r) \in RingOf(Items \cup {Junk})
  BY <1>5 DEF CommitAdd, RingOf
<1>9. CommitSend(r) \in RingOf(Items \cup {Junk})
  BY <1>5 DEF CommitSend, RingOf
<1>. QED  BY <1>3, <1>4, <1>6, <1>7, <1>8, <1>9

LEMMA TypeStep == TypeInv /\ [Next]_vars => TypeInv'
<1>. SUFFICES ASSUME TypeInv, [Next]_vars PROVE TypeInv'  OBVIOUS
<1>. USE DEF TypeInv, TypeOK, AddState, SendState, AtAdd, AddGoes, Holds, Using
<1>0. ring \in RingOf(Items \cup {Junk})  OBVIOUS
<1>1. ASSUME NEW p \in Producers, CheckRoom(p) PROVE TypeInv'
  BY <1>1 DEF CheckRoom
<1>2. ASSUME NEW p \in Producers, ReserveSlot(p) PROVE TypeInv'
  BY <1>2, <1>0, RingTypes DEF ReserveSlot
<1>3. ASSUME NEW p \in Producers, NEW m \in Items, BeginFill(p, m) PROVE TypeInv'
  BY <1>3, <1>0, RingTypes DEF BeginFill
<1>4. ASSUME NEW p \in Producers, EndFill(p) PROVE TypeInv'
  BY <1>4, <1>0, RingTypes DEF EndFill
<1>5. ASSUME NEW p \in Producers, DropRequest(p) PROVE TypeInv'
  BY <1>5 DEF DropRequest
<1>6. ASSUME NEW p \in Producers, Commit(p) PROVE TypeInv'
  BY <1>6, <1>0, RingTypes DEF Commit
<1>7. CASE SeePending
  BY <1>7 DEF SeePending
<1>8. CASE TakeSlot
  BY <1>8, <1>0, RingTypes DEF TakeSlot
<1>9. CASE UseSlot
  <2>1. ring.slots[send.index] \in Items \cup {Junk}
    BY <1>9, <1>0 DEF UseSlot, RingOf
  <2>. QED  BY <1>9, <2>1 DEF UseSlot
<1>10. CASE Release
  BY <1>10, <1>0, RingTypes DEF Release
<1>11. CASE UNCHANGED vars
  BY <1>11 DEF vars
<1>. QED  BY <1>1, <1>2, <1>3, <1>4, <1>5, <1>6, <1>7, <1>8, <1>9, <1>10, <1>11
          DEF Next, Produce, Consume

\* The queue and the threads' bookkeeping keep their types, whatever the
\* threads and whether or not requests are dropped.
THEOREM TypeCorrect == Spec => []TypeOK
<1>1. TypeInv => TypeOK  BY DEF TypeInv
<1>. QED  BY <1>1, TypeInit, TypeStep, PTL DEF Spec

-----------------------------------------------------------------------------
(* The count of pending messages. *)

SingleProducer == \E p : Producers = {p}

\* A producer that saw room still has it until it commits, because only the
\* consumer moves the count meanwhile, and it only lowers it; a consumer that
\* saw a message still has it until it releases it.
CountInv ==
    /\ TypeInv
    /\ ring.pendingSends <= QueueSize
    /\ \A p \in Producers : add[p].pc # "idle" => ring.pendingSends < QueueSize
    /\ send.pc # "idle" => ring.pendingSends >= 1

\* The two counts that CountInv needs: the increment and the decrement do not
\* wrap within the range that the invariant allows.
LEMMA NoWrap ==
    ASSUME NEW c \in Nat
    PROVE  /\ c < QueueSize => Inc(c) = c + 1
           /\ 1 <= c /\ c <= QueueSize => Dec(c) = c - 1
<1>. DEFINE w == CounterRange
<1>1. w \in Nat \ {0} /\ QueueSize \in Nat /\ QueueSize < w  BY QueueAssumption
<1>2. ASSUME NEW d \in Int, 0 <= d, d < w PROVE d % w = d
  <2>1. (w * 0 + d) % w = d  BY <1>1, <1>2, ModUnique
  <2>2. w * 0 + d = d  BY <1>1, <1>2
  <2>. QED  BY <2>1, <2>2
<1>. HIDE DEF w
<1>3. c < QueueSize => Inc(c) = c + 1  BY <1>1, <1>2 DEF Inc, w
<1>4. 1 <= c /\ c <= QueueSize => Dec(c) = c - 1  BY <1>1, <1>2 DEF Dec, w
<1>. QED  BY <1>3, <1>4

\* Which operations of the ring move the count.
LEMMA RingCount ==
    ASSUME NEW r \in RingOf(Items \cup {Junk})
    PROVE  /\ r.pendingSends \in Nat
           /\ Reserve(r).pendingSends = r.pendingSends
           /\ Take(r).pendingSends = r.pendingSends
           /\ CommitAdd(r).pendingSends = Inc(r.pendingSends)
           /\ CommitSend(r).pendingSends = Dec(r.pendingSends)
           /\ \A i, v : Store(r, i, v).pendingSends = r.pendingSends
<1>1. r.pendingSends \in Nat  BY QueueAssumption DEF RingOf, Counter
<1>. QED  BY <1>1 DEF RingOf, Reserve, Take, CommitAdd, CommitSend, Store

LEMMA CountInit == Init => CountInv
BY TypeInit, QueueAssumption DEF Init, CountInv, EmptyRing

LEMMA CountStep ==
    ASSUME SingleProducer, CountInv, [Next]_vars
    PROVE  CountInv'
<1>1. PICK p : Producers = {p}  BY DEF SingleProducer
<1>2. TypeInv'  BY TypeStep DEF CountInv
<1>3. /\ ring \in RingOf(Items \cup {Junk})
      /\ add \in [{p} -> AddState]
      /\ send \in SendState
  BY <1>1 DEF CountInv, TypeInv, TypeOK
<1>4. /\ QueueSize \in Nat
      /\ ring.pendingSends \in Nat
      /\ Reserve(ring).pendingSends = ring.pendingSends
      /\ Take(ring).pendingSends = ring.pendingSends
      /\ CommitAdd(ring).pendingSends = Inc(ring.pendingSends)
      /\ CommitSend(ring).pendingSends = Dec(ring.pendingSends)
      /\ \A i, v : Store(ring, i, v).pendingSends = ring.pendingSends
  BY <1>3, RingCount, QueueAssumption
<1>. USE <1>1, <1>2, <1>3, <1>4 DEF CountInv, AtAdd, AddGoes, AddState, SendState
<1>5. CASE CheckRoom(p)
  BY <1>5 DEF CheckRoom, HasRoom
<1>6. CASE ReserveSlot(p)
  BY <1>6 DEF ReserveSlot
<1>7. ASSUME NEW m \in Items, BeginFill(p, m) PROVE CountInv'
  BY <1>7 DEF BeginFill
<1>8. CASE EndFill(p)
  BY <1>8 DEF EndFill
<1>9. CASE DropRequest(p)
  BY <1>9 DEF DropRequest
<1>10. CASE Commit(p)
  <2>1. ring'.pendingSends = ring.pendingSends + 1
    BY <1>10, NoWrap DEF Commit
  <2>2. add'[p].pc = "idle" /\ send' = send  BY <1>10 DEF Commit
  <2>3. ring.pendingSends < QueueSize  BY <1>10 DEF Commit
  <2>. QED  BY <2>1, <2>2, <2>3
<1>11. CASE SeePending
  BY <1>11 DEF SeePending, HavePendingSends
<1>12. CASE TakeSlot
  BY <1>12 DEF TakeSlot
<1>13. CASE UseSlot
  BY <1>13 DEF UseSlot
<1>14. CASE Release
  <2>1. ring'.pendingSends = ring.pendingSends - 1
    BY <1>14, NoWrap DEF Release
  <2>2. send'.pc = "idle" /\ add' = add  BY <1>14 DEF Release
  <2>. QED  BY <2>1, <2>2
<1>15. CASE UNCHANGED vars
  BY <1>15 DEF vars
<1>. QED  BY <1>5, <1>6, <1>7, <1>8, <1>9, <1>10, <1>11, <1>12, <1>13, <1>14, <1>15
          DEF Next, Produce, Consume

\* With one producer the count never passes the size of the array, also when
\* requests are dropped: the room check and the commit may be arbitrarily far
\* apart.
THEOREM CountBounded == ASSUME SingleProducer PROVE Spec => []NeverOverfull
<1>1. CountInv => NeverOverfull  BY DEF CountInv, NeverOverfull
<1>2. CountInv /\ [Next]_vars => CountInv'  BY CountStep
<1>. QED  BY <1>1, <1>2, CountInit, PTL DEF Spec

-----------------------------------------------------------------------------
(* The order of the messages. *)

NoDrops == Droppers = {}

\* The first slot whose message the consumer has not released.
Base == ring.nextSend - (IF Using THEN 1 ELSE 0)

\* The counters stay in step: a slot that the producer holds is the one just
\* behind the committed messages, and the one the consumer uses is the first
\* of them.
RingInv ==
    /\ CountInv
    /\ Using => send.index = Base % QueueSize
    /\ \A p \in Producers :
        /\ ring.nextAdd % QueueSize
             = (Base + ring.pendingSends + (IF Holds(p) THEN 1 ELSE 0)) % QueueSize
        /\ Holds(p) => add[p].index = (Base + ring.pendingSends) % QueueSize
        /\ add[p].pc \in {"filling", "filled"} => add[p].item \in Items
        /\ add[p].pc = "filled" => ring.slots[add[p].index] = add[p].item

\* The effect of the operations of the ring on the fields that RingInv reads.
LEMMA RingFields ==
    ASSUME NEW r \in RingOf(Items \cup {Junk})
    PROVE  /\ r.nextAdd \in Nat /\ r.nextSend \in Nat
           /\ Reserve(r).nextAdd % QueueSize = (r.nextAdd + 1) % QueueSize
           /\ \A k \in Int : (Take(r).nextSend - 1 + k) % QueueSize
                                = (r.nextSend + k) % QueueSize
           /\ Reserve(r).nextSend = r.nextSend /\ Take(r).nextAdd = r.nextAdd
           /\ Reserve(r).slots = r.slots /\ Take(r).slots = r.slots
           /\ CommitAdd(r) = [r EXCEPT !.pendingSends = CommitAdd(r).pendingSends]
           /\ CommitSend(r) = [r EXCEPT !.pendingSends = CommitSend(r).pendingSends]
<1>1. r.nextAdd \in Nat /\ r.nextSend \in Nat
  BY QueueAssumption DEF RingOf, Counter
<1>2. Reserve(r).nextAdd = Inc(r.nextAdd) /\ Take(r).nextSend = Inc(r.nextSend)
  BY DEF Reserve, Take, RingOf
<1>3. ASSUME NEW c \in Nat
      PROVE Inc(c) \in Int /\ Inc(c) % QueueSize = (c + 1) % QueueSize
  <2>1. c + 1 \in Int  OBVIOUS
  <2>2. (c + 1) % CounterRange \in Int  BY <2>1, CounterFacts DEF Counter
  <2>3. ((c + 1) % CounterRange) % QueueSize = (c + 1) % QueueSize
    BY ONLY <2>1, WrapKeepsSlot
  <2>. QED  BY <2>2, <2>3 DEF Inc
<1>4. ASSUME NEW k \in Int
      PROVE (Take(r).nextSend - 1 + k) % QueueSize = (r.nextSend + k) % QueueSize
  <2>. DEFINE a == Take(r).nextSend
              b == r.nextSend + 1
              j == k - 1
  <2>1. a \in Int /\ b \in Int /\ j \in Int /\ a % QueueSize = b % QueueSize
    BY <1>1, <1>2, <1>3
  <2>2. a - 1 + k = a + j /\ r.nextSend + k = b + j  BY <1>1, <2>1
  <2>. HIDE DEF a, b, j
  <2>3. (a + j) % QueueSize = (b + j) % QueueSize
    <3>1. QueueSize \in Nat \ {0}  BY QueueAssumption
    <3>. QED  BY ONLY <2>1, <3>1, ModAdd
  <2>. QED  BY <2>2, <2>3 DEF a
<1>5. /\ CommitAdd(r) = [r EXCEPT !.pendingSends = CommitAdd(r).pendingSends]
      /\ CommitSend(r) = [r EXCEPT !.pendingSends = CommitSend(r).pendingSends]
  BY DEF CommitAdd, CommitSend, RingOf
<1>. QED  BY <1>1, <1>2, <1>3, <1>4, <1>5 DEF Reserve, Take, RingOf

\* Storing changes one slot and no counter.
LEMMA StoreFields ==
    ASSUME NEW r \in RingOf(Items \cup {Junk}), NEW i \in Slot, NEW v
    PROVE  /\ Store(r, i, v).nextAdd = r.nextAdd
           /\ Store(r, i, v).nextSend = r.nextSend
           /\ Store(r, i, v).slots = [r.slots EXCEPT ![i] = v]
           /\ Store(r, i, v).slots[i] = v
           /\ \A j \in Slot \ {i} : Store(r, i, v).slots[j] = r.slots[j]
BY DEF Store, RingOf

LEMMA RingInit == Init => RingInv
<1>. SUFFICES ASSUME Init PROVE RingInv  OBVIOUS
<1>1. CountInv  BY CountInit
<1>2. 0 + 0 + 0 = 0 /\ 0 - 0 = 0  OBVIOUS
<1>. QED  BY <1>1, <1>2 DEF Init, RingInv, EmptyRing, Base, Using, Holds

LEMMA RingStep ==
    ASSUME SingleProducer, NoDrops, RingInv, [Next]_vars
    PROVE  RingInv'
<1>1. PICK p : Producers = {p}  BY DEF SingleProducer
<1>2. CountInv'  BY CountStep DEF RingInv
<1>3. /\ ring \in RingOf(Items \cup {Junk})
      /\ add \in [{p} -> AddState]
      /\ send \in SendState
      /\ Holds(p) => add[p].index \in Slot
  BY <1>1 DEF RingInv, CountInv, TypeInv, TypeOK
<1>. DEFINE n == QueueSize
            u == ring.pendingSends
<1>4. n \in Nat \ {0} /\ u \in Nat /\ ring.nextSend \in Nat /\ ring.nextAdd \in Nat
  BY <1>3, RingCount, RingFields, QueueAssumption
<1>5. Base \in Int  BY <1>4 DEF Base
<1>6. /\ Using => send.index = Base % n
      /\ ring.nextAdd % n = (Base + u + (IF Holds(p) THEN 1 ELSE 0)) % n
      /\ Holds(p) => add[p].index = (Base + u) % n
      /\ add[p].pc \in {"filling", "filled"} => add[p].item \in Items
      /\ add[p].pc = "filled" => ring.slots[add[p].index] = add[p].item
      /\ add[p].pc # "idle" => u < n
      /\ send.pc # "idle" => u >= 1
      /\ u <= n
  BY <1>1 DEF RingInv, CountInv
<1>7. Holds(p) => \A v : /\ Store(ring, add[p].index, v).nextAdd = ring.nextAdd
                        /\ Store(ring, add[p].index, v).nextSend = ring.nextSend
                        /\ Store(ring, add[p].index, v).pendingSends = u
                        /\ Store(ring, add[p].index, v).slots[add[p].index] = v
  <2>. SUFFICES ASSUME Holds(p), NEW v
                PROVE  /\ Store(ring, add[p].index, v).nextAdd = ring.nextAdd
                       /\ Store(ring, add[p].index, v).nextSend = ring.nextSend
                       /\ Store(ring, add[p].index, v).pendingSends = u
                       /\ Store(ring, add[p].index, v).slots[add[p].index] = v
    OBVIOUS
  <2>1. ring \in RingOf(Items \cup {Junk}) /\ add[p].index \in Slot  BY <1>3
  <2>2. \A i \in Slot : /\ Store(ring, i, v).nextAdd = ring.nextAdd
                       /\ Store(ring, i, v).nextSend = ring.nextSend
                       /\ Store(ring, i, v).slots[i] = v
    BY <2>1 DEF Store, RingOf
  <2>3. \A i : Store(ring, i, v).pendingSends = ring.pendingSends
    BY ONLY <2>1, RingCount
  <2>. QED  BY ONLY <2>1, <2>2, <2>3
<1>. HIDE DEF n
<1>. DEFINE Goal ==
               /\ Using' => send'.index = Base' % n
               /\ ring'.nextAdd % n = (Base' + u' + (IF Holds(p)' THEN 1 ELSE 0)) % n
               /\ Holds(p)' => add'[p].index = (Base' + u') % n
               /\ add'[p].pc \in {"filling", "filled"} => add'[p].item \in Items
               /\ add'[p].pc = "filled" => ring'.slots[add'[p].index] = add'[p].item
<1>g. \* what is left to prove, for the one producer
      SUFFICES Goal
  BY <1>1, <1>2 DEF RingInv, n
<1>. USE <1>3, <1>4, <1>5, <1>6 DEF AtAdd, AddGoes, AddState, SendState
<1>8. CASE CheckRoom(p)
  BY <1>8 DEF CheckRoom, Base, Using, Holds
<1>9. CASE ReserveSlot(p)
  <2>1. /\ ring'.nextSend = ring.nextSend /\ ring'.slots = ring.slots /\ u' = u
        /\ ring'.nextAdd % n = (ring.nextAdd + 1) % n
        /\ add'[p].pc = "reserved" /\ add'[p].index = ring.nextAdd % n
        /\ send' = send
    BY <1>9, RingFields, RingCount DEF ReserveSlot, AddIndex, n
  <2>2. ~ Holds(p) /\ Holds(p)' /\ Base' = Base /\ Using' = Using
    BY <1>9, <2>1 DEF ReserveSlot, Holds, Base, Using
  <2>3. ring.nextAdd % n = (Base + u) % n  BY <2>2
  <2>4. (ring.nextAdd + 1) % n = (Base + u + 1) % n
    <3>. DEFINE b == Base + u
    <3>1. b \in Int /\ ring.nextAdd % n = b % n  BY <2>3
    <3>. DEFINE a == ring.nextAdd
                k == 1
    <3>2. a \in Int /\ k \in Int /\ n \in Nat \ {0} /\ a % n = b % n  BY <3>1
    <3>. HIDE DEF a, b, k
    <3>3. (a + k) % n = (b + k) % n  BY ONLY <3>1, <3>2, ModAdd
    <3>. QED  BY <3>3 DEF a, b, k
  <2>. QED  BY <2>1, <2>2, <2>3, <2>4
<1>10. ASSUME NEW m \in Items, BeginFill(p, m)
       PROVE Goal
  <2>1. /\ ring' = Store(ring, add[p].index, Junk) /\ send' = send
        /\ add'[p].pc = "filling" /\ add'[p].index = add[p].index
        /\ add'[p].item = m /\ Holds(p) /\ Holds(p)'
    BY <1>10 DEF BeginFill, Holds
  <2>2. ring'.nextSend = ring.nextSend /\ ring'.nextAdd = ring.nextAdd /\ u' = u
    BY <2>1, <1>7
  <2>3. Base' = Base /\ Using' = Using  BY <2>1, <2>2 DEF Base, Using
  <2>. QED  BY <2>1, <2>2, <2>3
<1>11. CASE EndFill(p)
  <2>1. /\ ring' = Store(ring, add[p].index, add[p].item) /\ send' = send
        /\ add'[p].pc = "filled" /\ add'[p].index = add[p].index
        /\ add'[p].item = add[p].item /\ Holds(p) /\ Holds(p)'
        /\ add[p].pc = "filling"
    BY <1>11 DEF EndFill, Holds
  <2>2. /\ ring'.nextSend = ring.nextSend /\ ring'.nextAdd = ring.nextAdd /\ u' = u
        /\ ring'.slots[add[p].index] = add[p].item
    BY <2>1, <1>7
  <2>3. Base' = Base /\ Using' = Using  BY <2>1, <2>2 DEF Base, Using
  <2>. QED  BY <2>1, <2>2, <2>3
<1>12. CASE Commit(p)
  <2>1. /\ u' = u + 1 /\ ring' = [ring EXCEPT !.pendingSends = u'] /\ send' = send
        /\ add'[p].pc = "idle" /\ Holds(p) /\ ~ Holds(p)'
    BY <1>12, RingFields, RingCount, NoWrap DEF Commit, Holds, n
  <2>2. ring'.nextSend = ring.nextSend /\ ring'.nextAdd = ring.nextAdd
    BY <2>1 DEF RingOf
  <2>3. Base' = Base /\ Using' = Using  BY <2>1, <2>2 DEF Base, Using
  <2>4. Base + u + 1 = Base' + u' + 0  BY <2>1, <2>3
  <2>. QED  BY <2>1, <2>2, <2>3, <2>4
<1>13. CASE SeePending
  BY <1>13 DEF SeePending, Base, Using, Holds
<1>14. CASE TakeSlot
  <2>1. /\ ring' = Take(ring) /\ add' = add /\ Using' /\ ~ Using
        /\ send'.index = ring.nextSend % n
    BY <1>14 DEF TakeSlot, Using, SendIndex, n
  <2>2. /\ ring'.nextAdd = ring.nextAdd /\ ring'.slots = ring.slots /\ u' = u
        /\ \A k \in Int : (ring'.nextSend - 1 + k) % n = (ring.nextSend + k) % n
    BY <2>1, RingFields, RingCount DEF n
  <2>3. Base = ring.nextSend /\ Base' = ring'.nextSend - 1  BY <2>1 DEF Base
  <2>4. ring'.nextSend \in Int
    BY <2>1, CounterFacts DEF Take, RingOf, Counter
  <2>5. \A k \in Int : (Base' + k) % n = (Base + k) % n  BY <2>2, <2>3
  <2>6. Base' \in Int /\ Base' + 0 = Base' /\ Base + 0 = Base  BY <2>3, <2>4
  <2>7. (Base' + 0) % n = (Base + 0) % n  BY ONLY <2>5
  <2>8. Holds(p)' = Holds(p)  BY <2>1 DEF Holds
  <2>9. (Base' + u) % n = (Base + u) % n /\ (Base' + (u + 1)) % n = (Base + (u + 1)) % n
    <3>1. u \in Int /\ u + 1 \in Int  BY <1>4
    <3>. HIDE DEF u
    <3>. QED  BY ONLY <2>5, <3>1
  <2>10. Base' + (u + 1) = Base' + u + 1 /\ Base + (u + 1) = Base + u + 1
         /\ Base' + u + 0 = Base' + u /\ Base + u + 0 = Base + u
    BY <2>6
  <2>. QED  BY <2>1, <2>2, <2>3, <2>6, <2>7, <2>8, <2>9, <2>10
<1>15. CASE UseSlot
  BY <1>15 DEF UseSlot, Base, Using, Holds
<1>16. CASE Release
  <2>1. /\ u' = u - 1 /\ ring' = [ring EXCEPT !.pendingSends = u'] /\ add' = add
        /\ Using /\ ~ Using'
    BY <1>16, RingFields, RingCount, NoWrap DEF Release, Using, n
  <2>2. /\ ring'.nextSend = ring.nextSend /\ ring'.nextAdd = ring.nextAdd
        /\ ring'.slots = ring.slots
    BY <2>1 DEF RingOf
  <2>3. Base' + u' = Base + u  BY <2>1, <2>2 DEF Base
  <2>4. Holds(p)' = Holds(p)  BY <2>1 DEF Holds
  <2>. QED  BY <2>1, <2>2, <2>3, <2>4
<1>17. CASE UNCHANGED vars
  BY <1>17 DEF vars, Base, Using, Holds
<1>18. ~ DropRequest(p)  BY DEF NoDrops, DropRequest
<1>. QED
  BY <1>1, <1>8, <1>9, <1>10, <1>11, <1>12, <1>13, <1>14, <1>15, <1>16, <1>17, <1>18
     DEF Next, Produce, Consume

\* RingInv for the one producer, with the count in its range.
LEMMA RingUse ==
    ASSUME SingleProducer, RingInv, NEW p \in Producers
    PROVE  /\ QueueSize \in Nat \ {0}
           /\ Producers = {p}
           /\ ring \in RingOf(Items \cup {Junk})
           /\ add \in [Producers -> AddState]
           /\ ring.pendingSends \in Nat /\ ring.pendingSends <= QueueSize
           /\ ring.nextSend \in Nat
           /\ send.pc # "idle" => ring.pendingSends >= 1
           /\ Using => send.index = Base % QueueSize
           /\ add[p].pc # "idle" => ring.pendingSends < QueueSize
           /\ Holds(p) => /\ add[p].index \in Slot
                          /\ add[p].index = (Base + ring.pendingSends) % QueueSize
           /\ add[p].pc = "filled" => /\ add[p].item \in Items
                                      /\ ring.slots[add[p].index] = add[p].item
<1>1. Producers = {p}  BY DEF SingleProducer
<1>2. ring \in RingOf(Items \cup {Junk}) /\ add \in [Producers -> AddState]
  BY DEF RingInv, CountInv, TypeInv, TypeOK
<1>3. ring.nextSend \in Nat  BY <1>2, RingFields
<1>4. ring.pendingSends \in Nat /\ ring.pendingSends <= QueueSize
  BY <1>2, RingCount DEF RingInv, CountInv
<1>5. /\ send.pc # "idle" => ring.pendingSends >= 1
      /\ Using => send.index = Base % QueueSize
      /\ add[p].pc # "idle" => ring.pendingSends < QueueSize
  BY DEF RingInv, CountInv
<1>6. /\ Holds(p) => /\ add[p].index \in Slot
                     /\ add[p].index = (Base + ring.pendingSends) % QueueSize
      /\ add[p].pc \in {"filling", "filled"} => add[p].item \in Items
      /\ add[p].pc = "filled" => ring.slots[add[p].index] = add[p].item
  BY DEF RingInv, CountInv, TypeInv
<1>7. add[p].pc = "filled" => add[p].pc \in {"filling", "filled"}  OBVIOUS
<1>8. QueueSize \in Nat \ {0}  BY QueueAssumption
<1>. QED  BY ONLY <1>1, <1>2, <1>3, <1>4, <1>5, <1>6, <1>7, <1>8

LEMMA RingInvariant == ASSUME SingleProducer, NoDrops PROVE Spec => []RingInv
<1>1. RingInv /\ [Next]_vars => RingInv'  BY RingStep
<1>. QED  BY <1>1, RingInit, PTL DEF Spec

\* With one producer that drops nothing, the consumer's slot is never handed
\* to the producer while it is in use.
THEOREM NoOverwrite == ASSUME SingleProducer, NoDrops PROVE Spec => []NoOverwriteInUse
<1>1. ASSUME RingInv PROVE NoOverwriteInUse
  <2>. SUFFICES ASSUME NEW p \in Producers, Using, Holds(p)
                PROVE  add[p].index # send.index
    BY DEF NoOverwriteInUse
  <2>. DEFINE a == Base
              b == Base + ring.pendingSends
              n == QueueSize
  <2>1. /\ add[p].index = b % n /\ send.index = a % n
        /\ ring.pendingSends \in Int /\ 1 <= ring.pendingSends
        /\ ring.pendingSends < n /\ n \in Nat \ {0} /\ ring.nextSend \in Nat
    <3>1. send.pc # "idle" /\ add[p].pc # "idle"  BY DEF Using, Holds
    <3>2. RingInv  BY <1>1
    <3>. QED  BY <3>1, <3>2, RingUse
  <2>2. a \in Int /\ b \in Int /\ a < b /\ b - a < n  BY <2>1 DEF Base
  <2>. HIDE DEF a, b, n
  <2>3. a % n # b % n  BY ONLY <2>1, <2>2, ModApart
  <2>. QED  BY <2>1, <2>3
<1>. QED  BY <1>1, RingInvariant, PTL

-----------------------------------------------------------------------------
(* The ring implements the queue. *)

LEMMA FunctionIsSeq ==
    ASSUME NEW S, NEW n \in Nat, NEW c \in [1 .. n -> S]
    PROVE  c \in Seq(S) /\ Len(c) = n
<1>1. c \in Seq(S)  BY SeqDef
<1>2. Len(c) \in Nat /\ DOMAIN c = 1 .. Len(c)  BY <1>1, LenProperties
<1>3. DOMAIN c = 1 .. n  OBVIOUS
<1>. QED  BY <1>1, <1>2, <1>3

\* The unread messages lie between the consumer and the slot the producer
\* fills next.
UnreadFacts ==
    /\ Unread \in Nat /\ Unread <= ring.pendingSends
    /\ Oldest \in Int
    /\ Oldest + Unread = Base + ring.pendingSends
    /\ Contents \in Seq(Items \cup {Junk})
    /\ Len(Contents) = Unread
    /\ \A k \in 1 .. Unread :
           Contents[k] = ring.slots[(Oldest + k - 1) % QueueSize]

LEMMA UnreadRange == SingleProducer /\ RingInv => UnreadFacts
<1>. SUFFICES ASSUME SingleProducer, RingInv PROVE UnreadFacts  OBVIOUS
<1>1. /\ ring.pendingSends \in Nat /\ ring.nextSend \in Nat
      /\ send.pc # "idle" => ring.pendingSends >= 1
      /\ ring.slots \in [Slot -> Items \cup {Junk}]
  <2>1. PICK p \in Producers : TRUE  BY UseAssumption
  <2>2. ring \in RingOf(Items \cup {Junk})  BY RingUse
  <2>. QED  BY <2>2, RingUse DEF RingOf
<1>2. /\ Unread \in Nat /\ Unread <= ring.pendingSends /\ Oldest \in Int
      /\ Oldest + Unread = Base + ring.pendingSends
  BY <1>1 DEF Unread, Oldest, Base, Using
<1>. HIDE DEF Unread, Oldest
<1>3. \A k \in 1 .. Unread : Oldest + k - 1 \in Int  BY <1>2
<1>4. \A k \in 1 .. Unread : (Oldest + k - 1) % QueueSize \in Slot
  BY <1>3, CounterFacts
<1>5. \A k \in 1 .. Unread : ring.slots[(Oldest + k - 1) % QueueSize] \in Items \cup {Junk}
  <2>. SUFFICES ASSUME NEW k \in 1 .. Unread, NEW i, i = (Oldest + k - 1) % QueueSize
                PROVE  ring.slots[i] \in Items \cup {Junk}
    OBVIOUS
  <2>1. i \in Slot  BY <1>4
  <2>. QED  BY ONLY <2>1, <1>1
<1>6. Contents \in [1 .. Unread -> Items \cup {Junk}]
  BY <1>5 DEF Contents
<1>7. Contents \in Seq(Items \cup {Junk}) /\ Len(Contents) = Unread
  BY <1>2, <1>6, FunctionIsSeq
<1>. QED  BY <1>2, <1>7 DEF Contents, UnreadFacts

\* The slot that the producer holds is none of the unread ones.
LEMMA FillApart ==
    ASSUME SingleProducer, RingInv, NEW p \in Producers, Holds(p),
           NEW k \in 1 .. Unread
    PROVE  (Oldest + k - 1) % QueueSize # add[p].index
<1>. DEFINE a == Oldest + k - 1
            b == Base + ring.pendingSends
            n == QueueSize
<1>1. /\ n \in Nat \ {0} /\ ring.pendingSends \in Nat /\ ring.pendingSends < n
      /\ add[p].index = b % n
  <2>1. add[p].pc # "idle"  BY DEF Holds
  <2>. QED  BY <2>1, RingUse
<1>2. /\ Unread \in Nat /\ Unread <= ring.pendingSends /\ Oldest \in Int
      /\ Oldest + Unread = b
  BY UnreadRange DEF UnreadFacts
<1>3. a \in Int /\ b \in Int /\ a < b /\ b - a < n  BY <1>1, <1>2
<1>. HIDE DEF a, b, n
<1>4. a % n # b % n  BY ONLY <1>1, <1>3, ModApart
<1>. QED  BY <1>1, <1>4 DEF a, n

\* The three ways in which the contents change with a step.
LEMMA SameContents ==
    ASSUME NEW S, NEW c \in Seq(S), NEW d \in Seq(S), Len(d) = Len(c),
           \A k \in 1 .. Len(c) : d[k] = c[k]
    PROVE  d = c
BY SeqEqual

LEMMA MoreContents ==
    ASSUME NEW S, NEW c \in Seq(S), NEW d \in Seq(S), NEW m \in S,
           Len(d) = Len(c) + 1, d[Len(c) + 1] = m,
           \A k \in 1 .. Len(c) : d[k] = c[k]
    PROVE  d = Append(c, m)
<1>1. /\ Append(c, m) \in Seq(S) /\ Len(Append(c, m)) = Len(c) + 1
      /\ Len(c) \in Nat
      /\ \A k \in 1 .. Len(c) : Append(c, m)[k] = c[k]
      /\ Append(c, m)[Len(c) + 1] = m
  BY LenProperties
<1>2. \A k \in 1 .. Len(d) : d[k] = Append(c, m)[k]
  <2>. TAKE k \in 1 .. Len(d)
  <2>1. k \in 1 .. Len(c) \/ k = Len(c) + 1  BY <1>1
  <2>. QED  BY <1>1, <2>1
<1>. QED  BY <1>1, <1>2, SeqEqual

LEMMA LessContents ==
    ASSUME NEW S, NEW c \in Seq(S), NEW d \in Seq(S),
           Len(c) > 0, Len(d) = Len(c) - 1,
           \A k \in 1 .. Len(d) : d[k] = c[k + 1]
    PROVE  c # << >> /\ Head(c) = c[1] /\ d = Tail(c)
<1>1. c # << >> /\ Head(c) = c[1]  OBVIOUS
<1>2. /\ Tail(c) \in Seq(S) /\ Len(Tail(c)) = Len(c) - 1
      /\ \A k \in 1 .. Len(Tail(c)) : Tail(c)[k] = c[k + 1]
  BY <1>1, HeadTailProperties
<1>. QED  BY <1>1, <1>2, SeqEqual

LEMMA AbstractStep ==
    ASSUME SingleProducer, NoDrops, RingInv, [Next]_vars
    PROVE  [Abstract!Next]_<<Contents, send.item>>
<1>. DEFINE S == Items \cup {Junk}
            c == Contents
            n == QueueSize
            same == c' = c /\ send'.item = send.item
            put == \E m \in Items : /\ Len(c) < n
                                   /\ c' = Append(c, m)
                                   /\ send'.item = send.item
            get == /\ c # << >>
                   /\ send'.item = Head(c)
                   /\ c' = Tail(c)
<1>0. RingInv'  BY RingStep
<1>1. PICK p \in Producers : Producers = {p}  BY DEF SingleProducer
<1>2. UnreadFacts  BY UnreadRange
<1>3. UnreadFacts'
  <2>1. SingleProducer'  BY DEF SingleProducer
  <2>. QED  BY <1>0, <2>1, UnreadRange, PTL
<1>4. /\ c \in Seq(S) /\ Len(c) = Unread /\ Unread \in Nat
      /\ Unread <= ring.pendingSends /\ Oldest \in Int
      /\ Oldest + Unread = Base + ring.pendingSends
      /\ \A k \in 1 .. Unread : c[k] = ring.slots[(Oldest + k - 1) % n]
  BY <1>2 DEF UnreadFacts
<1>5. /\ c' \in Seq(S) /\ Len(c') = Unread' /\ Unread' \in Nat /\ Oldest' \in Int
      /\ \A k \in 1 .. Unread' : c'[k] = ring'.slots[(Oldest' + k - 1) % n]
  BY <1>3 DEF UnreadFacts
<1>6. /\ ring \in RingOf(S) /\ add \in [Producers -> AddState]
      /\ ring.pendingSends \in Nat /\ ring.nextSend \in Nat
      /\ send.pc # "idle" => ring.pendingSends >= 1
      /\ add[p].pc # "idle" => ring.pendingSends < n
      /\ send \in SendState /\ n \in Nat \ {0}
  <2>1. send \in SendState  BY DEF RingInv, CountInv, TypeInv, TypeOK
  <2>. QED  BY <2>1, RingUse
<1>. HIDE DEF c
\* A step that touches none of what the contents are read from.
<1>7. ASSUME ring'.slots = ring.slots, Unread' = Unread, Oldest' = Oldest,
             send'.item = send.item
      PROVE  same
  <2>1. \A k \in 1 .. Len(c) : c'[k] = c[k]  BY <1>4, <1>5, <1>7
  <2>2. c' = c  BY ONLY <2>1, <1>4, <1>5, <1>7, SameContents
  <2>. QED  BY <2>2, <1>7
\* Filling the reserved slot.
<1>8. ASSUME NEW v, Holds(p), ring' = Store(ring, add[p].index, v), send' = send
      PROVE  same
  <2>. DEFINE i == add[p].index
  <2>1. i \in Slot  BY <1>8, RingUse
  <2>2. /\ ring'.nextSend = ring.nextSend /\ ring'.pendingSends = ring.pendingSends
        /\ \A j \in Slot \ {i} : ring'.slots[j] = ring.slots[j]
    BY <1>6, <1>8, <2>1 DEF Store, RingOf
  <2>3. Unread' = Unread /\ Oldest' = Oldest  BY <1>8, <2>2 DEF Unread, Oldest
  <2>4. ASSUME NEW k \in 1 .. Len(c) PROVE c'[k] = c[k]
    <3>. DEFINE j == (Oldest + k - 1) % n
    <3>1. k \in 1 .. Unread  BY <1>4
    <3>2. j # i  BY <1>8, <3>1, FillApart
    <3>3. Oldest + k - 1 \in Int  BY <1>4, <3>1
    <3>4. j \in Slot  BY <3>3, CounterFacts
    <3>5. c[k] = ring.slots[j] /\ c'[k] = ring'.slots[j]  BY <1>4, <1>5, <2>3, <3>1
    <3>. QED  BY <2>2, <3>2, <3>4, <3>5
  <2>5. c' = c  BY ONLY <2>3, <2>4, <1>4, <1>5, SameContents
  <2>. QED  BY <2>5, <1>8
<1>9. ASSUME NEW q \in Producers, CheckRoom(q) PROVE same
  BY <1>7, <1>9 DEF CheckRoom, Unread, Oldest
<1>10. ASSUME NEW q \in Producers, ReserveSlot(q) PROVE same
  <2>1. /\ send' = send /\ ring'.slots = ring.slots
        /\ ring'.nextSend = ring.nextSend /\ ring'.pendingSends = ring.pendingSends
    BY <1>6, <1>10 DEF ReserveSlot, Reserve, RingOf
  <2>. QED  BY <2>1, <1>7 DEF Unread, Oldest
<1>11. ASSUME NEW q \in Producers, NEW m \in Items, BeginFill(q, m) PROVE same
  <2>1. q = p  BY <1>1
  <2>2. Holds(p) /\ ring' = Store(ring, add[p].index, Junk) /\ send' = send
    BY <1>11, <2>1 DEF BeginFill, AtAdd, Holds
  <2>. QED  BY <2>2, <1>8
<1>12. ASSUME NEW q \in Producers, EndFill(q) PROVE same
  <2>1. q = p  BY <1>1
  <2>2. Holds(p) /\ ring' = Store(ring, add[p].index, add[p].item) /\ send' = send
    BY <1>12, <2>1 DEF EndFill, AtAdd, Holds
  <2>. QED  BY <2>2, <1>8
<1>13. ASSUME NEW q \in Producers, Commit(q) PROVE put
  <2>. DEFINE m == add[p].item
  <2>1. q = p /\ Commit(p)  BY <1>1, <1>13
  <2>2. add[p].pc = "filled" /\ Holds(p) /\ send' = send /\ ring' = CommitAdd(ring)
    BY <2>1 DEF Commit, AtAdd, Holds
  <2>3. m \in Items /\ ring.slots[add[p].index] = m
        /\ add[p].index = (Base + ring.pendingSends) % n
    BY <2>2, RingUse
  <2>4. ring.pendingSends < n  BY <1>6, <2>2
  <2>5. Inc(ring.pendingSends) = ring.pendingSends + 1  BY <1>6, <2>4, NoWrap
  <2>6. /\ ring'.slots = ring.slots /\ ring'.nextSend = ring.nextSend
        /\ ring'.pendingSends = ring.pendingSends + 1
    BY <1>6, <2>2, <2>5 DEF CommitAdd, RingOf
  <2>7. Unread' = Unread + 1 /\ Oldest' = Oldest
    BY <1>6, <2>2, <2>6 DEF Unread, Oldest
  <2>8. \A k \in 1 .. Len(c) : c'[k] = c[k]  BY <1>4, <1>5, <2>6, <2>7
  <2>9. c'[Len(c) + 1] = m
    <3>1. Unread + 1 \in 1 .. Unread'  BY <1>4, <2>7
    <3>2. c'[Unread + 1] = ring'.slots[(Oldest' + (Unread + 1) - 1) % n]  BY <1>5, <3>1
    <3>3. Oldest' + (Unread + 1) - 1 = Base + ring.pendingSends  BY <1>4, <2>7
    <3>. QED  BY <3>2, <3>3, <2>3, <2>6, <1>4
  <2>10. Len(c') = Len(c) + 1 /\ m \in S  BY <1>4, <1>5, <2>7, <2>3
  <2>11. c' = Append(c, m)
    <3>. HIDE DEF m
    <3>. QED  BY ONLY <1>4, <1>5, <2>8, <2>9, <2>10, MoreContents
  <2>12. Len(c) < n  BY <1>4, <1>6, <2>4, RingUse
  <2>. QED  BY <2>2, <2>3, <2>11, <2>12
<1>14. ASSUME SeePending PROVE same
  <2>1. ring' = ring /\ send'.pc = "pending" /\ send.pc = "idle"
        /\ send'.item = send.item
    BY <1>6, <1>14 DEF SeePending, SendState
  <2>. QED  BY <2>1, <1>7 DEF Unread, Oldest
<1>15. ASSUME TakeSlot PROVE same
  <2>1. /\ ring' = Take(ring) /\ send.pc = "pending" /\ send'.pc = "taken"
        /\ send'.item = send.item
    BY <1>6, <1>15 DEF TakeSlot, SendState
  <2>2. /\ ring'.slots = ring.slots /\ ring'.pendingSends = ring.pendingSends
        /\ \A j \in Int : (ring'.nextSend - 1 + j) % n = (ring.nextSend + j) % n
    BY <1>6, <2>1, RingFields, RingCount
  <2>3. /\ Unread' = Unread /\ Oldest' = ring'.nextSend - 1 /\ Oldest = ring.nextSend
    BY <1>6, <2>1, <2>2 DEF Unread, Oldest
  <2>4. ASSUME NEW k \in 1 .. Len(c) PROVE c'[k] = c[k]
    <3>1. k \in 1 .. Unread /\ k - 1 \in Int  BY <1>4
    <3>2. (ring'.nextSend - 1 + (k - 1)) % n = (ring.nextSend + (k - 1)) % n
      BY ONLY <2>2, <3>1
    <3>3. /\ Oldest' + k - 1 = ring'.nextSend - 1 + (k - 1)
          /\ Oldest + k - 1 = ring.nextSend + (k - 1)
      BY <1>4, <1>5, <2>3, <3>1
    <3>. QED  BY <1>4, <1>5, <2>2, <2>3, <3>1, <3>2, <3>3
  <2>5. c' = c  BY ONLY <2>3, <2>4, <1>4, <1>5, SameContents
  <2>. QED  BY <2>1, <2>5
<1>16. ASSUME UseSlot PROVE get
  <2>1. /\ ring' = ring /\ send.pc = "taken" /\ send'.pc = "used"
        /\ send'.item = ring.slots[send.index]
    BY <1>6, <1>16 DEF UseSlot, SendState
  <2>2. /\ ring.pendingSends >= 1 /\ send.index = Base % n /\ Base = ring.nextSend - 1
    BY <2>1, RingUse DEF Using, Base
  <2>3. Unread = ring.pendingSends /\ Unread' = Unread - 1
        /\ Oldest = Base /\ Oldest' = Oldest + 1
    BY <1>6, <2>1, <2>2 DEF Unread, Oldest
  <2>4. Len(c) > 0 /\ Len(c') = Len(c) - 1  BY <1>4, <1>5, <1>6, <2>2, <2>3
  <2>5. c[1] = send'.item
    <3>1. Oldest + 1 - 1 = Base /\ 1 \in 1 .. Unread  BY <1>4, <2>3, <2>4
    <3>. QED  BY <1>4, <2>1, <2>2, <3>1
  <2>6. ASSUME NEW k \in 1 .. Len(c') PROVE c'[k] = c[k + 1]
    <3>1. k \in 1 .. Unread' /\ k + 1 \in 1 .. Unread  BY <1>4, <1>5, <2>3
    <3>2. Oldest' + k - 1 = Oldest + (k + 1) - 1  BY <1>4, <2>3, <3>1
    <3>3. c'[k] = ring.slots[(Oldest' + k - 1) % n]
          /\ c[k + 1] = ring.slots[(Oldest + (k + 1) - 1) % n]
      BY <1>4, <1>5, <2>1, <3>1
    <3>. QED  BY <3>2, <3>3
  <2>7. c # << >> /\ Head(c) = c[1] /\ c' = Tail(c)
    BY ONLY <1>4, <1>5, <2>4, <2>6, LessContents
  <2>. QED  BY <2>5, <2>7
<1>17. ASSUME Release PROVE same
  <2>1. /\ ring' = CommitSend(ring) /\ send.pc = "used" /\ send'.pc = "idle"
        /\ send'.item = send.item
    BY <1>6, <1>17 DEF Release, SendState
  <2>2. ring.pendingSends >= 1 /\ ring.pendingSends <= n  BY <2>1, <1>6, RingUse
  <2>3. Dec(ring.pendingSends) = ring.pendingSends - 1  BY <1>6, <2>2, NoWrap
  <2>4. /\ ring'.slots = ring.slots /\ ring'.nextSend = ring.nextSend
        /\ ring'.pendingSends = ring.pendingSends - 1
    BY <1>6, <2>1, <2>3 DEF CommitSend, RingOf
  <2>. QED  BY <1>6, <1>7, <2>1, <2>4 DEF Unread, Oldest
<1>18. ASSUME UNCHANGED vars PROVE same
  BY <1>7, <1>18 DEF vars, Unread, Oldest
<1>19. \A q \in Producers : ~ DropRequest(q)  BY DEF NoDrops, DropRequest
<1>20. same \/ put \/ get
  BY <1>9, <1>10, <1>11, <1>12, <1>13, <1>14, <1>15, <1>16, <1>17, <1>18, <1>19
     DEF Next, Produce, Consume
<1>. QED
  BY <1>20 DEF Abstract!Next, Abstract!Put, Abstract!Get, c

\* With one producer that drops nothing the ring is a bounded queue: what the
\* consumer reads is what was committed, complete, in order and once, and no
\* more than QueueSize messages are waiting.
THEOREM Refinement == ASSUME SingleProducer, NoDrops PROVE Spec => IsQueue
<1>1. ASSUME Init PROVE Abstract!Init
  <2>1. Unread = 0
    BY <1>1 DEF Init, Unread, EmptyRing
  <2>2. Contents = << >>  BY <2>1 DEF Contents
  <2>. QED  BY <2>2 DEF Abstract!Init
<1>2. RingInv /\ [Next]_vars => [Abstract!Next]_<<Contents, send.item>>
  BY AbstractStep
<1>. QED
  BY <1>1, <1>2, RingInvariant, PTL DEF Spec, IsQueue, Abstract!Spec
=============================================================================

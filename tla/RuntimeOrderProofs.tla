-------------------------- MODULE RuntimeOrderProofs --------------------------
(***************************************************************************)
(* The order in which messages leave, proved over the table the runtime    *)
(* implements: what an address pushes, what waits in its inbox, and what   *)
(* waits, or is in work, at the address that relays to it, have increasing *)
(* numbers in this order.                                                  *)
(***************************************************************************)
EXTENDS RuntimeTableProofs, SequenceTheorems

-----------------------------------------------------------------------------
(* The invariant, over a table with the numbers pushed so far.             *)

\* A message that is numbered, and will leave at a or go on to the peer of a.
Leaves(a, m) == m.id # 0 /\ ~Relays(a, m)
GoesOn(a, m) == m.id # 0 /\ Relays(a, m)

\* Of the messages queued at a, those that leave are in order, and those that go on.
InOrder(a, q) ==
  \A i, j \in DOMAIN q : i < j =>
    /\ Leaves(a, q[i]) /\ Leaves(a, q[j]) => q[i].id < q[j].id
    /\ GoesOn(a, q[i]) /\ GoesOn(a, q[j]) => q[i].id < q[j].id

Increasing(s) == \A i, j \in DOMAIN s : i < j => s[i] < s[j]

\* What waits at a with a larger number than everything that m must not overtake:
\* the numbers pushed in pu at b, and the messages of q that leave there.
Behind(m, b, pu, q) ==
  /\ \A k \in Range(pu) : k < m.id
  /\ \A n \in Range(q) : Leaves(b, n) => n.id < m.id

\* pu: the numbers pushed; in: the inboxes; wk: the work; n: messages so far.
Ordered(pu, in, wk, n) ==
  \A a \in Addr :
    /\ Increasing(pu[a]) /\ InOrder(a, in[a])
    /\ \A k \in Range(pu[a]) : k =< n
    /\ \A m \in Range(in[a]) :
         /\ m.id =< n
         /\ Leaves(a, m) => \A k \in Range(pu[a]) : k < m.id
         /\ GoesOn(a, m) => Behind(m, Peer[a], pu[Peer[a]], in[Peer[a]])
    /\ wk[a] # None =>
         /\ wk[a].id =< n
         /\ GoesOn(a, wk[a]) =>
              /\ Behind(wk[a], Peer[a], pu[Peer[a]], in[Peer[a]])
              /\ \A m \in Range(in[a]) : GoesOn(a, m) => wk[a].id < m.id

OrderInv == Ordered(pushed, Inboxes, Works, sent)

-----------------------------------------------------------------------------
(* Queues and numbers.                                                     *)

LEMMA AppendRange ==
  ASSUME NEW S, NEW q \in Seq(S), NEW e \in S
  PROVE  /\ Append(q, e) \in Seq(S) /\ Range(Append(q, e)) = Range(q) \cup {e}
         /\ DOMAIN q = 1..Len(q) /\ DOMAIN Append(q, e) = 1..(Len(q) + 1)
         /\ Append(q, e)[Len(q) + 1] = e
         /\ Len(q) \in Nat /\ \A i \in 1..Len(q) : Append(q, e)[i] = q[i]
<1>1. /\ Append(q, e) \in Seq(S) /\ Len(Append(q, e)) = Len(q) + 1
      /\ \A i \in 1..Len(q) : Append(q, e)[i] = q[i]
      /\ Append(q, e)[Len(q) + 1] = e
  BY AppendProperties
<1>2. /\ Len(q) \in Nat /\ DOMAIN q = 1..Len(q)
      /\ DOMAIN Append(q, e) = 1..(Len(q) + 1)
  BY <1>1, LenProperties
<1>3. Range(Append(q, e)) = Range(q) \cup {e}
  BY <1>1, <1>2 DEF Range
<1>. QED
  BY <1>1, <1>2, <1>3

LEMMA TailRange ==
  ASSUME NEW S, NEW q \in Seq(S), q # <<>>
  PROVE  /\ Tail(q) \in Seq(S) /\ Range(Tail(q)) \subseteq Range(q)
         /\ Head(q) \in Range(q) /\ Head(q) = q[1] /\ Len(q) \in Nat \ {0}
         /\ DOMAIN q = 1..Len(q) /\ DOMAIN Tail(q) = 1..(Len(q) - 1)
         /\ \A i \in 1..(Len(q) - 1) : Tail(q)[i] = q[i + 1]
<1>1. /\ Tail(q) \in Seq(S) /\ Len(Tail(q)) = Len(q) - 1
      /\ \A i \in 1..Len(Tail(q)) : Tail(q)[i] = q[i + 1]
  BY HeadTailProperties
<1>2. /\ Len(q) \in Nat \ {0} /\ DOMAIN q = 1..Len(q) /\ DOMAIN Tail(q) = 1..(Len(q) - 1)
  BY <1>1, LenProperties, EmptySeq
<1>3. Head(q) = q[1] /\ 1 \in DOMAIN q
  BY <1>2
<1>4. \A i \in 1..(Len(q) - 1) : Tail(q)[i] = q[i + 1] /\ i + 1 \in DOMAIN q
  BY <1>1, <1>2
<1>5. Range(Tail(q)) \subseteq Range(q) /\ Head(q) \in Range(q)
  BY <1>2, <1>3, <1>4 DEF Range
<1>. QED
  BY <1>1, <1>2, <1>3, <1>4, <1>5

\* A larger number at the end keeps the numbers increasing.
LEMMA AppendIncreasing ==
  ASSUME NEW s \in Seq(Nat), NEW k \in Nat, Increasing(s), \A x \in Range(s) : x < k
  PROVE  Increasing(Append(s, k))
<1>1. \A i \in 1..Len(s) : s[i] \in Range(s)
  BY AppendRange DEF Range
<1> SUFFICES ASSUME NEW i \in 1..(Len(s) + 1), NEW j \in 1..(Len(s) + 1), i < j
             PROVE  Append(s, k)[i] < Append(s, k)[j]
  BY AppendRange DEF Increasing
<1>2. i \in 1..Len(s) /\ Append(s, k)[i] = s[i]
  BY AppendRange
<1>3. CASE j = Len(s) + 1
  BY <1>1, <1>2, <1>3, AppendRange
<1>4. CASE j # Len(s) + 1
  BY <1>2, <1>4, AppendRange DEF Increasing
<1>. QED
  BY <1>3, <1>4

\* A message that overtakes none of its kind keeps the queue in order.
LEMMA AppendInOrder ==
  ASSUME NEW a \in Addr, NEW q \in Seq(Message), NEW m \in Message, InOrder(a, q),
         \A x \in Range(q) : /\ Leaves(a, x) /\ Leaves(a, m) => x.id < m.id
                             /\ GoesOn(a, x) /\ GoesOn(a, m) => x.id < m.id
  PROVE  InOrder(a, Append(q, m))
<1>1. \A i \in 1..Len(q) : q[i] \in Range(q)
  BY AppendRange DEF Range
<1> DEFINE r == Append(q, m)
<1>2. /\ DOMAIN r = 1..(Len(q) + 1) /\ DOMAIN q = 1..Len(q) /\ Len(q) \in Nat
      /\ r[Len(q) + 1] = m /\ \A i \in 1..Len(q) : r[i] = q[i]
  BY AppendRange
<1> HIDE DEF r
<1> SUFFICES ASSUME NEW i \in 1..(Len(q) + 1), NEW j \in 1..(Len(q) + 1), i < j
             PROVE  /\ Leaves(a, r[i]) /\ Leaves(a, r[j]) => r[i].id < r[j].id
                    /\ GoesOn(a, r[i]) /\ GoesOn(a, r[j]) => r[i].id < r[j].id
  BY <1>2 DEF InOrder, r
<1>3. i \in 1..Len(q) /\ r[i] = q[i]
  BY <1>2
<1>4. CASE j = Len(q) + 1
  BY <1>1, <1>2, <1>3, <1>4
<1>5. CASE j # Len(q) + 1
  <2>1. j \in 1..Len(q) /\ r[j] = q[j]
    BY <1>2, <1>5
  <2>. QED
    BY <1>2, <1>3, <2>1 DEF InOrder
<1>. QED
  BY <1>4, <1>5

\* The oldest message is before all others of its kind.
LEMMA TailInOrder ==
  ASSUME NEW a \in Addr, NEW q \in Seq(Message), q # <<>>, InOrder(a, q)
  PROVE  /\ InOrder(a, Tail(q))
         /\ \A x \in Range(Tail(q)) :
              /\ Leaves(a, Head(q)) /\ Leaves(a, x) => Head(q).id < x.id
              /\ GoesOn(a, Head(q)) /\ GoesOn(a, x) => Head(q).id < x.id
<1> DEFINE r == Tail(q)
<1>1. /\ DOMAIN q = 1..Len(q) /\ DOMAIN r = 1..(Len(q) - 1) /\ Head(q) = q[1]
      /\ Len(q) \in Nat \ {0} /\ \A i \in 1..(Len(q) - 1) : r[i] = q[i + 1]
  BY TailRange
<1> HIDE DEF r
<1>2. ASSUME NEW i \in DOMAIN r, NEW j \in DOMAIN r, i < j
      PROVE  /\ Leaves(a, r[i]) /\ Leaves(a, r[j]) => r[i].id < r[j].id
             /\ GoesOn(a, r[i]) /\ GoesOn(a, r[j]) => r[i].id < r[j].id
  <2>1. i + 1 \in DOMAIN q /\ j + 1 \in DOMAIN q /\ i + 1 < j + 1
    BY <1>1, <1>2
  <2>. QED
    BY <1>1, <2>1 DEF InOrder
<1>3. ASSUME NEW i \in DOMAIN r
      PROVE  /\ Leaves(a, q[1]) /\ Leaves(a, r[i]) => q[1].id < r[i].id
             /\ GoesOn(a, q[1]) /\ GoesOn(a, r[i]) => q[1].id < r[i].id
  <2>1. i + 1 \in DOMAIN q /\ 1 \in DOMAIN q /\ 1 < i + 1
    BY <1>1
  <2>. QED
    BY <1>1, <2>1 DEF InOrder
<1>. QED
  BY <1>1, <1>2, <1>3 DEF InOrder, Range, r

-----------------------------------------------------------------------------
(* What keeps a table in order, whatever its variables.                    *)

\* The shape of the table.
Shaped(pu, in, wk, n) ==
  /\ pu \in [Addr -> Seq(Nat)] /\ in \in [Addr -> Seq(Message)]
  /\ wk \in [Addr -> Message \cup {None}] /\ n \in Nat

\* A message is handled by its own actor or by the peer.
LEMMA Peers ==
  \A a \in Addr : Peer[a] \in Addr /\ Peer[a] # a
  BY RuntimeAssumption, PairAssumption DEF Addr

\* What is emptied, or interrupted, leaves the rest in order.
LEMMA OrderedLess ==
  ASSUME NEW pu, NEW in, NEW wk, NEW n, NEW in2, NEW wk2, Ordered(pu, in, wk, n),
         \A a \in Addr : in2[a] = in[a] \/ in2[a] = <<>>,
         \A a \in Addr : wk2[a] = wk[a] \/ wk2[a] = None
  PROVE  Ordered(pu, in2, wk2, n)
<1>1. \A a \in Addr : Range(in2[a]) \subseteq Range(in[a])
  BY DEF Range
<1>2. \A a \in Addr : InOrder(a, in2[a])
  BY DEF Ordered, InOrder
<1> SUFFICES ASSUME NEW a \in Addr
             PROVE  /\ \A m \in Range(in2[a]) :
                         GoesOn(a, m) => Behind(m, Peer[a], pu[Peer[a]], in2[Peer[a]])
                    /\ wk2[a] # None /\ GoesOn(a, wk2[a]) =>
                         Behind(wk2[a], Peer[a], pu[Peer[a]], in2[Peer[a]])
  BY <1>1, <1>2 DEF Ordered
<1>3. Range(in2[Peer[a]]) \subseteq Range(in[Peer[a]])
  BY <1>1, Peers
<1>. QED
  BY <1>1, <1>3 DEF Ordered, Behind

\* A message arrives at b, and is out of order with none that waits.
LEMMA OrderedArrive ==
  ASSUME NEW pu, NEW in, NEW wk, NEW n, Shaped(pu, in, wk, n), Ordered(pu, in, wk, n),
         NEW b \in Addr, NEW m \in Message, NEW n2 \in Nat, n =< n2, m.id =< n2,
         Leaves(b, m) => Behind(m, b, pu[b], in[b]),
         Leaves(b, m) => \A a \in Addr : Peer[a] = b =>
            /\ \A x \in Range(in[a]) : GoesOn(a, x) => m.id < x.id
            /\ wk[a] # None /\ GoesOn(a, wk[a]) => m.id < wk[a].id,
         GoesOn(b, m) =>
            /\ Behind(m, Peer[b], pu[Peer[b]], in[Peer[b]])
            /\ \A x \in Range(in[b]) : GoesOn(b, x) => x.id < m.id
            /\ wk[b] # None /\ GoesOn(b, wk[b]) => wk[b].id < m.id
  PROVE  Ordered(pu, [in EXCEPT ![b] = Append(@, m)], wk, n2)
<1> DEFINE in2 == [in EXCEPT ![b] = Append(@, m)]
<1>1. /\ in[b] \in Seq(Message)
      /\ in2[b] = Append(in[b], m) /\ \A a \in Addr \ {b} : in2[a] = in[a]
  BY DEF Shaped
<1> HIDE DEF in2
<1>2. Range(in2[b]) = Range(in[b]) \cup {m}
  BY <1>1, AppendRange
<1>3. \A a \in Addr : InOrder(a, in2[a])
  <2>1. InOrder(b, in[b])
    BY DEF Ordered
  <2>2. \A x \in Range(in[b]) : /\ Leaves(b, x) /\ Leaves(b, m) => x.id < m.id
                                /\ GoesOn(b, x) /\ GoesOn(b, m) => x.id < m.id
    BY DEF Behind
  <2>3. InOrder(b, Append(in[b], m))
    BY <1>1, <2>1, <2>2, AppendInOrder
  <2>. QED
    BY <1>1, <2>3 DEF Ordered
<1>4. ASSUME NEW a \in Addr, NEW x \in Message, GoesOn(a, x),
             Behind(x, Peer[a], pu[Peer[a]], in[Peer[a]]),
             Peer[a] = b /\ Leaves(b, m) => m.id < x.id
      PROVE  Behind(x, Peer[a], pu[Peer[a]], in2[Peer[a]])
  <2>1. CASE Peer[a] = b
    BY <1>2, <1>4, <2>1 DEF Behind
  <2>2. CASE Peer[a] # b
    BY <1>1, <1>4, <2>2, Peers
  <2>. QED
    BY <2>1, <2>2
<1>5. \A a \in Addr : Range(in[a]) \subseteq Message /\ Range(pu[a]) \subseteq Nat
  BY RangeOfSeq DEF Shaped
<1>6. \A x \in Message : x.id \in Nat
  BY DEF Message
<1> SUFFICES ASSUME NEW a \in Addr
             PROVE  /\ Increasing(pu[a]) /\ InOrder(a, in2[a])
                    /\ \A k \in Range(pu[a]) : k =< n2
                    /\ \A x \in Range(in2[a]) :
                         /\ x.id =< n2
                         /\ Leaves(a, x) => \A k \in Range(pu[a]) : k < x.id
                         /\ GoesOn(a, x) => Behind(x, Peer[a], pu[Peer[a]], in2[Peer[a]])
                    /\ wk[a] # None =>
                         /\ wk[a].id =< n2
                         /\ GoesOn(a, wk[a]) =>
                              /\ Behind(wk[a], Peer[a], pu[Peer[a]], in2[Peer[a]])
                              /\ \A x \in Range(in2[a]) : GoesOn(a, x) => wk[a].id < x.id
  BY DEF Ordered, in2
<1>7. Increasing(pu[a]) /\ \A k \in Range(pu[a]) : k =< n2
  BY <1>5 DEF Ordered, Shaped
<1>8. ASSUME NEW x \in Range(in[a])
      PROVE  /\ x.id =< n2
             /\ Leaves(a, x) => \A k \in Range(pu[a]) : k < x.id
             /\ GoesOn(a, x) => Behind(x, Peer[a], pu[Peer[a]], in2[Peer[a]])
  <2>1. x \in Message /\ x.id =< n
    BY <1>5 DEF Ordered
  <2>2. x.id =< n2
    BY <1>6, <2>1 DEF Shaped
  <2>3. Leaves(a, x) => \A k \in Range(pu[a]) : k < x.id
    BY DEF Ordered
  <2>4. ASSUME GoesOn(a, x) PROVE Behind(x, Peer[a], pu[Peer[a]], in2[Peer[a]])
    <3>1. Behind(x, Peer[a], pu[Peer[a]], in[Peer[a]])
      BY <2>4 DEF Ordered
    <3>. QED
      BY <1>4, <2>1, <2>4, <3>1
  <2>. QED
    BY <2>2, <2>3, <2>4
<1>9. ASSUME a = b
      PROVE  /\ Leaves(a, m) => \A k \in Range(pu[a]) : k < m.id
             /\ GoesOn(a, m) => Behind(m, Peer[a], pu[Peer[a]], in2[Peer[a]])
  BY <1>1, <1>9, Peers DEF Behind
<1>10. ASSUME wk[a] # None
       PROVE  /\ wk[a].id =< n2
              /\ GoesOn(a, wk[a]) =>
                   /\ Behind(wk[a], Peer[a], pu[Peer[a]], in2[Peer[a]])
                   /\ \A x \in Range(in2[a]) : GoesOn(a, x) => wk[a].id < x.id
  <2>1. wk[a] \in Message /\ wk[a].id =< n
    BY <1>10 DEF Ordered, Shaped
  <2>2. wk[a].id =< n2
    BY <1>6, <2>1 DEF Shaped
  <2>3. ASSUME GoesOn(a, wk[a]) PROVE Behind(wk[a], Peer[a], pu[Peer[a]], in2[Peer[a]])
    <3>1. Behind(wk[a], Peer[a], pu[Peer[a]], in[Peer[a]])
      BY <1>10, <2>3 DEF Ordered
    <3>. QED
      BY <1>4, <1>10, <2>1, <2>3, <3>1
  <2>4. ASSUME GoesOn(a, wk[a]), NEW x \in Range(in2[a]), GoesOn(a, x)
        PROVE  wk[a].id < x.id
    <3>1. CASE x \in Range(in[a])
      BY <1>10, <2>4, <3>1 DEF Ordered
    <3>2. CASE a = b /\ x = m
      BY <1>10, <2>4, <3>2
    <3>. QED
      BY <1>1, <1>2, <2>4, <3>1, <3>2
  <2>. QED
    BY <2>2, <2>3, <2>4
<1>. QED
  BY <1>1, <1>2, <1>3, <1>7, <1>8, <1>9, <1>10

\* The oldest message of a goes in work, and out if it leaves there.
LEMMA OrderedAccept ==
  ASSUME NEW pu, NEW in, NEW wk, NEW n, Shaped(pu, in, wk, n), Ordered(pu, in, wk, n),
         NEW a \in Addr, in[a] # <<>>, NEW pu2,
         \/ pu2 = pu
         \/ Leaves(a, Head(in[a])) /\ pu2 = [pu EXCEPT ![a] = Append(@, Head(in[a]).id)]
  PROVE  Ordered(pu2, [in EXCEPT ![a] = Tail(@)], [wk EXCEPT ![a] = Head(in[a])], n)
<1> DEFINE m == Head(in[a])
           in2 == [in EXCEPT ![a] = Tail(@)]
           wk2 == [wk EXCEPT ![a] = m]
<1>1. /\ in[a] \in Seq(Message) /\ pu[a] \in Seq(Nat)
      /\ m \in Range(in[a]) /\ m \in Message /\ m.id \in Nat
  <2>1. in[a] \in Seq(Message) /\ pu[a] \in Seq(Nat)
    BY DEF Shaped
  <2>2. m \in Range(in[a]) /\ Range(in[a]) \subseteq Message
    BY <2>1, TailRange, RangeOfSeq
  <2> HIDE DEF m
  <2>. QED
    BY <2>1, <2>2 DEF Message
<1>2. /\ in2[a] = Tail(in[a]) /\ \A c \in Addr \ {a} : in2[c] = in[c]
      /\ wk2[a] = m /\ \A c \in Addr \ {a} : wk2[c] = wk[c]
  BY DEF Shaped
<1>3. /\ InOrder(a, in[a])
      /\ \A x \in Range(Tail(in[a])) : /\ Leaves(a, m) /\ Leaves(a, x) => m.id < x.id
                                       /\ GoesOn(a, m) /\ GoesOn(a, x) => m.id < x.id
      /\ InOrder(a, Tail(in[a])) /\ Range(Tail(in[a])) \subseteq Range(in[a])
  <2>1. InOrder(a, in[a])
    BY DEF Ordered
  <2>. QED
    BY <1>1, <2>1, TailInOrder, TailRange
<1> HIDE DEF m, in2, wk2
<1>4. /\ \A c \in Addr : InOrder(c, in2[c]) /\ Range(in2[c]) \subseteq Range(in[c])
      /\ \A c \in Addr : Range(in[c]) \subseteq Message /\ Range(pu[c]) \subseteq Nat
  BY <1>2, <1>3, RangeOfSeq DEF Ordered, Shaped
<1>5. /\ m.id =< n
      /\ Leaves(a, m) => \A k \in Range(pu[a]) : k < m.id
      /\ GoesOn(a, m) => Behind(m, Peer[a], pu[Peer[a]], in[Peer[a]])
  BY <1>1 DEF Ordered
<1>6. /\ \A c \in Addr \ {a} : pu2[c] = pu[c]
      /\ pu2[a] = pu[a] \/ (/\ Leaves(a, m) /\ Range(pu2[a]) = Range(pu[a]) \cup {m.id}
                           /\ pu2[a] = Append(pu[a], m.id))
  <2>1. Range(Append(pu[a], m.id)) = Range(pu[a]) \cup {m.id}
    BY <1>1, AppendRange
  <2>2. pu2 = pu \/ (Leaves(a, m) /\ pu2 = [pu EXCEPT ![a] = Append(@, m.id)])
    BY DEF m
  <2>3. pu2 = [pu EXCEPT ![a] = Append(@, m.id)] =>
          pu2[a] = Append(pu[a], m.id) /\ \A c \in Addr \ {a} : pu2[c] = pu[c]
    BY DEF Shaped
  <2>. QED
    BY <2>1, <2>2, <2>3
<1>7. \A c \in Addr : Increasing(pu2[c])
  <2>1. \A c \in Addr : Increasing(pu[c])
    BY DEF Ordered
  <2>2. Leaves(a, m) => Increasing(Append(pu[a], m.id))
    BY <1>1, <1>5, <2>1, AppendIncreasing
  <2>. QED
    BY <1>6, <2>1, <2>2
<1>8. \A c \in Addr : \A k \in Range(pu2[c]) : k =< n
  BY <1>5, <1>6 DEF Ordered
<1>9. ASSUME NEW c \in Addr, NEW x \in Message,
             Behind(x, Peer[c], pu[Peer[c]], in[Peer[c]])
      PROVE  Behind(x, Peer[c], pu2[Peer[c]], in2[Peer[c]])
  <2>1. Peer[c] \in Addr
    BY Peers
  <2>2. \A k \in Range(pu2[Peer[c]]) : k < x.id
    <3>1. \A k \in Range(pu[Peer[c]]) : k < x.id
      BY <1>9 DEF Behind
    <3>2. Peer[c] = a /\ Leaves(a, m) => m.id < x.id
      BY <1>1, <1>9 DEF Behind
    <3>. QED
      BY <1>6, <2>1, <3>1, <3>2
  <2>. QED
    BY <1>4, <1>9, <2>1, <2>2 DEF Behind
<1> SUFFICES ASSUME NEW c \in Addr
             PROVE  /\ \A x \in Range(in2[c]) :
                         /\ x.id =< n
                         /\ Leaves(c, x) => \A k \in Range(pu2[c]) : k < x.id
                         /\ GoesOn(c, x) => Behind(x, Peer[c], pu2[Peer[c]], in2[Peer[c]])
                    /\ wk2[c] # None =>
                         /\ wk2[c].id =< n
                         /\ GoesOn(c, wk2[c]) =>
                              /\ Behind(wk2[c], Peer[c], pu2[Peer[c]], in2[Peer[c]])
                              /\ \A x \in Range(in2[c]) : GoesOn(c, x) => wk2[c].id < x.id
  BY <1>4, <1>7, <1>8 DEF Ordered, in2, wk2, m
<1>10. ASSUME NEW x \in Range(in2[c])
       PROVE  /\ x.id =< n
              /\ Leaves(c, x) => \A k \in Range(pu2[c]) : k < x.id
              /\ GoesOn(c, x) => Behind(x, Peer[c], pu2[Peer[c]], in2[Peer[c]])
  <2>1. x \in Range(in[c]) /\ x \in Message
    BY <1>4
  <2>2. /\ x.id =< n
        /\ Leaves(c, x) => \A k \in Range(pu[c]) : k < x.id
        /\ GoesOn(c, x) => Behind(x, Peer[c], pu[Peer[c]], in[Peer[c]])
    BY <2>1 DEF Ordered
  <2>3. Leaves(c, x) => \A k \in Range(pu2[c]) : k < x.id
    BY <1>2, <1>3, <1>6, <2>2
  <2>. QED
    BY <1>9, <2>1, <2>2, <2>3
<1>11. CASE c = a
  BY <1>1, <1>2, <1>3, <1>5, <1>9, <1>10, <1>11
<1>12. CASE c # a
  <2>1. wk2[c] = wk[c] /\ in2[c] = in[c]
    BY <1>2, <1>12
  <2>2. ASSUME wk[c] # None
        PROVE  /\ wk[c] \in Message /\ wk[c].id =< n
               /\ GoesOn(c, wk[c]) =>
                    /\ Behind(wk[c], Peer[c], pu[Peer[c]], in[Peer[c]])
                    /\ \A x \in Range(in[c]) : GoesOn(c, x) => wk[c].id < x.id
    BY <2>2 DEF Ordered, Shaped
  <2>. QED
    BY <1>9, <1>10, <2>1, <2>2
<1>. QED
  BY <1>11, <1>12

\* A post that overtakes nothing: to an actor that is not alive it is nothing.
LEMMA OrderedPost ==
  ASSUME NEW pu, NEW in, NEW wk, NEW n, Ordered(pu, in, wk, n),
         NEW b \in Addr, NEW m,
         Ordered(pu, [in EXCEPT ![b] = Append(@, m)], wk, n)
  PROVE  Ordered(pu, Table!Post(in, b, m), wk, n)
  BY DEF Table!Post

\* The message in work at a is through: it went on to the peer, or an error notice
\* without a number to some actor.
LEMMA OrderedHandled ==
  ASSUME NEW pu, NEW in, NEW wk, NEW n, Shaped(pu, in, wk, n), Ordered(pu, in, wk, n),
         NEW a \in Addr, wk[a] # None, NEW in2,
         Relayed(in2, in, a, wk[a]) \/ Notified(in2, in, a)
  PROVE  Ordered(pu, in2, [wk EXCEPT ![a] = None], n)
<1> DEFINE m == wk[a]
           wk2 == [wk EXCEPT ![a] = None]
<1>1. /\ Shaped(pu, in, wk2, n) /\ wk2[a] = None
      /\ \A c \in Addr : wk2[c] = wk[c] \/ wk2[c] = None
  BY DEF Shaped
<1>2. m \in Message /\ m.id \in Nat
  BY DEF Shaped, Message
<1> HIDE DEF wk2
<1>3. Ordered(pu, in, wk2, n)
  BY <1>1, OrderedLess
<1>4. ASSUME Relays(a, m)
      PROVE  Ordered(pu, Table!Post(in, Peer[a], m), wk2, n)
  <2>1. ~Relays(Peer[a], m) /\ Peer[a] \in Addr
    BY <1>4, RuntimeAssumption, PairAssumption DEF Relays, Addr
  <2>2. m.id =< n /\ (GoesOn(a, m) => /\ Behind(m, Peer[a], pu[Peer[a]], in[Peer[a]])
                                     /\ \A x \in Range(in[a]) : GoesOn(a, x) => m.id < x.id)
    BY DEF Ordered
  <2>3. Leaves(Peer[a], m) => GoesOn(a, m)
    BY <1>4 DEF Leaves, GoesOn
  <2>4. ASSUME NEW c \in Addr, Peer[c] = Peer[a] PROVE c = a
    BY <2>4, PairAssumption
  <2>5. ~GoesOn(Peer[a], m) /\ n \in Nat /\ n =< n
    BY <2>1 DEF GoesOn, Shaped
  <2> HIDE DEF m
  <2>6. Leaves(Peer[a], m) => \A c \in Addr : Peer[c] = Peer[a] =>
           /\ \A x \in Range(in[c]) : GoesOn(c, x) => m.id < x.id
           /\ wk2[c] # None /\ GoesOn(c, wk2[c]) => m.id < wk2[c].id
    BY <1>1, <2>2, <2>3, <2>4
  <2>7. Ordered(pu, [in EXCEPT ![Peer[a]] = Append(@, m)], wk2, n)
    BY <1>1, <1>2, <1>3, <2>1, <2>2, <2>3, <2>5, <2>6, OrderedArrive
  <2>. QED
    BY <1>3, <2>1, <2>7, OrderedPost
<1>5. ASSUME NEW b \in Addr
      PROVE  Ordered(pu, Table!Post(in, b, [from |-> a, id |-> 0]), wk2, n)
  <2> DEFINE x == [from |-> a, id |-> 0]
  <2>1. x \in Message /\ x.id = 0 /\ n \in Nat /\ 0 =< n /\ n =< n
    BY RuntimeAssumption DEF Message, Shaped
  <2> HIDE DEF x
  <2>2. ~Leaves(b, x) /\ ~GoesOn(b, x)
    BY <2>1 DEF Leaves, GoesOn
  <2>3. Ordered(pu, [in EXCEPT ![b] = Append(@, x)], wk2, n)
    BY <1>1, <1>3, <2>1, <2>2, OrderedArrive
  <2>4. Ordered(pu, Table!Post(in, b, x), wk2, n)
    BY <1>3, <2>3, OrderedPost
  <2>. QED
    BY <2>4 DEF x
<1>. QED
  BY <1>3, <1>4, <1>5 DEF Relayed, Notified, wk2, m

-----------------------------------------------------------------------------
(* Every step of the runtime keeps the order.                              *)

LEMMA ShapeOK == RuntimeInv => Shaped(pushed, Inboxes, Works, sent)
<1> SUFFICES ASSUME RuntimeInv PROVE Shaped(pushed, Inboxes, Works, sent)
  OBVIOUS
<1>1. TypeOK
  BY DEF RuntimeInv
<1>2. sent \in Nat
  BY <1>1, RuntimeAssumption DEF TypeOK
<1>3. pushed \in [Addr -> Seq(Nat)]
  <2>1. \A a \in Addr : pushed[a] \in Seq(0..MaxSent)
    BY <1>1 DEF TypeOK
  <2>2. 0..MaxSent \subseteq Nat
    BY RuntimeAssumption
  <2>3. \A a \in Addr : pushed[a] \in Seq(Nat)
    BY <2>1, <2>2, SeqMonotonic
  <2>. QED
    BY <1>1, <2>3 DEF TypeOK
<1>. QED
  BY <1>2, <1>3, TableTypes DEF Shaped

LEMMA InitOrder == Init => OrderInv
<1> SUFFICES ASSUME Init PROVE OrderInv
  OBVIOUS
<1>1. \A a \in Addr : /\ pushed[a] = <<>> /\ Inboxes[a] = <<>> /\ Works[a] = None
  BY DEF Init, Inboxes, InboxAt, Works, WorkAt
<1>2. Range(<<>>) = {} /\ DOMAIN <<>> = {}
  BY DEF Range
<1>. QED
  BY <1>1, <1>2 DEF OrderInv, Ordered, Increasing, InOrder

\* A step that moves no message: inboxes are kept or begin anew.
Quiet ==
  /\ \A a \in Addr : Inboxes'[a] = Inboxes[a] \/ Inboxes'[a] = <<>>
  /\ \A a \in Addr : Works'[a] = Works[a] \/ Works'[a] = None
  /\ UNCHANGED <<pushed, sent>>

LEMMA QuietOrder == OrderInv /\ Quiet => OrderInv'
  BY OrderedLess DEF OrderInv, Quiet

LEMMA SpawnQuiet ==
  ASSUME RuntimeInv, NEW a \in Addr, NEW o \in Obj,
         NEW state \in {"active", "suspended"}, NEW wired \in BOOLEAN,
         Spawn(a, o, state, wired)
  PROVE  Quiet
<1>1. /\ Inboxes' = [Inboxes EXCEPT ![a] = <<>>] /\ Works' = Works
      /\ Inboxes \in [Addr -> Seq(Message)]
  BY SpawnTable, TableTypes
<1>. QED
  BY <1>1 DEF Quiet, Spawn

LEMMA EndsQuiet ==
  ASSUME EndsSome, UNCHANGED <<pushed, sent>>
  PROVE  Quiet
  BY DEF EndsSome, Quiet

LEMMA LifecycleQuiet ==
  ASSUME RuntimeInv
  PROVE  /\ \A a \in Addr : Attach(a) \/ Detach(a) \/ Wire(a) => Quiet
         /\ \A c \in StopCalls, a \in Addr : BeginStop(c, a) => Quiet
         /\ \A c \in StopCalls : FinishStop(c) => Quiet
         /\ Shutdown => Quiet
         /\ \A t \in Task : LoopStart(t) => Quiet
<1>1. ASSUME NEW a \in Addr, Attach(a) PROVE Quiet
  BY <1>1, AttachTable DEF Quiet, Attach, AttachActor
<1>2. ASSUME NEW a \in Addr, Detach(a) PROVE Quiet
  BY <1>2, DetachTable DEF Quiet, Detach, DetachActor
<1>3. ASSUME NEW a \in Addr, Wire(a) PROVE Quiet
  BY <1>3, WireTable DEF Quiet, Wire
<1>4. ASSUME NEW c \in StopCalls, NEW a \in Addr, BeginStop(c, a) PROVE Quiet
  <2>1. UNCHANGED <<pushed, sent>>
    BY <1>4 DEF BeginStop
  <2>. QED
    BY <1>4, <2>1, BeginStopTable, EndsQuiet DEF Quiet
<1>5. ASSUME NEW c \in StopCalls, FinishStop(c) PROVE Quiet
  BY <1>5, FinishStopTable, EndsQuiet DEF FinishStop
<1>6. ASSUME Shutdown PROVE Quiet
  BY <1>6, ShutdownTable, EndsQuiet DEF Shutdown
<1>7. ASSUME NEW t \in Task, LoopStart(t) PROVE Quiet
  BY <1>7, LoopStartTable DEF Quiet, LoopStart
<1>. QED
  BY <1>1, <1>2, <1>3, <1>4, <1>5, <1>6, <1>7

\* What comes from outside is the newest message, and goes on.
LEMMA SendInOrder ==
  ASSUME RuntimeInv, OrderInv, NEW a \in Addr, SendIn(a)
  PROVE  OrderInv'
<1> DEFINE m == [from |-> IF a \in Chat THEN User ELSE a, id |-> sent + 1]
           n == sent + 1
<1>0. Shaped(pushed, Inboxes, Works, sent) /\ Ordered(pushed, Inboxes, Works, sent)
  BY ShapeOK DEF OrderInv
<1>1. /\ m \in Message /\ Works' = Works /\ Inboxes' = Table!Post(Inboxes, a, m)
      /\ pushed' = pushed /\ sent' = n
  BY SendInTable DEF SendIn
<1>2. Relays(a, m) /\ m.id = n /\ n \in Nat /\ sent < n
  BY <1>0, RuntimeAssumption DEF Relays, Addr, Shaped
<1> HIDE DEF m, n
<1>3. ~Leaves(a, m) /\ sent =< n /\ m.id =< n
  BY <1>0, <1>2 DEF Leaves, Shaped
<1>4. \A x \in Message : x.id \in Nat
  BY DEF Message
<1>5. \A b \in Addr : Range(Inboxes[b]) \subseteq Message /\ Range(pushed[b]) \subseteq Nat
  BY <1>0, RangeOfSeq DEF Shaped
<1>6. /\ \A b \in Addr : \A k \in Range(pushed[b]) : k < m.id
      /\ \A b \in Addr : \A x \in Range(Inboxes[b]) : x.id < m.id
      /\ Works[a] # None => Works[a].id < m.id
  <2>1. ASSUME NEW b \in Addr, NEW k \in Range(pushed[b]) PROVE k < m.id
    BY <1>0, <1>2, <1>5 DEF Ordered, Shaped
  <2>2. ASSUME NEW b \in Addr, NEW x \in Range(Inboxes[b]) PROVE x.id < m.id
    BY <1>0, <1>2, <1>4, <1>5 DEF Ordered, Shaped
  <2>3. ASSUME Works[a] # None PROVE Works[a].id < m.id
    BY <1>0, <1>2, <1>4, <2>3 DEF Ordered, Shaped
  <2>. QED
    BY <2>1, <2>2, <2>3
<1>7. Behind(m, Peer[a], pushed[Peer[a]], Inboxes[Peer[a]])
  BY <1>6, Peers DEF Behind
<1>8. Ordered(pushed, [Inboxes EXCEPT ![a] = Append(@, m)], Works, n)
  BY <1>0, <1>1, <1>2, <1>3, <1>6, <1>7, OrderedArrive
<1>9. Ordered(pushed, Inboxes, Works, n)
  BY <1>0, <1>2, <1>3, <1>4, <1>5 DEF Ordered, Shaped
<1>10. Ordered(pushed, Table!Post(Inboxes, a, m), Works, n)
  BY <1>8, <1>9, OrderedPost
<1>. QED
  BY <1>1, <1>10 DEF OrderInv

\* A message taken goes in work; one that is handled at once goes on from there.
LEMMA TakeOrder ==
  ASSUME RuntimeInv, OrderInv, NEW t \in Task, Take(t)
  PROVE  OrderInv'
<1>0. /\ Shaped(pushed, Inboxes, Works, sent) /\ Ordered(pushed, Inboxes, Works, sent)
      /\ sent' = sent
  BY ShapeOK DEF OrderInv, Take
<1>1. PICK a \in Addr :
        /\ States[a] = "active" /\ Works[a] = None /\ Inboxes[a] # <<>>
        /\ Head(Inboxes[a]) \in Message
        /\ \/ /\ Works' = [Works EXCEPT ![a] = Head(Inboxes[a])]
              /\ Inboxes' = [Inboxes EXCEPT ![a] = Tail(@)] /\ States' = States
              /\ pushed' = IF Relays(a, Head(Inboxes[a])) \/ Head(Inboxes[a]).id = 0
                           THEN pushed
                           ELSE [pushed EXCEPT ![a] = Append(@, Head(Inboxes[a]).id)]
           \/ /\ Handled([Inboxes EXCEPT ![a] = Tail(@)], a, Head(Inboxes[a]))
              /\ UNCHANGED pushed
  BY TakeTable
<1> DEFINE m == Head(Inboxes[a])
           in == [Inboxes EXCEPT ![a] = Tail(@)]
           wk == [Works EXCEPT ![a] = m]
<1>2. CASE /\ Works' = wk /\ Inboxes' = in
           /\ pushed' = IF Relays(a, m) \/ m.id = 0 THEN pushed
                        ELSE [pushed EXCEPT ![a] = Append(@, m.id)]
  <2>1. \/ pushed' = pushed
        \/ Leaves(a, m) /\ pushed' = [pushed EXCEPT ![a] = Append(@, m.id)]
    BY <1>2 DEF Leaves
  <2>2. Ordered(pushed', in, wk, sent)
    BY <1>0, <1>1, <2>1, OrderedAccept
  <2>. QED
    BY <1>0, <1>2, <2>2 DEF OrderInv
<1>3. CASE Handled(in, a, m) /\ UNCHANGED pushed
  <2>1. Ordered(pushed, in, wk, sent)
    BY <1>0, <1>1, OrderedAccept
  <2>2. Shaped(pushed, in, wk, sent) /\ wk[a] = m /\ m # None
    <3>1. Tail(Inboxes[a]) \in Seq(Message)
      BY <1>0, <1>1, TailRange DEF Shaped
    <3>. QED
      BY <1>0, <1>1, <3>1, IdleAssumption DEF Shaped
  <2>3. Works' = [wk EXCEPT ![a] = None]
    BY <1>3, TableTypes DEF Handled
  <2>4. Relayed(Inboxes', in, a, m) \/ Notified(Inboxes', in, a)
    BY <1>3 DEF Handled
  <2> HIDE DEF in, wk, m
  <2>5. Ordered(pushed, Inboxes', [wk EXCEPT ![a] = None], sent)
    BY <2>1, <2>2, <2>4, OrderedHandled
  <2>. QED
    BY <1>0, <1>3, <2>3, <2>5 DEF OrderInv
<1>. QED
  BY <1>1, <1>2, <1>3

LEMMA ResumeOrder ==
  ASSUME RuntimeInv, OrderInv, NEW t \in Task, Resume(t)
  PROVE  OrderInv'
<1>0. /\ Shaped(pushed, Inboxes, Works, sent) /\ Ordered(pushed, Inboxes, Works, sent)
      /\ sent' = sent
  BY ShapeOK DEF OrderInv, Resume
<1>1. PICK a \in Addr : /\ Works[a] \in Message /\ UNCHANGED pushed
                        /\ Handled(Inboxes, a, Works[a])
  BY ResumeTable
<1>2. /\ Works' = [Works EXCEPT ![a] = None] /\ Works[a] # None
      /\ Relayed(Inboxes', Inboxes, a, Works[a]) \/ Notified(Inboxes', Inboxes, a)
  BY <1>1, IdleAssumption DEF Handled
<1>3. Ordered(pushed, Inboxes', [Works EXCEPT ![a] = None], sent)
  BY <1>0, <1>2, OrderedHandled
<1>. QED
  BY <1>0, <1>1, <1>2, <1>3 DEF OrderInv

LEMMA NextOrder == RuntimeInv /\ OrderInv /\ [Next]_vars => OrderInv'
<1> SUFFICES ASSUME RuntimeInv, OrderInv, [Next]_vars PROVE OrderInv'
  OBVIOUS
<1>1. CASE UNCHANGED vars
  BY <1>1 DEF vars, OrderInv, Inboxes, InboxAt, Works, WorkAt
<1>2. ASSUME NEW a \in Addr, NEW o \in Obj, NEW s \in {"active", "suspended"},
             NEW w \in BOOLEAN, Spawn(a, o, s, w)
      PROVE  OrderInv'
  BY <1>2, SpawnQuiet, QuietOrder
<1>3. ASSUME NEW a \in Addr,
             \/ Attach(a) \/ Detach(a) \/ Wire(a)
             \/ \E c \in StopCalls : BeginStop(c, a)
      PROVE  OrderInv'
  BY <1>3, LifecycleQuiet, QuietOrder
<1>4. ASSUME NEW a \in Addr, SendIn(a) PROVE OrderInv'
  BY <1>4, SendInOrder
<1>5. CASE Shutdown \/ \E c \in StopCalls : FinishStop(c)
  BY <1>5, LifecycleQuiet, QuietOrder
<1>6. ASSUME NEW t \in Task, Step(t) PROVE OrderInv'
  BY <1>6, LifecycleQuiet, QuietOrder, TakeOrder, ResumeOrder DEF Step
<1>. QED
  BY <1>1, <1>2, <1>3, <1>4, <1>5, <1>6 DEF Next

\* Messages leave an address in the order in which they came into the server, each
\* at most once, across reconnects, kills and respawns (runtime.py:180-240), for any
\* number of sessions, loops and messages.
THEOREM LeaveInOrder == Spec => []InOrderAtMostOnce
<1>1. OrderInv => InOrderAtMostOnce
  BY DEF OrderInv, Ordered, Increasing, InOrderAtMostOnce
<1>. QED
  BY <1>1, InitOrder, NextOrder, RuntimeInvariant, PTL DEF Spec
=============================================================================

---------------------------- MODULE J1939Proofs ----------------------------
(***************************************************************************)
(* Proofs about J1939Transport, for any pairs, any number of sessions, any *)
(* payload sizes up to what a packet count can announce, and any number of *)
(* transfers and of frames the bus mistreats.                              *)
(***************************************************************************)
EXTENDS J1939Transport, SequenceTheorems, FiniteSetTheorems, WellFoundedInduction, TLAPS

(***************************************************************************)
(* The inductive invariant.                                                *)
(***************************************************************************)
Bytes == Nat \X Nat
Session ==
  [id : Nat, size : Sizes, packets : Nat, received : Nat, openedAt : Nat, buffer : Seq(Bytes)]
Cm == [type : {"cm"}, id : Nat, size : Nat, packets : Nat]
Dt == [type : {"dt"}, sequence : Nat, bytes : Seq(Bytes)]

BusTyped == wire \in [Pairs -> Seq(Cm \cup Dt)] /\ sent \in Nat /\ faults \in Nat

Typed ==
  /\ nextOrder \in Nat
  /\ Open \subseteq Pairs /\ IsFiniteSet(Open) /\ sessions \in [Open -> Session]
  /\ heard \in [Pairs -> Seq(Cm \cup Dt)]
  /\ \A p \in Pairs : IsFiniteSet(since[p])
  /\ since \in [Pairs -> SUBSET Pairs]
  /\ torn \subseteq Pairs

\* f is the announce, or a data frame, of that transfer.
IsAnnounce(f, id, size) == f = Announce(id, size, PacketsOf(size))
IsData(f, id, size) == \E k \in 1..PacketsOf(size) : f = Data(id, size, k)

\* What is left of a transfer on the wire: the announce, if it is there, goes first.
Carries(w, id, size) ==
  \A j \in 1..Len(w) : IsData(w[j], id, size) \/ (j = 1 /\ IsAnnounce(w[j], id, size))

\* The session of p is for that transfer.
For(p, id, size) ==
  p \in Open /\ p \notin torn => sessions[p].id = id /\ sessions[p].size = size

\* A data frame meets a session of its own transfer, unless an announce was missed.
Wired ==
  \A p \in Pairs : wire[p] # << >> =>
    \E id \in 1..sent, size \in Sizes :
      /\ Carries(wire[p], id, size)
      /\ wire[p][1].type = "dt" => For(p, id, size)

\* h is how that transfer begins.
Begins(h, id, size) ==
  /\ Len(h) \in 1..PacketsOf(size) + 1
  /\ IsAnnounce(h[1], id, size)
  /\ \A j \in 1..Len(h) - 1 : h[j + 1] = Data(id, size, j)

Remembered ==
  \A p \in Pairs : heard[p] # << >> =>
    \E id \in Nat, size \in Sizes : Begins(heard[p], id, size)

\* b is filled with the payload of that transfer and then padded.
Filled(b, id, size) == \A k \in 1..Len(b) : b[k] = IF k <= size THEN <<id, k>> ELSE Pad

\* The session of p has taken in exactly the frames heard.
Matches(p) ==
  /\ p \in Open
  /\ Len(heard[p]) = sessions[p].received + 1
  /\ Begins(heard[p], sessions[p].id, sessions[p].size)
  /\ Filled(sessions[p].buffer, sessions[p].id, sessions[p].size)

Counted ==
  /\ Cardinality(Open) <= MaxSessions
  /\ \A p \in Open :
       /\ sessions[p].packets = PacketsOf(sessions[p].size)
       /\ sessions[p].received < sessions[p].packets
       /\ Len(sessions[p].buffer) = sessions[p].received * DtBytes
       /\ sessions[p].openedAt < nextOrder

\* A session that is younger was announced since.
Aged ==
  \A p, q \in Open :
    /\ sessions[p].openedAt < sessions[q].openedAt => q \in since[p]
    /\ p # q => sessions[p].openedAt # sessions[q].openedAt

\* What a session has taken in is what was heard, and what was heard has a session, as
\* long as no announce was missed, respectively too many others announced.
Linked ==
  \A p \in Pairs :
    /\ p \in Open /\ p \notin torn => Matches(p)
    /\ (\E id \in Nat, size \in Sizes :
          Begins(heard[p], id, size) /\ Len(heard[p]) <= PacketsOf(size))
         /\ Cardinality(since[p]) < MaxSessions
       => Matches(p)

Received ==
  Typed /\ Remembered /\ Counted /\ Aged /\ Linked /\ Intact /\ CleanTransferCompletes

Inv == BusTyped /\ Wired /\ Received

-----------------------------------------------------------------------------
(***************************************************************************)
(* Sizes, frames and segments.                                             *)
(***************************************************************************)

\* The packets of a payload are as many as it takes, and a byte can count them.
LEMMA PacketsFit ==
  ASSUME NEW size \in Sizes
  PROVE  /\ size \in Nat \ {0} /\ size \in 1..DtBytes * MaxPackets
         /\ PacketsOf(size) \in 1..MaxPackets
         /\ PacketsOf(size) * DtBytes >= size
         /\ PacketsOf(size) * DtBytes < size + DtBytes
<1>1. DtBytes \in Nat \ {0} /\ MaxPackets \in Nat /\ size \in 1..DtBytes * MaxPackets
  BY SizesAssumption
<1>2. DtBytes * MaxPackets \in Nat
  BY <1>1
<1>3. size \in Nat /\ size >= 1 /\ size <= DtBytes * MaxPackets
  BY <1>1, <1>2
<1> PICK a \in Nat : a = size + DtBytes - 1
  BY <1>1, <1>3
<1> PICK q : q = a \div DtBytes
  OBVIOUS
<1>4. q \in Nat /\ DtBytes * q <= a /\ a < DtBytes * q + DtBytes
  BY <1>1
<1>5. PacketsOf(size) = q
  BY DEF PacketsOf
<1>6. q * DtBytes = DtBytes * q
  BY <1>1, <1>4
<1>7. q >= 1
  BY <1>1, <1>3, <1>4
<1>8. q <= MaxPackets
  <2> SUFFICES ASSUME q >= MaxPackets + 1 PROVE FALSE
    BY <1>1, <1>4
  <2>1. DtBytes * q >= DtBytes * (MaxPackets + 1)
    BY <1>1, <1>4
  <2>2. DtBytes * (MaxPackets + 1) = DtBytes * MaxPackets + DtBytes
    BY <1>1
  <2> QED BY <1>1, <1>2, <1>3, <1>4, <2>1, <2>2
<1> QED BY <1>1, <1>3, <1>4, <1>5, <1>6, <1>7, <1>8

\* A data frame: its number fits a byte, its bytes are its share of the padded payload.
LEMMA DataIs ==
  ASSUME NEW id \in Nat, NEW size \in Sizes, NEW k \in 1..PacketsOf(size)
  PROVE  /\ Data(id, size, k) \in Dt /\ Data(id, size, k).type = "dt"
         /\ Data(id, size, k).sequence = k /\ k % (MaxPackets + 1) = k
         /\ Data(id, size, k).bytes \in Seq(Bytes) /\ Len(Data(id, size, k).bytes) = DtBytes
         /\ \A i \in 1..DtBytes :
              Data(id, size, k).bytes[i] = IF (k - 1) * DtBytes + i <= size
                                           THEN <<id, (k - 1) * DtBytes + i>> ELSE Pad
<1>1. DtBytes \in Nat \ {0} /\ MaxPackets \in Nat /\ k \in 1..MaxPackets /\ size \in Nat
  BY SizesAssumption, PacketsFit
<1>2. k % (MaxPackets + 1) = k
  BY <1>1
<1> PICK w \in Nat : w = (k - 1) * DtBytes
  BY <1>1
<1> PICK b : b = [i \in 1..DtBytes |-> IF w + i <= size THEN <<id, w + i>> ELSE Pad]
  OBVIOUS
<1>3. Data(id, size, k) = [type |-> "dt", sequence |-> k, bytes |-> b]
  BY <1>2 DEF Data
<1>4. b \in [1..DtBytes -> Bytes]
  <2>1. Pad \in Bytes
    BY DEF Bytes, Pad
  <2>2. \A i \in 1..DtBytes : <<id, w + i>> \in Bytes
    <3> TAKE i \in 1..DtBytes
    <3> PICK x : x = w + i
      OBVIOUS
    <3>1. x \in Nat
      BY <1>1
    <3>2. <<id, x>> \in Bytes
      BY <3>1 DEF Bytes
    <3> QED BY <3>2
  <2>3. \A i \in 1..DtBytes : (IF w + i <= size THEN <<id, w + i>> ELSE Pad) \in Bytes
    BY <2>1, <2>2
  <2> QED BY <2>3
<1>5. b \in Seq(Bytes)
  BY <1>1, <1>4, SeqDef
<1>6. Len(b) = DtBytes
  <2>1. DOMAIN b = 1..DtBytes
    BY <1>4
  <2> QED BY <1>1, <1>5, <2>1, LenProperties
<1>7. Data(id, size, k) \in Dt
  <2>1. k \in Nat
    BY <1>1
  <2> QED BY <1>3, <1>5, <2>1 DEF Dt
<1>8. \A i \in 1..DtBytes : b[i] = IF w + i <= size THEN <<id, w + i>> ELSE Pad
  OBVIOUS
<1> PICK f : f = Data(id, size, k)
  OBVIOUS
<1>9. f.type = "dt" /\ f.sequence = k /\ f.bytes = b
  BY <1>3
<1>10. /\ f \in Dt /\ f.type = "dt" /\ f.sequence = k /\ k % (MaxPackets + 1) = k
       /\ f.bytes \in Seq(Bytes) /\ Len(f.bytes) = DtBytes
  BY <1>2, <1>5, <1>6, <1>7, <1>9
<1>11. \A i \in 1..DtBytes : f.bytes[i] = IF w + i <= size THEN <<id, w + i>> ELSE Pad
  BY <1>8, <1>9
<1> QED BY <1>10, <1>11

LEMMA AnnounceIs ==
  ASSUME NEW id \in Nat, NEW size \in Sizes
  PROVE  /\ Announce(id, size, PacketsOf(size)) \in Cm
         /\ Announce(id, size, PacketsOf(size)).type = "cm"
         /\ Announce(id, size, PacketsOf(size)).id = id
         /\ Announce(id, size, PacketsOf(size)).size = size
         /\ Announce(id, size, PacketsOf(size)).packets = PacketsOf(size)
<1>1. PacketsOf(size) \in Nat /\ size \in Nat
  BY PacketsFit
<1> QED BY <1>1 DEF Announce, Cm

\* A segmented payload: the announce and then the data frames by number.
LEMMA SegmentIs ==
  ASSUME NEW id \in Nat, NEW size \in Sizes
  PROVE  /\ Segment(id, size) \in Seq(Cm \cup Dt)
         /\ Len(Segment(id, size)) = PacketsOf(size) + 1
         /\ IsAnnounce(Segment(id, size)[1], id, size)
         /\ \A j \in 1..PacketsOf(size) : Segment(id, size)[j + 1] = Data(id, size, j)
<1> PICK n \in Nat : n = PacketsOf(size)
  BY PacketsFit
<1> PICK c, d : c = <<Announce(id, size, n)>> /\ d = [k \in 1..n |-> Data(id, size, k)]
  OBVIOUS
<1>1. Announce(id, size, n) \in Cm \cup Dt
  BY AnnounceIs
<1>2. c \in Seq(Cm \cup Dt) /\ Len(c) = 1 /\ c[1] = Announce(id, size, n)
  BY <1>1
<1>3. d \in [1..n -> Cm \cup Dt]
  BY DataIs
<1>4. d \in Seq(Cm \cup Dt)
  BY <1>3, SeqDef
<1>5. Len(d) = n
  <2>1. DOMAIN d = 1..n
    BY <1>3
  <2> QED BY <1>4, <2>1, LenProperties
<1>6. /\ c \o d \in Seq(Cm \cup Dt)
      /\ Len(c \o d) = Len(c) + Len(d)
      /\ \A j \in 1..(Len(c) + Len(d)) : (c \o d)[j] = IF j <= Len(c) THEN c[j] ELSE d[j - Len(c)]
  BY <1>2, <1>4, ConcatProperties
<1> PICK g : g = c \o d
  OBVIOUS
<1>7. Segment(id, size) = g
  BY DEF Segment
<1>8. g \in Seq(Cm \cup Dt) /\ Len(g) = n + 1
      /\ \A j \in 1..(n + 1) : g[j] = IF j <= 1 THEN c[j] ELSE d[j - 1]
  BY <1>2, <1>5, <1>6
<1>9. g[1] = Announce(id, size, n)
  BY <1>2, <1>8
<1>10. \A j \in 1..n : g[j + 1] = Data(id, size, j)
  <2> TAKE j \in 1..n
  <2>1. j + 1 \in 1..(n + 1) /\ ~(j + 1 <= 1) /\ (j + 1) - 1 = j
    OBVIOUS
  <2>2. g[j + 1] = d[j]
    BY <1>8, <2>1
  <2> QED BY <2>2
<1> QED BY <1>7, <1>8, <1>9, <1>10 DEF IsAnnounce

\* Faithful is what it is meant to be.
LEMMA FaithfulIs ==
  ASSUME NEW F, NEW h \in Seq(F)
  PROVE  /\ Faithful(h) /\ h[1].id \in Nat /\ h[1].size \in Sizes => Begins(h, h[1].id, h[1].size)
         /\ \A id \in Nat, size \in Sizes : Begins(h, id, size) => Faithful(h)
<1>0. Len(h) \in Nat /\ \A j \in 1..Len(h) : h[j] \in F
  BY ElementOfSeq, LenProperties
<1>1. ASSUME NEW id \in Nat, NEW size \in Sizes, h # << >>
      PROVE  IsPrefix(h, Segment(id, size)) <=> Begins(h, id, size)
  <2> PICK g : g = Segment(id, size)
    OBVIOUS
  <2> PICK n \in Nat : n = PacketsOf(size)
    BY PacketsFit
  <2> PICK m \in Nat : m = Len(h)
    BY <1>0
  <2>1. g \in Seq(Cm \cup Dt) /\ Len(g) = n + 1 /\ IsAnnounce(g[1], id, size)
        /\ \A j \in 1..n : g[j + 1] = Data(id, size, j)
    BY SegmentIs
  <2>2. m # 0
    BY <1>1, EmptySeq
  <2>3. /\ SubSeq(h, 1, m) \in Seq(F)
        /\ Len(SubSeq(h, 1, m)) = IF 1 <= m THEN m - 1 + 1 ELSE 0
        /\ \A i \in 1..(m - 1 + 1) : SubSeq(h, 1, m)[i] = h[1 + i - 1]
    BY <1>0, SubSeqProperties
  <2>4. m - 1 + 1 = m /\ \A i \in 1..m : 1 + i - 1 = i
    OBVIOUS
  <2>5. /\ SubSeq(h, 1, m) \in Seq(F) /\ Len(SubSeq(h, 1, m)) = m
        /\ \A i \in 1..m : SubSeq(h, 1, m)[i] = h[i]
    BY <2>2, <2>3, <2>4
  <2>6. ASSUME m <= n + 1
        PROVE  /\ SubSeq(g, 1, m) \in Seq(Cm \cup Dt) /\ Len(SubSeq(g, 1, m)) = m
               /\ \A i \in 1..m : SubSeq(g, 1, m)[i] = g[i]
    <3>1. \A i \in 1..m : g[i] \in Cm \cup Dt
      <4>1. \A i \in 1..m : i \in 1..Len(g)
        BY <2>1, <2>6
      <4> QED BY <2>1, <4>1, ElementOfSeq
    <3>2. /\ SubSeq(g, 1, m) \in Seq(Cm \cup Dt)
          /\ Len(SubSeq(g, 1, m)) = IF 1 <= m THEN m - 1 + 1 ELSE 0
          /\ \A i \in 1..(m - 1 + 1) : SubSeq(g, 1, m)[i] = g[1 + i - 1]
      BY <3>1, SubSeqProperties
    <3> QED BY <2>2, <2>4, <3>2
  <2>7. IsPrefix(h, g) <=> m <= n + 1 /\ \A i \in 1..m : h[i] = g[i]
    <3>1. IsPrefix(h, g) <=> m <= n + 1 /\ SubSeq(h, 1, m) = SubSeq(g, 1, m)
      BY <2>1 DEF IsPrefix
    <3>2. ASSUME m <= n + 1
          PROVE  SubSeq(h, 1, m) = SubSeq(g, 1, m) <=> \A i \in 1..m : h[i] = g[i]
      <4> PICK a, b : a = SubSeq(h, 1, m) /\ b = SubSeq(g, 1, m)
        OBVIOUS
      <4>1. a = [i \in 1..m |-> h[i]]
        <5>1. a = [i \in 1..Len(a) |-> a[i]]
          BY <2>5, LenProperties
        <5> QED BY <2>5, <5>1
      <4>2. b = [i \in 1..m |-> g[i]]
        <5>1. b = [i \in 1..Len(b) |-> b[i]]
          BY <2>6, <3>2, LenProperties
        <5> QED BY <2>6, <3>2, <5>1
      <4> QED BY <4>1, <4>2
    <3> QED BY <3>1, <3>2
  <2>8. Begins(h, id, size) <=>
          m \in 1..n + 1 /\ h[1] = g[1] /\ \A j \in 1..m - 1 : h[j + 1] = Data(id, size, j)
    BY <2>1 DEF Begins, IsAnnounce
  <2>9. m <= n + 1 => ((\A i \in 1..m : h[i] = g[i]) <=>
                         h[1] = g[1] /\ \A j \in 1..m - 1 : h[j + 1] = Data(id, size, j))
    <3> SUFFICES ASSUME m <= n + 1
                 PROVE  (\A i \in 1..m : h[i] = g[i]) <=>
                          h[1] = g[1] /\ \A j \in 1..m - 1 : h[j + 1] = Data(id, size, j)
      OBVIOUS
    <3>1. \A j \in 1..m - 1 : j \in 1..n /\ j + 1 \in 1..m
      BY <2>2
    <3>2. \A j \in 1..m - 1 : g[j + 1] = Data(id, size, j)
      BY <2>1, <3>1
    <3>3. 1 \in 1..m /\ \A i \in 1..m : i = 1 \/ (i - 1 \in 1..m - 1 /\ (i - 1) + 1 = i)
      BY <2>2
    <3>4. ASSUME \A i \in 1..m : h[i] = g[i]
          PROVE  h[1] = g[1] /\ \A j \in 1..m - 1 : h[j + 1] = Data(id, size, j)
      BY <3>1, <3>2, <3>3, <3>4
    <3>5. ASSUME h[1] = g[1], \A j \in 1..m - 1 : h[j + 1] = Data(id, size, j)
          PROVE  \A i \in 1..m : h[i] = g[i]
      <4> TAKE i \in 1..m
      <4>1. CASE i = 1
        BY <3>5, <4>1
      <4>2. CASE i - 1 \in 1..m - 1 /\ (i - 1) + 1 = i
        BY <3>2, <3>5, <4>2
      <4> QED BY <3>3, <4>1, <4>2
    <3> QED BY <3>4, <3>5
  <2> QED BY <2>2, <2>7, <2>8, <2>9
<1>2. ASSUME Faithful(h), h[1].id \in Nat, h[1].size \in Sizes
      PROVE  Begins(h, h[1].id, h[1].size)
  BY <1>1, <1>2 DEF Faithful
<1>3. ASSUME NEW id \in Nat, NEW size \in Sizes, Begins(h, id, size) PROVE Faithful(h)
  <2>1. h # << >> /\ Len(h) # 0
    <3>1. Len(h) # 0
      BY <1>3, PacketsFit DEF Begins
    <3> QED BY <3>1
  <2>2. h[1].type = "cm" /\ h[1].id = id /\ h[1].size = size
    BY <1>3, AnnounceIs DEF Begins, IsAnnounce
  <2>3. IsPrefix(h, Segment(id, size))
    BY <1>1, <1>3, <2>1
  <2> QED BY <2>1, <2>2, <2>3 DEF Faithful
<1> QED BY <1>2, <1>3

-----------------------------------------------------------------------------
(***************************************************************************)
(* Sessions opened, closed and pushed out.                                 *)
(***************************************************************************)

\* What typing says of a session.
LEMMA SessionFits ==
  ASSUME Typed, NEW p \in Open
  PROVE  /\ p \in Pairs /\ sessions[p] \in Session
         /\ sessions[p].id \in Nat /\ sessions[p].size \in Sizes /\ sessions[p].packets \in Nat
         /\ sessions[p].received \in Nat /\ sessions[p].openedAt \in Nat
         /\ sessions[p].buffer \in Seq(Bytes)
<1>1. p \in Pairs /\ sessions[p] \in Session
  BY DEF Typed
<1> QED BY <1>1 DEF Session

LEMMA OldestIs ==
  ASSUME Typed, NEW S, S \subseteq Open, S # {}
  PROVE  OldestOf(S) \in S /\ \A r \in S : sessions[OldestOf(S)].openedAt <= sessions[r].openedAt
<1> DEFINE Ages == {sessions[q].openedAt : q \in S}
<1>1. \A q \in S : sessions[q].openedAt \in Nat
  BY SessionFits
<1>2. Ages \subseteq Nat /\ Ages # {}
  BY <1>1
<1>3. PICK m \in Ages : \A a \in Ages : ~(<<a, m>> \in OpToRel(<, Nat))
  <2>1. IsWellFoundedOn(OpToRel(<, Nat), Nat)
    BY NatLessThanWellFounded
  <2> HIDE DEF Ages
  <2> QED BY <1>2, <2>1, WFMin
<1>5. PICK q \in S : sessions[q].openedAt = m
  OBVIOUS
<1>4. \A a \in Ages : m <= a
  <2> HIDE DEF Ages
  <2> TAKE a \in Ages
  <2>1. m \in Nat /\ a \in Nat
    BY <1>2, <1>3
  <2>2. ~(a < m)
    BY <1>3, <2>1 DEF OpToRel
  <2> QED BY <2>1, <2>2
<1>6. \E o \in S : \A r \in S : sessions[o].openedAt <= sessions[r].openedAt
  BY <1>4, <1>5
<1> DEFINE Old(o) == \A r \in S : sessions[o].openedAt <= sessions[r].openedAt
<1>7. OldestOf(S) = CHOOSE o \in S : Old(o)
  BY DEF OldestOf
<1>8. \E o \in S : Old(o)
  BY <1>6
<1> HIDE DEF Old
<1>9. OldestOf(S) \in S /\ Old(OldestOf(S))
  BY <1>7, <1>8
<1> QED BY <1>9 DEF Old

\* Nobody else's session is touched when one is closed.
LEMMA CloseIs ==
  ASSUME Typed, Counted, Aged, NEW p, sessions' = Close({p}), UNCHANGED <<nextOrder, since>>
  PROVE  /\ Open' = Open \ {p} /\ IsFiniteSet(Open') /\ sessions' \in [Open' -> Session]
         /\ \A r \in Open : r # p => sessions'[r] = sessions[r]
         /\ Counted' /\ Aged'
<1>0. /\ IsFiniteSet(Open) /\ sessions \in [Open -> Session]
      /\ Cardinality(Open) <= MaxSessions /\ MaxSessions \in Nat
  BY SessionsAssumption DEF Typed, Counted
<1>1. sessions' = [x \in Open \ {p} |-> sessions[x]]
  BY DEF Close, Restrict
<1>2. Open' = Open \ {p}
  BY <1>1 DEF Open
<1>3. \A r \in Open \ {p} : sessions'[r] = sessions[r]
  BY <1>1
<1>4. sessions' \in [Open' -> Session]
  <2>1. sessions' \in [Open \ {p} -> Session]
    BY <1>0, <1>1
  <2> QED BY <1>2, <2>1
<1>5. IsFiniteSet(Open') /\ Cardinality(Open') <= MaxSessions
  <2>1. /\ IsFiniteSet(Open \ {p}) /\ Cardinality(Open \ {p}) <= Cardinality(Open)
        /\ Cardinality(Open) \in Nat /\ Cardinality(Open \ {p}) \in Nat
    BY <1>0, FS_Subset, FS_CardinalityType
  <2> QED BY <1>0, <1>2, <2>1
<1>6. Counted'
  BY <1>2, <1>3, <1>5 DEF Counted
<1>7. Aged'
  <2> SUFFICES ASSUME NEW q \in Open', NEW r \in Open'
               PROVE  /\ sessions'[q].openedAt < sessions'[r].openedAt => r \in since'[q]
                      /\ q # r => sessions'[q].openedAt # sessions'[r].openedAt
    BY DEF Aged
  <2>1. q \in Open /\ r \in Open /\ sessions'[q] = sessions[q] /\ sessions'[r] = sessions[r]
    BY <1>2, <1>3
  <2> QED BY <2>1 DEF Aged
<1> QED BY <1>2, <1>3, <1>4, <1>5, <1>6, <1>7

\* What accept does with the consistent announce f of p.
Opens(p, f) ==
  /\ sessions' = [q \in (Open \ Evicted(p)) \cup {p} |->
                    IF q = p THEN Opened(f) ELSE sessions[q]]
  /\ nextOrder' = nextOrder + 1
  /\ since' = [q \in Pairs |-> IF q = p THEN {} ELSE since[q] \cup {p}]

\* The announce of p opens a session for p, and pushes out nobody's but the oldest.
LEMMA OpenIs ==
  ASSUME Typed, Counted, Aged, NEW p \in Pairs, NEW f, NEW id \in Nat, NEW size \in Sizes,
         IsAnnounce(f, id, size), Opens(p, f)
  PROVE  /\ Open' = (Open \ Evicted(p)) \cup {p} /\ IsFiniteSet(Open')
         /\ sessions' \in [Open' -> Session]
         /\ sessions'[p] = [id |-> id, size |-> size, packets |-> PacketsOf(size),
                            received |-> 0, openedAt |-> nextOrder, buffer |-> << >>]
         /\ \A r \in Open' : r # p => r \in Open /\ sessions'[r] = sessions[r]
         /\ Counted' /\ Aged'
         /\ \A r \in Pairs : r # p /\ r \in Evicted(p) => Cardinality(since'[r]) >= MaxSessions
<1>0. /\ Open \subseteq Pairs /\ IsFiniteSet(Open) /\ sessions \in [Open -> Session] /\ nextOrder \in Nat
      /\ Cardinality(Open) <= MaxSessions /\ MaxSessions \in Nat \ {0}
      /\ \A r \in Pairs : IsFiniteSet(since[r])
  BY SessionsAssumption DEF Typed, Counted
<1> PICK E : E = Evicted(p)
  OBVIOUS
<1> PICK o : o = Opened(f)
  OBVIOUS
<1> PICK others : others = Open \ {p}
  OBVIOUS
<1>1. o = [id |-> id, size |-> size, packets |-> PacketsOf(size),
           received |-> 0, openedAt |-> nextOrder, buffer |-> << >>]
  BY AnnounceIs DEF Opened, IsAnnounce
<1>2. o \in Session
  <2>1. << >> \in Seq(Bytes) /\ PacketsOf(size) \in Nat
    BY PacketsFit
  <2> QED BY <1>0, <1>1, <2>1 DEF Session
<1>3. sessions' = [q \in (Open \ E) \cup {p} |-> IF q = p THEN o ELSE sessions[q]]
  BY DEF Opens
<1>13. nextOrder' = nextOrder + 1
  BY DEF Opens
<1>14. \A x \in Pairs : since'[x] = IF x = p THEN {} ELSE since[x] \cup {p}
  BY DEF Opens
<1>4. Open' = (Open \ E) \cup {p}
  BY <1>3 DEF Open
<1>5. sessions'[p] = o /\ \A r \in Open' : r # p => r \in Open /\ r \notin E /\ sessions'[r] = sessions[r]
  BY <1>3, <1>4
<1>6. sessions' \in [Open' -> Session]
  <2>1. sessions' \in [(Open \ E) \cup {p} -> Session]
    BY <1>0, <1>2, <1>3
  <2> QED BY <1>4, <2>1
<1>7. /\ IsFiniteSet(others) /\ Cardinality(others) \in Nat /\ Cardinality(others) <= MaxSessions
      /\ p \notin others
  <2>1. /\ IsFiniteSet(others) /\ Cardinality(others) <= Cardinality(Open)
        /\ Cardinality(Open) \in Nat /\ Cardinality(others) \in Nat
    BY <1>0, FS_Subset, FS_CardinalityType
  <2> QED BY <1>0, <2>1
<1>8. ASSUME Cardinality(others) < MaxSessions
      PROVE  /\ IsFiniteSet(Open') /\ Cardinality(Open') <= MaxSessions
             /\ \A r \in Pairs : r # p /\ r \in E => Cardinality(since'[r]) >= MaxSessions
  <2>0. ~(Cardinality(others) >= MaxSessions)
    BY <1>0, <1>7, <1>8
  <2>1. E = {}
    BY <2>0 DEF Evicted
  <2>2. Open' = others \cup {p}
    BY <1>4, <2>1
  <2>3. IsFiniteSet(Open') /\ Cardinality(Open') = Cardinality(others) + 1
    BY <1>7, <2>2, FS_AddElement
  <2>4. IsFiniteSet(Open') /\ Cardinality(Open') <= MaxSessions
    BY <1>0, <1>7, <1>8, <2>3
  <2>5. \A r \in Pairs : r # p /\ r \in E => Cardinality(since'[r]) >= MaxSessions
    BY <2>1
  <2> QED BY <2>4, <2>5
<1>9. ASSUME Cardinality(others) >= MaxSessions
      PROVE  /\ IsFiniteSet(Open') /\ Cardinality(Open') <= MaxSessions
             /\ \A r \in Pairs : r # p /\ r \in E => Cardinality(since'[r]) >= MaxSessions
  <2>1. others # {}
    BY <1>0, <1>7, <1>9, FS_EmptySet
  <2> PICK old : old = OldestOf(others)
    OBVIOUS
  <2>2. old \in others /\ \A r \in others : sessions[old].openedAt <= sessions[r].openedAt
    BY <2>1, OldestIs
  <2>3. E = {old}
    BY <1>9 DEF Evicted
  <2> PICK rest : rest = others \ {old}
    OBVIOUS
  <2>4. IsFiniteSet(rest) /\ Cardinality(rest) = Cardinality(others) - 1 /\ p \notin rest
    BY <1>7, <2>2, FS_RemoveElement
  <2>5. IsFiniteSet(rest \cup {p}) /\ Cardinality(rest \cup {p}) = Cardinality(others)
    <3>1. IsFiniteSet(rest \cup {p}) /\ Cardinality(rest \cup {p}) = Cardinality(rest) + 1
      BY <2>4, FS_AddElement
    <3> QED BY <1>7, <2>4, <3>1
  <2>6. Open' = rest \cup {p}
    BY <1>4, <2>2, <2>3
  <2>7. IsFiniteSet(Open') /\ Cardinality(Open') <= MaxSessions
    BY <1>7, <2>5, <2>6
  <2>8. rest \cup {p} \subseteq since'[old]
    <3>1. old \in Open /\ old \in Pairs /\ old # p
      BY <1>0, <2>2
    <3>2. \A r \in rest : r \in since[old]
      <4> TAKE r \in rest
      <4>1. r \in Open /\ r # old /\ sessions[old].openedAt <= sessions[r].openedAt
        BY <2>2
      <4>2. sessions[old].openedAt # sessions[r].openedAt
        BY <3>1, <4>1 DEF Aged
      <4>3. sessions[old].openedAt \in Nat /\ sessions[r].openedAt \in Nat
        BY <3>1, <4>1, SessionFits
      <4> QED BY <3>1, <4>1, <4>2, <4>3 DEF Aged
    <3>3. since'[old] = since[old] \cup {p}
      BY <1>14, <3>1
    <3> QED BY <3>2, <3>3
  <2>9. IsFiniteSet(since'[old])
    <3>1. old \in Pairs /\ old # p
      BY <1>0, <2>2
    <3>2. since'[old] = since[old] \cup {p} /\ IsFiniteSet(since[old])
      BY <1>0, <1>14, <3>1
    <3>3. IsFiniteSet(since[old] \cup {p})
      BY <3>2, FS_AddElement
    <3> QED BY <3>2, <3>3
  <2>10. Cardinality(rest \cup {p}) <= Cardinality(since'[old])
    BY <2>8, <2>9, FS_Subset
  <2>11. Cardinality(since'[old]) \in Nat
    BY <2>9, FS_CardinalityType
  <2>12. Cardinality(since'[old]) >= MaxSessions
    <3> PICK a, b, c : a = Cardinality(since'[old]) /\ b = Cardinality(rest \cup {p}) /\ c = Cardinality(others)
      OBVIOUS
    <3>1. a \in Nat /\ c \in Nat /\ b = c /\ b <= a /\ c >= MaxSessions /\ MaxSessions \in Nat
      BY <1>0, <1>7, <1>9, <2>5, <2>10, <2>11
    <3>2. a >= MaxSessions
      BY <3>1
    <3> QED BY <3>2
  <2> QED BY <2>3, <2>7, <2>12
<1>10. /\ IsFiniteSet(Open') /\ Cardinality(Open') <= MaxSessions
       /\ \A r \in Pairs : r # p /\ r \in E => Cardinality(since'[r]) >= MaxSessions
  <2>1. Cardinality(others) < MaxSessions \/ Cardinality(others) >= MaxSessions
    BY <1>0, <1>7
  <2> QED BY <1>8, <1>9, <2>1
<1>11. Counted'
  <2>1. ASSUME NEW q \in Open'
        PROVE  /\ sessions'[q].packets = PacketsOf(sessions'[q].size)
               /\ sessions'[q].received < sessions'[q].packets
               /\ Len(sessions'[q].buffer) = sessions'[q].received * DtBytes
               /\ sessions'[q].openedAt < nextOrder'
    <3>1. CASE q = p
      <4>1. sessions'[q] = o
        BY <1>5, <3>1
      <4>2. PacketsOf(size) \in Nat /\ 0 < PacketsOf(size) /\ DtBytes \in Nat /\ 0 * DtBytes = 0
        BY PacketsFit, SizesAssumption
      <4>3. Len(<< >>) = 0
        OBVIOUS
      <4>4. /\ o.packets = PacketsOf(o.size) /\ o.received = 0 /\ o.packets = PacketsOf(size)
            /\ o.buffer = << >> /\ o.openedAt = nextOrder
        BY <1>1
      <4>5. nextOrder < nextOrder'
        BY <1>0, <1>13
      <4> QED BY <4>1, <4>2, <4>3, <4>4, <4>5
    <3>2. CASE q # p
      <4>0. nextOrder' = nextOrder + 1
        BY <1>13
      <4>1. q \in Open /\ sessions'[q] = sessions[q]
        BY <1>5, <3>2
      <4>2. sessions[q].openedAt \in Nat
        BY <4>1, SessionFits
      <4>3. sessions[q].openedAt < nextOrder + 1
        BY <1>0, <4>1, <4>2 DEF Counted
      <4>4. /\ sessions[q].packets = PacketsOf(sessions[q].size)
            /\ sessions[q].received < sessions[q].packets
            /\ Len(sessions[q].buffer) = sessions[q].received * DtBytes
        BY <4>1 DEF Counted
      <4> QED BY <4>0, <4>1, <4>3, <4>4
    <3> QED BY <3>1, <3>2
  <2> QED BY <1>10, <2>1 DEF Counted
<1>12. Aged'
  <2> SUFFICES ASSUME NEW q \in Open', NEW r \in Open'
               PROVE  /\ sessions'[q].openedAt < sessions'[r].openedAt => r \in since'[q]
                      /\ q # r => sessions'[q].openedAt # sessions'[r].openedAt
    BY DEF Aged
  <2>1. sessions'[p].openedAt = nextOrder
    BY <1>1, <1>5
  <2>2. \A x \in Open' : x # p => /\ x \in Open /\ x \in Pairs /\ sessions'[x] = sessions[x]
                                  /\ sessions'[x].openedAt \in Nat /\ sessions'[x].openedAt < nextOrder
    <3> TAKE x \in Open'
    <3> SUFFICES ASSUME x # p
                 PROVE  /\ x \in Open /\ x \in Pairs /\ sessions'[x] = sessions[x]
                        /\ sessions'[x].openedAt \in Nat /\ sessions'[x].openedAt < nextOrder
      OBVIOUS
    <3>1. x \in Open /\ sessions'[x] = sessions[x]
      BY <1>5
    <3>2. x \in Pairs /\ sessions[x].openedAt \in Nat
      BY <3>1, SessionFits
    <3>3. sessions[x].openedAt < nextOrder
      BY <3>1 DEF Counted
    <3> QED BY <3>1, <3>2, <3>3
  <2>3. \A x \in Pairs : x # p => since'[x] = since[x] \cup {p}
    BY <1>14
  <2>4. CASE q = p
    <3>1. CASE r = p
      BY <1>0, <2>1, <2>4, <3>1
    <3>2. CASE r # p
      <4>1. sessions'[r].openedAt \in Nat /\ sessions'[r].openedAt < nextOrder
        BY <2>2, <3>2
      <4> QED BY <1>0, <2>1, <2>4, <4>1
    <3> QED BY <3>1, <3>2
  <2>5. CASE q # p /\ r = p
    <3>1. q \in Pairs /\ sessions'[q].openedAt \in Nat /\ sessions'[q].openedAt < nextOrder
      BY <2>2, <2>5
    <3>2. p \in since'[q]
      BY <2>3, <2>5, <3>1
    <3> QED BY <1>0, <2>1, <2>5, <3>1, <3>2
  <2>6. CASE q # p /\ r # p
    <3>1. /\ q \in Open /\ r \in Open /\ q \in Pairs
          /\ sessions'[q] = sessions[q] /\ sessions'[r] = sessions[r]
      BY <2>2, <2>6
    <3>2. since'[q] = since[q] \cup {p}
      BY <2>3, <2>6, <3>1
    <3> QED BY <3>1, <3>2 DEF Aged
  <2> QED BY <2>4, <2>5, <2>6
<1> QED BY <1>1, <1>4, <1>5, <1>6, <1>10, <1>11, <1>12

-----------------------------------------------------------------------------
(***************************************************************************)
(* What was heard.                                                         *)
(***************************************************************************)

\* A transfer that begins so is that transfer.
LEMMA BeginsOnce ==
  ASSUME NEW h, NEW i \in Nat, NEW z \in Sizes, NEW id \in Nat, NEW size \in Sizes,
         Begins(h, i, z), Begins(h, id, size)
  PROVE  i = id /\ z = size
<1>1. h[1] = Announce(i, z, PacketsOf(z)) /\ h[1] = Announce(id, size, PacketsOf(size))
  BY DEF Begins, IsAnnounce
<1>2. Announce(i, z, PacketsOf(z)).id = i /\ Announce(i, z, PacketsOf(z)).size = z
  BY AnnounceIs
<1>3. Announce(id, size, PacketsOf(size)).id = id /\ Announce(id, size, PacketsOf(size)).size = size
  BY AnnounceIs
<1> QED BY <1>1, <1>2, <1>3

\* A transfer begun and heard to its end is its segments.
LEMMA BeginsToEnd ==
  ASSUME NEW F, NEW h \in Seq(F), NEW id \in Nat, NEW size \in Sizes,
         Begins(h, id, size), Len(h) = PacketsOf(size) + 1
  PROVE  h = Segment(id, size)
<1> PICK n \in Nat : n = PacketsOf(size)
  BY PacketsFit
<1> PICK g : g = Segment(id, size)
  OBVIOUS
<1>1. /\ g \in Seq(Cm \cup Dt) /\ Len(g) = n + 1 /\ IsAnnounce(g[1], id, size)
      /\ \A j \in 1..n : g[j + 1] = Data(id, size, j)
  BY SegmentIs
<1>2. Len(h) = n + 1 /\ IsAnnounce(h[1], id, size) /\ \A j \in 1..n : h[j + 1] = Data(id, size, j)
  BY DEF Begins
<1>3. h[1] = g[1]
  BY <1>1, <1>2 DEF IsAnnounce
<1>4. \A j \in 1..n + 1 : h[j] = g[j]
  <2> TAKE j \in 1..n + 1
  <2>1. CASE j = 1
    BY <1>3, <2>1
  <2>2. CASE j # 1
    <3>1. j - 1 \in 1..n /\ (j - 1) + 1 = j
      BY <2>2
    <3>2. h[(j - 1) + 1] = Data(id, size, j - 1) /\ g[(j - 1) + 1] = Data(id, size, j - 1)
      BY <1>1, <1>2, <3>1
    <3> QED BY <3>1, <3>2
  <2> QED BY <2>1, <2>2
<1>5. h = [j \in 1..n + 1 |-> h[j]] /\ g = [j \in 1..n + 1 |-> g[j]]
  <2>1. h = [j \in 1..Len(h) |-> h[j]]
    BY LenProperties
  <2>2. g = [j \in 1..Len(g) |-> g[j]]
    BY <1>1, LenProperties
  <2> QED BY <1>1, <1>2, <2>1, <2>2
<1> QED BY <1>4, <1>5

\* What a pair is heard to send is its own.
LEMMA HeardOthers ==
  ASSUME Typed, NEW p \in Pairs, NEW f, Remembers(p, f)
  PROVE  \A q \in Pairs : q # p => heard'[q] = heard[q]
BY DEF Typed, Remembers

\* An announce starts the memory of a pair.
LEMMA HeardAnnounce ==
  ASSUME Typed, Remembered, NEW p \in Pairs, NEW f, NEW id \in Nat, NEW size \in Sizes,
         IsAnnounce(f, id, size), Remembers(p, f)
  PROVE  /\ heard'[p] = <<f>> /\ Begins(<<f>>, id, size) /\ Len(<<f>>) = 1
         /\ heard' \in [Pairs -> Seq(Cm \cup Dt)] /\ Remembered'
<1>1. f \in Cm \cup Dt /\ f.type = "cm"
  BY AnnounceIs DEF IsAnnounce
<1> PICK h : h = <<f>>
  OBVIOUS
<1>2. h \in Seq(Cm \cup Dt) /\ Len(h) = 1 /\ h[1] = f
  BY <1>1
<1>3. Begins(h, id, size)
  <2>1. 1 \in 1..PacketsOf(size) + 1 /\ 1..1 - 1 = {}
    BY PacketsFit
  <2> QED BY <1>2, <2>1 DEF Begins
<1>4. Faithful(h)
  BY <1>2, <1>3, FaithfulIs
<1>5. heard \in [Pairs -> Seq(Cm \cup Dt)]
  BY DEF Typed
<1>6. heard' = [heard EXCEPT ![p] = h]
  BY <1>1, <1>4 DEF Remembers
<1>7. heard'[p] = h /\ heard' \in [Pairs -> Seq(Cm \cup Dt)]
  BY <1>2, <1>5, <1>6
<1>8. Remembered'
  <2> SUFFICES ASSUME NEW q \in Pairs, heard'[q] # << >>
               PROVE  \E i \in Nat, z \in Sizes : Begins(heard'[q], i, z)
    BY DEF Remembered
  <2>1. CASE q = p
    BY <1>3, <1>7, <2>1
  <2>2. CASE q # p
    <3>1. heard'[q] = heard[q]
      BY <2>2, HeardOthers
    <3> QED BY <3>1 DEF Remembered
  <2> QED BY <2>1, <2>2
<1> QED BY <1>2, <1>3, <1>7, <1>8

\* f continues the transfer that h begins.
Continues(f, h, id, size) ==
  Begins(h, id, size) /\ Len(h) <= PacketsOf(size) /\ f = Data(id, size, Len(h))

\* The transfer goes on with the frame.
LEMMA BeginsOn ==
  ASSUME NEW h \in Seq(Cm \cup Dt), NEW f \in Cm \cup Dt, NEW id \in Nat, NEW size \in Sizes,
         Begins(h, id, size)
  PROVE  /\ Append(h, f) \in Seq(Cm \cup Dt) /\ Len(Append(h, f)) = Len(h) + 1
         /\ Begins(Append(h, f), id, size) <=> Continues(f, h, id, size)
<1> PICK g : g = Append(h, f)
  OBVIOUS
<1> PICK n \in Nat : n = PacketsOf(size)
  BY PacketsFit
<1> PICK m \in Nat : m = Len(h)
  BY LenProperties
<1>1. /\ g \in Seq(Cm \cup Dt) /\ Len(g) = m + 1 /\ g[m + 1] = f
      /\ \A j \in 1..m : g[j] = h[j]
  BY AppendProperties
<1>2. m \in 1..n + 1 /\ IsAnnounce(h[1], id, size) /\ \A j \in 1..m - 1 : h[j + 1] = Data(id, size, j)
  BY DEF Begins
<1>3. IsAnnounce(g[1], id, size)
  <2>1. g[1] = h[1]
    BY <1>1, <1>2
  <2> QED BY <1>2, <2>1
<1>4. \A j \in 1..m - 1 : g[j + 1] = Data(id, size, j)
  <2> TAKE j \in 1..m - 1
  <2>1. j + 1 \in 1..m
    OBVIOUS
  <2> QED BY <1>1, <1>2, <2>1
<1>5. ASSUME Begins(g, id, size) PROVE Continues(f, h, id, size)
  <2>1. m + 1 \in 1..n + 1 /\ \A j \in 1..(m + 1) - 1 : g[j + 1] = Data(id, size, j)
    BY <1>1, <1>5 DEF Begins
  <2>2. m \in 1..(m + 1) - 1 /\ m <= n
    BY <1>2, <2>1
  <2>3. f = Data(id, size, m)
    BY <1>1, <2>1, <2>2
  <2> QED BY <2>2, <2>3 DEF Continues
<1>6. ASSUME Continues(f, h, id, size) PROVE Begins(g, id, size)
  <2>1. m <= n /\ f = Data(id, size, m)
    BY <1>6 DEF Continues
  <2>2. \A j \in 1..(m + 1) - 1 : g[j + 1] = Data(id, size, j)
    <3> TAKE j \in 1..(m + 1) - 1
    <3>1. j = m \/ j \in 1..m - 1
      BY <1>2
    <3>2. CASE j = m
      BY <1>1, <2>1, <3>2
    <3> QED BY <1>4, <3>1, <3>2
  <2>3. m + 1 \in 1..n + 1
    BY <1>2, <2>1
  <2> QED BY <1>1, <1>3, <2>2, <2>3 DEF Begins
<1> QED BY <1>1, <1>5, <1>6

\* After a data frame the memory of a pair holds the frame too, or nothing.
LEMMA HeardData ==
  ASSUME Typed, Remembered, NEW p \in Pairs, NEW f \in Dt, Remembers(p, f)
  PROVE  /\ heard' \in [Pairs -> Seq(Cm \cup Dt)] /\ Remembered'
         /\ heard'[p] # << >> =>
              \E id \in Nat, size \in Sizes : Continues(f, heard[p], id, size)
         /\ \A id \in Nat, size \in Sizes : Continues(f, heard[p], id, size) =>
              /\ Begins(heard'[p], id, size) /\ Len(heard'[p]) = Len(heard[p]) + 1
<1>1. f \in Cm \cup Dt /\ f.type = "dt"
  BY DEF Dt
<1> PICK H : H = heard[p]
  OBVIOUS
<1>2. heard \in [Pairs -> Seq(Cm \cup Dt)] /\ H \in Seq(Cm \cup Dt)
  BY DEF Typed
<1> PICK h : h = Append(H, f)
  OBVIOUS
<1>3. /\ h \in Seq(Cm \cup Dt) /\ Len(h) = Len(H) + 1 /\ h[Len(H) + 1] = f /\ Len(H) \in Nat
      /\ \A j \in 1..Len(H) : h[j] = H[j]
  BY <1>1, <1>2, AppendProperties, LenProperties
<1>4. heard' = [heard EXCEPT ![p] = IF Faithful(h) THEN h ELSE << >>]
  BY <1>1 DEF Remembers
<1>5. heard'[p] = (IF Faithful(h) THEN h ELSE << >>) /\ heard' \in [Pairs -> Seq(Cm \cup Dt)]
  BY <1>2, <1>3, <1>4
<1>6. ASSUME Faithful(h)
      PROVE  \E id \in Nat, size \in Sizes : Continues(f, H, id, size) /\ Begins(h, id, size)
  <2>1. h[1].type = "cm"
    BY <1>6 DEF Faithful
  <2>2. Len(H) # 0
    BY <1>1, <1>3, <2>1
  <2>3. H # << >> /\ h[1] = H[1]
    BY <1>3, <2>2
  <2>4. PICK id \in Nat, size \in Sizes : Begins(H, id, size)
    BY <2>3 DEF Remembered
  <2>5. h[1].id = id /\ h[1].size = size
    BY <2>3, <2>4, AnnounceIs DEF Begins, IsAnnounce
  <2>6. Begins(h, id, size)
    BY <1>3, <1>6, <2>5, FaithfulIs
  <2>7. Continues(f, H, id, size)
    BY <1>1, <1>2, <2>4, <2>6, BeginsOn
  <2> QED BY <2>6, <2>7
<1>7. ASSUME NEW id \in Nat, NEW size \in Sizes, Continues(f, H, id, size)
      PROVE  Begins(heard'[p], id, size) /\ Len(heard'[p]) = Len(H) + 1
  <2>1. Begins(h, id, size)
    BY <1>1, <1>2, <1>7, BeginsOn DEF Continues
  <2>2. Faithful(h)
    BY <1>3, <2>1, FaithfulIs
  <2> QED BY <1>3, <1>5, <2>1, <2>2
<1>8. heard'[p] # << >> =>
        \E id \in Nat, size \in Sizes : Continues(f, H, id, size) /\ Begins(heard'[p], id, size)
  BY <1>5, <1>6
<1>9. Remembered'
  <2> SUFFICES ASSUME NEW q \in Pairs, heard'[q] # << >>
               PROVE  \E i \in Nat, z \in Sizes : Begins(heard'[q], i, z)
    BY DEF Remembered
  <2>1. CASE q = p
    BY <1>8, <2>1
  <2>2. CASE q # p
    <3>1. heard'[q] = heard[q]
      BY <2>2, HeardOthers
    <3> QED BY <3>1 DEF Remembered
  <2> QED BY <2>1, <2>2
<1> QED BY <1>5, <1>7, <1>8, <1>9

\* Nothing damaged is remembered.
LEMMA HeardDamaged ==
  ASSUME Typed, Remembered, NEW p \in Pairs, NEW f, Remembers(p, f),
         \/ f.type \in {"short_cm", "short_dt"}
         \/ f.type = "cm" /\ f.id \in Nat /\ f.size \in Sizes /\ ~Consistent(f)
  PROVE  /\ heard'[p] = << >> /\ heard' \in [Pairs -> Seq(Cm \cup Dt)] /\ Remembered'
<1> PICK H : H = heard[p]
  OBVIOUS
<1>1. heard \in [Pairs -> Seq(Cm \cup Dt)] /\ H \in Seq(Cm \cup Dt)
  BY DEF Typed
<1> PICK h : h = IF f.type = "cm" THEN <<f>> ELSE Append(H, f)
  OBVIOUS
<1>2. heard' = [heard EXCEPT ![p] = IF Faithful(h) THEN h ELSE << >>]
  BY DEF Remembers
<1>3. ~Faithful(h)
  <2> SUFFICES ASSUME Faithful(h) PROVE FALSE
    OBVIOUS
  <2> DEFINE F == Cm \cup Dt \cup {f}
  <2>1. CASE f.type = "cm" /\ f.id \in Nat /\ f.size \in Sizes /\ ~Consistent(f)
    <3>1. h = <<f>> /\ h \in Seq(F) /\ h[1] = f
      BY <2>1
    <3>2. Begins(h, f.id, f.size)
      <4> HIDE DEF F
      <4> QED BY <2>1, <3>1, FaithfulIs
    <3>3. f.packets = PacketsOf(f.size)
      BY <2>1, <3>1, <3>2, AnnounceIs DEF Begins, IsAnnounce
    <3>4. f.size \in 1..DtBytes * MaxPackets
      BY <2>1, PacketsFit
    <3> QED BY <2>1, <3>3, <3>4 DEF Consistent
  <2>2. CASE f.type \in {"short_cm", "short_dt"}
    <3>1. h = Append(H, f)
      BY <2>2
    <3>2. H \in Seq(F) /\ f \in F
      <4>1. Cm \cup Dt \subseteq F
        OBVIOUS
      <4>2. Len(H) \in Nat /\ H \in [1..Len(H) -> Cm \cup Dt]
        BY <1>1, LenProperties
      <4>3. H \in [1..Len(H) -> F]
        BY <4>1, <4>2
      <4> QED BY <4>2, <4>3, SeqDef
    <3> HIDE DEF F
    <3>3. /\ h \in Seq(F) /\ Len(h) = Len(H) + 1 /\ h[Len(H) + 1] = f /\ Len(H) \in Nat
          /\ \A j \in 1..Len(H) : h[j] = H[j]
      <4>1. Len(H) \in Nat
        BY <1>1, LenProperties
      <4> QED BY <3>1, <3>2, <4>1, AppendProperties
    <3>4. h[1].type = "cm"
      BY DEF Faithful
    <3>5. Len(H) # 0
      BY <2>2, <3>3, <3>4
    <3>6. H # << >> /\ h[1] = H[1]
      BY <3>3, <3>5
    <3>7. PICK id \in Nat, size \in Sizes : Begins(H, id, size)
      BY <3>6 DEF Remembered
    <3>8. h[1].id = id /\ h[1].size = size
      BY <3>6, <3>7, AnnounceIs DEF Begins, IsAnnounce
    <3>9. Begins(h, id, size)
      BY <3>3, <3>8, FaithfulIs
    <3>10. Len(H) \in 1..PacketsOf(size) /\ h[Len(H) + 1] = Data(id, size, Len(H))
      <4>1. Len(h) \in 1..PacketsOf(size) + 1 /\ \A j \in 1..Len(h) - 1 : h[j + 1] = Data(id, size, j)
        BY <3>9 DEF Begins
      <4>2. PacketsOf(size) \in Nat
        BY PacketsFit
      <4>3. Len(H) \in 1..Len(h) - 1 /\ Len(H) \in 1..PacketsOf(size)
        BY <3>3, <3>5, <4>1, <4>2
      <4> QED BY <4>1, <4>3
    <3>11. f.type = "dt"
      BY <3>3, <3>10, DataIs
    <3> QED BY <2>2, <3>11
  <2> QED BY <2>1, <2>2
<1>4. heard'[p] = << >> /\ heard' \in [Pairs -> Seq(Cm \cup Dt)]
  <2>1. << >> \in Seq(Cm \cup Dt)
    OBVIOUS
  <2> QED BY <1>1, <1>2, <1>3, <2>1
<1>5. Remembered'
  <2> SUFFICES ASSUME NEW q \in Pairs, heard'[q] # << >>
               PROVE  \E i \in Nat, z \in Sizes : Begins(heard'[q], i, z)
    BY DEF Remembered
  <2>1. q # p
    BY <1>4
  <2>2. heard'[q] = heard[q]
    BY <2>1, HeardOthers
  <2> QED BY <2>2 DEF Remembered
<1> QED BY <1>4, <1>5

-----------------------------------------------------------------------------
(***************************************************************************)
(* A session takes in a packet.                                            *)
(***************************************************************************)

\* What appending a data frame makes of a session.
LEMMA AppendedIs ==
  ASSUME Typed, NEW p \in Open, NEW f, f.bytes \in Seq(Bytes), Len(f.bytes) = DtBytes,
         Len(sessions[p].buffer) = sessions[p].received * DtBytes
  PROVE  /\ Appended(f, sessions[p]) \in Session
         /\ Appended(f, sessions[p]).id = sessions[p].id
         /\ Appended(f, sessions[p]).size = sessions[p].size
         /\ Appended(f, sessions[p]).packets = sessions[p].packets
         /\ Appended(f, sessions[p]).received = sessions[p].received + 1
         /\ Appended(f, sessions[p]).openedAt = sessions[p].openedAt
         /\ Appended(f, sessions[p]).buffer = sessions[p].buffer \o f.bytes
         /\ Len(Appended(f, sessions[p]).buffer) = (sessions[p].received + 1) * DtBytes
<1> PICK s : s = sessions[p]
  OBVIOUS
<1>1. s \in Session /\ s.received \in Nat /\ s.buffer \in Seq(Bytes) /\ DtBytes \in Nat
  BY SessionFits, SizesAssumption
<1> PICK b : b = s.buffer \o f.bytes
  OBVIOUS
<1>2. b \in Seq(Bytes) /\ Len(b) = Len(s.buffer) + Len(f.bytes)
  BY <1>1, ConcatProperties
<1>3. Len(b) = (s.received + 1) * DtBytes
  <2> PICK r \in Nat : r = s.received
    BY <1>1
  <2>1. Len(b) = r * DtBytes + DtBytes
    BY <1>2
  <2>2. (r + 1) * DtBytes = r * DtBytes + DtBytes
    BY <1>1
  <2> QED BY <2>1, <2>2
<1> PICK a : a = [s EXCEPT !.buffer = b, !.received = s.received + 1]
  OBVIOUS
<1>4. Appended(f, s) = a
  BY DEF Appended
<1>6. /\ s.id \in Nat /\ s.size \in Sizes /\ s.packets \in Nat /\ s.openedAt \in Nat
      /\ s.received + 1 \in Nat
      /\ s = [id |-> s.id, size |-> s.size, packets |-> s.packets, received |-> s.received,
              openedAt |-> s.openedAt, buffer |-> s.buffer]
  BY <1>1 DEF Session
<1>7. a = [id |-> s.id, size |-> s.size, packets |-> s.packets, received |-> s.received + 1,
           openedAt |-> s.openedAt, buffer |-> b]
  BY <1>6
<1>5. /\ a \in Session /\ a.id = s.id /\ a.size = s.size /\ a.packets = s.packets
      /\ a.received = s.received + 1 /\ a.openedAt = s.openedAt /\ a.buffer = b
  BY <1>2, <1>6, <1>7 DEF Session
<1> QED BY <1>3, <1>4, <1>5

\* A session that took a packet in and still misses one.
LEMMA AppendKeeps ==
  ASSUME Typed, Counted, Aged, NEW p \in Open, NEW f,
         f.bytes \in Seq(Bytes), Len(f.bytes) = DtBytes,
         ~Complete(Appended(f, sessions[p])),
         sessions' = [sessions EXCEPT ![p] = Appended(f, sessions[p])],
         UNCHANGED <<nextOrder, since>>
  PROVE  /\ Open' = Open /\ sessions' \in [Open' -> Session]
         /\ sessions'[p] = Appended(f, sessions[p])
         /\ \A r \in Open : r # p => sessions'[r] = sessions[r]
         /\ Counted' /\ Aged'
<1> PICK s : s = Appended(f, sessions[p])
  OBVIOUS
<1>1. /\ s \in Session /\ s.size = sessions[p].size /\ s.packets = sessions[p].packets
      /\ s.received = sessions[p].received + 1 /\ s.openedAt = sessions[p].openedAt
      /\ Len(s.buffer) = (sessions[p].received + 1) * DtBytes
  BY AppendedIs DEF Counted
<1>2. sessions' = [sessions EXCEPT ![p] = s]
  OBVIOUS
<1>3. sessions \in [Open -> Session]
  BY DEF Typed
<1>4. sessions' \in [Open -> Session] /\ sessions'[p] = s
      /\ \A r \in Open : r # p => sessions'[r] = sessions[r]
  BY <1>1, <1>2, <1>3
<1>5. Open' = Open
  BY <1>4 DEF Open
<1>6. s.received < s.packets
  <2>1. ~(s.received >= s.packets)
    BY DEF Complete
  <2>2. s.received \in Nat /\ s.packets \in Nat
    BY <1>1 DEF Session
  <2> QED BY <2>1, <2>2
<1>7. Counted'
  <2>1. ASSUME NEW q \in Open
        PROVE  /\ sessions'[q].packets = PacketsOf(sessions'[q].size)
               /\ sessions'[q].received < sessions'[q].packets
               /\ Len(sessions'[q].buffer) = sessions'[q].received * DtBytes
               /\ sessions'[q].openedAt < nextOrder'
    <3>1. CASE q = p
      <4>1. sessions[p].packets = PacketsOf(sessions[p].size) /\ sessions[p].openedAt < nextOrder
        BY DEF Counted
      <4>2. sessions'[q] = s
        BY <1>4, <3>1
      <4> QED BY <1>1, <1>6, <4>1, <4>2
    <3>2. CASE q # p
      <4>1. sessions'[q] = sessions[q]
        BY <1>4, <3>2
      <4> QED BY <4>1 DEF Counted
    <3> QED BY <3>1, <3>2
  <2> QED BY <1>5, <2>1 DEF Counted
<1>8. Aged'
  <2>1. \A q \in Open : sessions'[q].openedAt = sessions[q].openedAt
    <3> TAKE q \in Open
    <3>1. CASE q = p
      BY <1>1, <1>4, <3>1
    <3>2. CASE q # p
      BY <1>4, <3>2
    <3> QED BY <3>1, <3>2
  <2> QED BY <1>5, <2>1 DEF Aged
<1> QED BY <1>4, <1>5, <1>7, <1>8

\* A buffer that is filled stays so with the bytes of the next packet.
LEMMA FilledOn ==
  ASSUME NEW b \in Seq(Bytes), NEW id \in Nat, NEW size \in Sizes, NEW r \in Nat,
         r + 1 \in 1..PacketsOf(size), Len(b) = r * DtBytes, Filled(b, id, size)
  PROVE  Filled(b \o Data(id, size, r + 1).bytes, id, size)
<1> PICK k : k = r + 1
  OBVIOUS
<1>1. k \in 1..PacketsOf(size) /\ k - 1 = r
  OBVIOUS
<1> PICK v : v = Data(id, size, k).bytes
  OBVIOUS
<1>2. /\ v \in Seq(Bytes) /\ Len(v) = DtBytes
      /\ \A i \in 1..DtBytes : v[i] = IF (k - 1) * DtBytes + i <= size
                                      THEN <<id, (k - 1) * DtBytes + i>> ELSE Pad
  BY <1>1, DataIs
<1> PICK w : w = r * DtBytes
  OBVIOUS
<1>3. DtBytes \in Nat /\ w \in Nat
  BY SizesAssumption
<1> PICK c : c = b \o v
  OBVIOUS
<1>4. /\ Len(c) = w + DtBytes
      /\ \A j \in 1..w + DtBytes : c[j] = IF j <= w THEN b[j] ELSE v[j - w]
  <2>1. /\ Len(b \o v) = Len(b) + Len(v)
        /\ \A j \in 1..Len(b) + Len(v) : (b \o v)[j] = IF j <= Len(b) THEN b[j] ELSE v[j - Len(b)]
    <3>1. b \in Seq(Bytes) /\ v \in Seq(Bytes)
      BY <1>2
    <3> QED BY <3>1, ConcatProperties, Zenon
  <2>2. Len(b) = w /\ Len(v) = DtBytes
    BY <1>2
  <2> QED BY <2>1, <2>2
<1>5. \A i \in 1..DtBytes : v[i] = IF w + i <= size THEN <<id, w + i>> ELSE Pad
  BY <1>1, <1>2
<1>6. ASSUME NEW j \in 1..w + DtBytes
      PROVE  c[j] = IF j <= size THEN <<id, j>> ELSE Pad
  <2>1. CASE j <= w
    <3>1. j \in 1..Len(b)
      BY <1>3, <2>1
    <3>2. b[j] = IF j <= size THEN <<id, j>> ELSE Pad
      BY <3>1 DEF Filled
    <3> QED BY <1>4, <2>1, <3>2
  <2>2. CASE ~(j <= w)
    <3>1. j - w \in 1..DtBytes /\ w + (j - w) = j
      BY <1>3, <2>2
    <3>2. v[j - w] = IF j <= size THEN <<id, j>> ELSE Pad
      BY <1>5, <3>1
    <3> QED BY <1>4, <2>2, <3>2
  <2> QED BY <2>1, <2>2
<1>7. Filled(c, id, size)
  BY <1>4, <1>6 DEF Filled
<1> QED BY <1>7

\* The next packet of the session's own transfer, which is the one heard.
Steady(p, f) ==
  Matches(p) /\ f = Data(sessions[p].id, sessions[p].size, sessions[p].received + 1)

\* It is in sequence, and fills the buffer with the payload as far as it goes: with the
\* last packet, the message is the payload.
LEMMA SteadyTakesIn ==
  ASSUME Typed, Counted, NEW p \in Pairs, NEW f, Steady(p, f)
  PROVE  /\ sessions[p].received + 1 \in 1..PacketsOf(sessions[p].size)
         /\ InSequence(f, sessions[p])
         /\ Continues(f, heard[p], sessions[p].id, sessions[p].size)
         /\ Filled(Appended(f, sessions[p]).buffer, sessions[p].id, sessions[p].size)
         /\ Complete(Appended(f, sessions[p])) =>
              /\ sessions[p].received + 1 = PacketsOf(sessions[p].size)
              /\ MessageOf(Appended(f, sessions[p])) =
                   [id |-> sessions[p].id, data |-> Payload(sessions[p].id, sessions[p].size)]
<1>0. p \in Open
  BY DEF Steady, Matches
<1> PICK s : s = sessions[p]
  OBVIOUS
<1> PICK id, size, r : id = s.id /\ size = s.size /\ r = s.received
  OBVIOUS
<1>1. id \in Nat /\ size \in Sizes /\ r \in Nat /\ s.packets \in Nat /\ s.buffer \in Seq(Bytes)
  BY <1>0, SessionFits
<1>2. s.packets = PacketsOf(size) /\ r < s.packets /\ Len(s.buffer) = r * DtBytes
  BY <1>0 DEF Counted
<1>3. /\ Len(heard[p]) = r + 1 /\ Begins(heard[p], id, size) /\ Filled(s.buffer, id, size)
      /\ f = Data(id, size, r + 1)
  BY DEF Steady, Matches
<1> PICK n \in Nat : n = PacketsOf(size)
  BY <1>1, PacketsFit
<1>4. r + 1 \in 1..n
  BY <1>1, <1>2
<1>5. /\ f.type = "dt" /\ f.sequence = r + 1 /\ (r + 1) % (MaxPackets + 1) = r + 1
      /\ f.bytes \in Seq(Bytes) /\ Len(f.bytes) = DtBytes
  <2> PICK k : k = r + 1
    OBVIOUS
  <2>1. k \in 1..PacketsOf(size) /\ f = Data(id, size, k)
    BY <1>3, <1>4
  <2>2. /\ Data(id, size, k).type = "dt" /\ Data(id, size, k).sequence = k
        /\ k % (MaxPackets + 1) = k
        /\ Data(id, size, k).bytes \in Seq(Bytes) /\ Len(Data(id, size, k).bytes) = DtBytes
    BY <1>1, <2>1, DataIs
  <2> QED BY <2>1, <2>2
<1>6. InSequence(f, s)
  BY <1>5 DEF InSequence
<1>7. Continues(f, heard[p], id, size)
  BY <1>1, <1>3, <1>4 DEF Continues
<1> PICK a : a = Appended(f, s)
  OBVIOUS
<1>8. /\ a \in Session /\ a.id = id /\ a.size = size /\ a.packets = s.packets /\ a.received = r + 1
      /\ a.buffer = s.buffer \o f.bytes /\ Len(a.buffer) = (r + 1) * DtBytes
  BY <1>0, <1>2, <1>5, AppendedIs
<1>10. Filled(a.buffer, id, size)
  <2>1. r + 1 \in 1..PacketsOf(size)
    BY <1>4
  <2>2. Filled(s.buffer \o Data(id, size, r + 1).bytes, id, size)
    BY <1>1, <1>2, <1>3, <2>1, FilledOn
  <2> QED BY <1>3, <1>8, <2>2
<1>11. ASSUME Complete(a)
       PROVE  r + 1 = n /\ MessageOf(a) = [id |-> id, data |-> Payload(id, size)]
  <2>1. r + 1 >= n
    BY <1>2, <1>8, <1>11 DEF Complete
  <2>2. r + 1 = n
    BY <1>1, <1>4, <2>1
  <2>3. size \in Nat /\ n * DtBytes >= size
    BY <1>1, PacketsFit
  <2>4. size <= Len(a.buffer)
    BY <1>8, <2>2, <2>3
  <2> PICK b : b = a.buffer
    OBVIOUS
  <2>5. b \in Seq(Bytes) /\ \A k \in 1..size : b[k] \in Bytes /\ b[k] = <<id, k>>
    <3>1. b \in Seq(Bytes) /\ Len(b) \in Nat
      BY <1>8, LenProperties DEF Session
    <3>2. \A k \in 1..size : k \in 1..Len(b)
      BY <2>3, <2>4, <3>1
    <3>3. \A k \in 1..size : b[k] \in Bytes
      BY <3>1, <3>2, ElementOfSeq
    <3>4. \A k \in 1..size : b[k] = <<id, k>>
      <4> TAKE k \in 1..size
      <4>1. k <= size
        BY <2>3
      <4>2. b[k] = IF k <= size THEN <<id, k>> ELSE Pad
        BY <1>10, <3>2 DEF Filled
      <4> QED BY <4>1, <4>2
    <3> QED BY <3>1, <3>3, <3>4
  <2> PICK g : g = SubSeq(b, 1, size)
    OBVIOUS
  <2>6. g \in Seq(Bytes) /\ Len(g) = size /\ \A k \in 1..size : g[k] = b[k]
    <3>1. /\ g \in Seq(Bytes) /\ Len(g) = (IF 1 <= size THEN size - 1 + 1 ELSE 0)
          /\ \A k \in 1..(size - 1 + 1) : g[k] = b[1 + k - 1]
      BY <2>3, <2>5, SubSeqProperties
    <3>2. size - 1 + 1 = size /\ \A k \in 1..size : 1 + k - 1 = k
      BY <2>3
    <3>3. 1 <= size
      BY <1>1, PacketsFit
    <3> QED BY <3>1, <3>2, <3>3
  <2>7. g = Payload(id, size)
    <3>1. g = [k \in 1..Len(g) |-> g[k]]
      BY <2>6, LenProperties
    <3>2. \A k \in 1..size : g[k] = <<id, k>>
      BY <2>5, <2>6
    <3> QED BY <2>6, <3>1, <3>2 DEF Payload
  <2>8. MessageOf(a) = [id |-> id, data |-> g]
    BY <1>8, <2>4 DEF MessageOf
  <2> QED BY <2>2, <2>7, <2>8
<1> QED BY <1>4, <1>6, <1>7, <1>10, <1>11

-----------------------------------------------------------------------------
(***************************************************************************)
(* A frame of one pair, and the sessions of the others.                    *)
(***************************************************************************)

\* What a frame of p leaves alone: the others are heard as before, and lose their session
\* only when enough pairs announced since.
Undisturbed(p) ==
  /\ since' \in [Pairs -> SUBSET Pairs] /\ \A q \in Pairs : IsFiniteSet(since'[q])
  /\ \A q \in Pairs : q # p =>
       /\ heard'[q] = heard[q] /\ (q \in torn' <=> q \in torn)
       /\ since[q] \subseteq since'[q]
       /\ q \in Open' => q \in Open /\ sessions'[q] = sessions[q]
       /\ q \in Open /\ q \notin Open' => Cardinality(since'[q]) >= MaxSessions

\* The session of p matches what was heard of p, as far as it must.
LinkedAt(p) ==
  /\ p \in Open /\ p \notin torn => Matches(p)
  /\ (\E id \in Nat, size \in Sizes :
        Begins(heard[p], id, size) /\ Len(heard[p]) <= PacketsOf(size))
       /\ Cardinality(since[p]) < MaxSessions
     => Matches(p)

LEMMA OthersLinked ==
  ASSUME Typed, Linked, NEW p \in Pairs, Undisturbed(p), LinkedAt(p)'
  PROVE  Linked'
<1>1. ASSUME NEW q \in Pairs, q # p, q \in Open', Matches(q) PROVE Matches(q)'
  <2>1. heard'[q] = heard[q] /\ sessions'[q] = sessions[q]
    BY <1>1 DEF Undisturbed
  <2> QED BY <1>1, <2>1 DEF Matches, Filled, Begins
<1>2. ASSUME NEW q \in Pairs, q # p PROVE LinkedAt(q)'
  <2>1. ASSUME q \in Open', q \notin torn' PROVE Matches(q)'
    <3>1. q \in Open /\ q \notin torn
      BY <1>2, <2>1 DEF Undisturbed
    <3>2. Matches(q)
      BY <3>1 DEF Linked
    <3> QED BY <1>1, <1>2, <2>1, <3>2
  <2>2. ASSUME NEW id \in Nat, NEW size \in Sizes, Begins(heard'[q], id, size),
               Len(heard'[q]) <= PacketsOf(size), Cardinality(since'[q]) < MaxSessions
        PROVE  Matches(q)'
    <3>1. heard'[q] = heard[q] /\ since[q] \subseteq since'[q] /\ IsFiniteSet(since'[q])
      BY <1>2 DEF Undisturbed
    <3> PICK a, b : a = Cardinality(since[q]) /\ b = Cardinality(since'[q])
      OBVIOUS
    <3>2. a \in Nat /\ b \in Nat /\ a <= b
      <4>1. IsFiniteSet(since[q]) /\ Cardinality(since[q]) <= Cardinality(since'[q])
        BY <3>1, FS_Subset
      <4> QED BY <3>1, <4>1, FS_CardinalityType
    <3>3. b < MaxSessions /\ MaxSessions \in Nat
      BY <2>2, SessionsAssumption
    <3>4. a < MaxSessions /\ ~(b >= MaxSessions)
      BY <3>2, <3>3
    <3>5. Matches(q)
      BY <2>2, <3>1, <3>4 DEF Linked
    <3>6. q \in Open
      BY <3>5 DEF Matches
    <3>7. q \in Open'
      BY <1>2, <3>4, <3>6 DEF Undisturbed
    <3> QED BY <1>1, <1>2, <3>5, <3>7
  <2> QED BY <2>1, <2>2 DEF LinkedAt
<1>3. \A q \in Pairs : LinkedAt(q)'
  BY <1>2
<1> QED BY <1>3 DEF Linked, LinkedAt

-----------------------------------------------------------------------------
(***************************************************************************)
(* accept.                                                                 *)
(***************************************************************************)

\* An announce as the sender made it.
LEMMA AnnounceHeard ==
  ASSUME Received, NEW p \in Pairs, NEW f, NEW id \in Nat, NEW size \in Sizes,
         IsAnnounce(f, id, size), Accept(p, f)
  PROVE  Received' /\ Undisturbed(p) /\ For(p, id, size)'
<1>0. Typed /\ Remembered /\ Counted /\ Aged /\ Linked
  BY DEF Received
<1>1. f.type = "cm" /\ f.id = id /\ f.size = size /\ f.packets = PacketsOf(size)
  BY AnnounceIs DEF IsAnnounce
<1>2. Consistent(f)
  <2>1. size \in 1..DtBytes * MaxPackets
    BY PacketsFit
  <2> QED BY <1>1, <2>1 DEF Consistent
<1>3. HearsAnnounce(p, f) /\ Remembers(p, f)
  BY <1>1 DEF Accept, HearsData
<1>4. out' = [from |-> p, message |-> NoMessage]
  BY <1>3 DEF HearsAnnounce
<1>5. Opens(p, f)
  <2>1. since' = [q \in Pairs |-> IF q = p THEN {} ELSE since[q] \cup {p}]
    BY <1>1, <1>2 DEF Accept
  <2>2. /\ sessions' = [q \in (Open \ Evicted(p)) \cup {p} |->
                          IF q = p THEN Opened(f) ELSE sessions[q]]
        /\ nextOrder' = nextOrder + 1
    BY <1>1, <1>2, <1>3 DEF HearsAnnounce
  <2> QED BY <2>1, <2>2 DEF Opens
<1>6. torn' = torn \ {p}
  BY <1>1 DEF Accept
<1>7. /\ Open' = (Open \ Evicted(p)) \cup {p} /\ IsFiniteSet(Open')
      /\ sessions' \in [Open' -> Session]
      /\ sessions'[p] = [id |-> id, size |-> size, packets |-> PacketsOf(size),
                         received |-> 0, openedAt |-> nextOrder, buffer |-> << >>]
      /\ \A r \in Open' : r # p => r \in Open /\ sessions'[r] = sessions[r]
      /\ Counted' /\ Aged'
      /\ \A r \in Pairs : r # p /\ r \in Evicted(p) => Cardinality(since'[r]) >= MaxSessions
  BY <1>0, <1>5, OpenIs
<1>8. /\ heard'[p] = <<f>> /\ Begins(<<f>>, id, size) /\ Len(<<f>>) = 1
      /\ heard' \in [Pairs -> Seq(Cm \cup Dt)] /\ Remembered'
  BY <1>0, <1>3, HeardAnnounce
<1>9. p \in Open'
  BY <1>7
<1>10. LinkedAt(p)'
  <2>1. Matches(p)'
    <3>1. sessions'[p].received = 0 /\ sessions'[p].buffer = << >>
          /\ sessions'[p].id = id /\ sessions'[p].size = size
      BY <1>7
    <3>2. Filled(<< >>, id, size)
      BY DEF Filled
    <3>3. Len(heard'[p]) = 0 + 1
      BY <1>8
    <3> QED BY <1>8, <1>9, <3>1, <3>2, <3>3 DEF Matches, Filled, Begins
  <2> QED BY <2>1 DEF LinkedAt
<1>11. Undisturbed(p)
  <2>1. \A q \in Pairs : since'[q] = IF q = p THEN {} ELSE since[q] \cup {p}
    BY <1>5 DEF Opens
  <2>2. since' \in [Pairs -> SUBSET Pairs]
    <3>1. since \in [Pairs -> SUBSET Pairs]
      BY <1>0 DEF Typed
    <3>2. \A q \in Pairs : (IF q = p THEN {} ELSE since[q] \cup {p}) \in SUBSET Pairs
      BY <3>1
    <3> QED BY <1>5, <3>2 DEF Opens
  <2>3. \A q \in Pairs : IsFiniteSet(since'[q])
    <3> TAKE q \in Pairs
    <3>1. IsFiniteSet({})
      BY FS_EmptySet
    <3>2. IsFiniteSet(since[q])
      BY <1>0 DEF Typed
    <3>3. IsFiniteSet(since[q] \cup {p})
      BY <3>2, FS_AddElement
    <3> QED BY <2>1, <3>1, <3>3
  <2>4. \A q \in Pairs : q # p => heard'[q] = heard[q]
    BY <1>0, <1>3, HeardOthers
  <2>5. \A q \in Pairs : q # p => since[q] \subseteq since'[q]
    BY <2>1
  <2>6. \A q \in Pairs : q # p /\ q \in Open /\ q \notin Open' => Cardinality(since'[q]) >= MaxSessions
    BY <1>7
  <2> QED BY <1>6, <1>7, <2>2, <2>3, <2>4, <2>5, <2>6 DEF Undisturbed
<1>12. Typed'
  <2>1. nextOrder' \in Nat
    BY <1>0, <1>5 DEF Typed, Opens
  <2>2. Open' \subseteq Pairs /\ torn' \subseteq Pairs
    BY <1>0, <1>6, <1>7 DEF Typed
  <2>3. since' \in [Pairs -> SUBSET Pairs] /\ \A q \in Pairs : IsFiniteSet(since'[q])
    BY <1>11 DEF Undisturbed
  <2> QED BY <1>7, <1>8, <2>1, <2>2, <2>3 DEF Typed
<1>13. Linked'
  BY <1>0, <1>10, <1>11, OthersLinked
<1>14. Intact'
  <2>1. out'.message = NoMessage
    BY <1>4
  <2> QED BY <2>1 DEF Intact, NoMessage
<1>15. CleanTransferCompletes'
  <2>1. out'.from = p
    BY <1>4
  <2>2. ASSUME NEW z \in Sizes, heard'[p] = Segment(heard'[p][1].id, z) PROVE FALSE
    <3>1. heard'[p][1].id = id
      BY <1>1, <1>8
    <3>2. Len(Segment(id, z)) = PacketsOf(z) + 1 /\ PacketsOf(z) \in 1..MaxPackets
      BY SegmentIs, PacketsFit
    <3>3. Len(Segment(id, z)) = 1
      BY <1>8, <2>2, <3>1
    <3> PICK n \in Nat : n = PacketsOf(z)
      BY PacketsFit
    <3>4. n # 0
      BY PacketsFit
    <3>5. n + 1 = 1
      BY <3>2, <3>3
    <3> QED BY <3>4, <3>5
  <2> QED BY <2>1, <2>2 DEF CleanTransferCompletes
<1>16. For(p, id, size)'
  <2>1. sessions'[p].id = id /\ sessions'[p].size = size
    BY <1>7
  <2> QED BY <2>1 DEF For
<1> QED BY <1>7, <1>8, <1>11, <1>12, <1>13, <1>14, <1>15, <1>16 DEF Received

\* A step that keeps everybody's ages and the sessions of all but p.
LEMMA SinceKept ==
  ASSUME Typed, NEW p \in Pairs, NEW f, Remembers(p, f), since' = since,
         \A q \in Pairs : q # p => (q \in torn' <=> q \in torn),
         Open' = Open \ {p} \/ Open' = Open,
         \A q \in Open : q # p => sessions'[q] = sessions[q]
  PROVE  Undisturbed(p)
<1>1. since \in [Pairs -> SUBSET Pairs] /\ \A q \in Pairs : IsFiniteSet(since[q])
  BY DEF Typed
<1>2. \A q \in Pairs : q # p => heard'[q] = heard[q]
  BY HeardOthers
<1>3. \A q \in Pairs : q # p => (q \in Open' <=> q \in Open)
  OBVIOUS
<1> QED BY <1>1, <1>2, <1>3 DEF Undisturbed

\* A frame that no message comes of and that leaves no memory of p.
LEMMA NothingReturned ==
  ASSUME NEW p \in Pairs, out' = [from |-> p, message |-> NoMessage], heard'[p] = << >>
  PROVE  Intact' /\ CleanTransferCompletes'
<1>1. out'.message = NoMessage /\ out'.from = p
  OBVIOUS
<1>2. Intact'
  BY <1>1 DEF Intact, NoMessage
<1>3. CleanTransferCompletes'
  BY <1>1 DEF CleanTransferCompletes
<1> QED BY <1>2, <1>3

\* A damaged frame.
LEMMA DamagedHeard ==
  ASSUME Received, NEW p \in Pairs, NEW f, Accept(p, f),
         \/ f.type \in {"short_cm", "short_dt"}
         \/ f.type = "cm" /\ f.id \in Nat /\ f.size \in Sizes /\ ~Consistent(f)
  PROVE  /\ Received' /\ Undisturbed(p)
         /\ p \notin Open' \/ p \in torn'
<1>0. Typed /\ Remembered /\ Counted /\ Aged /\ Linked
  BY DEF Received
<1>1. Remembers(p, f) /\ (HearsAnnounce(p, f) \/ HearsData(p, f))
  BY DEF Accept
<1>2. heard'[p] = << >> /\ heard' \in [Pairs -> Seq(Cm \cup Dt)] /\ Remembered'
  BY <1>0, <1>1, HeardDamaged
<1>3. since' = since
  BY DEF Accept
<1>4. torn' = CASE f.type = "cm" -> torn \ {p} [] f.type = "short_cm" -> torn \cup {p} [] OTHER -> torn
  BY DEF Accept
<1>5. out' = [from |-> p, message |-> NoMessage] /\ nextOrder' = nextOrder
  BY <1>1 DEF HearsAnnounce, HearsData
<1>6. /\ sessions' = Close({p}) \/ sessions' = sessions
      /\ f.type # "short_cm" /\ p \in Open => sessions' = Close({p})
  BY <1>1 DEF HearsAnnounce, HearsData
<1>7. /\ Open' = Open \ {p} \/ (Open' = Open /\ (f.type = "short_cm" \/ p \notin Open))
      /\ IsFiniteSet(Open') /\ sessions' \in [Open' -> Session]
      /\ \A r \in Open : r # p => sessions'[r] = sessions[r]
      /\ Counted' /\ Aged'
  <2>1. CASE sessions' = Close({p})
    BY <1>0, <1>3, <1>5, <2>1, CloseIs
  <2>2. CASE sessions' = sessions
    <3>1. Open' = Open /\ (f.type = "short_cm" \/ p \notin Open \/ sessions' = Close({p}))
      BY <1>6, <2>2 DEF Open
    <3>2. Counted' /\ Aged'
      BY <1>0, <1>3, <1>5, <2>2, <3>1 DEF Counted, Aged
    <3>3. IsFiniteSet(Open') /\ sessions' \in [Open' -> Session]
      BY <1>0, <2>2, <3>1 DEF Typed
    <3> QED BY <2>1, <2>2, <3>1, <3>2, <3>3
  <2> QED BY <1>6, <2>1, <2>2
<1>8. torn' \subseteq Pairs /\ \A q \in Pairs : q # p => (q \in torn' <=> q \in torn)
  BY <1>0, <1>4 DEF Typed
<1>9. p \notin Open' \/ p \in torn'
  <2>1. CASE f.type = "short_cm"
    BY <1>4, <2>1
  <2>2. CASE f.type # "short_cm"
    BY <1>7, <2>2
  <2> QED BY <2>1, <2>2
<1>10. Undisturbed(p)
  BY <1>0, <1>1, <1>3, <1>7, <1>8, SinceKept
<1>11. LinkedAt(p)'
  <2>1. ASSUME NEW id \in Nat, NEW size \in Sizes, Begins(heard'[p], id, size) PROVE FALSE
    <3>1. Len(heard'[p]) \in 1..PacketsOf(size) + 1
      BY <2>1 DEF Begins
    <3>2. Len(<< >>) = 0
      OBVIOUS
    <3> QED BY <1>2, <3>1, <3>2
  <2> QED BY <1>9, <2>1 DEF LinkedAt
<1>12. Linked'
  BY <1>0, <1>10, <1>11, OthersLinked
<1>13. Typed'
  <2>1. nextOrder' \in Nat
    BY <1>0, <1>5 DEF Typed
  <2>2. Open' \subseteq Pairs
    BY <1>0, <1>7 DEF Typed
  <2>3. since' \in [Pairs -> SUBSET Pairs] /\ \A q \in Pairs : IsFiniteSet(since'[q])
    BY <1>10 DEF Undisturbed
  <2> QED BY <1>2, <1>7, <1>8, <2>1, <2>2, <2>3 DEF Typed
<1>14. Intact' /\ CleanTransferCompletes'
  BY <1>2, <1>5, NothingReturned
<1> QED BY <1>2, <1>7, <1>9, <1>10, <1>12, <1>13, <1>14 DEF Received

\* A frame of p that goes on with what was heard of p, while fewer than max_sessions
\* pairs announced since, meets the session that took in what was heard.
LEMMA HeardIsSteady ==
  ASSUME Typed, Counted, Linked, NEW p \in Pairs, NEW f, NEW id \in Nat, NEW size \in Sizes,
         Continues(f, heard[p], id, size), Cardinality(since[p]) < MaxSessions
  PROVE  Steady(p, f) /\ sessions[p].id = id /\ sessions[p].size = size
<1>1. Matches(p)
  BY DEF Linked, Continues
<1>2. p \in Open
  BY <1>1 DEF Matches
<1>3. sessions[p].id \in Nat /\ sessions[p].size \in Sizes
  BY <1>2, SessionFits
<1>4. Begins(heard[p], id, size) /\ Begins(heard[p], sessions[p].id, sessions[p].size)
  BY <1>1 DEF Continues, Matches
<1>5. sessions[p].id = id /\ sessions[p].size = size
  BY <1>3, <1>4, BeginsOnce
<1>6. f = Data(id, size, sessions[p].received + 1)
  BY <1>1 DEF Continues, Matches
<1> QED BY <1>1, <1>5, <1>6 DEF Steady

\* A frame in sequence meets its own transfer's session, unless an announce was missed.
LEMMA SequenceIsSteady ==
  ASSUME Typed, Counted, Linked, NEW p \in Open, NEW f, NEW id \in Nat, NEW size \in Sizes,
         IsData(f, id, size), For(p, id, size), p \notin torn, InSequence(f, sessions[p])
  PROVE  Steady(p, f)
<1>0. p \in Pairs
  BY SessionFits
<1>1. Matches(p)
  BY <1>0 DEF Linked
<1>2. sessions[p].id = id /\ sessions[p].size = size
  BY DEF For
<1>3. PICK k \in 1..PacketsOf(size) : f = Data(id, size, k)
  BY DEF IsData
<1> PICK r : r = sessions[p].received
  OBVIOUS
<1>4. r \in Nat /\ r < PacketsOf(size)
  BY <1>2, SessionFits DEF Counted
<1>5. PacketsOf(size) \in 1..MaxPackets /\ MaxPackets \in Nat
  BY PacketsFit, SizesAssumption
<1>6. r + 1 \in 1..PacketsOf(size)
  BY <1>4, <1>5
<1>7. (r + 1) % (MaxPackets + 1) = r + 1
  <2> PICK m : m = r + 1
    OBVIOUS
  <2>1. m % (MaxPackets + 1) = m
    BY <1>6, DataIs
  <2> QED BY <2>1
<1>8. f.sequence = k
  BY <1>3, DataIs
<1>9. k = r + 1
  BY <1>7, <1>8 DEF InSequence
<1> QED BY <1>1, <1>2, <1>3, <1>9 DEF Steady

\* A transfer begins as its segments do.
LEMMA SegmentBegins ==
  ASSUME NEW id \in Nat, NEW size \in Sizes
  PROVE  /\ Begins(Segment(id, size), id, size)
         /\ Len(Segment(id, size)) = PacketsOf(size) + 1
<1> PICK g : g = Segment(id, size)
  OBVIOUS
<1> PICK n \in Nat : n = PacketsOf(size)
  BY PacketsFit
<1>1. Len(g) = n + 1 /\ IsAnnounce(g[1], id, size) /\ \A j \in 1..n : g[j + 1] = Data(id, size, j)
  BY SegmentIs
<1>2. Len(g) - 1 = n /\ Len(g) \in 1..n + 1
  BY <1>1
<1>3. Begins(g, id, size)
  BY <1>1, <1>2 DEF Begins
<1> QED BY <1>1, <1>3

\* A data frame as the sender made it.
LEMMA DataHeard ==
  ASSUME Received, NEW p \in Pairs, NEW f, NEW id \in Nat, NEW size \in Sizes,
         IsData(f, id, size), For(p, id, size), Accept(p, f)
  PROVE  Received' /\ Undisturbed(p) /\ For(p, id, size)'
<1>0. Typed /\ Remembered /\ Counted /\ Aged /\ Linked
  BY DEF Received
<1>1. f \in Dt /\ f.type = "dt" /\ f.bytes \in Seq(Bytes) /\ Len(f.bytes) = DtBytes
  BY DataIs DEF IsData
<1>2. HearsData(p, f) /\ Remembers(p, f)
  BY <1>1 DEF Accept, HearsAnnounce
<1>3. nextOrder' = nextOrder /\ since' = since /\ torn' = torn
  BY <1>1, <1>2 DEF Accept, HearsData
<1>4. /\ heard' \in [Pairs -> Seq(Cm \cup Dt)] /\ Remembered'
      /\ heard'[p] # << >> => \E i \in Nat, z \in Sizes : Continues(f, heard[p], i, z)
      /\ \A i \in Nat, z \in Sizes : Continues(f, heard[p], i, z) =>
           /\ Begins(heard'[p], i, z) /\ Len(heard'[p]) = Len(heard[p]) + 1
  BY <1>0, <1>1, <1>2, HeardData
<1> PICK s : s = Appended(f, sessions[p])
  OBVIOUS
<1>5. \/ /\ p \notin Open /\ out' = [from |-> p, message |-> NoMessage]
         /\ sessions' = sessions
      \/ /\ p \in Open /\ ~InSequence(f, sessions[p])
         /\ out' = [from |-> p, message |-> NoMessage] /\ sessions' = Close({p})
      \/ /\ p \in Open /\ InSequence(f, sessions[p]) /\ Complete(s)
         /\ out' = [from |-> p, message |-> MessageOf(s)] /\ sessions' = Close({p})
      \/ /\ p \in Open /\ InSequence(f, sessions[p]) /\ ~Complete(s)
         /\ out' = [from |-> p, message |-> NoMessage]
         /\ sessions' = [sessions EXCEPT ![p] = s]
  BY <1>1, <1>2 DEF HearsData
<1> DEFINE Grows == /\ p \in Open /\ InSequence(f, sessions[p]) /\ ~Complete(s)
                    /\ out' = [from |-> p, message |-> NoMessage]
                    /\ sessions' = [sessions EXCEPT ![p] = s]
           Ends == /\ p \in Open /\ InSequence(f, sessions[p]) /\ Complete(s)
                   /\ out' = [from |-> p, message |-> MessageOf(s)] /\ sessions' = Close({p})
<1>6. ASSUME p \in Open
      PROVE  /\ s \in Session /\ s.id = sessions[p].id /\ s.size = sessions[p].size
             /\ s.packets = sessions[p].packets /\ s.received = sessions[p].received + 1
  BY <1>0, <1>1, <1>6, AppendedIs DEF Counted
<1>7. /\ Open' = Open \ {p} \/ (Open' = Open /\ (p \notin Open \/ (Grows /\ sessions'[p] = s)))
      /\ IsFiniteSet(Open') /\ sessions' \in [Open' -> Session]
      /\ \A r \in Open : r # p => sessions'[r] = sessions[r]
      /\ Counted' /\ Aged'
  <2>0. IsFiniteSet(Open) /\ sessions \in [Open -> Session]
    BY <1>0 DEF Typed
  <2>1. CASE sessions' = Close({p})
    BY <1>0, <1>3, <2>1, CloseIs
  <2>2. CASE p \notin Open /\ sessions' = sessions
    <3>1. Open' = Open
      BY <2>2 DEF Open
    <3>2. Counted' /\ Aged'
      BY <1>0, <1>3, <2>2, <3>1 DEF Counted, Aged
    <3> QED BY <2>0, <2>2, <3>1, <3>2
  <2>3. CASE Grows
    <3>1. /\ Open' = Open /\ sessions' \in [Open' -> Session] /\ sessions'[p] = s
          /\ \A r \in Open : r # p => sessions'[r] = sessions[r]
          /\ Counted' /\ Aged'
      BY <1>0, <1>1, <1>3, <2>3, AppendKeeps DEF Counted
    <3> QED BY <2>0, <2>3, <3>1
  <2> QED BY <1>5, <2>1, <2>2, <2>3
<1>8. Undisturbed(p)
  BY <1>0, <1>2, <1>3, <1>7, SinceKept
<1>9. Typed'
  <2>1. nextOrder' \in Nat /\ torn' \subseteq Pairs
    BY <1>0, <1>3 DEF Typed
  <2>2. Open' \subseteq Pairs
    BY <1>0, <1>7 DEF Typed
  <2>3. since' \in [Pairs -> SUBSET Pairs] /\ \A q \in Pairs : IsFiniteSet(since'[q])
    BY <1>8 DEF Undisturbed
  <2> QED BY <1>4, <1>7, <2>1, <2>2, <2>3 DEF Typed
<1>10. ASSUME Steady(p, f)
       PROVE  /\ p \in Open /\ InSequence(f, sessions[p]) /\ (Grows \/ Ends)
              /\ Len(heard'[p]) = sessions[p].received + 2
              /\ sessions[p].packets = PacketsOf(sessions[p].size)
              /\ Begins(heard'[p], sessions[p].id, sessions[p].size)
              /\ sessions[p].id \in Nat /\ sessions[p].size \in Sizes /\ sessions[p].received \in Nat
  <2>1. p \in Open /\ Len(heard[p]) = sessions[p].received + 1
    BY <1>10 DEF Steady, Matches
  <2>2. sessions[p].id \in Nat /\ sessions[p].size \in Sizes /\ sessions[p].received \in Nat
    BY <1>0, <2>1, SessionFits
  <2>3. Continues(f, heard[p], sessions[p].id, sessions[p].size) /\ InSequence(f, sessions[p])
    BY <1>0, <1>10, SteadyTakesIn
  <2>4. /\ Begins(heard'[p], sessions[p].id, sessions[p].size)
        /\ Len(heard'[p]) = Len(heard[p]) + 1
    BY <1>4, <2>2, <2>3
  <2>5. Len(heard'[p]) = sessions[p].received + 2
    BY <2>1, <2>2, <2>4
  <2>6. Grows \/ Ends
    BY <1>5, <2>1, <2>3
  <2>7. sessions[p].packets = PacketsOf(sessions[p].size)
    BY <1>0, <2>1 DEF Counted
  <2> QED BY <2>1, <2>2, <2>3, <2>4, <2>5, <2>6, <2>7
<1>11. ASSUME NEW i \in Nat, NEW z \in Sizes, Begins(heard'[p], i, z),
              Cardinality(since'[p]) < MaxSessions
       PROVE  Steady(p, f) /\ sessions[p].id = i /\ sessions[p].size = z
  <2>1. heard'[p] # << >>
    <3>1. Len(heard'[p]) \in 1..PacketsOf(z) + 1
      BY <1>11 DEF Begins
    <3>2. Len(heard'[p]) # 0
      BY <3>1
    <3> QED BY <3>2
  <2>2. PICK i2 \in Nat, z2 \in Sizes : Continues(f, heard[p], i2, z2)
    BY <1>4, <2>1
  <2>3. Begins(heard'[p], i2, z2)
    BY <1>4, <2>2
  <2>4. i = i2 /\ z = z2
    BY <1>11, <2>3, BeginsOnce
  <2> QED BY <1>0, <1>3, <1>11, <2>2, <2>4, HeardIsSteady
<1>12. ASSUME Steady(p, f), Grows PROVE Matches(p)'
  <2>1. p \in Open' /\ sessions'[p] = s
    BY <1>7, <1>12
  <2>2. /\ s.id = sessions[p].id /\ s.size = sessions[p].size
        /\ s.received = sessions[p].received + 1
    BY <1>6, <1>12
  <2>3. Filled(s.buffer, s.id, s.size)
    BY <1>0, <1>12, <2>2, SteadyTakesIn
  <2>4. Len(heard'[p]) = s.received + 1
    BY <1>10, <1>12, <2>2
  <2>5. Begins(heard'[p], s.id, s.size)
    BY <1>10, <1>12, <2>2
  <2> QED BY <2>1, <2>3, <2>4, <2>5 DEF Matches, Filled, Begins
<1>13. LinkedAt(p)'
  <2>1. ASSUME p \in Open', p \notin torn' PROVE Matches(p)'
    <3>1. Grows
      BY <1>5, <1>7, <2>1
    <3>2. Steady(p, f)
      BY <1>0, <1>3, <2>1, <3>1, SequenceIsSteady
    <3> QED BY <1>12, <3>1, <3>2
  <2>2. ASSUME NEW i \in Nat, NEW z \in Sizes, Begins(heard'[p], i, z),
               Len(heard'[p]) <= PacketsOf(z), Cardinality(since'[p]) < MaxSessions
        PROVE  Matches(p)'
    <3>1. Steady(p, f) /\ sessions[p].size = z
      BY <1>11, <2>2
    <3> PICK r, n \in Nat : r = sessions[p].received /\ n = PacketsOf(z)
      BY <1>10, <3>1, PacketsFit
    <3>2. r + 2 <= n /\ p \in Open /\ sessions[p].packets = n
      BY <1>10, <2>2, <3>1
    <3>3. s.received = r + 1 /\ s.packets = n
      BY <1>6, <3>2
    <3>4. ~Complete(s)
      <4>1. ~(r + 1 >= n)
        BY <3>2
      <4> QED BY <3>3, <4>1 DEF Complete
    <3>5. Grows
      BY <1>10, <3>1, <3>4
    <3> QED BY <1>12, <3>1, <3>5
  <2> QED BY <2>1, <2>2 DEF LinkedAt
<1>14. Linked'
  BY <1>0, <1>8, <1>13, OthersLinked
<1>15. ASSUME Steady(p, f), Ends
       PROVE  /\ heard'[p] = Segment(sessions[p].id, sessions[p].size)
              /\ out'.message = [id |-> sessions[p].id,
                                 data |-> Payload(sessions[p].id, sessions[p].size)]
  <2> PICK i, z : i = sessions[p].id /\ z = sessions[p].size
    OBVIOUS
  <2>1. i \in Nat /\ z \in Sizes /\ Begins(heard'[p], i, z)
    BY <1>10, <1>15
  <2>2. /\ sessions[p].received + 1 = PacketsOf(z)
        /\ MessageOf(s) = [id |-> i, data |-> Payload(i, z)]
    BY <1>0, <1>15, SteadyTakesIn
  <2>3. Len(heard'[p]) = PacketsOf(z) + 1
    BY <1>10, <1>15, <2>2
  <2>4. heard'[p] \in Seq(Cm \cup Dt)
    BY <1>4
  <2>5. heard'[p] = Segment(i, z)
    BY <2>1, <2>3, <2>4, BeginsToEnd
  <2>6. out'.message = MessageOf(s)
    BY <1>15
  <2> QED BY <2>2, <2>5, <2>6
<1>16. out'.from = p /\ (out'.message = NoMessage \/ Ends)
  BY <1>5
<1>17. Intact'
  <2> SUFFICES ASSUME out'.message # NoMessage, p \notin torn'
               PROVE  \E z \in Sizes : /\ heard'[p] = Segment(out'.message.id, z)
                                       /\ out'.message.data = Payload(out'.message.id, z)
    BY <1>16 DEF Intact, NoMessage
  <2>1. Ends
    BY <1>16
  <2>2. Steady(p, f)
    BY <1>0, <1>3, <2>1, SequenceIsSteady
  <2>3. sessions[p].size \in Sizes
    BY <1>10, <2>2
  <2>4. /\ out'.message.id = sessions[p].id
        /\ out'.message.data = Payload(sessions[p].id, sessions[p].size)
        /\ heard'[p] = Segment(sessions[p].id, sessions[p].size)
    BY <1>15, <2>1, <2>2
  <2> QED BY <2>3, <2>4
<1>18. CleanTransferCompletes'
  <2> SUFFICES ASSUME NEW z \in Sizes, heard'[p] # << >>,
                      heard'[p] = Segment(heard'[p][1].id, z),
                      Cardinality(since'[p]) < MaxSessions
               PROVE  out'.message = [id |-> heard'[p][1].id, data |-> Payload(heard'[p][1].id, z)]
    BY <1>16 DEF CleanTransferCompletes
  <2> PICK i : i = heard'[p][1].id
    OBVIOUS
  <2>1. PICK i2 \in Nat, z2 \in Sizes : Continues(f, heard[p], i2, z2)
    BY <1>4
  <2>2. Begins(heard'[p], i2, z2)
    BY <1>4, <2>1
  <2>3. i = i2
    BY <2>2, AnnounceIs DEF Begins, IsAnnounce
  <2>4. heard'[p] = Segment(i, z) /\ i \in Nat
    BY <2>3
  <2>5. Begins(heard'[p], i, z) /\ Len(heard'[p]) = PacketsOf(z) + 1
    BY <2>4, SegmentBegins
  <2>6. Steady(p, f) /\ sessions[p].id = i /\ sessions[p].size = z
    BY <1>11, <2>4, <2>5
  <2> PICK r, n \in Nat : r = sessions[p].received /\ n = PacketsOf(z)
    BY <1>10, <2>6, PacketsFit
  <2>7. r + 2 = n + 1 /\ p \in Open /\ sessions[p].packets = n
    BY <1>10, <2>5, <2>6
  <2>8. s.received = r + 1 /\ s.packets = n
    BY <1>6, <2>7
  <2>9. Complete(s)
    <3>1. r + 1 >= n
      BY <2>7
    <3> QED BY <2>8, <3>1 DEF Complete
  <2>10. Ends
    BY <1>10, <2>6, <2>9
  <2>11. out'.message = [id |-> i, data |-> Payload(i, z)]
    BY <1>15, <2>6, <2>10
  <2> QED BY <2>11
<1>19. For(p, id, size)'
  <2>1. ASSUME p \in Open', p \notin torn'
        PROVE  sessions'[p].id = id /\ sessions'[p].size = size
    <3>1. Grows /\ sessions'[p] = s
      BY <1>5, <1>7, <2>1
    <3>2. s.id = sessions[p].id /\ s.size = sessions[p].size
      BY <1>6, <3>1
    <3>3. sessions[p].id = id /\ sessions[p].size = size
      BY <1>3, <2>1, <3>1 DEF For
    <3> QED BY <3>1, <3>2, <3>3
  <2> QED BY <2>1 DEF For
<1> QED BY <1>4, <1>7, <1>8, <1>9, <1>14, <1>17, <1>18, <1>19 DEF Received

-----------------------------------------------------------------------------
(***************************************************************************)
(* The bus.                                                                *)
(***************************************************************************)

\* The receiver hears nothing: what it has stays right, whatever is missed.
LEMMA NothingHeard ==
  ASSUME Received, UNCHANGED receiver, torn \subseteq torn', torn' \subseteq Pairs
  PROVE  Received'
<1>0. Typed /\ Remembered /\ Counted /\ Aged /\ Linked /\ Intact /\ CleanTransferCompletes
  BY DEF Received
<1>1. /\ sessions' = sessions /\ nextOrder' = nextOrder /\ out' = out /\ heard' = heard
      /\ since' = since /\ Open' = Open
  BY DEF receiver, Open
<1>2. Typed' /\ Remembered'
  BY <1>0, <1>1 DEF Typed, Remembered
<1>3. Counted' /\ Aged'
  BY <1>0, <1>1 DEF Counted, Aged
<1>4. \A p \in Pairs : Matches(p) => Matches(p)'
  BY <1>1 DEF Matches, Filled, Begins
<1>5. Linked'
  <2>1. ASSUME NEW p \in Pairs PROVE LinkedAt(p)'
    <3>1. LinkedAt(p)
      BY <1>0 DEF Linked, LinkedAt
    <3> QED BY <1>1, <1>4, <3>1 DEF LinkedAt
  <2> QED BY <2>1 DEF Linked, LinkedAt
<1>6. Intact'
  BY <1>0, <1>1 DEF Intact
<1>7. CleanTransferCompletes'
  BY <1>0, <1>1 DEF CleanTransferCompletes
<1> QED BY <1>2, <1>3, <1>5, <1>6, <1>7 DEF Received

\* The other pairs' frames still meet the sessions they met.
LEMMA WireKeeps ==
  ASSUME Wired, NEW p \in Pairs, sent \in Nat, sent' \in Nat, sent <= sent',
         \A q \in Pairs : q # p =>
           /\ wire'[q] = wire[q]
           /\ q \in Open' /\ q \notin torn' => q \in Open /\ q \notin torn /\ sessions'[q] = sessions[q],
         wire'[p] # << >> =>
           \E id \in 1..sent', size \in Sizes :
             /\ Carries(wire'[p], id, size)
             /\ wire'[p][1].type = "dt" => For(p, id, size)'
  PROVE  Wired'
<1>1. ASSUME NEW q \in Pairs, q # p, wire'[q] # << >>
      PROVE  \E id \in 1..sent', size \in Sizes :
               /\ Carries(wire'[q], id, size)
               /\ wire'[q][1].type = "dt" => For(q, id, size)'
  <2>1. PICK id \in 1..sent, size \in Sizes :
          /\ Carries(wire[q], id, size)
          /\ wire[q][1].type = "dt" => For(q, id, size)
    BY <1>1 DEF Wired
  <2>2. id \in 1..sent'
    OBVIOUS
  <2>3. For(q, id, size) => For(q, id, size)'
    BY <1>1 DEF For
  <2>4. wire'[q] = wire[q]
    BY <1>1
  <2> QED BY <2>1, <2>2, <2>3, <2>4
<1>2. \A q \in Pairs : wire'[q] # << >> =>
        \E id \in 1..sent', size \in Sizes :
          /\ Carries(wire'[q], id, size)
          /\ wire'[q][1].type = "dt" => For(q, id, size)'
  <2> TAKE q \in Pairs
  <2>1. CASE q = p
    BY <2>1
  <2>2. CASE q # p
    BY <1>1, <2>2
  <2> QED BY <2>1, <2>2
<1> QED BY <1>2 DEF Wired, Carries

\* The frames behind the first are data frames of the same transfer.
LEMMA TailCarries ==
  ASSUME NEW F, NEW w \in Seq(F), w # << >>, NEW id, NEW size, Carries(w, id, size)
  PROVE  /\ Tail(w) \in Seq(F) /\ Carries(Tail(w), id, size)
         /\ Head(w) = w[1]
         /\ IsData(w[1], id, size) \/ IsAnnounce(w[1], id, size)
<1>1. Len(w) \in Nat /\ Len(w) # 0
  BY LenProperties, EmptySeq
<1>2. /\ Tail(w) \in Seq(F) /\ Len(Tail(w)) = Len(w) - 1
      /\ \A j \in 1..Len(Tail(w)) : Tail(w)[j] = w[j + 1]
  BY HeadTailProperties
<1> PICK t : t = Tail(w)
  OBVIOUS
<1>3. \A j \in 1..Len(t) : IsData(t[j], id, size)
  <2> TAKE j \in 1..Len(t)
  <2>1. j + 1 \in 1..Len(w) /\ j + 1 # 1 /\ t[j] = w[j + 1]
    BY <1>1, <1>2
  <2> QED BY <2>1 DEF Carries
<1>4. Carries(t, id, size)
  BY <1>3 DEF Carries
<1>5. 1 \in 1..Len(w)
  BY <1>1
<1>6. IsData(w[1], id, size) \/ IsAnnounce(w[1], id, size)
  BY <1>5 DEF Carries
<1> QED BY <1>2, <1>4, <1>6

\* accept is right about the frame in front of it, as it was sent.
LEMMA FrameHeard ==
  ASSUME Inv, NEW p \in Pairs, NEW id \in 1..sent, NEW size \in Sizes, wire[p] # << >>,
         Carries(wire[p], id, size), wire[p][1].type = "dt" => For(p, id, size),
         Accept(p, Head(wire[p]))
  PROVE  Received' /\ Undisturbed(p) /\ For(p, id, size)'
<1>0. Received /\ wire[p] \in Seq(Cm \cup Dt) /\ id \in Nat
  BY DEF Inv, BusTyped
<1> PICK f : f = Head(wire[p])
  OBVIOUS
<1>1. f = wire[p][1] /\ (IsData(f, id, size) \/ IsAnnounce(f, id, size))
  BY <1>0, TailCarries
<1>2. CASE IsAnnounce(f, id, size)
  BY <1>0, <1>2, AnnounceHeard
<1>3. CASE IsData(f, id, size)
  <2>1. f.type = "dt"
    BY <1>0, <1>3, DataIs DEF IsData
  <2>2. For(p, id, size)
    BY <1>1, <2>1
  <2> QED BY <1>0, <1>3, <2>2, DataHeard
<1> QED BY <1>1, <1>2, <1>3

\* The front frame of a pair goes, and the receiver heard it, or something damaged, or
\* nothing.
LEMMA FramePasses ==
  ASSUME Inv, NEW p \in Pairs, NEW id \in 1..sent, NEW size \in Sizes, wire[p] # << >>,
         Carries(wire[p], id, size), Passes(p), faults' \in Nat,
         Received', Undisturbed(p), For(p, id, size)'
  PROVE  Inv'
<1>0. wire \in [Pairs -> Seq(Cm \cup Dt)] /\ sent \in Nat /\ Wired
  BY DEF Inv, BusTyped
<1>1. wire' = [wire EXCEPT ![p] = Tail(wire[p])] /\ sent' = sent
  BY DEF Passes
<1>2. Tail(wire[p]) \in Seq(Cm \cup Dt) /\ Carries(Tail(wire[p]), id, size)
  BY <1>0, TailCarries
<1>3. /\ wire' \in [Pairs -> Seq(Cm \cup Dt)] /\ wire'[p] = Tail(wire[p])
      /\ \A q \in Pairs : q # p => wire'[q] = wire[q]
  BY <1>0, <1>1, <1>2
<1>4. BusTyped'
  BY <1>0, <1>1, <1>3 DEF BusTyped
<1>5. \A q \in Pairs : q # p =>
        /\ wire'[q] = wire[q]
        /\ q \in Open' /\ q \notin torn' => q \in Open /\ q \notin torn /\ sessions'[q] = sessions[q]
  BY <1>3 DEF Undisturbed
<1>6. Carries(wire'[p], id, size) /\ id \in 1..sent'
  BY <1>1, <1>2, <1>3
<1>7. sent' \in Nat /\ sent <= sent'
  BY <1>0, <1>1
<1>8. Wired'
  BY <1>0, <1>5, <1>6, <1>7, WireKeeps
<1> QED BY <1>4, <1>8 DEF Inv

\* What is in front of the receiver.
LEMMA FrontIs ==
  ASSUME Inv, NEW p \in Pairs, wire[p] # << >>
  PROVE  /\ Received /\ Wired /\ wire \in [Pairs -> Seq(Cm \cup Dt)]
         /\ sent \in Nat /\ faults \in Nat /\ torn \subseteq Pairs
         /\ \E id \in 1..sent, size \in Sizes :
              /\ Carries(wire[p], id, size)
              /\ wire[p][1].type = "dt" => For(p, id, size)
BY DEF Inv, BusTyped, Wired, Received, Typed

LEMMA SendStep ==
  ASSUME Inv, NEW p \in Pairs, NEW size \in Sizes, Send(p, size)
  PROVE  Inv'
<1>0. /\ Received /\ Wired /\ wire \in [Pairs -> Seq(Cm \cup Dt)]
      /\ sent \in Nat /\ faults \in Nat /\ torn \subseteq Pairs
  BY DEF Inv, BusTyped, Received, Typed
<1>1. /\ sent' = sent + 1 /\ wire' = [wire EXCEPT ![p] = Segment(sent', size)]
      /\ faults' = faults /\ torn' = torn /\ UNCHANGED receiver
  BY DEF Send
<1>2. sent' \in Nat /\ sent' \in 1..sent' /\ sent <= sent'
  BY <1>0, <1>1
<1> PICK g, id : g = Segment(sent', size) /\ id = sent'
  OBVIOUS
<1>3. /\ g \in Seq(Cm \cup Dt) /\ Len(g) = PacketsOf(size) + 1 /\ IsAnnounce(g[1], id, size)
      /\ \A j \in 1..PacketsOf(size) : g[j + 1] = Data(id, size, j)
  BY <1>2, SegmentIs
<1>4. /\ wire' \in [Pairs -> Seq(Cm \cup Dt)] /\ wire'[p] = g
      /\ \A q \in Pairs : q # p => wire'[q] = wire[q]
  BY <1>0, <1>1, <1>3
<1>5. Received'
  BY <1>0, <1>1, NothingHeard
<1>6. sessions' = sessions /\ Open' = Open
  BY <1>1 DEF receiver, Open
<1>7. Carries(g, id, size)
  <2> SUFFICES ASSUME NEW j \in 1..Len(g)
               PROVE  IsData(g[j], id, size) \/ (j = 1 /\ IsAnnounce(g[j], id, size))
    BY DEF Carries
  <2>1. CASE j = 1
    BY <1>3, <2>1
  <2>2. CASE j # 1
    <3> PICK n \in Nat : n = PacketsOf(size)
      BY PacketsFit
    <3> PICK k : k = j - 1
      OBVIOUS
    <3>1. k \in 1..n /\ k + 1 = j
      BY <1>3, <2>2
    <3>2. g[j] = Data(id, size, k)
      BY <1>3, <3>1
    <3> QED BY <3>1, <3>2 DEF IsData
  <2> QED BY <2>1, <2>2
<1>8. g[1].type = "cm"
  BY <1>2, <1>3, AnnounceIs DEF IsAnnounce
<1>9. Wired'
  BY <1>0, <1>1, <1>2, <1>4, <1>6, <1>7, <1>8, WireKeeps
<1>10. BusTyped'
  BY <1>0, <1>1, <1>2, <1>4 DEF BusTyped
<1> QED BY <1>5, <1>9, <1>10 DEF Inv

LEMMA DeliverStep ==
  ASSUME Inv, NEW p \in Pairs, wire[p] # << >>, Deliver(p)
  PROVE  Inv'
<1>1. PICK id \in 1..sent, size \in Sizes :
        /\ Carries(wire[p], id, size)
        /\ wire[p][1].type = "dt" => For(p, id, size)
  BY FrontIs
<1>2. Accept(p, Head(wire[p])) /\ Passes(p) /\ faults' = faults
  BY DEF Deliver
<1>3. Received' /\ Undisturbed(p) /\ For(p, id, size)'
  BY <1>1, <1>2, FrameHeard
<1>4. faults' \in Nat
  BY <1>2, FrontIs
<1> QED BY <1>1, <1>2, <1>3, <1>4, FramePasses

LEMMA RepeatStep ==
  ASSUME Inv, NEW p \in Pairs, wire[p] # << >>, Repeat(p)
  PROVE  Inv'
<1>0. /\ wire \in [Pairs -> Seq(Cm \cup Dt)] /\ sent \in Nat /\ faults \in Nat /\ Wired
  BY FrontIs
<1>1. PICK id \in 1..sent, size \in Sizes :
        /\ Carries(wire[p], id, size)
        /\ wire[p][1].type = "dt" => For(p, id, size)
  BY FrontIs
<1>2. Accept(p, Head(wire[p])) /\ wire' = wire /\ sent' = sent /\ faults' = faults + 1
  BY DEF Repeat, Fault
<1>3. Received' /\ Undisturbed(p) /\ For(p, id, size)'
  BY <1>1, <1>2, FrameHeard
<1>4. \A q \in Pairs : q # p =>
        /\ wire'[q] = wire[q]
        /\ q \in Open' /\ q \notin torn' => q \in Open /\ q \notin torn /\ sessions'[q] = sessions[q]
  BY <1>2, <1>3 DEF Undisturbed
<1>5. Carries(wire'[p], id, size) /\ id \in 1..sent' /\ sent <= sent' /\ sent' \in Nat
  BY <1>0, <1>1, <1>2
<1>6. Wired'
  BY <1>0, <1>3, <1>4, <1>5, WireKeeps
<1>7. BusTyped'
  BY <1>0, <1>2 DEF BusTyped
<1> QED BY <1>3, <1>6, <1>7 DEF Inv

LEMMA DamageStep ==
  ASSUME Inv, NEW p \in Pairs, wire[p] # << >>, Damage(p)
  PROVE  Inv'
<1>0. /\ Received /\ wire[p] \in Seq(Cm \cup Dt) /\ sent \in Nat /\ faults \in Nat
  BY FrontIs
<1>1. PICK id \in 1..sent, size \in Sizes : Carries(wire[p], id, size)
  BY FrontIs
<1>2. Passes(p) /\ faults' = faults + 1
  BY DEF Damage, Fault
<1> PICK g : g = Head(wire[p])
  OBVIOUS
<1>3. PICK f \in Damaged(g) : Accept(p, f)
  BY DEF Damage
<1>4. id \in Nat /\ (IsData(g, id, size) \/ IsAnnounce(g, id, size))
  BY <1>0, <1>1, TailCarries
<1>5. \/ f.type \in {"short_cm", "short_dt"}
      \/ f.type = "cm" /\ f.id \in Nat /\ f.size \in Sizes /\ ~Consistent(f)
  <2>1. CASE g.type # "cm"
    BY <1>3, <2>1 DEF Damaged
  <2>2. CASE g.type = "cm" /\ f = [type |-> "short_cm"]
    BY <2>2
  <2>3. CASE g.type = "cm" /\ f = [g EXCEPT !.packets = @ + 1]
    <3>1. IsAnnounce(g, id, size)
      BY <1>4, <2>3, DataIs DEF IsData
    <3> PICK n \in Nat : n = PacketsOf(size)
      BY PacketsFit
    <3>2. g = [type |-> "cm", id |-> id, size |-> size, packets |-> n]
      BY <3>1 DEF IsAnnounce, Announce
    <3>3. f.type = "cm" /\ f.id = id /\ f.size = size /\ f.packets = n + 1
      BY <2>3, <3>2
    <3>4. f.packets # PacketsOf(f.size)
      BY <3>3
    <3> QED BY <1>4, <3>3, <3>4 DEF Consistent
  <2>4. g.type = "cm" => f \in {[g EXCEPT !.packets = @ + 1], [type |-> "short_cm"]}
    BY <1>3 DEF Damaged
  <2> QED BY <2>1, <2>2, <2>3, <2>4
<1>6. Received' /\ Undisturbed(p) /\ (p \notin Open' \/ p \in torn')
  BY <1>0, <1>3, <1>5, DamagedHeard
<1>7. For(p, id, size)'
  BY <1>6 DEF For
<1>8. faults' \in Nat
  BY <1>0, <1>2
<1> QED BY <1>1, <1>2, <1>6, <1>7, <1>8, FramePasses

LEMMA LoseStep ==
  ASSUME Inv, NEW p \in Pairs, wire[p] # << >>, Lose(p)
  PROVE  Inv'
<1>0. /\ Received /\ wire[p] \in Seq(Cm \cup Dt) /\ sent \in Nat /\ faults \in Nat
      /\ torn \subseteq Pairs
  BY FrontIs
<1>1. PICK id \in 1..sent, size \in Sizes :
        /\ Carries(wire[p], id, size)
        /\ wire[p][1].type = "dt" => For(p, id, size)
  BY FrontIs
<1>2. /\ Passes(p) /\ faults' = faults + 1 /\ UNCHANGED receiver
      /\ torn' = IF Head(wire[p]).type = "cm" THEN torn \cup {p} ELSE torn
  BY DEF Lose, Fault
<1>3. Received'
  BY <1>0, <1>2, NothingHeard
<1>4. sessions' = sessions /\ Open' = Open /\ heard' = heard /\ since' = since
  BY <1>2 DEF receiver, Open
<1>5. Undisturbed(p)
  BY <1>0, <1>2, <1>4 DEF Undisturbed, Received, Typed
<1>6. For(p, id, size)'
  <2>1. Head(wire[p]) = wire[p][1]
        /\ (IsData(wire[p][1], id, size) \/ IsAnnounce(wire[p][1], id, size)) /\ id \in Nat
    BY <1>0, <1>1, TailCarries
  <2>2. CASE Head(wire[p]).type = "cm"
    BY <1>2, <2>2 DEF For
  <2>3. CASE Head(wire[p]).type # "cm"
    <3>1. IsData(wire[p][1], id, size)
      BY <2>1, <2>3, AnnounceIs DEF IsAnnounce
    <3>2. wire[p][1].type = "dt"
      BY <2>1, <3>1, DataIs DEF IsData
    <3> QED BY <1>1, <1>2, <1>4, <2>3, <3>2 DEF For
  <2> QED BY <2>2, <2>3
<1>7. faults' \in Nat
  BY <1>0, <1>2
<1> QED BY <1>1, <1>2, <1>3, <1>5, <1>6, <1>7, FramePasses

LEMMA OvertakeStep ==
  ASSUME Inv, NEW p \in Pairs, wire[p] # << >>, Overtake(p)
  PROVE  Inv'
<1>0. /\ Received /\ Wired /\ wire \in [Pairs -> Seq(Cm \cup Dt)] /\ sent \in Nat /\ faults \in Nat
      /\ torn \subseteq Pairs
  BY FrontIs
<1> PICK w : w = wire[p]
  OBVIOUS
<1>1. PICK id \in 1..sent, size \in Sizes :
        /\ Carries(w, id, size)
        /\ w[1].type = "dt" => For(p, id, size)
  BY FrontIs
<1> PICK g : g = <<w[2], w[1]>> \o SubSeq(w, 3, Len(w))
  OBVIOUS
<1>2. /\ Len(w) > 1 /\ w[1].type = "dt" /\ wire' = [wire EXCEPT ![p] = g]
      /\ faults' = faults + 1 /\ sent' = sent /\ torn' = torn /\ UNCHANGED receiver
  BY DEF Overtake, Fault
<1>3. id \in Nat /\ w \in Seq(Cm \cup Dt) /\ Len(w) \in Nat
      /\ \A j \in 1..Len(w) : w[j] \in Cm \cup Dt
  BY <1>0, ElementOfSeq, LenProperties
<1>4. \A j \in 1..Len(w) : IsData(w[j], id, size)
  <2>0. Announce(id, size, PacketsOf(size)).type = "cm"
    BY <1>3, AnnounceIs
  <2>1. 1 \in 1..Len(w) /\ ~IsAnnounce(w[1], id, size)
    BY <1>2, <1>3, <2>0 DEF IsAnnounce
  <2> QED BY <1>1, <2>1 DEF Carries
<1>5. g \in Seq(Cm \cup Dt) /\ \A j \in 1..Len(g) : IsData(g[j], id, size)
  <2> PICK a, b : a = <<w[2], w[1]>> /\ b = SubSeq(w, 3, Len(w))
    OBVIOUS
  <2>1. 1 \in 1..Len(w) /\ 2 \in 1..Len(w)
    BY <1>2, <1>3
  <2>2. a \in Seq(Cm \cup Dt) /\ Len(a) = 2 /\ a[1] = w[2] /\ a[2] = w[1]
    BY <1>3, <2>1
  <2>3. \A j \in 1..Len(a) : IsData(a[j], id, size)
    <3> TAKE j \in 1..Len(a)
    <3>1. j = 1 \/ j = 2
      BY <2>2
    <3>2. IsData(w[1], id, size) /\ IsData(w[2], id, size)
      BY <1>4, <2>1
    <3> QED BY <2>2, <3>1, <3>2
  <2>4. \A j \in 3..Len(w) : w[j] \in Cm \cup Dt
    BY <1>3
  <2>5. /\ b \in Seq(Cm \cup Dt) /\ Len(b) = (IF 3 <= Len(w) THEN Len(w) - 3 + 1 ELSE 0)
        /\ \A j \in 1..(Len(w) - 3 + 1) : b[j] = w[3 + j - 1]
    BY <1>3, <2>4, SubSeqProperties
  <2>6. \A j \in 1..Len(b) : IsData(b[j], id, size)
    <3> TAKE j \in 1..Len(b)
    <3>1. j \in 1..(Len(w) - 3 + 1) /\ 3 + j - 1 \in 1..Len(w)
      BY <1>3, <2>5
    <3> QED BY <1>4, <2>5, <3>1
  <2>7. /\ a \o b \in Seq(Cm \cup Dt) /\ Len(a \o b) = Len(a) + Len(b)
        /\ \A j \in 1..Len(a) + Len(b) : (a \o b)[j] = IF j <= Len(a) THEN a[j] ELSE b[j - Len(a)]
    BY <2>2, <2>5, ConcatProperties
  <2>8. \A j \in 1..Len(g) : IsData(g[j], id, size)
    <3>0. Len(a) \in Nat /\ Len(b) \in Nat /\ g = a \o b
      BY <2>2, <2>5, LenProperties
    <3> TAKE j \in 1..Len(g)
    <3>1. j \in 1..Len(a) + Len(b)
      BY <2>7, <3>0
    <3>2. CASE j <= Len(a)
      <4>1. j \in 1..Len(a) /\ g[j] = a[j]
        BY <2>7, <3>0, <3>1, <3>2
      <4> QED BY <2>3, <4>1
    <3>3. CASE ~(j <= Len(a))
      <4>1. j - Len(a) \in 1..Len(b) /\ g[j] = b[j - Len(a)]
        BY <2>7, <3>0, <3>1, <3>3
      <4> QED BY <2>6, <4>1
    <3> QED BY <3>2, <3>3
  <2> QED BY <2>7, <2>8
<1>6. Carries(g, id, size)
  BY <1>5 DEF Carries
<1>7. /\ wire' \in [Pairs -> Seq(Cm \cup Dt)] /\ wire'[p] = g
      /\ \A q \in Pairs : q # p => wire'[q] = wire[q]
  BY <1>0, <1>2, <1>5
<1>8. Received'
  BY <1>0, <1>2, NothingHeard
<1>9. sessions' = sessions /\ Open' = Open
  BY <1>2 DEF receiver, Open
<1>10. For(p, id, size)'
  BY <1>1, <1>2, <1>9 DEF For
<1>11. sent' \in Nat /\ sent <= sent' /\ id \in 1..sent'
  BY <1>0, <1>2
<1>12. Wired'
  BY <1>0, <1>2, <1>6, <1>7, <1>9, <1>10, <1>11, WireKeeps
<1>13. BusTyped'
  BY <1>0, <1>2, <1>7 DEF BusTyped
<1> QED BY <1>8, <1>12, <1>13 DEF Inv

-----------------------------------------------------------------------------
(***************************************************************************)
(* The theorems.                                                           *)
(***************************************************************************)

LEMMA InitHolds ==
  ASSUME Init
  PROVE  Inv
<1>1. /\ wire = [p \in Pairs |-> << >>] /\ sent = 0 /\ faults = 0 /\ sessions = << >>
      /\ nextOrder = 0 /\ out = [from |-> NoPair, message |-> NoMessage]
      /\ heard = [p \in Pairs |-> << >>] /\ torn = {} /\ since = [p \in Pairs |-> {}]
  BY DEF Init
<1>2. Open = {} /\ sessions \in [{} -> Session]
  BY <1>1 DEF Open
<1>3. IsFiniteSet({}) /\ Cardinality({}) = 0
  BY FS_EmptySet
<1>4. Typed /\ BusTyped
  <2>1. << >> \in Seq(Cm \cup Dt)
    OBVIOUS
  <2> QED BY <1>1, <1>2, <1>3, <2>1 DEF Typed, BusTyped
<1>5. Wired /\ Remembered
  BY <1>1 DEF Wired, Remembered
<1>6. Counted /\ Aged
  BY <1>2, <1>3, SessionsAssumption DEF Counted, Aged
<1>7. Linked
  <2>1. ASSUME NEW p \in Pairs, NEW id \in Nat, NEW size \in Sizes, Begins(heard[p], id, size)
        PROVE  FALSE
    <3>1. Len(heard[p]) \in 1..PacketsOf(size) + 1 /\ Len(heard[p]) = 0
      BY <1>1, <2>1 DEF Begins
    <3> QED BY <3>1
  <2> QED BY <1>2, <2>1 DEF Linked
<1>8. Intact
  BY <1>1 DEF Intact, NoMessage
<1>9. CleanTransferCompletes
  BY <1>1 DEF CleanTransferCompletes
<1> QED BY <1>4, <1>5, <1>6, <1>7, <1>8, <1>9 DEF Inv, Received

LEMMA StepKeeps ==
  ASSUME Inv, [Next]_vars
  PROVE  Inv'
<1>1. CASE Next
  <2>1. PICK p \in Pairs :
          \/ \E size \in Sizes : Send(p, size)
          \/ wire[p] # << >> /\ (Deliver(p) \/ Repeat(p) \/ Damage(p) \/ Lose(p) \/ Overtake(p))
    BY <1>1 DEF Next
  <2>2. CASE \E size \in Sizes : Send(p, size)
    BY <2>2, SendStep
  <2>3. CASE wire[p] # << >> /\ Deliver(p)
    BY <2>3, DeliverStep
  <2>4. CASE wire[p] # << >> /\ Repeat(p)
    BY <2>4, RepeatStep
  <2>5. CASE wire[p] # << >> /\ Damage(p)
    BY <2>5, DamageStep
  <2>6. CASE wire[p] # << >> /\ Lose(p)
    BY <2>6, LoseStep
  <2>7. CASE wire[p] # << >> /\ Overtake(p)
    BY <2>7, OvertakeStep
  <2> QED BY <2>1, <2>2, <2>3, <2>4, <2>5, <2>6, <2>7
<1>2. CASE UNCHANGED vars
  <2>1. /\ UNCHANGED receiver /\ torn' = torn /\ wire' = wire /\ sent' = sent /\ faults' = faults
        /\ sessions' = sessions /\ Open' = Open
    BY <1>2 DEF vars, bus, receiver, Open
  <2>2. Received'
    BY <2>1, NothingHeard DEF Inv, Received, Typed
  <2>3. BusTyped'
    BY <2>1 DEF Inv, BusTyped
  <2>4. \A p, id, size : For(p, id, size) => For(p, id, size)'
    BY <2>1 DEF For
  <2>5. Wired'
    BY <2>1, <2>4 DEF Inv, Wired, Carries
  <2> QED BY <2>2, <2>3, <2>5 DEF Inv
<1> QED BY <1>1, <1>2

\* The inductive invariant holds in every state of a reassembler that hears any number of
\* transfers over a bus that loses, repeats, damages and reorders frames.
THEOREM InvariantHolds == Spec => []Inv
<1>1. Init => Inv
  BY InitHolds
<1>2. Inv /\ [Next]_vars => Inv'
  BY StepKeeps
<1> QED BY <1>1, <1>2, PTL DEF Spec

\* At most max_sessions transfers are tracked, and every buffer is what its session says.
THEOREM SessionsAreBounded == Spec => []SessionsBounded
<1>1. Inv => SessionsBounded
  <2> SUFFICES ASSUME Inv PROVE SessionsBounded
    OBVIOUS
  <2>1. Typed /\ Counted
    BY DEF Inv, Received
  <2>2. ASSUME NEW p \in Open
        PROVE  sessions[p].packets * DtBytes < sessions[p].size + DtBytes
    <3>1. sessions[p].size \in Sizes /\ sessions[p].packets = PacketsOf(sessions[p].size)
      BY <2>1, SessionFits DEF Counted
    <3> QED BY <3>1, PacketsFit
  <2> QED BY <2>1, <2>2 DEF SessionsBounded, Counted
<1> QED BY <1>1, InvariantHolds, PTL

\* A message accept returns is a payload that was sent, whole, made of the frames heard.
THEOREM MessagesAreIntact == Spec => []Intact
<1>1. Inv => Intact
  BY DEF Inv, Received
<1> QED BY <1>1, InvariantHolds, PTL

\* A transfer heard whole is returned, unless max_sessions other pairs announced since.
THEOREM CleanTransfersComplete == Spec => []CleanTransferCompletes
<1>1. Inv => CleanTransferCompletes
  BY DEF Inv, Received
<1> QED BY <1>1, InvariantHolds, PTL

=============================================================================

--------------------------- MODULE J1939Transport ---------------------------
(***************************************************************************)
(* can/j1939_transport.hpp: the segmenter that splits a payload into an    *)
(* announce (TP.CM) and data frames (TP.DT), and the reassembler that      *)
(* rebuilds the payloads of many senders from what it hears.               *)
(*                                                                         *)
(* The bus between the two is external.  The reassembler only listens: it  *)
(* may miss any frame, hear one twice, hear a damaged one, and hear two    *)
(* data frames of one transfer in the wrong order.                         *)
(***************************************************************************)
EXTENDS Naturals, Sequences, SequencesExt, FiniteSets

CONSTANTS
  Pairs,         \* the (source, destination) pairs that transfers run between
  NoPair,        \* not one of them
  MaxSessions,   \* max_sessions
  DtBytes,       \* j1939_tp_dt_payload
  MaxPackets,    \* the largest packet count a byte can announce
  Sizes,         \* the payload sizes sent
  MaxTransfers,  \* bound: transfers of all pairs
  MaxFaults      \* bound: frames lost, repeated, damaged or overtaken

ASSUME SessionsAssumption == MaxSessions \in Nat \ {0} /\ NoPair \notin Pairs
ASSUME SizesAssumption ==
  DtBytes \in Nat \ {0} /\ MaxPackets \in Nat /\ Sizes \subseteq 1..DtBytes * MaxPackets

VARIABLES
  wire,      \* for each pair, the frames sent and not yet past the receiver
  sent,      \* how many transfers were started
  faults,    \* how many frames the bus has mistreated
  sessions,  \* m_sessions, keyed by pair
  nextOrder, \* m_next_order
  out,       \* what the last accept returned, and the pair it heard
  heard,     \* history: the frames heard of each pair since its last announce, while
             \* they are the first frames of one transfer, each heard once
  torn,      \* history: the pairs of which an announce was missed since then
  since      \* history: for each pair, who announced since its last announce

bus == <<wire, sent, faults>>
vars == <<bus, sessions, nextOrder, out, heard, torn, since>>

(***************************************************************************)
(* Frames.  A transfer is named by its number; its payload bytes are the   *)
(* pairs <<number, position>>.                                             *)
(***************************************************************************)
Pad == <<0, 0>>
Payload(id, size) == [k \in 1..size |-> <<id, k>>]
PacketsOf(size) == (size + DtBytes - 1) \div DtBytes

Announce(id, size, packets) ==
  [type |-> "cm", id |-> id, size |-> size, packets |-> packets]

\* Data packet k of a transfer, the last one padded; its sequence number is a byte.
Data(id, size, k) ==
  [type |-> "dt", sequence |-> k % (MaxPackets + 1),
   bytes |-> [i \in 1..DtBytes |->
                LET index == (k - 1) * DtBytes + i
                IN IF index <= size THEN <<id, index>> ELSE Pad]]

Segment(id, size) ==
  <<Announce(id, size, PacketsOf(size))>>
    \o [k \in 1..PacketsOf(size) |-> Data(id, size, k)]

\* What a damaged frame reads as: an announce whose packet count does not fit its
\* size, or a frame cut short.
Damaged(f) ==
  IF f.type = "cm" THEN {[f EXCEPT !.packets = @ + 1], [type |-> "short_cm"]}
  ELSE {[type |-> "short_dt"]}

NoMessage == [id |-> 0, data |-> << >>]
Open == DOMAIN sessions

Init ==
  /\ wire = [p \in Pairs |-> << >>]
  /\ sent = 0
  /\ faults = 0
  /\ sessions = << >>
  /\ nextOrder = 0
  /\ out = [from |-> NoPair, message |-> NoMessage]
  /\ heard = [p \in Pairs |-> << >>]
  /\ torn = {}
  /\ since = [p \in Pairs |-> {}]

(***************************************************************************)
(* Wrong variants, for checking that the properties below watch the code;  *)
(* no specification uses them.                                             *)
(***************************************************************************)
YoungestOf(S) == CHOOSE q \in S : \A r \in S : sessions[r].openedAt <= sessions[q].openedAt
NotBehind(f, s) == f.sequence >= (s.received + 1) % (MaxPackets + 1)
CompleteOneLate(s) == s.received > s.packets

(***************************************************************************)
(* The reassembler.                                                        *)
(***************************************************************************)
Close(S) == Restrict(sessions, Open \ S)

\* The announce is one a transfer can have.
Consistent(f) ==
  /\ f.size \in 1..DtBytes * MaxPackets
  /\ f.packets = PacketsOf(f.size)

OldestOf(S) == CHOOSE q \in S : \A r \in S : sessions[q].openedAt <= sessions[r].openedAt

\* Whom an announce of p pushes out.
Evicted(p) ==
  LET others == Open \ {p}
  IN IF Cardinality(others) >= MaxSessions THEN {OldestOf(others)} ELSE {}

Opened(f) ==
  [id |-> f.id, size |-> f.size, packets |-> f.packets, received |-> 0,
   openedAt |-> nextOrder, buffer |-> << >>]

InSequence(f, s) == f.sequence = (s.received + 1) % (MaxPackets + 1)
Complete(s) == s.received >= s.packets

Appended(f, s) == [s EXCEPT !.buffer = @ \o f.bytes, !.received = @ + 1]
MessageOf(s) ==
  [id |-> s.id,
   data |-> SubSeq(s.buffer, 1, IF s.size <= Len(s.buffer) THEN s.size ELSE Len(s.buffer))]

\* accept, first half: an announce, or a frame of a pair without a session.
HearsAnnounce(p, f) ==
  /\ out' = [from |-> p, message |-> NoMessage]
  /\ \/ /\ f.type = "short_cm"
        /\ UNCHANGED <<sessions, nextOrder>>
     \/ /\ f.type = "cm" /\ ~Consistent(f)
        /\ sessions' = Close({p})
        /\ UNCHANGED nextOrder
     \/ /\ f.type = "cm" /\ Consistent(f)
        /\ sessions' = [q \in (Open \ Evicted(p)) \cup {p} |->
                          IF q = p THEN Opened(f) ELSE sessions[q]]
        /\ nextOrder' = nextOrder + 1

\* accept, second half: a data frame of a pair.
HearsData(p, f) ==
  /\ UNCHANGED nextOrder
  /\ \/ /\ f.type \in {"dt", "short_dt"} /\ p \notin Open
        /\ out' = [from |-> p, message |-> NoMessage]
        /\ UNCHANGED sessions
     \/ /\ p \in Open
        /\ f.type = "short_dt" \/ (f.type = "dt" /\ ~InSequence(f, sessions[p]))
        /\ out' = [from |-> p, message |-> NoMessage]
        /\ sessions' = Close({p})
     \/ /\ p \in Open /\ f.type = "dt" /\ InSequence(f, sessions[p])
        /\ LET s == Appended(f, sessions[p])
           IN IF Complete(s)
              THEN /\ out' = [from |-> p, message |-> MessageOf(s)]
                   /\ sessions' = Close({p})
              ELSE /\ out' = [from |-> p, message |-> NoMessage]
                   /\ sessions' = [sessions EXCEPT ![p] = s]

\* The frames are the first of the transfer their announce names.
Faithful(h) == h # << >> /\ h[1].type = "cm" /\ IsPrefix(h, Segment(h[1].id, h[1].size))

Remembers(p, f) ==
  LET h == IF f.type = "cm" THEN <<f>> ELSE Append(heard[p], f)
  IN heard' = [heard EXCEPT ![p] = IF Faithful(h) THEN h ELSE << >>]

Accept(p, f) ==
  /\ HearsAnnounce(p, f) \/ HearsData(p, f)
  /\ Remembers(p, f)
  /\ torn' = CASE f.type = "cm" -> torn \ {p}
               [] f.type = "short_cm" -> torn \cup {p}
               [] OTHER -> torn
  /\ since' = IF f.type = "cm" /\ Consistent(f)
              THEN [q \in Pairs |-> IF q = p THEN {} ELSE since[q] \cup {p}]
              ELSE since

(***************************************************************************)
(* The senders, each handing one transfer at a time to the bus, and the    *)
(* bus.                                                                    *)
(***************************************************************************)
receiver == <<sessions, nextOrder, out, heard, since>>

Send(p, size) ==
  /\ sent < MaxTransfers /\ wire[p] = << >>
  /\ sent' = sent + 1
  /\ wire' = [wire EXCEPT ![p] = Segment(sent', size)]
  /\ UNCHANGED <<faults, torn, receiver>>

Passes(p) == wire' = [wire EXCEPT ![p] = Tail(@)] /\ UNCHANGED sent

Fault == faults < MaxFaults /\ faults' = faults + 1 /\ UNCHANGED sent

Deliver(p) == Accept(p, Head(wire[p])) /\ Passes(p) /\ UNCHANGED faults

\* The receiver hears the frame, and will hear it again.
Repeat(p) == Fault /\ Accept(p, Head(wire[p])) /\ UNCHANGED wire

Damage(p) == Fault /\ Passes(p) /\ \E f \in Damaged(Head(wire[p])) : Accept(p, f)

Lose(p) ==
  /\ Fault /\ Passes(p)
  /\ torn' = IF Head(wire[p]).type = "cm" THEN torn \cup {p} ELSE torn
  /\ UNCHANGED receiver

\* Two data frames of one transfer change places.
Overtake(p) ==
  /\ Len(wire[p]) > 1 /\ wire[p][1].type = "dt"
  /\ Fault
  /\ wire' = [wire EXCEPT ![p] = <<@[2], @[1]>> \o SubSeq(@, 3, Len(@))]
  /\ UNCHANGED <<torn, receiver>>

Next ==
  \E p \in Pairs :
    \/ \E size \in Sizes : Send(p, size)
    \/ wire[p] # << >> /\ (Deliver(p) \/ Repeat(p) \/ Damage(p) \/ Lose(p) \/ Overtake(p))

Spec == Init /\ [][Next]_vars

(***************************************************************************)
(* Properties.                                                             *)
(***************************************************************************)

\* At most max_sessions transfers are tracked, and what a session has buffered is what
\* its packet count says, with at least one packet still missing: no finished transfer
\* lingers, and no buffer outgrows the announce it was opened for.
SessionsBounded ==
  /\ Cardinality(Open) <= MaxSessions
  /\ \A p \in Open :
       /\ sessions[p].received < sessions[p].packets
       /\ Len(sessions[p].buffer) = sessions[p].received * DtBytes
       /\ sessions[p].packets * DtBytes < sessions[p].size + DtBytes

\* A message accept returns is the payload that was sent, whole, and the frames heard
\* since its announce are exactly the frames of that transfer, each once and in order:
\* nothing lost, repeated, damaged or overtaken ends up in a message, as long as the
\* receiver missed no announce of the pair meanwhile.
Intact ==
  (out.message # NoMessage /\ out.from \notin torn) =>
    \E size \in Sizes :
      /\ heard[out.from] = Segment(out.message.id, size)
      /\ out.message.data = Payload(out.message.id, size)

\* A transfer of which every frame was heard once, in order and undamaged is returned by
\* the accept of its last frame, whatever else is on the bus, unless max_sessions other
\* pairs announced since: only then may it have been pushed out.
CleanTransferCompletes ==
  \A p \in Pairs, size \in Sizes :
    (/\ out.from = p
     /\ heard[p] # << >> /\ heard[p] = Segment(heard[p][1].id, size)
     /\ Cardinality(since[p]) < MaxSessions)
      => out.message = [id |-> heard[p][1].id, data |-> Payload(heard[p][1].id, size)]

=============================================================================

------------------------ MODULE RtpContinuityProofs ------------------------
(***************************************************************************)
(* Theorems about RtpContinuity, for all tracks, senders, moduli and       *)
(* bounds: types (so the widths of the wire format), that every packet     *)
(* numbered is in hand or on the wire once, the order within a track, and  *)
(* that numbers and timestamps go on where they were, modulo their widths. *)
(***************************************************************************)
EXTENDS RtpContinuity, SequenceTheorems, TLAPS

\* A remainder is smaller than the modulus, also for a negative difference.
LEMMA ModRange ==
    ASSUME NEW M \in Nat \ {0}, NEW x \in Int
    PROVE  x % M \in 0..(M - 1)
  OBVIOUS

\* The types of the continuity record.
StateType == [initialized : BOOLEAN, sourceID : Sender \cup {None},
              baseInput : 0..(TsMod - 1), baseOutput : 0..(TsMod - 1),
              lastOutput : 0..(TsMod - 1), sequence : 0..(SeqMod - 1)]

\* rewriteRTP's first part keeps the record's type.
LEMMA RebasedType ==
    ASSUME state \in StateType, NEW s \in Sender, NEW ts \in 0..(TsMod - 1),
           NEW seq \in 0..(SeqMod - 1)
    PROVE  Rebased(s, ts, seq) \in StateType
  <1>1. TsMod \in Nat \ {0} /\ SeqMod \in Nat \ {0}
    BY RtpAssumption
  <1>2. (state.lastOutput + 1) % TsMod \in 0..(TsMod - 1)
    <2>1. state.lastOutput + 1 \in Int
      BY <1>1 DEF StateType
    <2>2. QED
      BY <1>1, <2>1, ModRange
  <1>3. QED
    BY <1>1, <1>2 DEF Rebased, StateType

\* And so does the whole of it.
LEMMA NumberedType ==
    ASSUME state \in StateType, NEW s \in Sender, NEW ts \in 0..(TsMod - 1),
           NEW seq \in 0..(SeqMod - 1)
    PROVE  Numbered(s, ts, seq) \in StateType
  <1> DEFINE r == Rebased(s, ts, seq)
  <1>1. TsMod \in Nat \ {0} /\ SeqMod \in Nat \ {0}
    BY RtpAssumption
  <1>2. r \in StateType
    BY RebasedType
  <1> HIDE DEF r
  <1>3. /\ (r.sequence + 1) % SeqMod \in 0..(SeqMod - 1)
        /\ (r.baseOutput + (ts - r.baseInput)) % TsMod \in 0..(TsMod - 1)
    <2>1. r.sequence + 1 \in Int /\ r.baseOutput + (ts - r.baseInput) \in Int
      BY <1>1, <1>2 DEF StateType
    <2>2. (r.sequence + 1) % SeqMod \in 0..(SeqMod - 1)
      BY <1>1, <2>1, ModRange
    <2>3. (r.baseOutput + (ts - r.baseInput)) % TsMod \in 0..(TsMod - 1)
      BY <1>1, <2>1, ModRange
    <2>4. QED
      BY <2>2, <2>3
  <1>4. [r EXCEPT !.sequence = (@ + 1) % SeqMod,
                  !.lastOutput = (r.baseOutput + (ts - r.baseInput)) % TsMod]
            \in StateType
    BY <1>2, <1>3 DEF StateType
  <1>5. QED
    BY <1>4 DEF Numbered, r

\* A session that was just created has numbered nothing.
LEMMA TypeInit == Init => TypeOK
  <1> SUFFICES ASSUME Init PROVE TypeOK
    OBVIOUS
  <1> USE RtpAssumption DEF Init, Fresh
  <1>1. input \in [Track -> 0..(TsMod - 1)]
    OBVIOUS
  <1>2. state \in StateType
    BY DEF StateType
  <1>3. wire \in Seq(Packet) /\ ideal \in Seq(Nat) /\ hand \subseteq Packet
    OBVIOUS
  <1>4. QED
    BY <1>1, <1>2, <1>3 DEF TypeOK, StateType

\* The packet that Number makes, and what it leaves the other variables.
LEMMA TypeNumber ==
    ASSUME TypeOK, NEW t \in Track, NEW advance \in 0..MaxAdvance,
           NEW seq \in 0..(SeqMod - 1), Number(t, advance, seq)
    PROVE  TypeOK'
  <1> DEFINE ts == (input[t] + advance) % TsMod
             s == Numbered(Owner[t], ts, seq)
             step == IF last = t THEN skipped[t] + advance ELSE 1
             due == IF ideal = <<>> THEN 0 ELSE ideal[Len(ideal)] + step
             p == [track |-> t, nth |-> Len(ideal) + 1,
                   number |-> s.sequence, timestamp |-> s.lastOutput]
  <1>1. /\ TsMod \in Nat \ {0} /\ SeqMod \in Nat \ {0} /\ Owner[t] \in Sender
        /\ MaxNumbered \in Nat /\ MaxAdvance \in Nat
    BY RtpAssumption
  <1>2. ts \in 0..(TsMod - 1)
    <2>1. input[t] + advance \in Int
      BY <1>1 DEF TypeOK
    <2>2. QED
      BY <1>1, <2>1, ModRange
  <1>3. s \in StateType
    BY <1>1, <1>2, NumberedType DEF TypeOK, StateType
  <1>4. due \in Nat
    BY DEF TypeOK
  <1>5. /\ Len(ideal) < MaxNumbered
        /\ input' = [input EXCEPT ![t] = ts]
        /\ state' = s
        /\ hand' = hand \cup {p}
        /\ ideal' = Append(ideal, due)
        /\ last' = t
        /\ skipped' = [skipped EXCEPT ![t] = 0]
        /\ UNCHANGED <<feed, wire>>
    BY DEF Number
  <1> HIDE DEF ts, s, step, due
  <1>6. p \in Packet
    BY <1>1, <1>3, <1>5 DEF Packet, StateType, TypeOK
  <1> HIDE DEF p
  <1>7. hand' \subseteq Packet
    BY <1>5, <1>6 DEF TypeOK
  <1>8. ideal' \in Seq(Nat)
    BY <1>4, <1>5, AppendProperties DEF TypeOK
  <1>9. input' \in [Track -> 0..(TsMod - 1)] /\ skipped' \in [Track -> Nat]
    BY <1>2, <1>5 DEF TypeOK
  <1>10. state' \in StateType
    BY <1>3, <1>5
  <1>11. QED
    BY <1>5, <1>7, <1>8, <1>9, <1>10 DEF TypeOK, StateType, feed, Packet

\* Every step keeps sequence numbers and timestamps within their width.
LEMMA TypeNext == TypeOK /\ [Next]_vars => TypeOK'
  <1> SUFFICES ASSUME TypeOK, [Next]_vars PROVE TypeOK'
    OBVIOUS
  <1>1. ASSUME NEW s \in Sender, Select(s) PROVE TypeOK'
    BY <1>1 DEF TypeOK, Select, history, Packet
  <1>2. CASE Stop
    BY <1>2 DEF TypeOK, Stop, history, Packet
  <1>3. ASSUME NEW t \in Track, NEW advance \in 0..MaxAdvance,
               NEW seq \in 0..(SeqMod - 1), Read(t, advance, seq)
        PROVE  TypeOK'
    BY <1>3, TypeNumber DEF Read
  <1>4. ASSUME NEW t \in Track, NEW advance \in 0..MaxAdvance, Drop(t, advance)
        PROVE  TypeOK'
    <2>1. (input[t] + advance) % TsMod \in 0..(TsMod - 1)
      <3>1. input[t] + advance \in Int /\ TsMod \in Nat \ {0}
        BY RtpAssumption DEF TypeOK
      <3>2. QED
        BY <3>1, ModRange
    <2>2. /\ input' \in [Track -> 0..(TsMod - 1)]
          /\ skipped' \in [Track -> Nat]
      <3>1. skipped[t] + advance \in Nat
        BY RtpAssumption DEF TypeOK
      <3>2. /\ input' = [input EXCEPT ![t] = (input[t] + advance) % TsMod]
            /\ skipped' = [skipped EXCEPT ![t] = skipped[t] + advance]
        BY <1>4 DEF Drop
      <3>3. QED
        BY <2>1, <3>1, <3>2 DEF TypeOK
    <2>3. QED
      BY <1>4, <2>2 DEF TypeOK, Drop, feed, Packet
  <1>5. ASSUME NEW p \in hand, Write(p) PROVE TypeOK'
    <2>1. p \in Packet
      BY DEF TypeOK
    <2>2. wire' \in Seq(Packet)
      BY <1>5, <2>1, AppendProperties DEF TypeOK, Write
    <2>3. hand' \subseteq Packet
      BY <1>5 DEF TypeOK, Write
    <2>4. QED
      BY <1>5, <2>2, <2>3 DEF TypeOK, Write, feed, history, Packet
  <1>6. CASE UNCHANGED vars
    BY <1>6 DEF TypeOK, vars, feed, history, Packet
  <1>7. QED
    BY <1>1, <1>2, <1>3, <1>4, <1>5, <1>6 DEF Next

\* Sequence numbers stay in uint16 and timestamps in uint32, in the continuity
\* record, in hand and on the wire.
THEOREM TypeCorrect == Spec => []TypeOK
  <1>1. Init => TypeOK
    BY TypeInit
  <1>2. TypeOK /\ [Next]_vars => TypeOK'
    BY TypeNext
  <1>3. QED
    BY <1>1, <1>2, PTL DEF Spec

-----------------------------------------------------------------------------

\* The invariant that carries the theorems below.
InOrder == TypeOK /\ NumberedOnce /\ HandsInOrder /\ TrackOrder

\* No packet is in hand or on the wire of a new session.
LEMMA OrderInit == Init => InOrder
  <1> SUFFICES ASSUME Init PROVE InOrder
    OBVIOUS
  <1>1. TypeOK
    BY TypeInit
  <1>2. hand = {} /\ wire = <<>> /\ ideal = <<>>
    BY DEF Init
  <1>3. Known = {} /\ DOMAIN wire = {} /\ 1..Len(ideal) = {}
    BY <1>2 DEF Known, Sent
  <1>4. QED
    BY <1>1, <1>2, <1>3 DEF InOrder, NumberedOnce, HandsInOrder, TrackOrder

\* A step that leaves the packets alone.
LEMMA OrderStutter ==
    ASSUME InOrder, TypeOK', UNCHANGED <<hand, wire, ideal>> PROVE InOrder'
  BY DEF InOrder, NumberedOnce, HandsInOrder, TrackOrder, Known, Sent

\* A packet that is numbered comes after all others.
LEMMA OrderRead ==
    ASSUME InOrder, TypeOK', NEW t \in Track, NEW advance \in 0..MaxAdvance,
           NEW seq \in 0..(SeqMod - 1), Read(t, advance, seq)
    PROVE  InOrder'
  <1>1. PICK p : /\ p.track = t /\ p.nth = Len(ideal) + 1
                 /\ hand' = hand \cup {p} /\ wire' = wire
    BY DEF Read, Number
  <1>2. Len(ideal') = Len(ideal) + 1 /\ Len(ideal) \in Nat
    <2>1. PICK due : ideal' = Append(ideal, due)
      BY DEF Read, Number
    <2>2. QED
      BY <2>1 DEF InOrder, TypeOK
  <1>3. Sent' = Sent /\ Known' = Known \cup {p}
    BY <1>1 DEF Known, Sent
  <1>4. \A q \in Known : q.nth \in 1..Len(ideal)
    BY DEF InOrder, NumberedOnce
  <1>5. NumberedOnce'
    <2>1. p \notin Known
      BY <1>1, <1>2, <1>4
    <2>2. hand' \cap Sent' = {}
      BY <1>1, <1>3, <2>1 DEF Known, InOrder, NumberedOnce
    <2>3. {q.nth : q \in Known'} = 1..Len(ideal')
      <3>1. {q.nth : q \in Known'} = {q.nth : q \in Known} \cup {p.nth}
        BY <1>3
      <3>2. {q.nth : q \in Known} = 1..Len(ideal)
        BY DEF InOrder, NumberedOnce
      <3>3. 1..Len(ideal') = 1..Len(ideal) \cup {Len(ideal) + 1}
        BY <1>2
      <3>4. QED
        BY <1>1, <3>1, <3>2, <3>3
    <2>4. \A q, r \in Known' : q.nth = r.nth => q = r
      BY <1>1, <1>2, <1>3, <1>4 DEF InOrder, NumberedOnce
    <2>5. QED
      BY <2>2, <2>3, <2>4 DEF NumberedOnce
  <1>6. HandsInOrder'
    <2>1. \A q \in hand : q.track # t
      BY DEF Read, Reading
    <2>2. \A i \in DOMAIN wire : wire[i].nth < p.nth
      BY <1>1, <1>2, <1>4 DEF Known, Sent
    <2>3. QED
      BY <1>1, <2>1, <2>2 DEF HandsInOrder, InOrder
  <1>7. TrackOrder'
    BY <1>1 DEF TrackOrder, InOrder
  <1>8. QED
    BY <1>5, <1>6, <1>7 DEF InOrder

\* A packet written is the last of its track on the wire.
LEMMA OrderWrite ==
    ASSUME InOrder, TypeOK', NEW p \in hand, Write(p) PROVE InOrder'
  <1>1. wire' = Append(wire, p) /\ hand' = hand \ {p} /\ ideal' = ideal
    BY DEF Write, history
  <1>2. /\ wire \in Seq(Packet) /\ p \in Packet
        /\ Len(wire) \in Nat /\ DOMAIN wire = 1..Len(wire)
    BY DEF InOrder, TypeOK
  <1>3. /\ DOMAIN wire' = 1..(Len(wire) + 1)
        /\ \A i \in 1..Len(wire) : wire'[i] = wire[i]
        /\ wire'[Len(wire) + 1] = p
    BY <1>1, <1>2, AppendProperties
  <1>4. Sent' = Sent \cup {p}
    <2>1. DOMAIN wire' = DOMAIN wire \cup {Len(wire) + 1}
      BY <1>2, <1>3
    <2>2. QED
      BY <1>2, <1>3, <2>1 DEF Sent
  <1>5. Known' = Known
    BY <1>1, <1>4 DEF Known
  <1>6. NumberedOnce'
    BY <1>1, <1>4, <1>5 DEF InOrder, NumberedOnce
  <1>7. HandsInOrder'
    <2>1. ASSUME NEW q \in hand', NEW i \in DOMAIN wire', wire'[i].track = q.track
          PROVE  wire'[i].nth < q.nth
      <3>1. CASE i \in 1..Len(wire)
        BY <1>1, <1>2, <1>3, <2>1, <3>1 DEF InOrder, HandsInOrder
      <3>2. CASE i = Len(wire) + 1
        BY <1>1, <1>3, <2>1, <3>2 DEF InOrder, HandsInOrder
      <3>3. QED
        BY <1>2, <1>3, <3>1, <3>2
    <2>2. QED
      BY <1>1, <2>1 DEF InOrder, HandsInOrder
  <1>8. TrackOrder'
    <2>1. ASSUME NEW i \in DOMAIN wire', NEW j \in DOMAIN wire', i < j,
                 wire'[i].track = wire'[j].track
          PROVE  wire'[i].nth < wire'[j].nth
      <3>1. CASE j \in 1..Len(wire)
        BY <1>2, <1>3, <2>1, <3>1 DEF InOrder, TrackOrder
      <3>2. CASE j = Len(wire) + 1
        BY <1>2, <1>3, <2>1, <3>2 DEF InOrder, HandsInOrder
      <3>3. QED
        BY <1>2, <1>3, <3>1, <3>2
    <2>2. QED
      BY <2>1 DEF TrackOrder
  <1>9. QED
    BY <1>6, <1>7, <1>8 DEF InOrder

\* Every step keeps the packets known by one place each, in the order of each track.
LEMMA OrderNext == InOrder /\ [Next]_vars => InOrder'
  <1> SUFFICES ASSUME InOrder, [Next]_vars PROVE InOrder'
    OBVIOUS
  <1>1. TypeOK'
    BY TypeNext DEF InOrder
  <1>2. ASSUME NEW s \in Sender, Select(s) PROVE InOrder'
    BY <1>1, <1>2, OrderStutter DEF Select, history
  <1>3. CASE Stop
    BY <1>1, <1>3, OrderStutter DEF Stop, history
  <1>4. ASSUME NEW t \in Track, NEW advance \in 0..MaxAdvance,
               NEW seq \in 0..(SeqMod - 1), Read(t, advance, seq)
        PROVE  InOrder'
    BY <1>1, <1>4, OrderRead
  <1>5. ASSUME NEW t \in Track, NEW advance \in 0..MaxAdvance, Drop(t, advance)
        PROVE  InOrder'
    BY <1>1, <1>5, OrderStutter DEF Drop
  <1>6. ASSUME NEW p \in hand, Write(p) PROVE InOrder'
    BY <1>1, <1>6, OrderWrite
  <1>7. CASE UNCHANGED vars
    BY <1>1, <1>7, OrderStutter DEF vars, history
  <1>8. QED
    BY <1>2, <1>3, <1>4, <1>5, <1>6, <1>7 DEF Next

\* Writing outside b.mu never reorders the packets of one track.
THEOREM OrderWithinTrack == Spec => []TrackOrder
  <1>1. InOrder => TrackOrder
    BY DEF InOrder
  <1>2. QED
    BY <1>1, OrderInit, OrderNext, PTL DEF Spec

\* Every packet that was numbered is in hand or on the wire, exactly once.
THEOREM EachPacketOnce == Spec => []NumberedOnce
  <1>1. InOrder => NumberedOnce
    BY DEF InOrder
  <1>2. QED
    BY <1>1, OrderInit, OrderNext, PTL DEF Spec

-----------------------------------------------------------------------------
(* Arithmetic modulo M, for any M.                                         *)

\* The same remainder.
Congruent(M, x, y) == x % M = y % M

\* Quotient and remainder.
LEMMA DivMod ==
    ASSUME NEW M \in Nat \ {0}, NEW x \in Int
    PROVE  /\ x \div M \in Int
           /\ x = M * (x \div M) + (x % M)
           /\ x % M \in 0..(M - 1)
  OBVIOUS

\* Multiples of M are M apart.
LEMMA MulApart ==
    ASSUME NEW M \in Nat \ {0}, NEW a \in Int, NEW b \in Int, a < b
    PROVE  M * a + M <= M * b
  <1>1. b - a - 1 \in Nat
    OBVIOUS
  <1>2. M * (b - a - 1) >= 0
    BY <1>1
  <1>3. M * (b - a - 1) = M * b - M * a - M
    OBVIOUS
  <1>4. QED
    BY <1>2, <1>3

\* There is one remainder.
LEMMA ModUnique ==
    ASSUME NEW M \in Nat \ {0}, NEW x \in Int, NEW k \in Int, NEW r \in 0..(M - 1),
           x = M * k + r
    PROVE  x % M = r
  <1> DEFINE q == x \div M
  <1>1. q \in Int /\ x = M * q + (x % M) /\ x % M \in 0..(M - 1)
    BY DivMod
  <1> HIDE DEF q
  <1>2. ~(q < k)
    BY <1>1, MulApart
  <1>3. ~(k < q)
    BY <1>1, MulApart
  <1>4. q = k
    BY <1>1, <1>2, <1>3
  <1>5. QED
    BY <1>1, <1>4

\* Numbers a multiple of M apart have the same remainder.
LEMMA Multiples ==
    ASSUME NEW M \in Nat \ {0}, NEW x \in Int, NEW y \in Int, NEW k \in Int,
           x = y + M * k
    PROVE  x % M = y % M
  <1>1. PICK q \in Int : y = M * q + (y % M)
    BY DivMod
  <1>2. y % M \in 0..(M - 1)
    BY DivMod
  <1>3. PICK n \in Int : n = q + k
    OBVIOUS
  <1>4. x = M * n + (y % M)
    BY <1>1, <1>3
  <1>5. QED
    BY <1>2, <1>4, ModUnique

\* Remainders of sums and differences.
LEMMA ModAdd ==
    ASSUME NEW M \in Nat \ {0}, NEW x \in Int, NEW y \in Int, NEW u \in Int,
           NEW v \in Int, Congruent(M, x, y), Congruent(M, u, v)
    PROVE  Congruent(M, x + u, y + v) /\ Congruent(M, x - u, y - v)
  <1> USE DEF Congruent
  <1>1. PICK q \in Int : x = M * q + (x % M)
    BY DivMod
  <1>2. PICK r \in Int : y = M * r + (y % M)
    BY DivMod
  <1>3. PICK s \in Int : u = M * s + (u % M)
    BY DivMod
  <1>4. PICK t \in Int : v = M * t + (v % M)
    BY DivMod
  <1>5. x % M \in Int /\ u % M \in Int
    BY DivMod
  <1>6. (x + u) % M = (y + v) % M
    <2>1. PICK n \in Int, a \in Int, b \in Int :
              n = (q - r) + (s - t) /\ a = x + u /\ b = y + v
      OBVIOUS
    <2>2. a = b + M * n
      BY <1>1, <1>2, <1>3, <1>4, <1>5, <2>1
    <2>3. M \in Nat \ {0} /\ a \in Int /\ b \in Int /\ n \in Int
      OBVIOUS
    <2>4. a % M = b % M
      BY ONLY <2>2, <2>3, Multiples
    <2>5. QED
      BY <2>1, <2>4
  <1>7. (x - u) % M = (y - v) % M
    <2>1. PICK n \in Int, a \in Int, b \in Int :
              n = (q - r) - (s - t) /\ a = x - u /\ b = y - v
      OBVIOUS
    <2>2. a = b + M * n
      BY <1>1, <1>2, <1>3, <1>4, <1>5, <2>1
    <2>3. M \in Nat \ {0} /\ a \in Int /\ b \in Int /\ n \in Int
      OBVIOUS
    <2>4. a % M = b % M
      BY ONLY <2>2, <2>3, Multiples
    <2>5. QED
      BY <2>1, <2>4
  <1>8. QED
    BY <1>6, <1>7

\* A number and its remainder.
LEMMA ModMod ==
    ASSUME NEW M \in Nat \ {0}, NEW x \in Int
    PROVE  x % M \in Int /\ Congruent(M, x % M, x)
  <1>1. x % M \in 0..(M - 1) /\ x % M = M * 0 + (x % M)
    BY DivMod
  <1>2. QED
    BY <1>1, ModUnique DEF Congruent

\* The distance from a number that goes on by d.
LEMMA Onward ==
    ASSUME NEW M \in Nat \ {0}, NEW s \in Int, NEW n \in Int, NEW l \in Int,
           NEW k \in Int, NEW d \in Int, Congruent(M, s - n, l - k)
    PROVE  Congruent(M, ((s + d) % M) - n, (l + d) - k)
  <1>1. s - n \in Int /\ l - k \in Int /\ s + d \in Int
    OBVIOUS
  <1>2. Congruent(M, d, d) /\ Congruent(M, n, n)
    BY DEF Congruent
  <1>3. Congruent(M, (s - n) + d, (l - k) + d)
    BY <1>1, <1>2, ModAdd, Zenon
  <1>4. (s + d) % M \in Int /\ Congruent(M, (s + d) % M, s + d)
    BY <1>1, ModMod, Zenon
  <1>5. Congruent(M, ((s + d) % M) - n, (s + d) - n)
    BY <1>1, <1>2, <1>4, ModAdd, Zenon
  <1>6. (s + d) - n = (s - n) + d /\ (l + d) - k = (l - k) + d
    OBVIOUS
  <1>7. QED
    BY <1>3, <1>5, <1>6 DEF Congruent

\* And the other way round.
LEMMA Backward ==
    ASSUME NEW M \in Nat \ {0}, NEW p \in Int, NEW q \in Int, NEW x \in Int,
           NEW y \in Int, Congruent(M, p - q, x - y)
    PROVE  Congruent(M, q - p, y - x)
  <1>1. p - q \in Int /\ x - y \in Int /\ 0 \in Int /\ Congruent(M, 0, 0)
    BY DEF Congruent
  <1>2. Congruent(M, 0 - (p - q), 0 - (x - y))
    BY <1>1, ModAdd, Zenon
  <1>3. 0 - (p - q) = q - p /\ 0 - (x - y) = y - x
    OBVIOUS
  <1>4. QED
    BY <1>2, <1>3

\* The clock of a track that is read, d frames on: what the record maps it to.
LEMMA ClockMapped ==
    ASSUME NEW M \in Nat \ {0}, NEW o \in Int, NEW i \in Int, NEW k \in Int,
           NEW b \in Int, NEW l \in Int, NEW d \in Int,
           Congruent(M, o + i - k - b, l)
    PROVE  Congruent(M, o + (((i + d) % M) - b), l + (k + d))
  <1>1. /\ o + i - k - b \in Int /\ k + d \in Int /\ i + d \in Int /\ o - b \in Int
        /\ Congruent(M, k + d, k + d) /\ Congruent(M, o - b, o - b)
    BY DEF Congruent
  <1>2. Congruent(M, (o + i - k - b) + (k + d), l + (k + d))
    BY <1>1, ModAdd, Zenon
  <1>3. (i + d) % M \in Int /\ Congruent(M, (i + d) % M, i + d)
    BY <1>1, ModMod, Zenon
  <1>4. Congruent(M, ((i + d) % M) + (o - b), (i + d) + (o - b))
    BY <1>1, <1>3, ModAdd, Zenon
  <1>5. /\ (o + i - k - b) + (k + d) = (i + d) + (o - b)
        /\ ((i + d) % M) + (o - b) = o + (((i + d) % M) - b)
    BY <1>3
  <1>6. QED
    BY <1>2, <1>4, <1>5 DEF Congruent

\* And of one that is read and dropped.
LEMMA ClockSkipped ==
    ASSUME NEW M \in Nat \ {0}, NEW o \in Int, NEW i \in Int, NEW k \in Int,
           NEW b \in Int, NEW d \in Int
    PROVE  Congruent(M, o + ((i + d) % M) - (k + d) - b, o + i - k - b)
  <1>1. /\ i + d \in Int /\ o - (k + d) - b \in Int
        /\ Congruent(M, o - (k + d) - b, o - (k + d) - b)
    BY DEF Congruent
  <1>2. (i + d) % M \in Int /\ Congruent(M, (i + d) % M, i + d)
    BY <1>1, ModMod, Zenon
  <1>3. Congruent(M, ((i + d) % M) + (o - (k + d) - b), (i + d) + (o - (k + d) - b))
    BY <1>1, <1>2, ModAdd, Zenon
  <1>4. /\ ((i + d) % M) + (o - (k + d) - b) = o + ((i + d) % M) - (k + d) - b
        /\ (i + d) + (o - (k + d) - b) = o + i - k - b
    BY <1>2
  <1>5. QED
    BY <1>3, <1>4

-----------------------------------------------------------------------------
(* The invariants that carry the continuity of numbers and of timestamps.  *)

\* The record is in use from the first packet.
Started == state.initialized <=> Len(ideal) # 0

\* Its number is the last packet's, and so as far from any packet's as their places are.
NumberInv ==
    \A p \in Known :
        (state.sequence - p.number) % SeqMod = (Len(ideal) - p.nth) % SeqMod

\* Each participant publishes one track of this output, which its identity then stands
\* for. A camera that reconnects breaks it.
OneTrackEach == \A t, u \in Track : Owner[t] = Owner[u] => t = u

\* The record maps the last track's clock, as it was at its last packet, to that packet's
\* timestamp.
ClockInv ==
    state.initialized =>
        /\ last \in Track /\ state.sourceID = Owner[last]
        /\ (state.baseOutput + input[last] - skipped[last] - state.baseInput) % TsMod
              = state.lastOutput % TsMod

\* And that is as far from any other packet's as it should be.
StampInv ==
    \A p \in Known :
        (state.lastOutput - p.timestamp) % TsMod
            = (ideal[Len(ideal)] - ideal[p.nth]) % TsMod

\* The places of packets.
LEMMA Places ==
    ASSUME InOrder
    PROVE  /\ Len(ideal) \in Nat
           /\ \A p \in Known : p \in Packet /\ p.nth \in 1..Len(ideal) /\ ideal[p.nth] \in Int
           /\ Len(ideal) # 0 => ideal[Len(ideal)] \in Int
  <1>1. ideal \in Seq(Nat) /\ Len(ideal) \in Nat
    BY LenProperties DEF InOrder, TypeOK
  <1>2. \A n \in 1..Len(ideal) : ideal[n] \in Nat
    BY <1>1, ElementOfSeq
  <1>3. \A p \in Known : p \in Packet
    BY DEF InOrder, TypeOK, Known, Sent
  <1>4. \A p \in Known : p.nth \in 1..Len(ideal)
    BY DEF InOrder, NumberedOnce
  <1>5. QED
    BY <1>1, <1>2, <1>3, <1>4

\* A packet that is read is the next, and carries what the record then says.
LEMMA ReadPacket ==
    ASSUME InOrder, NEW t \in Track, NEW advance \in 0..MaxAdvance,
           NEW seq \in 0..(SeqMod - 1), Read(t, advance, seq)
    PROVE  /\ Len(ideal') = Len(ideal) + 1
           /\ \A n \in 1..Len(ideal) : ideal'[n] = ideal[n]
           /\ ideal'[Len(ideal) + 1] =
                 IF ideal = <<>> THEN 0
                 ELSE ideal[Len(ideal)] + (IF last = t THEN skipped[t] + advance ELSE 1)
           /\ \E p : /\ Known' = Known \cup {p} /\ p.nth = Len(ideal')
                     /\ p.number = state'.sequence /\ p.timestamp = state'.lastOutput
  <1> DEFINE due == IF ideal = <<>> THEN 0
                    ELSE ideal[Len(ideal)] + (IF last = t THEN skipped[t] + advance ELSE 1)
             p == [track |-> t, nth |-> Len(ideal) + 1,
                   number |-> state'.sequence, timestamp |-> state'.lastOutput]
  <1>1. ideal' = Append(ideal, due) /\ hand' = hand \cup {p} /\ wire' = wire
    BY DEF Read, Number
  <1>2. ideal \in Seq(Nat)
    BY DEF InOrder, TypeOK
  <1> HIDE DEF due
  <1>3. due \in Nat
    <2>1. skipped[t] \in Nat /\ advance \in Nat
      BY RtpAssumption DEF InOrder, TypeOK
    <2>2. ASSUME ideal # <<>> PROVE ideal[Len(ideal)] \in Nat
      BY <1>2, <2>2
    <2>3. QED
      BY <2>1, <2>2 DEF due
  <1>4. /\ Len(ideal') = Len(ideal) + 1 /\ ideal'[Len(ideal) + 1] = due
        /\ \A n \in 1..Len(ideal) : ideal'[n] = ideal[n]
    BY <1>1, <1>2, <1>3, AppendProperties
  <1>5. Known' = Known \cup {p}
    BY <1>1 DEF Known, Sent
  <1>6. /\ p.nth = Len(ideal') /\ p.number = state'.sequence
        /\ p.timestamp = state'.lastOutput
    BY <1>4
  <1>7. QED
    BY <1>4, <1>5, <1>6 DEF due

\* A packet that is written stays known.
LEMMA WriteKnown ==
    ASSUME InOrder, NEW p \in hand, Write(p)
    PROVE  Known' = Known
  <1>1. wire' = Append(wire, p) /\ hand' = hand \ {p}
    BY DEF Write
  <1>2. /\ wire \in Seq(Packet) /\ p \in Packet
        /\ Len(wire) \in Nat /\ DOMAIN wire = 1..Len(wire)
    BY DEF InOrder, TypeOK
  <1>3. /\ DOMAIN wire' = 1..(Len(wire) + 1)
        /\ \A i \in 1..Len(wire) : wire'[i] = wire[i]
        /\ wire'[Len(wire) + 1] = p
    BY <1>1, <1>2, AppendProperties
  <1>4. DOMAIN wire' = DOMAIN wire \cup {Len(wire) + 1}
    BY <1>2, <1>3
  <1>5. Sent' = Sent \cup {p}
    BY <1>2, <1>3, <1>4 DEF Sent
  <1>6. QED
    BY <1>1, <1>5 DEF Known

\* The numbers of a step.
LEMMA NumberRead ==
    ASSUME InOrder, Started, NumberInv, NEW t \in Track, NEW advance \in 0..MaxAdvance,
           NEW seq \in 0..(SeqMod - 1), Read(t, advance, seq)
    PROVE  Started' /\ NumberInv'
  <1>1. PICK p : /\ Known' = Known \cup {p} /\ p.nth = Len(ideal) + 1
                 /\ p.number = state'.sequence /\ Len(ideal') = Len(ideal) + 1
    BY ReadPacket
  <1>2. /\ state'.initialized = TRUE
        /\ state'.sequence = ((IF state.initialized THEN state.sequence ELSE seq) + 1) % SeqMod
    BY DEF Read, Number, Numbered, Rebased, InOrder, TypeOK
  <1>3. Len(ideal) \in Nat
    BY Places
  <1>4. Started'
    BY <1>1, <1>2, <1>3 DEF Started
  <1>5. SeqMod \in Nat \ {0}
    BY RtpAssumption
  <1>6. state'.sequence \in Int
    <2>1. (IF state.initialized THEN state.sequence ELSE seq) + 1 \in Int
      BY <1>5 DEF InOrder, TypeOK
    <2>2. QED
      BY <1>2, <1>5, <2>1, ModMod, Zenon
  <1>7. ASSUME NEW q \in Known'
        PROVE  Congruent(SeqMod, state'.sequence - q.number, Len(ideal') - q.nth)
    <2>1. CASE q = p
      <3>1. state'.sequence - q.number = 0 /\ Len(ideal') - q.nth = 0
        BY <1>1, <1>3, <1>6, <2>1
      <3>2. QED
        BY <3>1 DEF Congruent
    <2>2. CASE q \in Known
      <3>1. Len(ideal) \in Nat /\ q.nth \in 1..Len(ideal) /\ q.number \in Int
        BY <2>2, Places DEF Packet
      <3>2. state.initialized /\ state.sequence \in Int
        BY <3>1 DEF Started, InOrder, TypeOK
      <3>3. Congruent(SeqMod, state.sequence - q.number, Len(ideal) - q.nth)
        BY <2>2 DEF NumberInv, Congruent
      <3>4. q.nth \in Int /\ Len(ideal) \in Int /\ 1 \in Int
        BY <3>1
      <3>5. Congruent(SeqMod, ((state.sequence + 1) % SeqMod) - q.number,
                      (Len(ideal) + 1) - q.nth)
        BY <1>5, <3>1, <3>2, <3>3, <3>4, Onward, Zenon
      <3>6. QED
        BY <1>1, <1>2, <3>2, <3>5
    <2>3. QED
      BY <1>1, <2>1, <2>2
  <1>8. QED
    BY <1>4, <1>7 DEF NumberInv, Congruent

\* Every step numbers at most the packet after the last one.
LEMMA NumberNext ==
    ASSUME InOrder, Started, NumberInv, [Next]_vars
    PROVE  Started' /\ NumberInv'
  <1>1. ASSUME NEW t \in Track, NEW advance \in 0..MaxAdvance,
               NEW seq \in 0..(SeqMod - 1), Read(t, advance, seq)
        PROVE  Started' /\ NumberInv'
    BY <1>1, NumberRead
  <1>2. CASE UNCHANGED <<hand, wire, ideal, state>>
    BY <1>2 DEF Started, NumberInv, Known, Sent
  <1>3. ASSUME NEW p \in hand, Write(p) PROVE Started' /\ NumberInv'
    BY <1>3, WriteKnown DEF Started, NumberInv, Write, history
  <1>4. QED
    BY <1>1, <1>2, <1>3 DEF Next, Select, Stop, Drop, vars, history

\* Two packets are as far apart as each is from the last.
LEMMA NumberPairs ==
    ASSUME InOrder, NumbersContiguous, Started, NumberInv, [Next]_vars
    PROVE  NumbersContiguous'
  <1>1. InOrder' /\ Started' /\ NumberInv'
    BY OrderNext, NumberNext
  <1>2. ASSUME NEW t \in Track, NEW advance \in 0..MaxAdvance,
               NEW seq \in 0..(SeqMod - 1), Read(t, advance, seq)
        PROVE  NumbersContiguous'
    <2>1. PICK p : /\ Known' = Known \cup {p} /\ p.nth = Len(ideal')
                   /\ p.number = state'.sequence
      BY <1>2, ReadPacket
    <2>2. \A q \in Known' : Congruent(SeqMod, p.number - q.number, p.nth - q.nth)
      BY <1>1, <2>1 DEF NumberInv, Congruent
    <2>3. \A q \in Known' : q.number \in Int /\ q.nth \in Int
      <3>1. Known' \subseteq Packet
        BY <1>1 DEF InOrder, TypeOK, Known, Sent
      <3>2. QED
        BY <3>1, RtpAssumption DEF Packet
    <2>4. ASSUME NEW q \in Known'
          PROVE  Congruent(SeqMod, q.number - p.number, q.nth - p.nth)
      <3>1. SeqMod \in Nat \ {0} /\ p \in Known'
        BY <2>1, RtpAssumption
      <3>2. QED
        BY <2>2, <2>3, <3>1, Backward, Zenon
    <2>5. \A q, r \in Known :
              (r.number - q.number) % SeqMod = (r.nth - q.nth) % SeqMod
      BY DEF NumbersContiguous
    <2>6. QED
      BY <1>1, <2>1, <2>2, <2>4, <2>5 DEF NumbersContiguous, InOrder, Congruent
  <1>3. CASE UNCHANGED <<hand, wire, ideal, state>>
    BY <1>1, <1>3 DEF NumbersContiguous, InOrder, Known, Sent
  <1>4. ASSUME NEW p \in hand, Write(p) PROVE NumbersContiguous'
    BY <1>1, <1>4, WriteKnown DEF NumbersContiguous, InOrder
  <1>5. QED
    BY <1>2, <1>3, <1>4 DEF Next, Select, Stop, Drop, vars, history

\* Numbers go on by one across senders, tracks and the wrap at 2^16: how far apart two
\* packets' numbers are is how far apart they were numbered.
THEOREM NumbersGoOn == Spec => []NumbersContiguous
  <1>1. Init => Started /\ NumberInv /\ NumbersContiguous
    <2>1. SUFFICES ASSUME Init PROVE Started /\ NumberInv /\ NumbersContiguous
      OBVIOUS
    <2>2. Known = {} /\ Len(ideal) = 0
      BY <2>1 DEF Init, Known, Sent
    <2>3. NumberedOnce /\ state.initialized = FALSE
      BY <2>1, OrderInit DEF InOrder, Init, Fresh
    <2>4. QED
      BY <2>2, <2>3 DEF Started, NumberInv, NumbersContiguous
  <1>2. QED
    BY <1>1, OrderInit, OrderNext, NumberNext, NumberPairs, PTL DEF Spec

\* The timestamp of a packet that is read goes on by the frames of its track, or by one.
LEMMA StampRead ==
    ASSUME OneTrackEach, InOrder, Started, ClockInv, NEW t \in Track,
           NEW advance \in 0..MaxAdvance, NEW seq \in 0..(SeqMod - 1),
           Read(t, advance, seq), state.initialized
    PROVE  state'.lastOutput =
              (state.lastOutput + (IF last = t THEN skipped[t] + advance ELSE 1)) % TsMod
  <1> DEFINE ts == (input[t] + advance) % TsMod
             r == Rebased(Owner[t], ts, seq)
  <1>1. /\ TsMod \in Nat \ {0} /\ input[t] \in Int /\ skipped[t] \in Int
        /\ advance \in Int /\ Owner[t] \in Sender
    BY RtpAssumption DEF InOrder, TypeOK
  <1>2. /\ state.baseOutput \in Int /\ state.baseInput \in Int
        /\ state.lastOutput \in Int
        /\ ts \in Int
    <2>1. input[t] + advance \in Int
      BY <1>1
    <2>2. ts \in Int
      BY <1>1, <2>1, ModMod, Zenon
    <2>3. QED
      BY <1>1, <2>2 DEF InOrder, TypeOK
  <1>3. state'.lastOutput = (r.baseOutput + (ts - r.baseInput)) % TsMod
    BY DEF Read, Number, Numbered, InOrder, TypeOK
  <1>4. CASE last = t
    <2>1. r.baseOutput = state.baseOutput /\ r.baseInput = state.baseInput
      BY <1>4 DEF ClockInv, Rebased
    <2>2. Congruent(TsMod, state.baseOutput + input[t] - skipped[t] - state.baseInput,
                    state.lastOutput)
      BY <1>4 DEF ClockInv, Congruent
    <2>3. Congruent(TsMod, state.baseOutput + (ts - state.baseInput),
                    state.lastOutput + (skipped[t] + advance))
      BY <1>1, <1>2, <2>2, ClockMapped, Zenon
    <2>4. QED
      BY <1>3, <1>4, <2>1, <2>3 DEF Congruent
  <1>5. CASE last # t
    <2>1. state.sourceID # Owner[t]
      BY <1>5 DEF ClockInv, OneTrackEach
    <2>2. r.baseOutput = (state.lastOutput + 1) % TsMod /\ r.baseInput = ts
      BY <2>1 DEF Rebased
    <2>3. /\ (state.lastOutput + 1) % TsMod \in Int
          /\ Congruent(TsMod, (state.lastOutput + 1) % TsMod, state.lastOutput + 1)
      <3>1. state.lastOutput + 1 \in Int
        BY <1>2
      <3>2. QED
        BY <1>1, <3>1, ModMod, Zenon
    <2>4. r.baseOutput + (ts - r.baseInput) = (state.lastOutput + 1) % TsMod
      BY <1>2, <2>2, <2>3
    <2>5. QED
      BY <1>3, <1>5, <2>3, <2>4 DEF Congruent
  <1>6. QED
    BY <1>4, <1>5

\* The record of a packet that is read maps its track's clock.
LEMMA ClockRead ==
    ASSUME InOrder, NEW t \in Track, NEW advance \in 0..MaxAdvance,
           NEW seq \in 0..(SeqMod - 1), Read(t, advance, seq)
    PROVE  ClockInv'
  <1> DEFINE ts == (input[t] + advance) % TsMod
             r == Rebased(Owner[t], ts, seq)
  <1>1. /\ input'[t] = ts /\ skipped'[t] = 0 /\ last' = t
        /\ state' = [r EXCEPT !.sequence = (@ + 1) % SeqMod,
                              !.lastOutput = (r.baseOutput + (ts - r.baseInput)) % TsMod]
    BY DEF Read, Number, Numbered, InOrder, TypeOK
  <1>2. TsMod \in Nat \ {0} /\ SeqMod \in Nat \ {0} /\ Owner[t] \in Sender
    BY RtpAssumption
  <1>3. ts \in 0..(TsMod - 1)
    <2>1. input[t] + advance \in Int
      BY <1>2, RtpAssumption DEF InOrder, TypeOK
    <2>2. QED
      BY <1>2, <2>1, ModRange
  <1> HIDE DEF ts
  <1>4. r \in StateType /\ r.sourceID = Owner[t]
    BY <1>2, <1>3, RebasedType DEF InOrder, TypeOK, StateType, Rebased
  <1> HIDE DEF r
  <1>5. /\ state'.sourceID = Owner[t] /\ state'.baseOutput = r.baseOutput
        /\ state'.baseInput = r.baseInput
        /\ state'.lastOutput = (r.baseOutput + (ts - r.baseInput)) % TsMod
    BY <1>1, <1>4 DEF StateType
  <1>6. /\ r.baseOutput \in Int /\ r.baseInput \in Int /\ ts \in Int
    BY <1>2, <1>3, <1>4 DEF StateType
  <1>7. PICK x \in Int : x = r.baseOutput + (ts - r.baseInput)
    BY <1>6
  <1>8. x = state'.baseOutput + input'[t] - skipped'[t] - state'.baseInput
    BY <1>1, <1>5, <1>6, <1>7
  <1>9. (x % TsMod) % TsMod = x % TsMod
    BY <1>2, ModMod DEF Congruent
  <1>10. QED
    BY <1>1, <1>5, <1>7, <1>8, <1>9 DEF ClockInv

\* A packet that is dropped advances the clock and the frames skipped alike.
LEMMA ClockDrop ==
    ASSUME InOrder, ClockInv, NEW t \in Track, NEW advance \in 0..MaxAdvance,
           Drop(t, advance)
    PROVE  ClockInv'
  <1>1. SUFFICES ASSUME state'.initialized PROVE ClockInv'
    BY DEF ClockInv
  <1>2. UNCHANGED <<state, last>> /\ state.initialized
    BY <1>1 DEF Drop
  <1>3. CASE last # t
    <2>1. input'[last] = input[last] /\ skipped'[last] = skipped[last]
      BY <1>2, <1>3 DEF Drop, InOrder, TypeOK, ClockInv
    <2>2. QED
      BY <1>2, <2>1 DEF ClockInv
  <1>4. CASE last = t
    <2>1. /\ input'[t] = (input[t] + advance) % TsMod
          /\ skipped'[t] = skipped[t] + advance
      BY DEF Drop, InOrder, TypeOK
    <2>2. /\ TsMod \in Nat \ {0} /\ input[t] \in Int /\ skipped[t] \in Int
          /\ advance \in Int /\ state.baseOutput \in Int /\ state.baseInput \in Int
      BY RtpAssumption DEF InOrder, TypeOK
    <2>3. Congruent(TsMod, state.baseOutput + ((input[t] + advance) % TsMod)
                              - (skipped[t] + advance) - state.baseInput,
                    state.baseOutput + input[t] - skipped[t] - state.baseInput)
      BY <2>2, ClockSkipped, Zenon
    <2>4. QED
      BY <1>2, <1>4, <2>1, <2>3 DEF ClockInv, Congruent
  <1>5. QED
    BY <1>3, <1>4

\* Every step keeps each source at the offset its first packet was given.
LEMMA ClockNext ==
    ASSUME InOrder, ClockInv, [Next]_vars
    PROVE  ClockInv'
  <1>1. ASSUME NEW t \in Track, NEW advance \in 0..MaxAdvance,
               NEW seq \in 0..(SeqMod - 1), Read(t, advance, seq)
        PROVE  ClockInv'
    BY <1>1, ClockRead
  <1>2. ASSUME NEW t \in Track, NEW advance \in 0..MaxAdvance, Drop(t, advance)
        PROVE  ClockInv'
    BY <1>2, ClockDrop
  <1>3. CASE UNCHANGED <<state, last, input, skipped>>
    BY <1>3 DEF ClockInv
  <1>4. QED
    BY <1>1, <1>2, <1>3 DEF Next, Select, Stop, Write, vars, history

\* How far the last timestamp is from the others, and any two from each other.
LEMMA StampNext ==
    ASSUME OneTrackEach, InOrder, Started, ClockInv, StampInv, TimestampsContinuous,
           [Next]_vars
    PROVE  StampInv' /\ TimestampsContinuous'
  <1>1. InOrder'
    BY OrderNext
  <1>2. ASSUME NEW t \in Track, NEW advance \in 0..MaxAdvance,
               NEW seq \in 0..(SeqMod - 1), Read(t, advance, seq)
        PROVE  StampInv' /\ TimestampsContinuous'
    <2> DEFINE step == IF last = t THEN skipped[t] + advance ELSE 1
    <2>1. PICK p : /\ Known' = Known \cup {p} /\ p.nth = Len(ideal')
                   /\ p.timestamp = state'.lastOutput
      BY <1>2, ReadPacket
    <2>2. /\ Len(ideal') = Len(ideal) + 1
          /\ \A n \in 1..Len(ideal) : ideal'[n] = ideal[n]
          /\ ideal # <<>> => ideal'[Len(ideal')] = ideal[Len(ideal)] + step
      BY <1>2, ReadPacket
    <2>3. TsMod \in Nat \ {0} /\ step \in Int
      BY RtpAssumption DEF InOrder, TypeOK
    <2>4. state.initialized => state'.lastOutput = (state.lastOutput + step) % TsMod
      BY <1>2, StampRead
    <2> HIDE DEF step
    <2>5. /\ Len(ideal) \in Nat
          /\ \A q \in Known : q.timestamp \in Int /\ q.nth \in 1..Len(ideal) /\ ideal[q.nth] \in Int
      BY Places DEF Packet
    <2>6. /\ state'.lastOutput \in Int /\ ideal'[Len(ideal')] \in Int
          /\ state.lastOutput \in Int
      <3>1. (Len(ideal) # 0 => ideal[Len(ideal)] \in Int)'
        BY <1>1, Places, PTL
      <3>2. QED
        BY <1>1, <2>2, <2>5, <3>1 DEF InOrder, TypeOK
    <2>7. ASSUME NEW q \in Known
          PROVE  Congruent(TsMod, state'.lastOutput - q.timestamp,
                           ideal'[Len(ideal')] - ideal'[q.nth])
      <3>1. Len(ideal) # 0 /\ ideal # <<>> /\ state.initialized
        <4>1. Len(ideal) # 0
          BY <2>5
        <4>2. ideal # <<>>
          BY <4>1
        <4>3. QED
          BY <4>1, <4>2 DEF Started
      <3>2. ideal[Len(ideal)] \in Int
        BY <3>1, Places
      <3>3. Congruent(TsMod, state.lastOutput - q.timestamp,
                      ideal[Len(ideal)] - ideal[q.nth])
        BY DEF StampInv, Congruent
      <3>4. q.timestamp \in Int /\ ideal[q.nth] \in Int
        BY <2>5
      <3>5. Congruent(TsMod, ((state.lastOutput + step) % TsMod) - q.timestamp,
                      (ideal[Len(ideal)] + step) - ideal[q.nth])
        BY <2>3, <2>6, <3>2, <3>3, <3>4, Onward, Zenon
      <3>6. ideal'[q.nth] = ideal[q.nth]
        BY <2>2, <2>5
      <3>7. QED
        BY <2>2, <2>4, <3>1, <3>5, <3>6
    <2>8. StampInv'
      <3>1. Congruent(TsMod, state'.lastOutput - p.timestamp,
                      ideal'[Len(ideal')] - ideal'[p.nth])
        <4>1. /\ state'.lastOutput - p.timestamp = 0
              /\ ideal'[Len(ideal')] - ideal'[p.nth] = 0
          BY <2>1, <2>6
        <4>2. QED
          BY <4>1 DEF Congruent
      <3>2. QED
        BY <2>1, <2>7, <3>1 DEF StampInv, Congruent
    <2>9. \A q \in Known' :
              Congruent(TsMod, p.timestamp - q.timestamp, ideal'[p.nth] - ideal'[q.nth])
      BY <2>1, <2>8 DEF StampInv, Congruent
    <2>10. \A q \in Known' : q.timestamp \in Int /\ ideal'[q.nth] \in Int
      BY <2>1, <2>2, <2>5, <2>6
    <2>11. ASSUME NEW q \in Known'
          
           PROVE  Congruent(TsMod, q.timestamp - p.timestamp, ideal'[q.nth] - ideal'[p.nth])
      <3>1. p \in Known'
        BY <2>1
      <3>2. QED
        BY <2>3, <2>9, <2>10, <3>1, Backward, Zenon
    <2>12. \A q, r \in Known : (r.timestamp - q.timestamp) % TsMod
                                  = (ideal'[r.nth] - ideal'[q.nth]) % TsMod
      BY <2>2, <2>5 DEF TimestampsContinuous
    <2>13. TimestampsContinuous'
      BY <2>1, <2>9, <2>11, <2>12 DEF TimestampsContinuous, Congruent
    <2>14. QED
      BY <2>8, <2>13
  <1>3. CASE UNCHANGED <<hand, wire, ideal, state>>
    BY <1>3 DEF StampInv, TimestampsContinuous, Known, Sent
  <1>4. ASSUME NEW p \in hand, Write(p) PROVE StampInv' /\ TimestampsContinuous'
    BY <1>4, WriteKnown DEF StampInv, TimestampsContinuous, Write, history
  <1>5. QED
    BY <1>2, <1>3, <1>4 DEF Next, Select, Stop, Drop, vars, history

\* Where each participant publishes one track of the output, timestamps go on across
\* every cut and the wrap at 2^32. (ClockSurvivesReconnect shows the premise is needed.)
THEOREM TimestampsGoOn ==
    ASSUME OneTrackEach
    PROVE  Spec => []TimestampsContinuous
  <1>1. Init => Started /\ ClockInv /\ StampInv /\ TimestampsContinuous
    <2>1. SUFFICES ASSUME Init
                   PROVE Started /\ ClockInv /\ StampInv /\ TimestampsContinuous
      OBVIOUS
    <2>2. Known = {} /\ Len(ideal) = 0 /\ state.initialized = FALSE
      BY <2>1 DEF Init, Known, Sent, Fresh
    <2>3. QED
      BY <2>2 DEF Started, ClockInv, StampInv, TimestampsContinuous
  <1>2. InOrder /\ Started /\ [Next]_vars => Started'
    <2>1. CASE UNCHANGED <<ideal, state>>
      BY <2>1 DEF Started
    <2>2. ASSUME InOrder, NEW t \in Track, NEW advance \in 0..MaxAdvance,
                 NEW seq \in 0..(SeqMod - 1), Read(t, advance, seq)
          PROVE  Started'
      <3>1. state'.initialized = TRUE
        BY <2>2 DEF Read, Number, Numbered, Rebased, InOrder, TypeOK
      <3>2. Len(ideal') = Len(ideal) + 1 /\ Len(ideal) \in Nat
        BY <2>2, ReadPacket, Places
      <3>3. QED
        BY <3>1, <3>2 DEF Started
    <2>3. QED
      BY <2>1, <2>2 DEF Next, Select, Stop, Drop, Write, vars, history
  <1>3. InOrder /\ Started /\ ClockInv /\ StampInv /\ TimestampsContinuous
        /\ [Next]_vars => ClockInv' /\ StampInv' /\ TimestampsContinuous'
    BY OneTrackEach, ClockNext, StampNext
  <1>4. QED
    BY <1>1, <1>2, <1>3, OrderInit, OrderNext, PTL DEF Spec
=============================================================================

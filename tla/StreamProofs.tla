----------------------------- MODULE StreamProofs -----------------------------
(***************************************************************************)
(* What PacketStream.tla keeps whatever the driver does, the printer says  *)
(* and the session calls, for every limit: the memory of an operation is   *)
(* never given back too early, no byte of a write is counted twice or not  *)
(* at all, the interface that is opened is the one that was meant, no byte *)
(* is missing in the debug trace, the link frames the printer's packets    *)
(* exactly, and the trace frames the same ones.                            *)
(*                                                                         *)
(* The first part says what the two decoders make of any bytes.  Each goes *)
(* through them from the front to the back, so what it makes of a position *)
(* is proved from what it makes of the positions behind (DownwardInduction *)
(* of NaturalSets.tla).                                                    *)
(***************************************************************************)
EXTENDS PacketStream, NaturalSets, FiniteSetTheorems

-----------------------------------------------------------------------------
(* How bytes become packets.                                               *)

Bytes == Seq(Nat)
ATransfer == [kind : {"empty", "entry", "raw", "packet"}, bytes : Bytes]
TraceDecoder == [bytes : Bytes, active : BOOLEAN]

\* The next header that decodes stands further on, or there is none.
LEMMA NextStartsLater ==
  ASSUME NEW b \in Bytes, NEW i \in 1..Len(b)
  PROVE  NextPacketStart(b, i) \in (i + 1)..(Len(b) + 1)
<1> DEFINE T == {s \in i + 1 .. Len(b) : HasHeader(b, s) /\ Decodes(b, s)} \cup {Len(b) + 1}
<1>1. T \subseteq Nat /\ T # {} /\ T \subseteq (i + 1)..(Len(b) + 1)
  BY DEF Bytes
<1>2. \E x \in T : \A y \in T : x <= y
  <2> HIDE DEF T
  <2> QED
    BY <1>1, LeastNumber
<1>3. NextPacketStart(b, i) = CHOOSE x \in T : \A y \in T : x <= y
  BY DEF NextPacketStart, Min
<1> HIDE DEF T
<1> QED
  BY <1>1, <1>2, <1>3

\* Where the scan of the trace goes from a position.
Onward(b, k) ==
  IF ~HasHeader(b, k) THEN k
  ELSE IF ~Decodes(b, k) THEN NextPacketStart(b, k)
  ELSE IF ~Complete(b, k) THEN k ELSE EndOfPacket(b, k)

\* What it takes on its way.
Passed(b, k) ==
  Transfer(IF Decodes(b, k) THEN "packet" ELSE "raw", SubSeq(b, k, Onward(b, k) - 1))

\* It goes on as long as it can.
LEMMA OnwardGoes ==
  ASSUME NEW b \in Bytes, NEW k \in 1..(Len(b) + 1)
  PROVE  /\ Onward(b, k) \in k..(Len(b) + 1)
         /\ Onward(b, k) = k <=> ~HasHeader(b, k) \/ (Decodes(b, k) /\ ~Complete(b, k))
<1>1. Len(b) \in Nat
  BY DEF Bytes
<1>2. CASE ~HasHeader(b, k)
  BY <1>1, <1>2 DEF Onward
<1>3. CASE HasHeader(b, k)
  <2>1. k \in 1..Len(b) /\ k + 1 \in 1..Len(b)
    BY <1>1, <1>3 DEF HasHeader, HeaderLength
  <2>2. CASE ~Decodes(b, k)
    BY <1>1, <1>3, <2>1, <2>2, NextStartsLater DEF Onward
  <2>3. CASE Decodes(b, k)
    <3>1. b[k + 1] \in Nat /\ b[k + 1] >= 2
      BY <2>1, <2>3 DEF Bytes, Decodes, HeaderLength
    <3> QED
      BY <1>1, <1>3, <2>1, <2>3, <3>1 DEF Onward, Complete, EndOfPacket
  <2> QED
    BY <2>2, <2>3
<1> QED
  BY <1>2, <1>3

Scans == [transfers : Seq(ATransfer), at : Nat]

\* f holds, of each position, what the trace makes of the bytes from there on.
Scan(f, b) ==
  /\ f \in [1..(Len(b) + 1) -> Scans]
  /\ \A k \in 1..(Len(b) + 1) :
       f[k] = IF Onward(b, k) = k THEN [transfers |-> <<>>, at |-> k]
              ELSE [transfers |-> <<Passed(b, k)>> \o f[Onward(b, k)].transfers,
                    at        |-> f[Onward(b, k)].at]

\* A piece of a sequence, and how long it is.
LEMMA SubSeqTyped ==
  ASSUME NEW X, NEW s \in Seq(X), NEW m \in 1..(Len(s) + 1), NEW n \in (m - 1)..Len(s)
  PROVE  SubSeq(s, m, n) \in Seq(X) /\ Len(SubSeq(s, m, n)) = n - m + 1
BY SubSeqProperties

\* What it takes is a transfer.
LEMMA PassedTyped ==
  ASSUME NEW b \in Bytes, NEW k \in 1..(Len(b) + 1)
  PROVE  Passed(b, k) \in ATransfer
<1>1. Len(b) \in Nat /\ Onward(b, k) \in k..(Len(b) + 1)
  BY OnwardGoes DEF Bytes
<1>2. Onward(b, k) - 1 \in (k - 1)..Len(b)
  BY <1>1
<1>3. SubSeq(b, k, Onward(b, k) - 1) \in Bytes
  BY <1>2, SubSeqTyped DEF Bytes
<1> QED
  BY <1>3 DEF Passed, Transfer, ATransfer

\* There is such an f for all bytes: it is built from the last position on.
LEMMA ScanExists ==
  ASSUME NEW b \in Bytes
  PROVE  \E f : Scan(f, b)
<1> DEFINE N == Len(b) + 1
           jump == [k \in 1..N |-> Onward(b, k)]
           base == [k \in 1..N |-> [transfers |-> <<>>, at |-> k]]
           take == [k \in 1..N |-> [x \in Scans |->
                      [transfers |-> <<Passed(b, k)>> \o x.transfers, at |-> x.at]]]
<1>1. N \in Nat
  BY DEF Bytes
<1>2. jump \in [1..N -> 1..N] /\ \A k \in 1..N : jump[k] >= k
  BY <1>1, OnwardGoes
<1>3. base \in [1..N -> Scans]
  BY <1>1 DEF Scans
<1>4. take \in [1..N -> [Scans -> Scans]]
  <2>1. ASSUME NEW k \in 1..N, NEW x \in Scans
        PROVE  [transfers |-> <<Passed(b, k)>> \o x.transfers, at |-> x.at] \in Scans
    <3>1. <<Passed(b, k)>> \in Seq(ATransfer)
      BY <2>1, PassedTyped
    <3>2. x.transfers \in Seq(ATransfer) /\ x.at \in Nat
      BY DEF Scans
    <3>3. <<Passed(b, k)>> \o x.transfers \in Seq(ATransfer)
      BY <3>1, <3>2, ConcatProperties
    <3> QED
      BY <3>2, <3>3 DEF Scans
  <2> HIDE DEF N, Scans
  <2> QED
    BY <2>1
<1>5. PICK f : Climbs(f, N, Scans, jump, base, take)
  <2> HIDE DEF N, jump, base, take
  <2> QED
    BY <1>1, <1>2, <1>3, <1>4, Climbing
<1>6. ASSUME NEW k \in 1..N
      PROVE  f[k] = IF Onward(b, k) = k THEN [transfers |-> <<>>, at |-> k]
                    ELSE [transfers |-> <<Passed(b, k)>> \o f[Onward(b, k)].transfers,
                          at        |-> f[Onward(b, k)].at]
  <2>1. f[k] = IF jump[k] = k THEN base[k] ELSE take[k][f[jump[k]]]
    BY <1>5 DEF Climbs
  <2>2. jump[k] = Onward(b, k) /\ jump[k] \in 1..N /\ f[jump[k]] \in Scans
    BY <1>2, <1>5 DEF Climbs
  <2>3. base[k] = [transfers |-> <<>>, at |-> k]
    OBVIOUS
  <2>4. take[k][f[jump[k]]] = [transfers |-> <<Passed(b, k)>> \o f[jump[k]].transfers,
                               at |-> f[jump[k]].at]
    BY <2>2
  <2> HIDE DEF jump, base, take, N
  <2> QED
    BY <2>1, <2>2, <2>3, <2>4
<1> QED
  BY <1>5, <1>6 DEF Scan, Climbs

\* What goes in front of a scan.
LEMMA InFront ==
  ASSUME NEW x \in Scans, NEW y
  PROVE  [x EXCEPT !.transfers = <<y>> \o @] = [transfers |-> <<y>> \o x.transfers, at |-> x.at]
<1> DEFINE s == x.transfers
           n == x.at
           z == <<y>> \o s
<1>1. x = [transfers |-> s, at |-> n]
  BY DEF Scans
<1>2. [x EXCEPT !.transfers = z] = [transfers |-> z, at |-> n]
  <2> HIDE DEF z, s, n
  <2> QED
    BY <1>1
<1> QED
  BY <1>2

\* The scan of the trace is the recursion of ActiveTransfers.
LEMMA ActiveScans ==
  ASSUME NEW b \in Bytes
  PROVE  \E f : /\ Scan(f, b)
                /\ \A i \in 1..(Len(b) + 1) :
                     ActiveTransfers(b, i) =
                       [transfers |-> f[i].transfers,
                        decoder   |-> [bytes |-> SubSeq(b, f[i].at, Len(b)), active |-> TRUE]]
<1> DEFINE N == Len(b) + 1
           Here(g, k) ==
             IF ~HasHeader(b, k) THEN [transfers |-> <<>>, at |-> k]
             ELSE IF ~Decodes(b, k)
                  THEN LET next == NextPacketStart(b, k) IN
                       [g[next] EXCEPT !.transfers =
                          <<Transfer("raw", SubSeq(b, k, next - 1))>> \o @]
             ELSE IF ~Complete(b, k) THEN [transfers |-> <<>>, at |-> k]
             ELSE LET end == EndOfPacket(b, k) IN
                  [g[end] EXCEPT !.transfers =
                     <<Transfer("packet", SubSeq(b, k, end - 1))>> \o @]
           Solved(g) == g = [k \in 1..N |-> Here(g, k)]
           from == CHOOSE g : Solved(g)
<1>1. PICK f : Scan(f, b)
  BY ScanExists
<1>2. N \in Nat
  BY DEF Bytes
<1>3. \A k \in 1..N : f[k] \in Scans
  BY <1>1 DEF Scan
<1>4. ASSUME NEW k \in 1..N PROVE f[k] = Here(f, k)
  <2> HIDE DEF Here
  <2>1. /\ Onward(b, k) \in 1..N
        /\ Onward(b, k) = k <=> ~HasHeader(b, k) \/ (Decodes(b, k) /\ ~Complete(b, k))
    BY <1>2, OnwardGoes
  <2>2. f[k] = IF Onward(b, k) = k THEN [transfers |-> <<>>, at |-> k]
               ELSE [transfers |-> <<Passed(b, k)>> \o f[Onward(b, k)].transfers,
                     at        |-> f[Onward(b, k)].at]
    BY <1>1 DEF Scan
  <2>3. f[Onward(b, k)] \in Scans
    BY <1>3, <2>1
  <2>4. CASE Onward(b, k) = k
    BY <2>1, <2>2, <2>4 DEF Here
  <2>5. CASE Onward(b, k) # k /\ ~Decodes(b, k)
    <3>1. HasHeader(b, k) /\ Onward(b, k) = NextPacketStart(b, k)
      BY <2>1, <2>5 DEF Onward
    <3>2. Passed(b, k) = Transfer("raw", SubSeq(b, k, NextPacketStart(b, k) - 1))
      BY <2>5, <3>1 DEF Passed
    <3>3. Here(f, k) = [f[Onward(b, k)] EXCEPT !.transfers = <<Passed(b, k)>> \o @]
      BY <2>5, <3>1, <3>2 DEF Here
    <3> QED
      BY <2>2, <2>3, <2>5, <3>3, InFront
  <2>6. CASE Onward(b, k) # k /\ Decodes(b, k)
    <3>1. HasHeader(b, k) /\ Complete(b, k) /\ Onward(b, k) = EndOfPacket(b, k)
      BY <2>1, <2>6 DEF Onward
    <3>2. Passed(b, k) = Transfer("packet", SubSeq(b, k, EndOfPacket(b, k) - 1))
      BY <2>6, <3>1 DEF Passed
    <3>3. Here(f, k) = [f[Onward(b, k)] EXCEPT !.transfers = <<Passed(b, k)>> \o @]
      BY <2>6, <3>1, <3>2 DEF Here
    <3> QED
      BY <2>2, <2>3, <2>6, <3>3, InFront
  <2> QED
    BY <2>4, <2>5, <2>6
<1>5. Solved(from)
  <2>1. f = [k \in 1..N |-> f[k]]
    BY <1>1 DEF Scan
  <2>2. Solved(f)
    <3> HIDE DEF Here, N
    <3> QED
      BY <1>4, <2>1
  <2> HIDE DEF Solved
  <2> QED
    BY <2>2
<1>6. ASSUME NEW i \in 1..N
      PROVE  ActiveTransfers(b, i) =
               [transfers |-> from[i].transfers,
                decoder   |-> [bytes |-> SubSeq(b, from[i].at, Len(b)), active |-> TRUE]]
  BY DEF ActiveTransfers
<1> HIDE DEF from
<1>7. ASSUME NEW k \in 1..N, \A j \in (k + 1)..N : from[j] = f[j] PROVE from[k] = f[k]
  <2>1. Onward(b, k) \in k..N
        /\ (Onward(b, k) = k <=> ~HasHeader(b, k) \/ (Decodes(b, k) /\ ~Complete(b, k)))
    BY <1>2, OnwardGoes
  <2>2. CASE Onward(b, k) = k
    <3>1. Here(from, k) = Here(f, k)
      BY <2>1, <2>2
    <3> HIDE DEF Here
    <3> QED
      BY <1>4, <1>5, <3>1
  <2>3. CASE Onward(b, k) # k
    <3>1. from[Onward(b, k)] = f[Onward(b, k)]
      BY <1>2, <1>7, <2>1, <2>3
    <3>2. Here(from, k) = Here(f, k)
      BY <2>1, <2>3, <3>1 DEF Onward
    <3> HIDE DEF Here
    <3> QED
      BY <1>4, <1>5, <3>2
  <2> QED
    BY <2>2, <2>3
<1>8. \A k \in 1..N : from[k] = f[k]
  <2> DEFINE S == {k \in 1..N : from[k] = f[k]}
  <2>1. \A k \in 1..N : (\A j \in (k + 1)..N : j \in S) => k \in S
    <3> HIDE DEF N
    <3> QED
      BY <1>7
  <2>2. 1..N \subseteq S
    <3> HIDE DEF S, N
    <3> QED
      BY <1>2, <2>1, DownwardInduction
  <2> QED
    BY <2>2
<1> QED
  BY <1>1, <1>6, <1>8

-----------------------------------------------------------------------------
(* The bytes and the packets of some transfers.                            *)

\* The bytes of some transfers, one after the other.
BytesIn(s) == FlattenSeq([i \in DOMAIN s |-> s[i].bytes])

\* The bytes of transfers one behind the other are so too.
LEMMA BytesInConcat ==
  ASSUME NEW s \in Seq(ATransfer), NEW t \in Seq(ATransfer)
  PROVE  BytesIn(s) \in Bytes /\ BytesIn(s \o t) = BytesIn(s) \o BytesIn(t)
<1> DEFINE g == [a \in ATransfer |-> a.bytes]
<1>1. MakesSeqs(g, ATransfer, Nat)
  BY DEF MakesSeqs, ATransfer, Bytes
<1>2. ASSUME NEW u \in Seq(ATransfer) PROVE BytesIn(u) = FlattenSeq(Mapped(g, u))
  <2>1. Mapped(g, u) = [i \in DOMAIN u |-> u[i].bytes]
    BY DEF Mapped
  <2> QED
    BY <2>1 DEF BytesIn
<1>3. s \o t \in Seq(ATransfer)
  BY ConcatProperties
<1> HIDE DEF g
<1>4. FlattenSeq(Mapped(g, s \o t)) = FlattenSeq(Mapped(g, s)) \o FlattenSeq(Mapped(g, t))
  BY <1>1, FlattenMapped
<1>5. FlattenSeq(Mapped(g, s)) \in Seq(Nat)
  BY <1>1, FlattenMappedTyped
<1> QED
  BY <1>2, <1>3, <1>4, <1>5 DEF Bytes

\* One transfer has its own bytes.
LEMMA BytesInOne ==
  ASSUME NEW a \in ATransfer
  PROVE  BytesIn(<<a>>) = a.bytes
<1>1. [i \in DOMAIN <<a>> |-> <<a>>[i].bytes] = <<a.bytes>> /\ a.bytes \in Seq(Nat)
  BY DEF ATransfer, Bytes
<1> QED
  BY <1>1, FlattenOne DEF BytesIn

\* The packets among some transfers.
LEMMA PacketsOfConcat ==
  ASSUME NEW s \in Seq(ATransfer), NEW t \in Seq(ATransfer)
  PROVE  PacketsOf(s) \in Seq(Bytes) /\ PacketsOf(s \o t) = PacketsOf(s) \o PacketsOf(t)
<1> DEFINE g == [a \in ATransfer |-> IF a.kind = "packet" THEN <<a.bytes>> ELSE <<>>]
<1>1. MakesSeqs(g, ATransfer, Bytes)
  <2>1. ASSUME NEW a \in ATransfer PROVE g[a] \in Seq(Bytes)
    <3>1. a.bytes \in Bytes
      BY DEF ATransfer
    <3>2. <<a.bytes>> \in Seq(Bytes) /\ <<>> \in Seq(Bytes)
      BY <3>1
    <3> QED
      BY <3>2
  <2> HIDE DEF g
  <2> QED
    BY <2>1 DEF MakesSeqs
<1>2. ASSUME NEW u \in Seq(ATransfer) PROVE PacketsOf(u) = FlattenSeq(Mapped(g, u))
  <2>1. Mapped(g, u) = [i \in DOMAIN u |-> IF u[i].kind = "packet" THEN <<u[i].bytes>> ELSE <<>>]
    BY DEF Mapped
  <2> QED
    BY <2>1 DEF PacketsOf
<1>3. s \o t \in Seq(ATransfer)
  BY ConcatProperties
<1> HIDE DEF g
<1>4. FlattenSeq(Mapped(g, s \o t)) = FlattenSeq(Mapped(g, s)) \o FlattenSeq(Mapped(g, t))
  BY <1>1, FlattenMapped
<1>5. FlattenSeq(Mapped(g, s)) \in Seq(Bytes)
  BY <1>1, FlattenMappedTyped
<1> QED
  BY <1>2, <1>3, <1>4, <1>5

\* One transfer is a packet or none.
LEMMA PacketsOfOne ==
  ASSUME NEW a \in ATransfer
  PROVE  PacketsOf(<<a>>) = IF a.kind = "packet" THEN <<a.bytes>> ELSE <<>>
<1> DEFINE p == IF a.kind = "packet" THEN <<a.bytes>> ELSE <<>>
<1>1. p \in Seq(Bytes)
  BY DEF ATransfer
<1>2. [i \in DOMAIN <<a>> |-> IF <<a>>[i].kind = "packet" THEN <<<<a>>[i].bytes>> ELSE <<>>] = <<p>>
  OBVIOUS
<1> HIDE DEF p
<1>3. FlattenSeq(<<p>>) = p
  BY <1>1, FlattenOne
<1> QED
  BY <1>2, <1>3 DEF PacketsOf, p

\* No transfer has neither bytes nor packets.
LEMMA OfNone == BytesIn(<<>>) = <<>> /\ PacketsOf(<<>>) = <<>>
BY FlattenEmpty DEF BytesIn, PacketsOf

-----------------------------------------------------------------------------
(* A scan loses no byte.                                                   *)

\* What is left of b from a position on.
From(b, k) == SubSeq(b, k, Len(b))

\* What a scan from k makes of the bytes, and where it stays.
Keeps(f, b, k) ==
  /\ f[k].at \in k..(Len(b) + 1) /\ Onward(b, f[k].at) = f[k].at
  /\ BytesIn(f[k].transfers) \o From(b, f[k].at) = From(b, k)

\* They are bytes.
LEMMA FromTyped ==
  ASSUME NEW b \in Bytes, NEW k \in 1..(Len(b) + 1)
  PROVE  From(b, k) \in Bytes
<1>1. Len(b) \in (k - 1)..Len(b) /\ Len(b) \in Nat
  BY DEF Bytes
<1> QED
  BY <1>1, SubSeqTyped DEF Bytes, From

\* From every position on, what is taken and what stays are all the bytes.
LEMMA ScanLosesNoByte ==
  ASSUME NEW b \in Bytes, NEW f, Scan(f, b), NEW i \in 1..(Len(b) + 1)
  PROVE  Keeps(f, b, i)
<1> DEFINE N == Len(b) + 1
           S == {k \in 1..N : Keeps(f, b, k)}
<1>1. N \in Nat
  BY DEF Bytes
<1>2. ASSUME NEW k \in 1..N, \A j \in (k + 1)..N : Keeps(f, b, j) PROVE Keeps(f, b, k)
  <2> DEFINE n == Onward(b, k)
  <2>1. n \in k..N /\ n \in 1..N
    BY <1>1, OnwardGoes
  <2>2. From(b, k) \in Bytes
    BY FromTyped
  <2>3. CASE n = k
    <3>1. f[k].at = k /\ f[k].transfers = <<>>
      <4>1. f[k] = [transfers |-> <<>>, at |-> k]
        BY <2>3 DEF Scan
      <4> QED
        BY <4>1
    <3>2. BytesIn(f[k].transfers) = <<>>
      BY <3>1, OfNone
    <3>3. <<>> \o From(b, k) = From(b, k)
      BY <2>2, ConcatEmptySeq DEF Bytes
    <3> QED
      BY <2>1, <2>3, <3>1, <3>2, <3>3 DEF Keeps
  <2>4. CASE n # k
    <3> DEFINE p == Passed(b, k)
               ts == f[n].transfers
               at == f[n].at
    <3>1. f[k].transfers = <<p>> \o ts /\ f[k].at = at
      BY <2>4 DEF Scan
    <3>2. Keeps(f, b, n)
      BY <1>1, <1>2, <2>1, <2>4
    <3>3. p \in ATransfer /\ p.bytes = SubSeq(b, k, n - 1)
      BY PassedTyped DEF Passed, Transfer
    <3>4. ts \in Seq(ATransfer) /\ at \in 1..N
      BY <2>1, <3>2 DEF Scan, Scans, Keeps
    <3>5. <<p>> \in Seq(ATransfer)
      BY <3>3
    <3>6. BytesIn(ts) \in Bytes
      BY <3>4, BytesInConcat
    <3>7. BytesIn(<<p>> \o ts) = BytesIn(<<p>>) \o BytesIn(ts)
      BY <3>4, <3>5, BytesInConcat
    <3>8. BytesIn(<<p>>) = SubSeq(b, k, n - 1) /\ SubSeq(b, k, n - 1) \in Bytes
      BY <3>3, BytesInOne DEF ATransfer
    <3>9. From(b, at) \in Bytes
      BY <3>4, FromTyped
    <3>10. (SubSeq(b, k, n - 1) \o BytesIn(ts)) \o From(b, at)
             = SubSeq(b, k, n - 1) \o (BytesIn(ts) \o From(b, at))
      <4>1. Associates(Nat)
        BY Associative
      <4> HIDE DEF ts, at, n
      <4> QED
        BY <3>6, <3>8, <3>9, <4>1, Zenon DEF Bytes, Associates
    <3>11. BytesIn(ts) \o From(b, at) = From(b, n)
      BY <3>2 DEF Keeps
    <3>12. SubSeq(b, k, n - 1) \o From(b, n) = From(b, k)
      BY <2>1, SubSeqParts DEF Bytes, From
    <3> HIDE DEF p, ts, at, n
    <3>13. BytesIn(f[k].transfers) \o From(b, f[k].at) = From(b, k)
      BY <3>1, <3>7, <3>8, <3>10, <3>11, <3>12
    <3>14. Onward(b, at) = at /\ at \in k..N
      BY <2>1, <3>2 DEF Keeps, n, at
    <3> QED
      BY <3>1, <3>13, <3>14 DEF Keeps
  <2> QED
    BY <2>3, <2>4
<1>3. \A k \in 1..N : (\A j \in (k + 1)..N : j \in S) => k \in S
  <2> HIDE DEF N
  <2> QED
    BY <1>2
<1>4. 1..N \subseteq S
  <2> HIDE DEF S, N
  <2> QED
    BY <1>1, <1>3, DownwardInduction
<1> QED
  BY <1>4

-----------------------------------------------------------------------------
(* The trace loses no byte.                                                *)

\* r accounts for all of b, in transfers and in what its decoder keeps.
Accounts(r, b) ==
  /\ r \in [transfers : Seq(ATransfer), decoder : TraceDecoder]
  /\ BytesIn(r.transfers) \o r.decoder.bytes = b

\* The transfers behind the entry hold all the bytes, or the decoder does.
LEMMA ActiveAccounts ==
  ASSUME NEW b \in Bytes, NEW i \in 1..(Len(b) + 1)
  PROVE  Accounts(ActiveTransfers(b, i), From(b, i)) /\ ActiveTransfers(b, i).decoder.active = TRUE
<1>1. PICK f : /\ Scan(f, b)
               /\ ActiveTransfers(b, i) =
                    [transfers |-> f[i].transfers,
                     decoder   |-> [bytes |-> SubSeq(b, f[i].at, Len(b)), active |-> TRUE]]
  BY ActiveScans
<1>2. Keeps(f, b, i)
  BY <1>1, ScanLosesNoByte
<1>3. f[i].at \in 1..(Len(b) + 1) /\ Len(b) \in Nat
  BY <1>2 DEF Keeps, Bytes
<1>4. From(b, f[i].at) \in Bytes
  BY <1>3, FromTyped
<1>5. f[i].transfers \in Seq(ATransfer)
  BY <1>1 DEF Scan, Scans
<1> DEFINE d == [bytes |-> From(b, f[i].at), active |-> TRUE]
<1>6. d \in TraceDecoder /\ d.bytes = From(b, f[i].at) /\ d.active = TRUE
  BY <1>4 DEF TraceDecoder
<1> HIDE DEF d
<1>7. ActiveTransfers(b, i) = [transfers |-> f[i].transfers, decoder |-> d]
  BY <1>1 DEF d, From
<1>8. BytesIn(f[i].transfers) \o d.bytes = From(b, i)
  BY <1>2, <1>6 DEF Keeps
<1>9. Accounts(ActiveTransfers(b, i), From(b, i))
  <2> DEFINE ts == f[i].transfers
             r == [transfers |-> ts, decoder |-> d]
  <2>1. r \in [transfers : Seq(ATransfer), decoder : TraceDecoder]
    <3> HIDE DEF ts
    <3> QED
      BY <1>5, <1>6 DEF ts
  <2>2. r.transfers = ts /\ r.decoder.bytes = d.bytes
    OBVIOUS
  <2>3. ActiveTransfers(b, i) = r
    BY <1>7
  <2> HIDE DEF r
  <2> QED
    BY <1>8, <2>1, <2>2, <2>3 DEF Accounts, ts
<1>10. ActiveTransfers(b, i).decoder = d
  BY <1>7
<1> QED
  BY <1>6, <1>9, <1>10, Zenon

\* What comes in front of an account.
LEMMA AccountsInFront ==
  ASSUME NEW r, NEW b \in Bytes, NEW x \in ATransfer, Accounts(r, b)
  PROVE  Accounts([r EXCEPT !.transfers = <<x>> \o @], x.bytes \o b)
<1> DEFINE ts == r.transfers
           kept == r.decoder.bytes
<1>1. ts \in Seq(ATransfer) /\ kept \in Bytes /\ BytesIn(ts) \o kept = b
  BY DEF Accounts, TraceDecoder
<1>2. <<x>> \in Seq(ATransfer) /\ BytesIn(<<x>>) = x.bytes /\ x.bytes \in Bytes
  BY BytesInOne DEF ATransfer
<1>3. BytesIn(<<x>> \o ts) = x.bytes \o BytesIn(ts) /\ BytesIn(ts) \in Bytes
  BY <1>1, <1>2, BytesInConcat
<1>4. <<x>> \o ts \in Seq(ATransfer)
  BY <1>1, <1>2, ConcatProperties
<1> HIDE DEF ts, kept
<1>5. (x.bytes \o BytesIn(ts)) \o kept = x.bytes \o (BytesIn(ts) \o kept)
  <2>1. Associates(Nat)
    BY Associative
  <2> QED
    BY <1>1, <1>2, <1>3, <2>1, Zenon DEF Bytes, Associates
<1>6. BytesIn(<<x>> \o ts) \o kept = x.bytes \o b
  BY <1>1, <1>3, <1>5
<1> DEFINE all == <<x>> \o ts
<1>7. r \in [transfers : Seq(ATransfer), decoder : TraceDecoder]
  BY DEF Accounts
<1> HIDE DEF all
<1>8. all \in Seq(ATransfer) /\ BytesIn(all) \o kept = x.bytes \o b
  BY <1>4, <1>6 DEF all
<1>9. Accounts([r EXCEPT !.transfers = all], x.bytes \o b)
  BY <1>7, <1>8 DEF Accounts, kept
<1> QED
  BY <1>9 DEF all, ts

\* All of b is left at its start.
LEMMA FromStart ==
  ASSUME NEW b \in Bytes
  PROVE  From(b, 1) = b
BY SubSeqFull DEF From, Bytes

\* What starts with an entry is the entry and what is left behind it.
LEMMA EntryInFront ==
  ASSUME NEW b \in Bytes, NEW entry \in Bytes, IsPrefix(entry, b)
  PROVE  /\ Len(entry) + 1 \in 1..(Len(b) + 1)
         /\ entry \o From(b, Len(entry) + 1) = b
<1>1. Len(entry) \in Nat /\ Len(b) \in Nat /\ Len(entry) <= Len(b)
      /\ SubSeq(entry, 1, Len(entry)) = SubSeq(b, 1, Len(entry))
  BY DEF IsPrefix, Bytes
<1>2. Len(entry) + 1 \in 1..(Len(b) + 1) /\ 1 \in 1..(Len(b) + 1) /\ (Len(entry) + 1) - 1 = Len(entry)
  BY <1>1
<1>3. SubSeq(b, 1, (Len(entry) + 1) - 1) \o SubSeq(b, Len(entry) + 1, Len(b)) = SubSeq(b, 1, Len(b))
  BY <1>2, SubSeqParts DEF Bytes
<1>4. SubSeq(entry, 1, Len(entry)) = entry /\ SubSeq(b, 1, Len(b)) = b
  BY SubSeqFull DEF Bytes
<1> QED
  BY <1>1, <1>2, <1>3, <1>4 DEF From

\* A decoder and transfers that account for bytes.
LEMMA AccountOf ==
  ASSUME NEW ts \in Seq(ATransfer), NEW d \in TraceDecoder, NEW b, BytesIn(ts) \o d.bytes = b
  PROVE  Accounts([transfers |-> ts, decoder |-> d], b)
<1> DEFINE r == [transfers |-> ts, decoder |-> d]
<1>1. r \in [transfers : Seq(ATransfer), decoder : TraceDecoder] /\ r.transfers = ts /\ r.decoder = d
  OBVIOUS
<1> HIDE DEF r
<1>2. Accounts(r, b)
  BY <1>1 DEF Accounts
<1> QED
  BY <1>2 DEF r

\* So do those of what is buffered before the entry was seen.
LEMMA TransfersAccount ==
  ASSUME NEW b \in Bytes, NEW active \in BOOLEAN, NEW entry \in Bytes
  PROVE  Accounts(Transfers(b, active, entry), b)
<1>1. CASE active
  <2>1. 1 \in 1..(Len(b) + 1)
    BY DEF Bytes
  <2> QED
    BY <1>1, <2>1, ActiveAccounts, FromStart DEF Transfers
<1>2. CASE ~active /\ IsPrefix(entry, b)
  <2> DEFINE i == Len(entry) + 1
             rest == ActiveTransfers(b, i)
             x == Transfer("entry", entry)
  <2>1. i \in 1..(Len(b) + 1) /\ entry \o From(b, i) = b
    BY <1>2, EntryInFront
  <2>2. x \in ATransfer /\ x.bytes = entry
    BY DEF Transfer, ATransfer
  <2> HIDE DEF i, x
  <2>3. Accounts(rest, From(b, i)) /\ From(b, i) \in Bytes
    BY <2>1, ActiveAccounts, FromTyped
  <2> HIDE DEF rest
  <2>4. Accounts([rest EXCEPT !.transfers = <<x>> \o @], x.bytes \o From(b, i))
    BY <2>2, <2>3, AccountsInFront
  <2>5. Transfers(b, active, entry) = [rest EXCEPT !.transfers = <<x>> \o @]
    BY <1>2 DEF Transfers, rest, i, x
  <2> QED
    BY <2>1, <2>2, <2>4, <2>5
<1>3. CASE ~active /\ ~IsPrefix(entry, b) /\ IsPrefix(b, entry)
  <2> DEFINE d == [bytes |-> b, active |-> FALSE]
             ts == <<>>
  <2>1. d \in TraceDecoder /\ ts \in Seq(ATransfer)
    BY DEF TraceDecoder
  <2>2. BytesIn(ts) \o d.bytes = b
    BY OfNone, ConcatEmptySeq DEF Bytes
  <2>3. Transfers(b, active, entry) = [transfers |-> ts, decoder |-> d]
    BY <1>3 DEF Transfers
  <2> HIDE DEF d, ts
  <2> QED
    BY <2>1, <2>2, <2>3, AccountOf
<1>4. CASE ~active /\ ~IsPrefix(entry, b) /\ ~IsPrefix(b, entry)
  <2> DEFINE x == Transfer("raw", b)
             ts == <<x>>
  <2>1. x \in ATransfer /\ x.bytes = b
    BY DEF Transfer, ATransfer
  <2> HIDE DEF x
  <2>2. ts \in Seq(ATransfer) /\ BytesIn(ts) = b
    BY <2>1, BytesInOne
  <2>3. NewTraceDecoder \in TraceDecoder /\ NewTraceDecoder.bytes = <<>>
    BY DEF NewTraceDecoder, TraceDecoder, Bytes
  <2>4. b \o <<>> = b
    BY ConcatEmptySeq DEF Bytes
  <2>5. Transfers(b, active, entry) = [transfers |-> ts, decoder |-> NewTraceDecoder]
    BY <1>4 DEF Transfers, x
  <2> HIDE DEF ts
  <2>6. BytesIn(ts) \o NewTraceDecoder.bytes = b
    BY <2>2, <2>3, <2>4
  <2> QED
    BY <2>2, <2>3, <2>5, <2>6, AccountOf
<1> QED
  BY <1>1, <1>2, <1>3, <1>4

\* DebugTrafficDecoder::push loses no byte of what it had and was given.
LEMMA PushAccounts ==
  ASSUME NEW d \in TraceDecoder, NEW bytes \in Bytes, NEW entry \in Bytes
  PROVE  Accounts(TracePush(d, bytes, entry), d.bytes \o bytes)
<1>1. d.bytes \in Bytes /\ d.active \in BOOLEAN
  BY DEF TraceDecoder
<1>2. CASE bytes = <<>>
  <2> DEFINE x == Transfer("empty", <<>>)
             ts == <<x>>
  <2>1. x \in ATransfer /\ x.bytes = <<>>
    BY DEF Transfer, ATransfer, Bytes
  <2> HIDE DEF x
  <2>2. ts \in Seq(ATransfer) /\ BytesIn(ts) = <<>>
    BY <2>1, BytesInOne
  <2>3. <<>> \o d.bytes = d.bytes /\ d.bytes \o <<>> = d.bytes
    BY <1>1, ConcatEmptySeq DEF Bytes
  <2>4. TracePush(d, bytes, entry) = [transfers |-> ts, decoder |-> d]
    BY <1>2 DEF TracePush, x
  <2> HIDE DEF ts
  <2>5. BytesIn(ts) \o d.bytes = d.bytes \o bytes
    BY <1>2, <2>2, <2>3
  <2> QED
    BY <2>2, <2>4, <2>5, AccountOf
<1>3. CASE bytes # <<>> /\ ~d.active /\ d.bytes # <<>> /\ ~MayBeEntry(d.bytes \o bytes, entry)
  <2> DEFINE rest == Transfers(bytes, FALSE, entry)
             x == Transfer("raw", d.bytes)
  <2>1. x \in ATransfer /\ x.bytes = d.bytes
    BY <1>1 DEF Transfer, ATransfer
  <2>2. Accounts(rest, bytes)
    BY TransfersAccount
  <2>3. TracePush(d, bytes, entry) = [rest EXCEPT !.transfers = <<x>> \o @]
    BY <1>3 DEF TracePush
  <2> HIDE DEF rest, x
  <2>4. Accounts([rest EXCEPT !.transfers = <<x>> \o @], x.bytes \o bytes)
    BY <2>1, <2>2, AccountsInFront
  <2> QED
    BY <2>1, <2>3, <2>4
<1>4. CASE bytes # <<>> /\ ~(~d.active /\ d.bytes # <<>> /\ ~MayBeEntry(d.bytes \o bytes, entry))
  <2>1. d.bytes \o bytes \in Bytes
    BY <1>1, ConcatProperties DEF Bytes
  <2>2. TracePush(d, bytes, entry) = Transfers(d.bytes \o bytes, d.active, entry)
    BY <1>4 DEF TracePush
  <2> QED
    BY <1>1, <2>1, <2>2, TransfersAccount
<1> QED
  BY <1>2, <1>3, <1>4

-----------------------------------------------------------------------------
(* The trace of the session.                                               *)

Directions == {"tx", "rx"}
Entries == [dir : Directions, bytes : Bytes]
Traces == [tx : TraceDecoder, rx : TraceDecoder, entries : Seq(Entries),
           shed : [Directions -> Bytes], seen : [Directions -> Bytes], framed : Seq(Bytes)]

\* The bytes of the entries of a direction.
LEMMA BytesOfConcat ==
  ASSUME NEW dir, NEW s \in Seq(Entries), NEW t \in Seq(Entries)
  PROVE  BytesOf(s, dir) \in Bytes /\ BytesOf(s \o t, dir) = BytesOf(s, dir) \o BytesOf(t, dir)
<1> DEFINE g == [a \in Entries |-> IF a.dir = dir THEN a.bytes ELSE <<>>]
<1>1. MakesSeqs(g, Entries, Nat)
  BY DEF MakesSeqs, Entries, Bytes
<1>2. ASSUME NEW u \in Seq(Entries) PROVE BytesOf(u, dir) = FlattenSeq(Mapped(g, u))
  <2>1. Mapped(g, u) = [i \in DOMAIN u |-> IF u[i].dir = dir THEN u[i].bytes ELSE <<>>]
    BY DEF Mapped
  <2> QED
    BY <2>1 DEF BytesOf
<1>3. s \o t \in Seq(Entries)
  BY ConcatProperties
<1> HIDE DEF g
<1>4. FlattenSeq(Mapped(g, s \o t)) = FlattenSeq(Mapped(g, s)) \o FlattenSeq(Mapped(g, t))
  BY <1>1, FlattenMapped
<1>5. FlattenSeq(Mapped(g, s)) \in Seq(Nat)
  BY <1>1, FlattenMappedTyped
<1> QED
  BY <1>2, <1>3, <1>4, <1>5 DEF Bytes

\* The entries that transfers become.
EntriesFrom(dir, ts) == [i \in DOMAIN ts |-> [dir |-> dir, bytes |-> ts[i].bytes]]

\* They are entries.
LEMMA EntriesFromTyped ==
  ASSUME NEW dir \in Directions, NEW ts \in Seq(ATransfer)
  PROVE  EntriesFrom(dir, ts) \in Seq(Entries)
<1> DEFINE g == [a \in ATransfer |-> [dir |-> dir, bytes |-> a.bytes]]
<1>1. \A a \in ATransfer : g[a] \in Entries
  BY DEF ATransfer, Entries
<1>2. EntriesFrom(dir, ts) = Mapped(g, ts)
  BY DEF EntriesFrom, Mapped
<1> HIDE DEF g
<1> QED
  BY <1>1, <1>2, MappedTyped

\* They have the bytes of the transfers, in their direction.
LEMMA BytesOfEntries ==
  ASSUME NEW dir \in Directions, NEW ts \in Seq(ATransfer), NEW d \in Directions
  PROVE  BytesOf(EntriesFrom(dir, ts), d) = IF d = dir THEN BytesIn(ts) ELSE <<>>
<1> DEFINE es == EntriesFrom(dir, ts)
           bs == [i \in DOMAIN es |-> IF es[i].dir = d THEN es[i].bytes ELSE <<>>]
<1>1. BytesOf(es, d) = FlattenSeq(bs)
  BY DEF BytesOf
<1>2. CASE d = dir
  <2>1. bs = [i \in DOMAIN ts |-> ts[i].bytes]
    BY <1>2 DEF EntriesFrom
  <2> QED
    BY <1>1, <1>2, <2>1 DEF BytesIn
<1>3. CASE d # dir
  <2>1. bs = [i \in DOMAIN ts |-> <<>>]
    BY <1>3 DEF EntriesFrom
  <2>2. bs \in Seq({<<>>})
    <3>1. DOMAIN ts = 1..Len(ts) /\ Len(ts) \in Nat
      BY LenProperties
    <3>2. bs \in [1..Len(ts) -> {<<>>}]
      BY <2>1, <3>1
    <3> HIDE DEF bs
    <3> QED
      BY <3>1, <3>2, IsASeq
  <2> HIDE DEF bs
  <2>3. FlattenSeq(bs) = <<>>
    BY <2>2, FlattenBlank
  <2> QED
    BY <1>1, <1>3, <2>3
<1> QED
  BY <1>2, <1>3

\* What is in an entry, in a decoder or gone with an old entry is what was seen.
Kept(t) == \A d \in Directions : t.shed[d] \o BytesOf(t.entries, d) \o t[d].bytes = t.seen[d]

\* One behind the other: \o, which the provers then do not take apart.
a ++ b == a \o b

\* How it associates.
LEMMA JoinedAssociate ==
  ASSUME NEW a \in Bytes, NEW b \in Bytes, NEW c \in Bytes
  PROVE  a ++ b \in Bytes /\ (a ++ b) ++ c = a ++ (b ++ c)
<1>1. (a \o b) \o c = a \o (b \o c)
  BY ConcatAssociative DEF Bytes
<1>2. a \o b \in Bytes
  BY ConcatProperties DEF Bytes
<1> QED
  BY <1>1, <1>2 DEF ++

\* A transfer that is given to the trace: no byte of it is missing, and the
\* entries keep to their limit.
LEMMA TracedKeeps ==
  ASSUME trace \in Traces, Kept(trace), NEW dir \in Directions, NEW bytes \in Bytes
  PROVE  /\ Traced(dir, bytes) \in Traces /\ Kept(Traced(dir, bytes))
         /\ Len(Traced(dir, bytes).entries) <= MaxEntries
<1> DEFINE push == TracePush(trace[dir], bytes, IF dir = "tx" THEN EntryCommand ELSE EntryReply)
           es == trace.entries
           new == EntriesFrom(dir, push.transfers)
           all == es \o new
           n == Excess(all)
           old == SubSeq(all, 1, n)
           kept == SubSeq(all, n + 1, Len(all))
           shed == [d \in Directions |-> trace.shed[d] \o BytesOf(old, d)]
           framed == trace.framed \o IF dir = "rx" THEN PacketsOf(push.transfers) ELSE <<>>
           t == Traced(dir, bytes)
<1>1. trace[dir] \in TraceDecoder /\ trace[dir].bytes \in Bytes /\ es \in Seq(Entries)
  BY DEF Traces, TraceDecoder, Directions
<1>2. EntryCommand \in Bytes /\ EntryReply \in Bytes
  BY DEF EntryCommand, EntryReply, ReservedBits, Bytes
<1>3. Accounts(push, trace[dir].bytes \o bytes)
  BY <1>1, <1>2, PushAccounts
<1>4. /\ push.transfers \in Seq(ATransfer) /\ push.decoder \in TraceDecoder
      /\ BytesIn(push.transfers) \o push.decoder.bytes = trace[dir].bytes \o bytes
  BY <1>3 DEF Accounts
<1>5. t = [trace EXCEPT ![dir] = push.decoder, !.entries = kept, !.shed = shed,
                        !.seen[dir] = @ \o bytes, !.framed = framed]
  BY DEF Traced, EntriesFrom, Directions
<1> HIDE DEF push, t
<1>6. new \in Seq(Entries)
  BY <1>4, EntriesFromTyped
<1>7. all \in Seq(Entries)
  BY <1>1, <1>6, ConcatProperties
<1>8. n \in 0..Len(all) /\ Len(all) - n <= MaxEntries
  <2> HIDE DEF all
  <2>1. Len(all) \in Nat /\ MaxEntries \in Nat
    BY <1>7, BoundsAssumption
  <2> QED
    BY <2>1 DEF Excess
<1>9. old \in Seq(Entries) /\ kept \in Seq(Entries) /\ old \o kept = all
      /\ Len(kept) <= MaxEntries
  <2> HIDE DEF n, all
  <2>1. Len(all) \in Nat /\ n + 1 \in 1..(Len(all) + 1) /\ (n + 1) - 1 = n
        /\ 1 \in 1..(Len(all) + 1) /\ n \in 0..Len(all) /\ Len(all) \in n..Len(all)
    BY <1>7, <1>8
  <2>2. old \in Seq(Entries)
    BY <1>7, <2>1, SubSeqTyped
  <2>3. kept \in Seq(Entries) /\ Len(kept) = Len(all) - (n + 1) + 1
    BY <1>7, <2>1, SubSeqTyped
  <2>4. SubSeq(all, 1, (n + 1) - 1) \o SubSeq(all, n + 1, Len(all)) = SubSeq(all, 1, Len(all))
    BY <1>7, <2>1, SubSeqParts
  <2>5. SubSeq(all, 1, Len(all)) = all
    BY <1>7, SubSeqFull
  <2> HIDE DEF old, kept
  <2>6. Len(kept) <= MaxEntries
    BY <1>8, <2>1, <2>3
  <2>7. old \o kept = all
    BY <2>1, <2>4, <2>5 DEF old, kept
  <2> QED
    BY <2>2, <2>3, <2>6, <2>7
<1> HIDE DEF kept, old
<1>10. shed \in [Directions -> Bytes]
  <2>1. ASSUME NEW d \in Directions PROVE trace.shed[d] \o BytesOf(old, d) \in Bytes
    <3>1. trace.shed[d] \in Bytes
      BY DEF Traces
    <3>2. BytesOf(old, d) \in Bytes
      BY <1>9, BytesOfConcat
    <3> QED
      BY <3>1, <3>2, ConcatProperties DEF Bytes
  <2> QED
    BY <2>1
<1>11. framed \in Seq(Bytes)
  <2>1. PacketsOf(push.transfers) \in Seq(Bytes) /\ trace.framed \in Seq(Bytes)
    BY <1>4, PacketsOfConcat DEF Traces
  <2> QED
    BY <2>1, ConcatProperties
<1>12. trace.seen[dir] \o bytes \in Bytes
  <2>1. trace.seen[dir] \in Bytes
    BY DEF Traces
  <2> QED
    BY <2>1, ConcatProperties DEF Bytes
<1> DEFINE seen == [trace.seen EXCEPT ![dir] = @ \o bytes]
<1>13. seen \in [Directions -> Bytes] /\ \A d \in Directions :
         seen[d] = IF d = dir THEN trace.seen[d] \o bytes ELSE trace.seen[d]
  BY <1>12 DEF Traces
<1>14. t = [trace EXCEPT ![dir] = push.decoder, !.entries = kept, !.shed = shed,
                         !.seen = seen, !.framed = framed]
  BY <1>5 DEF Directions, Traces
<1> HIDE DEF shed, seen, framed
<1>15. /\ t \in Traces /\ t.entries = kept /\ t.shed = shed /\ t.seen = seen
       /\ \A d \in Directions : t[d] = IF d = dir THEN push.decoder ELSE trace[d]
  BY <1>4, <1>9, <1>10, <1>11, <1>13, <1>14 DEF Traces, Directions
<1>16. Kept(t)
  <2> SUFFICES ASSUME NEW d \in Directions
               PROVE  t.shed[d] \o BytesOf(t.entries, d) \o t[d].bytes = t.seen[d]
    BY DEF Kept
  <2> DEFINE a == trace.shed[d]
             o == BytesOf(old, d)
             k == BytesOf(kept, d)
             e == BytesOf(es, d)
             w == BytesOf(new, d)
             p == t[d].bytes
             q == trace[d].bytes
             m == IF d = dir THEN bytes ELSE <<>>
  <2>1. o \in Bytes /\ k \in Bytes /\ e \in Bytes /\ w \in Bytes
    BY <1>1, <1>6, <1>9, BytesOfConcat
  <2>2. a \in Bytes /\ q \in Bytes /\ m \in Bytes
    BY DEF Traces, TraceDecoder, Directions, Bytes
  <2>3. p \in Bytes
    BY <1>15 DEF Traces, TraceDecoder, Directions
  <2>4. o \o k = e \o w
    <3>1. BytesOf(old \o kept, d) = o \o k
      BY <1>9, BytesOfConcat
    <3>2. BytesOf(es \o new, d) = e \o w
      BY <1>1, <1>6, BytesOfConcat
    <3> HIDE DEF o, k, e, w, es, new
    <3> QED
      BY <1>9, <3>1, <3>2
  <2>5. w \o p = q \o m
    <3>1. w = IF d = dir THEN BytesIn(push.transfers) ELSE <<>>
      BY <1>4, BytesOfEntries
    <3>2. CASE d = dir
      BY <1>4, <1>15, <3>1, <3>2
    <3>3. CASE d # dir
      <4>1. w = <<>> /\ p = q /\ m = <<>>
        BY <1>15, <3>1, <3>3
      <4>2. <<>> \o q = q /\ q \o <<>> = q
        BY <2>2, ConcatEmptySeq DEF Bytes
      <4> HIDE DEF w, p, q, m
      <4> QED
        BY <4>1, <4>2
    <3> QED
      BY <3>2, <3>3
  <2>6. (a \o e) \o q = trace.seen[d]
    BY DEF Kept
  <2>7. t.seen[d] = trace.seen[d] \o m
    <3>1. trace.seen[d] \in Bytes
      BY DEF Traces
    <3>2. trace.seen[d] \o <<>> = trace.seen[d]
      BY <3>1, ConcatEmptySeq DEF Bytes
    <3> QED
      BY <1>13, <1>15, <3>2
  <2>8. t.shed[d] = a \o o /\ BytesOf(t.entries, d) = k
    BY <1>15 DEF shed
  <2> HIDE DEF a, o, k, e, w, p, q, m
  <2>9. ((a \o o) \o k) \o p = ((a \o e) \o q) \o m
    <3>1. o ++ k = e ++ w /\ w ++ p = q ++ m
      BY <2>4, <2>5 DEF ++
    <3>2. a ++ e \in Bytes
      BY <2>1, <2>2, JoinedAssociate
    <3>3. (a ++ o) ++ k = (a ++ e) ++ w
      BY <2>1, <2>2, <3>1, JoinedAssociate
    <3>4. ((a ++ e) ++ w) ++ p = ((a ++ e) ++ q) ++ m
      BY <2>1, <2>2, <2>3, <3>1, <3>2, JoinedAssociate
    <3>5. ((a ++ o) ++ k) ++ p = ((a ++ e) ++ q) ++ m
      BY <3>3, <3>4
    <3> QED
      BY <3>5 DEF ++
  <2> QED
    BY <2>6, <2>7, <2>8, <2>9 DEF p
<1> QED
  BY <1>9, <1>15, <1>16 DEF t

-----------------------------------------------------------------------------
(* PacketDecoder::push.                                                    *)

\* A whole packet stands at position k of b.
Drains(b, k) == HasHeader(b, k) /\ Decodes(b, k) /\ Complete(b, k)

\* Where the decoder goes from a position.
Drained(b, k) == IF Drains(b, k) THEN EndOfPacket(b, k) ELSE k

\* The packet there.
PacketAt(b, k) == SubSeq(b, k, EndOfPacket(b, k) - 1)

Pushed == [ok : BOOLEAN, packets : Seq(Bytes), at : Nat]

\* What the decoder makes of a position where no packet is whole.
Stop(b, k) ==
  [ok |-> IF HasHeader(b, k) /\ ~Decodes(b, k) THEN FALSE ELSE TRUE, packets |-> <<>>, at |-> k]

\* f holds, of each position, what the decoder makes of the bytes from there on.
Drain(f, b) ==
  /\ f \in [1..(Len(b) + 1) -> Pushed]
  /\ \A k \in 1..(Len(b) + 1) :
       f[k] = IF ~Drains(b, k) THEN Stop(b, k)
              ELSE [f[EndOfPacket(b, k)] EXCEPT !.packets = <<PacketAt(b, k)>> \o @]

\* A packet ends behind where it begins.
LEMMA DrainsOnward ==
  ASSUME NEW b \in Bytes, NEW k \in 1..(Len(b) + 1), Drains(b, k)
  PROVE  EndOfPacket(b, k) \in (k + 1)..(Len(b) + 1) /\ PacketAt(b, k) \in Bytes
<1>1. Len(b) \in Nat /\ k \in 1..Len(b) /\ k + 1 \in 1..Len(b)
  BY DEF Drains, HasHeader, HeaderLength, Bytes
<1>2. b[k + 1] \in Nat /\ b[k + 1] >= 2
  BY <1>1 DEF Drains, Decodes, HeaderLength, Bytes
<1>3. EndOfPacket(b, k) \in (k + 1)..(Len(b) + 1)
  BY <1>1, <1>2 DEF Drains, Complete, EndOfPacket
<1>4. EndOfPacket(b, k) - 1 \in (k - 1)..Len(b)
  BY <1>1, <1>3
<1> QED
  BY <1>3, <1>4, SubSeqTyped DEF PacketAt, Bytes

\* What goes in front of what was drained.
LEMMA DrainedInFront ==
  ASSUME NEW x \in Pushed, NEW p \in Bytes
  PROVE  LET y == [x EXCEPT !.packets = <<p>> \o @] IN
         y \in Pushed /\ y.ok = x.ok /\ y.at = x.at /\ y.packets = <<p>> \o x.packets
<1> DEFINE ps == x.packets
           z == <<p>> \o ps
<1>1. ps \in Seq(Bytes) /\ <<p>> \in Seq(Bytes)
  BY DEF Pushed
<1>2. z \in Seq(Bytes)
  BY <1>1, ConcatProperties
<1> HIDE DEF z
<1>3. LET y == [x EXCEPT !.packets = z] IN
      y \in Pushed /\ y.ok = x.ok /\ y.at = x.at /\ y.packets = z
  BY <1>2 DEF Pushed
<1> QED
  BY <1>3 DEF z

\* There is such an f for all bytes.
LEMMA DrainExists ==
  ASSUME NEW b \in Bytes
  PROVE  \E f : Drain(f, b)
<1> DEFINE N == Len(b) + 1
           jump == [k \in 1..N |-> Drained(b, k)]
           base == [k \in 1..N |-> Stop(b, k)]
           take == [k \in 1..N |-> [x \in Pushed |->
                      IF Drains(b, k) THEN [x EXCEPT !.packets = <<PacketAt(b, k)>> \o @] ELSE x]]
<1>1. N \in Nat
  BY DEF Bytes
<1>2. ASSUME NEW k \in 1..N PROVE Drained(b, k) \in 1..N /\ Drained(b, k) >= k
                                  /\ (Drained(b, k) = k <=> ~Drains(b, k))
  BY <1>1, DrainsOnward DEF Drained
<1>3. jump \in [1..N -> 1..N] /\ \A k \in 1..N : jump[k] >= k
  <2> HIDE DEF N
  <2> QED
    BY <1>2
<1>4. base \in [1..N -> Pushed]
  <2>1. ASSUME NEW k \in 1..N PROVE Stop(b, k) \in Pushed
    BY <1>1 DEF Stop, Pushed
  <2> QED
    BY <2>1
<1>5. take \in [1..N -> [Pushed -> Pushed]]
  <2>1. ASSUME NEW k \in 1..N, NEW x \in Pushed, Drains(b, k)
        PROVE  [x EXCEPT !.packets = <<PacketAt(b, k)>> \o @] \in Pushed
    BY <2>1, DrainsOnward, DrainedInFront
  <2> HIDE DEF N
  <2> QED
    BY <2>1
<1>6. PICK f : Climbs(f, N, Pushed, jump, base, take)
  <2> HIDE DEF N, jump, base, take
  <2> QED
    BY <1>1, <1>3, <1>4, <1>5, Climbing
<1>7. ASSUME NEW k \in 1..N
      PROVE  f[k] = IF ~Drains(b, k) THEN Stop(b, k)
                    ELSE [f[EndOfPacket(b, k)] EXCEPT !.packets = <<PacketAt(b, k)>> \o @]
  <2>1. f[k] = IF jump[k] = k THEN base[k] ELSE take[k][f[jump[k]]]
    BY <1>6 DEF Climbs
  <2>2. jump[k] = Drained(b, k) /\ jump[k] \in 1..N /\ f[jump[k]] \in Pushed
    BY <1>3, <1>6 DEF Climbs
  <2>3. base[k] = Stop(b, k)
    OBVIOUS
  <2>4. CASE ~Drains(b, k)
    <3> HIDE DEF jump, base, take, N
    <3> QED
      BY <1>2, <2>1, <2>2, <2>3, <2>4
  <2>5. CASE Drains(b, k)
    <3>1. take[k][f[jump[k]]] = [f[jump[k]] EXCEPT !.packets = <<PacketAt(b, k)>> \o @]
      BY <2>2, <2>5
    <3>2. jump[k] = EndOfPacket(b, k) /\ jump[k] # k
      BY <1>2, <2>2, <2>5 DEF Drained
    <3> HIDE DEF jump, base, take, N
    <3> QED
      BY <2>1, <2>5, <3>1, <3>2
  <2> QED
    BY <2>4, <2>5
<1> QED
  BY <1>6, <1>7 DEF Drain, Climbs

\* This is the recursion of Push.
LEMMA PushDrains ==
  ASSUME NEW d \in Bytes, NEW bytes \in Bytes
  PROVE  LET b == d \o bytes IN
         b \in Bytes /\
         \E f : /\ Drain(f, b)
                /\ Push(d, bytes) = [ok      |-> f[1].ok,
                                          packets |-> IF f[1].ok THEN f[1].packets ELSE <<>>,
                                          buffer  |-> From(b, f[1].at)]
<1> DEFINE b == d \o bytes
           N == Len(b) + 1
           Here(g, i) ==
             IF ~HasHeader(b, i) THEN [ok |-> TRUE, packets |-> <<>>, at |-> i]
             ELSE IF ~Decodes(b, i) THEN [ok |-> FALSE, packets |-> <<>>, at |-> i]
             ELSE IF ~Complete(b, i) THEN [ok |-> TRUE, packets |-> <<>>, at |-> i]
             ELSE LET end == EndOfPacket(b, i) IN
                  [g[end] EXCEPT !.packets = <<SubSeq(b, i, end - 1)>> \o @]
           Solved(g) == g = [i \in 1..N |-> Here(g, i)]
           from == CHOOSE g : Solved(g)
<1>1. b \in Bytes
  BY ConcatProperties DEF Bytes
<1>2. Push(d, bytes) = [ok      |-> from[1].ok,
                             packets |-> IF from[1].ok THEN from[1].packets ELSE <<>>,
                             buffer  |-> From(b, from[1].at)]
  BY DEF Push, From
<1> HIDE DEF b, from
<1>3. N \in Nat
  BY <1>1 DEF Bytes
<1>4. PICK f : Drain(f, b)
  BY <1>1, DrainExists
<1>5. ASSUME NEW g, NEW k \in 1..N
      PROVE  Here(g, k) = IF ~Drains(b, k) THEN Stop(b, k)
                          ELSE [g[EndOfPacket(b, k)] EXCEPT !.packets = <<PacketAt(b, k)>> \o @]
  BY DEF Drains, Stop, PacketAt
<1>6. \A k \in 1..N : f[k] = Here(f, k)
  <2> HIDE DEF Here
  <2> QED
    BY <1>4, <1>5 DEF Drain
<1>7. Solved(from)
  <2>1. f = [k \in 1..N |-> f[k]]
    BY <1>4 DEF Drain
  <2>2. Solved(f)
    <3> HIDE DEF Here, N
    <3> QED
      BY <1>6, <2>1
  <2> HIDE DEF Solved
  <2> QED
    BY <2>2 DEF from
<1>8. ASSUME NEW k \in 1..N, \A j \in (k + 1)..N : from[j] = f[j] PROVE from[k] = f[k]
  <2>1. from[k] = Here(from, k) /\ f[k] = Here(f, k)
    <3> HIDE DEF Here
    <3> QED
      BY <1>6, <1>7
  <2> HIDE DEF Here
  <2>2. CASE ~Drains(b, k)
    BY <1>5, <2>1, <2>2
  <2>3. CASE Drains(b, k)
    <3>1. from[EndOfPacket(b, k)] = f[EndOfPacket(b, k)]
      BY <1>1, <1>8, <2>3, DrainsOnward
    <3>2. Here(from, k) = [from[EndOfPacket(b, k)] EXCEPT !.packets = <<PacketAt(b, k)>> \o @]
      BY <1>5, <2>3
    <3>3. Here(f, k) = [f[EndOfPacket(b, k)] EXCEPT !.packets = <<PacketAt(b, k)>> \o @]
      BY <1>5, <2>3
    <3> QED
      BY <2>1, <3>1, <3>2, <3>3
  <2> QED
    BY <2>2, <2>3
<1>9. \A k \in 1..N : from[k] = f[k]
  <2> DEFINE S == {k \in 1..N : from[k] = f[k]}
  <2>1. \A k \in 1..N : (\A j \in (k + 1)..N : j \in S) => k \in S
    <3> HIDE DEF N
    <3> QED
      BY <1>8
  <2>2. 1..N \subseteq S
    <3> HIDE DEF S, N
    <3> QED
      BY <1>3, <2>1, DownwardInduction
  <2> QED
    BY <2>2
<1>10. from[1] = f[1]
  BY <1>3, <1>9
<1>11. /\ Drain(f, b)
       /\ Push(d, bytes) = [ok      |-> f[1].ok,
                                 packets |-> IF f[1].ok THEN f[1].packets ELSE <<>>,
                                 buffer  |-> From(b, f[1].at)]
  BY <1>2, <1>4, <1>10
<1> HIDE DEF Solved, Here, N
<1>12. \E g : /\ Drain(g, b)
              /\ Push(d, bytes) = [ok      |-> g[1].ok,
                                        packets |-> IF g[1].ok THEN g[1].packets ELSE <<>>,
                                        buffer  |-> From(b, g[1].at)]
  BY <1>11
<1> QED
  BY <1>1, <1>12 DEF b

\* The decoder of the link and that of the trace agree on f and g.
Agree(f, g, k) ==
  f[k].ok = TRUE => f[k].at = g[k].at /\ f[k].packets = PacketsOf(g[k].transfers)

\* What it is of a position where a packet is whole.
LEMMA DrainedValue ==
  ASSUME NEW b \in Bytes, NEW f, Drain(f, b), NEW k \in 1..(Len(b) + 1), Drains(b, k)
  PROVE  LET end == EndOfPacket(b, k) IN
         /\ f[k].ok = f[end].ok /\ f[k].at = f[end].at
         /\ f[k].packets = <<PacketAt(b, k)>> \o f[end].packets
<1> DEFINE end == EndOfPacket(b, k)
<1>1. end \in 1..(Len(b) + 1) /\ PacketAt(b, k) \in Bytes
  BY DrainsOnward DEF Bytes
<1>2. f[end] \in Pushed
  BY <1>1 DEF Drain
<1>3. f[k] = [f[end] EXCEPT !.packets = <<PacketAt(b, k)>> \o @]
  BY DEF Drain
<1> QED
  BY <1>1, <1>2, <1>3, DrainedInFront

\* From every position on, decoder and trace frame the same packets and stop at the
\* same byte, unless the decoder meets a header that does not decode.
LEMMA SameScan ==
  ASSUME NEW b \in Bytes, NEW f, NEW g, Drain(f, b), Scan(g, b), NEW i \in 1..(Len(b) + 1)
  PROVE  Agree(f, g, i)
<1> DEFINE N == Len(b) + 1
           S == {k \in 1..N : Agree(f, g, k)}
<1>1. N \in Nat
  BY DEF Bytes
<1>2. ASSUME NEW k \in 1..N, \A j \in (k + 1)..N : Agree(f, g, j) PROVE Agree(f, g, k)
  <2>1. Onward(b, k) = k <=> ~HasHeader(b, k) \/ (Decodes(b, k) /\ ~Complete(b, k))
    BY OnwardGoes
  <2>2. g[k] = IF Onward(b, k) = k THEN [transfers |-> <<>>, at |-> k]
               ELSE [transfers |-> <<Passed(b, k)>> \o g[Onward(b, k)].transfers,
                     at        |-> g[Onward(b, k)].at]
    BY DEF Scan
  <2>3. CASE ~Drains(b, k)
    <3>1. f[k] = Stop(b, k)
      BY <2>3 DEF Drain
    <3>2. f[k].at = k /\ f[k].packets = <<>>
      BY <3>1 DEF Stop
    <3>3. f[k].ok = TRUE => ~(HasHeader(b, k) /\ ~Decodes(b, k))
      BY <3>1 DEF Stop
    <3>4. f[k].ok = TRUE => Onward(b, k) = k
      BY <2>1, <2>3, <3>3 DEF Drains
    <3>5. Onward(b, k) = k => g[k].at = k /\ g[k].transfers = <<>>
      BY <2>2
    <3> QED
      BY <3>2, <3>4, <3>5, OfNone DEF Agree
  <2>4. CASE Drains(b, k)
    <3> DEFINE end == EndOfPacket(b, k)
               p == Passed(b, k)
    <3>1. end \in (k + 1)..N /\ PacketAt(b, k) \in Bytes
      BY <2>4, DrainsOnward
    <3>2. Onward(b, k) = end /\ end # k
      BY <1>1, <2>4, <3>1 DEF Onward, Drains
    <3>3. p \in ATransfer /\ p.kind = "packet" /\ p.bytes = PacketAt(b, k)
      BY <2>4, <3>2, PassedTyped DEF Passed, Transfer, PacketAt, Drains
    <3>4. g[end].transfers \in Seq(ATransfer)
      BY <1>1, <3>1 DEF Scan, Scans
    <3>5. g[k].at = g[end].at /\ g[k].transfers = <<p>> \o g[end].transfers
      BY <2>2, <3>2
    <3>6. PacketsOf(<<p>>) = <<PacketAt(b, k)>>
      BY <3>3, PacketsOfOne
    <3>7. <<p>> \in Seq(ATransfer)
      BY <3>3
    <3> HIDE DEF end, p
    <3>8. PacketsOf(<<p>> \o g[end].transfers) = PacketsOf(<<p>>) \o PacketsOf(g[end].transfers)
      BY <3>4, <3>7, PacketsOfConcat
    <3>9. /\ f[k].ok = f[end].ok /\ f[k].at = f[end].at
          /\ f[k].packets = <<PacketAt(b, k)>> \o f[end].packets
      BY <2>4, DrainedValue DEF end
    <3>10. Agree(f, g, end)
      BY <1>2, <3>1
    <3>11. CASE f[k].ok = TRUE
      <4>1. f[end].ok = TRUE
        BY <3>9, <3>11, Zenon
      <4>2. f[end].at = g[end].at /\ f[end].packets = PacketsOf(g[end].transfers)
        BY <3>10, <4>1 DEF Agree
      <4>3. f[k].packets = PacketsOf(g[k].transfers)
        BY <3>5, <3>6, <3>8, <3>9, <4>2
      <4> QED
        BY <3>5, <3>9, <4>2, <4>3 DEF Agree
    <3> QED
      BY <3>11 DEF Agree
  <2> QED
    BY <2>3, <2>4
<1>3. \A k \in 1..N : (\A j \in (k + 1)..N : j \in S) => k \in S
  <2> HIDE DEF N
  <2> QED
    BY <1>2
<1>4. 1..N \subseteq S
  <2> HIDE DEF S, N
  <2> QED
    BY <1>1, <1>3, DownwardInduction
<1> QED
  BY <1>4

\* Where the decoder stays no packet is whole: there is no header, or it does
\* not decode, which is the error, or more bytes are to come.
Stays(f, b, k) ==
  /\ f[k].at \in k..(Len(b) + 1) /\ ~Drains(b, f[k].at)
  /\ f[k].ok = FALSE <=> HasHeader(b, f[k].at) /\ ~Decodes(b, f[k].at)

\* It stays where no packet is whole, with an error just if a header is the reason.
LEMMA DrainStays ==
  ASSUME NEW b \in Bytes, NEW f, Drain(f, b), NEW i \in 1..(Len(b) + 1)
  PROVE  Stays(f, b, i)
<1> DEFINE N == Len(b) + 1
           S == {k \in 1..N : Stays(f, b, k)}
<1>1. N \in Nat
  BY DEF Bytes
<1>2. ASSUME NEW k \in 1..N, \A j \in (k + 1)..N : Stays(f, b, j) PROVE Stays(f, b, k)
  <2>1. CASE ~Drains(b, k)
    <3>1. f[k] = Stop(b, k)
      BY <2>1 DEF Drain
    <3>2. f[k].at = k /\ (f[k].ok = FALSE <=> HasHeader(b, k) /\ ~Decodes(b, k))
      BY <3>1 DEF Stop
    <3> QED
      BY <1>1, <2>1, <3>2 DEF Stays
  <2>2. CASE Drains(b, k)
    <3>1. EndOfPacket(b, k) \in (k + 1)..N
      BY <2>2, DrainsOnward
    <3>2. f[k].ok = f[EndOfPacket(b, k)].ok /\ f[k].at = f[EndOfPacket(b, k)].at
      BY <2>2, DrainedValue
    <3>3. Stays(f, b, EndOfPacket(b, k))
      BY <1>2, <3>1
    <3>4. f[k].at \in k..N /\ ~Drains(b, f[k].at)
      BY <1>1, <3>1, <3>2, <3>3 DEF Stays
    <3>5. f[k].ok = FALSE <=> HasHeader(b, f[k].at) /\ ~Decodes(b, f[k].at)
      BY <3>2, <3>3, Zenon DEF Stays
    <3> QED
      BY <3>4, <3>5 DEF Stays
  <2> QED
    BY <2>1, <2>2
<1>3. \A k \in 1..N : (\A j \in (k + 1)..N : j \in S) => k \in S
  <2> HIDE DEF N
  <2> QED
    BY <1>2
<1>4. 1..N \subseteq S
  <2> HIDE DEF S, N
  <2> QED
    BY <1>1, <1>3, DownwardInduction
<1> QED
  BY <1>4

\* What PacketDecoder::push returns, and what the trace makes of the same bytes.
LEMMA PushAgrees ==
  ASSUME NEW d \in Bytes, NEW bytes \in Bytes
  PROVE  LET push == Push(d, bytes)
             b == d \o bytes
         IN /\ b \in Bytes /\ push \in [ok : BOOLEAN, packets : Seq(Bytes), buffer : Bytes]
            /\ push.ok = TRUE =>
                 /\ push.packets = PacketsOf(ActiveTransfers(b, 1).transfers)
                 /\ push.buffer = ActiveTransfers(b, 1).decoder.bytes
<1> DEFINE b == d \o bytes
           push == Push(d, bytes)
<1>1. b \in Bytes
  BY PushDrains
<1>2. PICK f : /\ Drain(f, b)
               /\ Push(d, bytes) = [ok      |-> f[1].ok,
                                    packets |-> IF f[1].ok THEN f[1].packets ELSE <<>>,
                                    buffer  |-> From(b, f[1].at)]
  BY PushDrains
<1> HIDE DEF b
<1>3. 1 \in 1..(Len(b) + 1)
  BY <1>1 DEF Bytes
<1>4. f[1] \in Pushed /\ Stays(f, b, 1)
  BY <1>1, <1>2, <1>3, DrainStays DEF Drain
<1>5. From(b, f[1].at) \in Bytes
  BY <1>1, <1>4, FromTyped DEF Stays
<1>6. push \in [ok : BOOLEAN, packets : Seq(Bytes), buffer : Bytes]
  <2>1. f[1].ok \in BOOLEAN /\ f[1].packets \in Seq(Bytes)
    BY <1>4 DEF Pushed
  <2>2. (IF f[1].ok THEN f[1].packets ELSE <<>>) \in Seq(Bytes)
    BY <2>1
  <2> QED
    BY <1>2, <1>5, <2>1, <2>2
<1>7. ASSUME push.ok = TRUE
      PROVE  /\ push.packets = PacketsOf(ActiveTransfers(b, 1).transfers)
             /\ push.buffer = ActiveTransfers(b, 1).decoder.bytes
  <2>1. PICK g : /\ Scan(g, b)
                 /\ ActiveTransfers(b, 1) =
                      [transfers |-> g[1].transfers,
                       decoder   |-> [bytes |-> SubSeq(b, g[1].at, Len(b)), active |-> TRUE]]
    BY <1>1, <1>3, ActiveScans
  <2>2. Agree(f, g, 1)
    BY <1>1, <1>2, <1>3, <2>1, SameScan
  <2>3. f[1].ok = TRUE
    BY <1>2, <1>7
  <2>4. push.packets = f[1].packets /\ push.buffer = From(b, f[1].at)
    BY <1>2, <2>3
  <2> QED
    BY <2>1, <2>2, <2>3, <2>4 DEF Agree, From
<1> QED
  BY <1>1, <1>6, <1>7 DEF b

-----------------------------------------------------------------------------
(* The transport and its driver.                                           *)

\* An operation and an outcome are records with these fields.
IoRecord == io = [state |-> io.state, op |-> io.op, data |-> io.data, bytes |-> io.bytes]

\* The driver's operation moves bytes, or has ended.
Ongoing == io.state \in {"pending", "cancelled"}
Over == io.state \in {"done", "aborted", "failed"}

\* While a call is under way its operation is at the driver with its memory and
\* the handle is open; between calls only an abandoned one may be left.
CallHolds ==
  IF step = "idle"
  THEN io.state # "none" => buffer = "leaked" /\ io.state = "cancelled"
  ELSE buffer = "held" /\ handle = "open" /\ (Ongoing \/ Over)

\* Memory is leaked only with the handle.
LeakCloses == buffer = "leaked" => handle = "closed" /\ step = "idle"

\* What the printer was sent is what was reported, and the part of a write that
\* is under way or just over.  An abandoned write was reported as failed.
SentSoFar ==
  /\ step = "idle" /\ io.op = "write" => doubt
  /\ ~doubt =>
       arrived = IF step # "idle" /\ io.op = "write" /\ Over THEN told \o io.bytes ELSE told

IInv == IoRecord /\ CallHolds /\ LeakCloses /\ SentSoFar

-----------------------------------------------------------------------------
(* Every step keeps it.                                                    *)

\* Steps of the transport and of the driver.
LEMMA TransportKeeps ==
  ASSUME IInv, TransportStep
  PROVE  IInv'
<1> USE DEF IInv, IoRecord, CallHolds, LeakCloses, SentSoFar, Ongoing, Over, Return,
            Release, AbandonStalledIo, Counted, NoIo
<1>1. CASE WaitEnds
  BY <1>1 DEF WaitEnds
<1>2. CASE WaitTimesOut
  BY <1>2 DEF WaitTimesOut
<1>3. CASE Cancel
  BY <1>3 DEF Cancel
<1>4. CASE CancelFails
  BY <1>4 DEF CancelFails
<1>5. CASE CleanupEnds
  BY <1>5 DEF CleanupEnds
<1>6. CASE CleanupTimesOut
  BY <1>6 DEF CleanupTimesOut
<1> QED
  BY <1>1, <1>2, <1>3, <1>4, <1>5, <1>6 DEF TransportStep

\* The driver ends an operation that moves bytes.
LEMMA DriverKeeps ==
  ASSUME IInv, DriverEnds
  PROVE  IInv'
<1> USE DEF IInv, IoRecord, CallHolds, LeakCloses, SentSoFar, Ongoing, Over, NoIo
<1> PICK state \in {"done", "failed", "aborted"},
         moved \in Beginnings(IF io.op = "write" THEN io.data ELSE line) :
      /\ io' = IF step = "idle" THEN NoIo ELSE [io EXCEPT !.state = state, !.bytes = moved]
      /\ arrived' = IF io.op = "write" THEN arrived \o moved ELSE arrived
  BY DEF DriverEnds
<1>1. CASE step = "idle"
  BY <1>1 DEF DriverEnds
<1>2. CASE step # "idle"
  BY <1>2 DEF DriverEnds
<1> QED
  BY <1>1, <1>2

\* Calls of the session, which start between two operations.
LEMMA CallKeeps ==
  ASSUME IInv, NEW op, NEW data, Begin(op, data) \/ Refuse(op)
  PROVE  IInv'
<1> USE DEF IInv, IoRecord, CallHolds, LeakCloses, SentSoFar, Ongoing, Over
<1>1. CASE Begin(op, data)
  BY <1>1 DEF Begin
<1>2. CASE Refuse(op)
  BY <1>2 DEF Refuse
<1> QED
  BY <1>1, <1>2

\* The session takes an outcome, opens or closes the handle, or goes on without
\* the transport.
LEMMA SessionKeeps ==
  ASSUME IInv, step' = step, io' = io, buffer' = buffer, arrived' = arrived,
         told' = told, doubt' = doubt,
         \/ handle' = handle
         \/ step = "idle" /\ handle # "closed" /\ handle' = "open"
         \/ step = "idle" /\ handle' = "closed"
  PROVE  IInv'
BY DEF IInv, IoRecord, CallHolds, LeakCloses, SentSoFar, Ongoing, Over

-----------------------------------------------------------------------------
(* The steps of the session.                                               *)

SessionRecord ==
  session = [phase |-> session.phase, reads |-> session.reads,
             empty |-> session.empty, calls |-> session.calls]

\* Before the interface is opened no call was made and the choice is open.
Listed ==
  session.phase = "listed" => handle = "none" /\ step = "idle" /\ chosen.machine \in Machines

SInv == IInv /\ SessionRecord /\ Listed

\* A call of the session: it has chosen by then.
LEMMA CallsKeep ==
  ASSUME SInv, NEW op, NEW data, Calls(op, data), session.phase # "listed",
         NEW phase, phase # "listed", NEW empty,
         session' = [session EXCEPT !.phase = phase, !.calls = @ + 1, !.empty = empty]
  PROVE  SInv'
<1>1. IInv'
  BY CallKeeps DEF Calls, SInv
<1> QED
  BY <1>1 DEF SInv, SessionRecord, Listed

\* The session takes an outcome.
LEMMA TakeKeeps ==
  ASSUME SInv, NEW phase, phase # "listed", Take(phase),
         session'.phase # "listed", SessionRecord'
  PROVE  SInv'
<1>1. IInv'
  BY SessionKeeps DEF Take, SInv
<1> QED
  BY <1>1 DEF SInv, Listed

\* Every step of the specification keeps it.
LEMMA StepKeeps ==
  ASSUME SInv, [Next]_vars
  PROVE  SInv'
<1> USE DEF Phase
<1>1. CASE Open
  <2>1. IInv'
    BY <1>1, SessionKeeps DEF Open, SInv, Listed
  <2> QED
    BY <1>1, <2>1 DEF Open, SInv, SessionRecord, Listed
<1>2. CASE WriteEntryCommand
  BY <1>2, CallsKeep, session' = [session EXCEPT !.phase = "command", !.calls = @ + 1,
                                    !.empty = session.empty]
  DEF WriteEntryCommand, SInv, SessionRecord
<1>3. CASE ReadEntryReply
  BY <1>3, CallsKeep, session' = [session EXCEPT !.phase = "entry", !.calls = @ + 1,
                                    !.empty = session.empty]
  DEF ReadEntryReply, SInv, SessionRecord
<1>4. CASE Send
  BY <1>4, CallsKeep, session' = [session EXCEPT !.phase = "sending", !.calls = @ + 1,
                                    !.empty = session.empty]
  DEF Send, SInv, SessionRecord
<1>5. CASE Read
  BY <1>5, CallsKeep,
     session' = [session EXCEPT !.phase = "next", !.calls = @ + 1,
                   !.empty = IF session.phase = "linked" THEN 0 ELSE session.empty]
  DEF Read, SInv, SessionRecord
<1>6. CASE EntryCommandWritten
  BY <1>6, TakeKeeps DEF EntryCommandWritten, SInv, SessionRecord
<1>7. CASE EntryReplyRead
  <2>1. Take("entry") /\ session.phase = "entry"
    BY <1>7 DEF EntryReplyRead, Take
  <2>2. SessionRecord' /\ session'.phase # "listed"
    BY <1>7, <2>1 DEF EntryReplyRead, SInv, SessionRecord
  <2> QED
    BY <2>1, <2>2, TakeKeeps
<1>8. CASE Sent
  BY <1>8, TakeKeeps DEF Sent, SInv, SessionRecord
<1>9. CASE TakeReceived
  <2>1. IInv'
    BY <1>9, SessionKeeps DEF TakeReceived, ioVars, SInv
  <2> QED
    BY <1>9, <2>1 DEF TakeReceived, ioVars, SInv, SessionRecord, Listed
<1>10. CASE ReadFailed
  BY <1>10, TakeKeeps DEF ReadFailed, SInv, SessionRecord
<1>11. CASE ReadNothing
  BY <1>11, TakeKeeps DEF ReadNothing, Take, SInv, SessionRecord
<1>12. CASE ReadBytes
  BY <1>12, TakeKeeps DEF ReadBytes, Take, SInv, SessionRecord
<1>13. CASE Shutdown
  <2>1. IInv'
    BY <1>13, SessionKeeps DEF Shutdown, ioVars, SInv
  <2> QED
    BY <1>13, <2>1 DEF Shutdown, ioVars, SInv, SessionRecord, Listed
<1>14. CASE Close
  <2>1. IInv'
    BY <1>14, SessionKeeps DEF Close, CloseHandle, ioVars, SInv
  <2> QED
    BY <1>14, <2>1 DEF Close, SInv, SessionRecord, Listed
<1>15. CASE Transport
  <2>1. IInv'
    BY <1>15, TransportKeeps DEF Transport, SInv
  <2>2. session.phase # "listed"
    BY <1>15 DEF Transport, TransportStep, WaitEnds, WaitTimesOut, Cancel, CancelFails,
                 CleanupEnds, CleanupTimesOut, SInv, Listed
  <2> QED
    BY <1>15, <2>1, <2>2 DEF Transport, callerVars, SInv, SessionRecord, Listed
<1>16. CASE Driver
  <2>1. IInv'
    BY <1>16, DriverKeeps DEF Driver, SInv
  <2> QED
    BY <1>16, <2>1 DEF Driver, DriverEnds, callerVars, SInv, SessionRecord, Listed
<1>17. CASE UNCHANGED vars
  <2>1. IInv'
    BY <1>17, SessionKeeps DEF vars, ioVars, SInv
  <2> QED
    BY <1>17, <2>1 DEF vars, ioVars, callerVars, SInv, SessionRecord, Listed
<1> QED
  BY <1>1, <1>2, <1>3, <1>4, <1>5, <1>6, <1>7, <1>8, <1>9, <1>10, <1>11, <1>12, <1>13,
     <1>14, <1>15, <1>16, <1>17 DEF Next

\* The beginning has it.
LEMMA InitHolds == Init => SInv
BY DEF Init, IoInit, NoIo, SInv, IInv, IoRecord, CallHolds, LeakCloses, SentSoFar, Over,
       SessionRecord, Listed

\* So it always holds.
LEMMA AlwaysSInv == Spec => []SInv
<1>1. SInv /\ [Next]_vars => SInv'
  BY StepKeeps
<1> QED
  BY <1>1, InitHolds, PTL DEF Spec

-----------------------------------------------------------------------------
(* The memory is held, and writes are whole.                               *)

\* The driver never moves bytes of memory that was given back, and after an
\* operation was abandoned with its memory no other is started: overlapped_io
\* and abandon_stalled_io of windows_native.rs.
THEOREM MemoryIsHeld == Spec => []MemoryHeld
<1>1. SInv => MemoryHeld
  BY DEF SInv, IInv, CallHolds, LeakCloses, MemoryHeld, Ongoing, Over
<1> QED
  BY <1>1, AlwaysSInv, PTL

\* As long as no write failed, the printer was sent exactly what was reported
\* as written: write_all of windows_native.rs counts what was moved, and a
\* timeout is an error even if completion won the race.
THEOREM WritesAreWhole == Spec => []WrittenWhole
<1>1. SInv => WrittenWhole
  BY DEF SInv, IInv, SentSoFar, WrittenWhole
<1> QED
  BY <1>1, AlwaysSInv, PTL

-----------------------------------------------------------------------------
(* The choice of the interface.                                            *)

\* A finite set has a finite image.
LEMMA DevicesFinite ==
  ASSUME NEW ids, IsFiniteSet(ids)
  PROVE  IsFiniteSet({id.device : id \in ids})
<1> DEFINE f == [id \in ids |-> id.device]
<1> f \in Surjection(ids, {id.device : id \in ids})
  BY DEF Surjection
<1> QED
  BY FS_Surjection

\* So are the interface numbers that they name.
LEMMA ExplicitFinite ==
  ASSUME NEW ids, IsFiniteSet(ids)
  PROVE  IsFiniteSet(Explicit(ids))
<1> DEFINE named == {id.interface : id \in ids}
           f == [id \in ids |-> id.interface]
<1> f \in Surjection(ids, named)
  BY DEF Surjection
<1> IsFiniteSet(named)
  BY FS_Surjection
<1> QED
  BY FS_Subset DEF Explicit

\* The hardware IDs of a container are finitely many.
LEMMA IdsFinite ==
  ASSUME NEW m \in Machines, NEW container
  PROVE  IsFiniteSet(IdsOf(m, container))
<1> IdsOf(m, container) \subseteq UNION {d.ids : d \in m.devices}
  BY DEF IdsOf
<1> QED
  BY MachinesAssumption, FS_Subset

\* Of a machine that lists, the candidate of an interface is of the device that
\* all its hardware IDs name.
LEMMA CandidateDevice ==
  ASSUME NEW m \in Machines, Lists(m), NEW i \in m.interfaces
  PROVE  LET ids == IdsOf(m, i.container) IN
         ids # {} /\ \A id \in ids : id.device = Candidate(m, i).device
<1> DEFINE ids == IdsOf(m, i.container)
           devices == {id.device : id \in ids}
<1>1. IsFiniteSet(devices) /\ Cardinality(devices) = 1
  BY IdsFinite, DevicesFinite DEF Lists, Correlates
<1>2. PICK d : devices = {d}
  BY <1>1, FS_Singleton
<1>3. Candidate(m, i).device = CHOOSE e \in devices : TRUE
  BY DEF Candidate
<1> QED
  BY <1>2, <1>3

\* The candidate of an interface has a number only when it is the one named.
LEMMA CandidateInterface ==
  ASSUME NEW m \in Machines, NEW i \in m.interfaces, NEW number, number # NoInterface
  PROVE  Candidate(m, i).interface = number <=> Explicit(IdsOf(m, i.container)) = {number}
<1> DEFINE named == Explicit(IdsOf(m, i.container))
<1>1. IsFiniteSet(named) /\ NoInterface \notin named
  BY IdsFinite, ExplicitFinite DEF Explicit
<1>2. Cardinality(named) = 1 <=> \E x : named = {x}
  BY <1>1, FS_Singleton
<1>3. Candidate(m, i).interface = InterfaceOf(IdsOf(m, i.container))
  BY DEF Candidate
<1> HIDE DEF named
<1>4. InterfaceOf(IdsOf(m, i.container)) =
        IF Cardinality(named) = 1 THEN CHOOSE x \in named : TRUE ELSE NoInterface
  BY DEF InterfaceOf, named
<1>5. CASE Cardinality(named) = 1
  BY <1>2, <1>3, <1>4, <1>5 DEF named
<1>6. CASE Cardinality(named) # 1
  BY <1>2, <1>3, <1>4, <1>6 DEF named
<1> QED
  BY <1>5, <1>6

\* An interface is meant exactly when its candidate matches.
LEMMA MeantMatches ==
  ASSUME NEW m \in Machines, NEW s, Lists(m), NEW i \in m.interfaces
  PROVE  Meant(m, s, i) <=> Candidate(m, i) \in Matches(m, s)
<1>1. Candidate(m, i) \in Matches(m, s) <=>
        /\ Candidate(m, i).device = s.device
        /\ s.interface \in {NoInterface, Candidate(m, i).interface}
  BY DEF Matches, Candidates
<1>2. (\A id \in IdsOf(m, i.container) : id.device = s.device) <=>
        Candidate(m, i).device = s.device
  BY CandidateDevice
<1>3. (s.interface # NoInterface => Explicit(IdsOf(m, i.container)) = {s.interface}) <=>
        s.interface \in {NoInterface, Candidate(m, i).interface}
  BY CandidateInterface
<1> QED
  BY <1>1, <1>2, <1>3 DEF Meant

\* The candidates of a machine are finitely many.
LEMMA CandidatesFinite ==
  ASSUME NEW m \in Machines
  PROVE  IsFiniteSet(Candidates(m))
<1> DEFINE f == [i \in m.interfaces |-> Candidate(m, i)]
<1> f \in Surjection(m.interfaces, Candidates(m))
  BY DEF Surjection, Candidates
<1> QED
  BY MachinesAssumption, FS_Surjection

\* What is opened is the one interface that is meant.
LEMMA OpensMeant ==
  ASSUME SInv, Next, handle = "none", handle' = "open"
  PROVE  LET m == chosen.machine
             s == chosen.selector
         IN \E i \in m.interfaces :
              /\ i.path = chosen'.path /\ Meant(m, s, i)
              /\ \A j \in m.interfaces : Meant(m, s, j) => j = i
<1> DEFINE m == chosen.machine
           s == chosen.selector
<1>1. Open
  BY DEF Next, WriteEntryCommand, ReadEntryReply, Send, Read, Calls, Begin, Refuse,
         EntryCommandWritten, EntryReplyRead, Sent, ReadFailed, ReadNothing, ReadBytes, Take,
         TakeReceived, Shutdown, Close, CloseHandle, ioVars, Transport, TransportStep,
         WaitEnds, WaitTimesOut, Cancel, CancelFails, CleanupEnds, CleanupTimesOut, Release,
         AbandonStalledIo, Driver, DriverEnds
<1>2. m \in Machines /\ Selects(m, s) /\ chosen'.path = Selected(m, s).path
  BY <1>1 DEF Open, Opened, SInv, Listed
<1>3. PICK c : Matches(m, s) = {c}
  <2>1. IsFiniteSet(Matches(m, s))
    BY <1>2, CandidatesFinite, FS_Subset DEF Matches
  <2> QED
    BY <1>2, <2>1, FS_Singleton DEF Selects
<1>4. chosen'.path = c.path
  BY <1>2, <1>3 DEF Selected
<1>5. PICK i \in m.interfaces : c = Candidate(m, i)
  BY <1>3 DEF Matches, Candidates
<1>6. \A j \in m.interfaces : Meant(m, s, j) <=> Candidate(m, j) = c
  BY <1>2, <1>3, MeantMatches DEF Selects
<1>7. \A j \in m.interfaces : Candidate(m, j).path = j.path
  BY DEF Candidate
<1>8. i.path = chosen'.path /\ Meant(m, s, i)
  BY <1>4, <1>5, <1>6, <1>7
<1>9. \A a, b \in m.interfaces : a.path = b.path => a = b
  BY <1>2, MachinesAssumption, Zenon
<1>10. ASSUME NEW j \in m.interfaces, Meant(m, s, j) PROVE j = i
  <2> Candidate(m, j).path = Candidate(m, i).path
    BY <1>5, <1>6, <1>10
  <2> QED
    BY <1>7, <1>9
<1> QED
  BY <1>8, <1>10

\* The interface that select_native_candidate opens is one that was asked for,
\* and no other that is present could be meant: of a composite printer, of two
\* alike, and of several devices in a container nothing is guessed.
THEOREM OpensAsAsked == Spec => OpenedAsAsked
<1>1. SInv /\ [Next]_vars =>
        [handle = "none" /\ handle' = "open" =>
           LET m == chosen.machine
               s == chosen.selector
           IN \E i \in m.interfaces :
                /\ i.path = chosen'.path /\ Meant(m, s, i)
                /\ \A j \in m.interfaces : Meant(m, s, j) => j = i]_vars
  BY OpensMeant
<1> QED
  BY <1>1, AlwaysSInv, PTL DEF Spec, OpenedAsAsked

-----------------------------------------------------------------------------
(* Types.                                                                  *)

Phases == {"listed", "command", "entry", "linked", "sending", "next", "closing", "closed"}
Sessions == [phase : Phases, reads : 0..ReadLimit, empty : 0..MaxEmpty, calls : 0..MaxCalls]
Ios == [state : {"none", "pending", "cancelled", "done", "aborted", "failed"},
        op : {"none", "read", "write"}, data : Bytes, bytes : Bytes]
Results == [op : {"none", "read", "write"},
            outcome : {"none", "ok", "timeout", "failed", "unavailable"}, bytes : Bytes]

\* Types of the transport.  What failed moved no bytes that anyone is told of.
IoTyped ==
  /\ handle \in {"none", "open", "closed"}
  /\ step \in {"idle", "waiting", "cancelling", "cleaning"}
  /\ io \in Ios /\ buffer \in {"free", "held", "leaked"}
  /\ result \in Results /\ (result.outcome # "ok" => result.bytes = <<>>)
  /\ line \in Bytes /\ doubt \in BOOLEAN /\ gap \in BOOLEAN

\* Types of the session.  It gives up with the last read that it may make.
SessionTyped ==
  /\ session \in Sessions
  /\ session.phase = "entry" => session.reads < ReadLimit
  /\ session.phase = "next" => session.empty < MaxEmpty
  /\ session.phase \in {"listed", "command"} => session.reads = 0
  /\ saying \in Sayings /\ decoder \in Bytes
  /\ received \in Seq(Bytes) /\ taken \in Seq(Bytes)
  /\ broken \in BOOLEAN /\ aligned \in BOOLEAN

\* The trace has lost no byte, and keeps to its limit.
TraceTyped == trace \in Traces /\ Kept(trace) /\ Len(trace.entries) <= MaxEntries

Typed == IoTyped /\ SessionTyped /\ TraceTyped

\* Part of some bytes.
LEMMA BeginningTyped ==
  ASSUME NEW s \in Bytes, NEW n \in 0..Len(s)
  PROVE  SubSeq(s, 1, n) \in Bytes /\ Len(SubSeq(s, 1, n)) = n /\ From(s, n + 1) \in Bytes
<1>1. Len(s) \in Nat /\ n + 1 \in 1..(Len(s) + 1) /\ 1 \in 1..(Len(s) + 1) /\ n \in (1 - 1)..Len(s)
  BY DEF Bytes
<1>2. SubSeq(s, 1, n) \in Bytes /\ Len(SubSeq(s, 1, n)) = n - 1 + 1
  BY <1>1, SubSeqTyped DEF Bytes
<1> QED
  BY <1>1, <1>2, FromTyped

\* The steps of the transport keep its types.
LEMMA TransportTyped ==
  ASSUME IoTyped, TransportStep
  PROVE  IoTyped'
<1> USE DEF IoTyped, Ios, Results, Return, Release, AbandonStalledIo, Counted, NoIo
<1>1. <<>> \in Bytes /\ io.bytes \in Bytes
  BY DEF Bytes
<1>2. CASE WaitEnds
  BY <1>1, <1>2 DEF WaitEnds
<1>3. CASE WaitTimesOut
  BY <1>3 DEF WaitTimesOut
<1>4. CASE Cancel
  BY <1>4 DEF Cancel
<1>5. CASE CancelFails
  BY <1>1, <1>5 DEF CancelFails
<1>6. CASE CleanupEnds
  BY <1>1, <1>6 DEF CleanupEnds
<1>7. CASE CleanupTimesOut
  BY <1>1, <1>7 DEF CleanupTimesOut
<1> QED
  BY <1>2, <1>3, <1>4, <1>5, <1>6, <1>7 DEF TransportStep

\* So do those of the driver.
LEMMA DriverTyped ==
  ASSUME IoTyped, DriverEnds
  PROVE  IoTyped'
<1> USE DEF IoTyped, Ios, Results, NoIo
<1>1. PICK state \in {"done", "failed", "aborted"},
           moved \in Beginnings(IF io.op = "write" THEN io.data ELSE line) :
        /\ io' = IF step = "idle" THEN NoIo ELSE [io EXCEPT !.state = state, !.bytes = moved]
        /\ IF io.op = "write" THEN UNCHANGED <<line, gap>>
           ELSE /\ line' = SubSeq(line, Len(moved) + 1, Len(line))
                /\ gap' = (gap \/ (moved # <<>> /\ (state # "done" \/ step = "idle")))
  BY DEF DriverEnds
<1>2. moved \in Bytes /\ <<>> \in Bytes /\ (io.op # "write" => line' \in Bytes)
  <2> DEFINE s == IF io.op = "write" THEN io.data ELSE line
  <2>1. s \in Bytes
    OBVIOUS
  <2>2. PICK n \in 0..Len(s) : moved = SubSeq(s, 1, n)
    BY DEF Beginnings
  <2>3. moved \in Bytes /\ Len(moved) = n /\ From(s, n + 1) \in Bytes
    <3> HIDE DEF s
    <3> QED
      BY <2>1, <2>2, BeginningTyped
  <2>4. <<>> \in Bytes
    BY DEF Bytes
  <2> QED
    BY <1>1, <2>3, <2>4 DEF From
<1>3. io' \in Ios
  BY <1>1, <1>2
<1>4. line' \in Bytes /\ gap' \in BOOLEAN
  BY <1>1, <1>2
<1> QED
  BY <1>3, <1>4 DEF DriverEnds

\* So does the beginning of a call.
LEMMA CallTyped ==
  ASSUME IoTyped, NEW op \in {"read", "write"}, NEW data \in Bytes, Begin(op, data) \/ Refuse(op)
  PROVE  IoTyped'
<1> USE DEF IoTyped, Ios, Results
<1>1. <<>> \in Bytes
  BY DEF Bytes
<1>2. CASE Begin(op, data)
  BY <1>1, <1>2 DEF Begin
<1>3. CASE Refuse(op)
  BY <1>1, <1>3 DEF Refuse
<1> QED
  BY <1>2, <1>3

\* So does the end of one.
LEMMA OutcomeTyped ==
  ASSUME IoTyped, NEW phase, Take(phase), gap' \in BOOLEAN
  PROVE  IoTyped'
<1>1. <<>> \in Bytes
  BY DEF Bytes
<1> QED
  BY <1>1 DEF IoTyped, Take, NoResult, Results

\* The trace is given what succeeded.
LEMMA RecordedTyped ==
  ASSUME IoTyped, TraceTyped, trace' = Recorded
  PROVE  TraceTyped'
<1>1. CASE result.outcome # "ok"
  BY <1>1 DEF Recorded, TraceTyped
<1>2. CASE result.outcome = "ok"
  <2> DEFINE dir == IF result.op = "write" THEN "tx" ELSE "rx"
  <2>1. dir \in Directions /\ result.bytes \in Bytes
    BY DEF Directions, IoTyped, Results
  <2>2. trace' = Traced(dir, result.bytes)
    BY <1>2 DEF Recorded
  <2> HIDE DEF dir
  <2>3. /\ Traced(dir, result.bytes) \in Traces /\ Kept(Traced(dir, result.bytes))
        /\ Len(Traced(dir, result.bytes).entries) <= MaxEntries
    BY <2>1, TracedKeeps DEF TraceTyped
  <2> QED
    BY <2>2, <2>3 DEF TraceTyped
<1> QED
  BY <1>1, <1>2

\* Calls of the session.
LEMMA CallsTyped ==
  ASSUME Typed, NEW op \in {"read", "write"}, NEW data \in Bytes, Calls(op, data),
         session.phase # "listed",
         NEW phase \in Phases, NEW empty \in 0..MaxEmpty,
         session' = [session EXCEPT !.phase = phase, !.calls = @ + 1, !.empty = empty],
         phase = "entry" => session.phase = "entry", phase = "next" => empty < MaxEmpty,
         phase = "command" => session.phase = "command", phase # "listed"
  PROVE  Typed'
<1>1. IoTyped'
  BY CallTyped DEF Calls, Typed
<1>2. TraceTyped'
  BY DEF Calls, Typed, TraceTyped
<1>3. session' \in Sessions /\ session'.phase = phase /\ session'.empty = empty
      /\ session'.reads = session.reads
  <2>1. session.calls + 1 \in 0..MaxCalls /\ session \in Sessions
    BY BoundsAssumption DEF Calls, Typed, SessionTyped, Sessions
  <2> QED
    BY <2>1 DEF Sessions
<1>4. SessionTyped'
  BY <1>3 DEF Calls, Typed, SessionTyped
<1> QED
  BY <1>1, <1>2, <1>4 DEF Typed

\* What the session takes goes into the trace; the rest is its own.
LEMMA TakesTyped ==
  ASSUME Typed, NEW phase, Take(phase), gap' \in BOOLEAN, SessionTyped'
  PROVE  Typed'
<1>1. IoTyped'
  BY OutcomeTyped DEF Typed
<1>2. TraceTyped'
  BY RecordedTyped DEF Take, Typed
<1> QED
  BY <1>1, <1>2 DEF Typed

\* Every step keeps the types.
LEMMA TypedKeeps ==
  ASSUME Typed, [Next]_vars
  PROVE  Typed'
<1> USE DEF Phase
<1>a. /\ ReadLimit \in Nat \ {0} /\ MaxEmpty \in Nat \ {0} /\ MaxCalls \in Nat
      /\ <<>> \in Bytes /\ Command \in Bytes /\ EntryCommand \in Bytes
  BY BoundsAssumption, SayingsAssumption DEF Bytes, EntryCommand, ReservedBits
<1>1. CASE Open
  BY <1>1 DEF Open, Typed, IoTyped, SessionTyped, TraceTyped, Sessions, Phases
<1>2. CASE WriteEntryCommand
  <2>1. session' = [session EXCEPT !.phase = "command", !.calls = @ + 1, !.empty = session.empty]
    BY <1>2 DEF WriteEntryCommand, Typed, SessionTyped, Sessions
  <2>2. session.empty \in 0..MaxEmpty
    BY DEF Typed, SessionTyped, Sessions
  <2> QED
    BY <1>a, <1>2, <2>1, <2>2, CallsTyped DEF WriteEntryCommand, Phases
<1>3. CASE ReadEntryReply
  <2>1. session' = [session EXCEPT !.phase = "entry", !.calls = @ + 1, !.empty = session.empty]
    BY <1>3 DEF ReadEntryReply, Typed, SessionTyped, Sessions
  <2>2. session.empty \in 0..MaxEmpty
    BY DEF Typed, SessionTyped, Sessions
  <2> QED
    BY <1>a, <1>3, <2>1, <2>2, CallsTyped DEF ReadEntryReply, Phases
<1>4. CASE Send
  <2>1. session' = [session EXCEPT !.phase = "sending", !.calls = @ + 1, !.empty = session.empty]
    BY <1>4 DEF Send, Typed, SessionTyped, Sessions
  <2>2. session.empty \in 0..MaxEmpty
    BY DEF Typed, SessionTyped, Sessions
  <2> QED
    BY <1>a, <1>4, <2>1, <2>2, CallsTyped DEF Send, Phases
<1>5. CASE Read
  <2> DEFINE empty == IF session.phase = "linked" THEN 0 ELSE session.empty
  <2>1. session' = [session EXCEPT !.phase = "next", !.calls = @ + 1, !.empty = empty]
    BY <1>5 DEF Read, Typed, SessionTyped, Sessions
  <2>2. empty \in 0..MaxEmpty /\ empty < MaxEmpty
    BY <1>a, <1>5 DEF Read, Typed, SessionTyped, Sessions
  <2> HIDE DEF empty
  <2> QED
    BY <1>a, <1>5, <2>1, <2>2, CallsTyped DEF Read, Phases
<1>6. CASE EntryCommandWritten
  <2>1. SessionTyped'
    BY <1>a, <1>6 DEF EntryCommandWritten, Take, Typed, SessionTyped, Sessions, Phases
  <2> QED
    BY <1>6, <2>1, TakesTyped DEF EntryCommandWritten, Typed, IoTyped
<1>7. CASE EntryReplyRead
  <2> DEFINE reply == decoder \o result.bytes
             end == EndOfReply(reply)
             found == result.bytes # <<>> /\ end # 0
  <2>1. reply \in Bytes
    BY ConcatProperties DEF Typed, IoTyped, SessionTyped, Results, Bytes
  <2> HIDE DEF reply
  <2>2. /\ Take("entry") /\ session.phase = "entry" /\ session.reads < ReadLimit
        /\ session' = [session EXCEPT !.reads = @ + 1,
                          !.phase = IF result.outcome # "ok" THEN "closing"
                                    ELSE IF found THEN "linked"
                                    ELSE IF session.reads + 1 = ReadLimit THEN "closing" ELSE @]
        /\ decoder' = IF found THEN <<>> ELSE reply
        /\ gap' = (gap \/ (found /\ end < Len(reply)))
        /\ aligned' = (found /\ end = Len(reply) /\ trace'.rx.active)
        /\ UNCHANGED <<received, taken, broken, saying>>
    BY <1>7 DEF EntryReplyRead, Take, Typed, SessionTyped, reply
  <2> HIDE DEF found
  <2>3. decoder' \in Bytes
    BY <1>a, <2>1, <2>2
  <2>4. gap' \in BOOLEAN /\ aligned' \in BOOLEAN
    BY <2>2
  <2>5. session' \in Sessions
    <3> DEFINE phase == IF result.outcome # "ok" THEN "closing"
                        ELSE IF found THEN "linked"
                        ELSE IF session.reads + 1 = ReadLimit THEN "closing" ELSE session.phase
               reads == session.reads + 1
    <3>1. phase \in Phases
      BY <2>2 DEF Phases
    <3>2. reads \in 0..ReadLimit
      BY <1>a, <2>2 DEF Typed, SessionTyped, Sessions
    <3>3. session' = [session EXCEPT !.reads = reads, !.phase = phase]
      BY <2>2
    <3> HIDE DEF phase, reads
    <3> QED
      BY <3>1, <3>2, <3>3 DEF Typed, SessionTyped, Sessions
  <2>6. /\ session'.phase = "entry" => session'.reads < ReadLimit
        /\ session'.phase \notin {"next", "listed", "command"}
    BY <1>a, <2>2 DEF Typed, SessionTyped, Sessions
  <2>7. SessionTyped'
    BY <2>2, <2>3, <2>4, <2>5, <2>6 DEF Typed, SessionTyped
  <2> QED
    BY <2>2, <2>4, <2>7, TakesTyped
<1>8. CASE Sent
  <2>1. SessionTyped'
    BY <1>a, <1>8 DEF Sent, Take, Typed, SessionTyped, Sessions, Phases
  <2> QED
    BY <1>8, <2>1, TakesTyped DEF Sent, Typed, IoTyped
<1>9. CASE TakeReceived
  <2>1. taken' \in Seq(Bytes) /\ received' \in Seq(Bytes)
    <3>1. Head(received) \in Bytes /\ Tail(received) \in Seq(Bytes)
      BY <1>9, HeadTailProperties DEF TakeReceived, Typed, SessionTyped
    <3> QED
      BY <1>9, <3>1, AppendProperties DEF TakeReceived, Typed, SessionTyped
  <2> QED
    BY <1>9, <2>1 DEF TakeReceived, ioVars, Typed, IoTyped, SessionTyped, TraceTyped
<1>10. CASE ReadFailed
  <2>1. SessionTyped'
    BY <1>a, <1>10 DEF ReadFailed, Take, Typed, SessionTyped, Sessions, Phases
  <2> QED
    BY <1>10, <2>1, TakesTyped DEF ReadFailed, Typed, IoTyped
<1>11. CASE ReadNothing
  <2> DEFINE phase == IF session.empty + 1 = MaxEmpty THEN "linked" ELSE session.phase
             empty == session.empty + 1
  <2>2. /\ session' = [session EXCEPT !.empty = empty, !.phase = phase] /\ session.phase = "next"
        /\ UNCHANGED <<decoder, received, taken, broken, aligned, saying>>
    BY <1>11 DEF ReadNothing, Take
  <2>3. /\ phase \in {"next", "linked"} /\ empty \in 0..MaxEmpty
        /\ phase = "next" => empty < MaxEmpty
    BY <1>a, <2>2 DEF Typed, SessionTyped, Sessions
  <2> HIDE DEF phase, empty
  <2>4. session' \in Sessions /\ session'.phase = phase /\ session'.empty = empty
    BY <2>2, <2>3 DEF Typed, SessionTyped, Sessions, Phases
  <2>1. SessionTyped'
    BY <2>2, <2>3, <2>4 DEF Typed, SessionTyped
  <2> QED
    BY <1>11, <2>1, TakesTyped DEF ReadNothing, Typed, IoTyped
<1>12. CASE ReadBytes
  <2> DEFINE push == Push(decoder, result.bytes)
  <2>1. push \in [ok : BOOLEAN, packets : Seq(Bytes), buffer : Bytes]
    BY PushAgrees DEF Typed, IoTyped, SessionTyped, Results
  <2> HIDE DEF push
  <2>2. /\ Take("next") /\ session.phase = "next" /\ decoder' = push.buffer
        /\ broken' = (broken \/ ~push.ok)
        /\ IF push.packets = <<>> THEN UNCHANGED <<received, taken>>
           ELSE received' = Tail(push.packets) /\ taken' = Append(taken, Head(push.packets))
        /\ session' = [session EXCEPT !.empty = 0,
                          !.phase = IF push.ok /\ push.packets = <<>> THEN @ ELSE "linked"]
        /\ UNCHANGED <<gap, aligned, saying>>
    BY <1>12 DEF ReadBytes, Take, push
  <2>3. taken' \in Seq(Bytes) /\ received' \in Seq(Bytes)
    <3>1. CASE push.packets = <<>>
      BY <2>2, <3>1 DEF Typed, SessionTyped
    <3>2. CASE push.packets # <<>>
      <4>1. Head(push.packets) \in Bytes /\ Tail(push.packets) \in Seq(Bytes)
        BY <2>1, <3>2, HeadTailProperties
      <4> DEFINE x == Head(push.packets)
      <4>2. x \in Bytes /\ taken \in Seq(Bytes)
        BY <4>1 DEF Typed, SessionTyped
      <4>3. taken' = Append(taken, x) /\ received' = Tail(push.packets)
        BY <2>2, <3>2
      <4> HIDE DEF x
      <4>4. Append(taken, x) \in Seq(Bytes)
        BY <4>2, AppendProperties
      <4> QED
        BY <4>1, <4>3, <4>4
    <3> QED
      BY <3>1, <3>2
  <2>4. decoder' \in Bytes /\ broken' \in BOOLEAN
    BY <2>1, <2>2
  <2>5. session' \in Sessions /\ session'.phase \in {"next", "linked"} /\ session'.empty = 0
    <3> DEFINE phase == IF push.ok /\ push.packets = <<>> THEN session.phase ELSE "linked"
    <3>1. phase \in {"next", "linked"}
      BY <2>2
    <3>2. session' = [session EXCEPT !.empty = 0, !.phase = phase]
      BY <2>2
    <3>3. 0 \in 0..MaxEmpty
      BY <1>a
    <3> HIDE DEF phase
    <3> QED
      BY <3>1, <3>2, <3>3 DEF Typed, SessionTyped, Sessions, Phases
  <2>6. SessionTyped'
    BY <1>a, <2>2, <2>3, <2>4, <2>5 DEF Typed, SessionTyped
  <2> QED
    BY <2>2, <2>6, TakesTyped DEF Typed, IoTyped
<1>13. CASE Shutdown
  BY <1>13 DEF Shutdown, ioVars, Typed, IoTyped, SessionTyped, TraceTyped, Sessions, Phases
<1>14. CASE Close
  BY <1>14 DEF Close, CloseHandle, ioVars, Typed, IoTyped, SessionTyped, TraceTyped, Sessions,
               Phases
<1>15. CASE Transport
  <2>1. IoTyped'
    BY <1>15, TransportTyped DEF Transport, Typed
  <2> QED
    BY <1>15, <2>1 DEF Transport, callerVars, Typed, SessionTyped, TraceTyped
<1>16. CASE Driver
  <2>1. IoTyped'
    BY <1>16, DriverTyped DEF Driver, Typed
  <2> QED
    BY <1>16, <2>1 DEF Driver, callerVars, Typed, SessionTyped, TraceTyped
<1>17. CASE UNCHANGED vars
  BY <1>17 DEF vars, ioVars, callerVars, Typed, IoTyped, SessionTyped, TraceTyped
<1> QED
  BY <1>1, <1>2, <1>3, <1>4, <1>5, <1>6, <1>7, <1>8, <1>9, <1>10, <1>11, <1>12, <1>13,
     <1>14, <1>15, <1>16, <1>17 DEF Next

\* All that the printer says is bytes.
LEMMA SaidTyped ==
  ASSUME NEW s \in Sayings
  PROVE  /\ {s.noise, s.reply, s.rest} \subseteq Bytes /\ s.packets \in Seq(Bytes)
         /\ s.noise \o s.reply \in Bytes /\ FlattenSeq(s.packets) \in Bytes /\ Said(s) \in Bytes
<1>1. {s.noise, s.reply, s.rest} \subseteq Bytes /\ s.packets \in Seq(Bytes)
  BY SayingsAssumption DEF Bytes
<1>2. s.noise \o s.reply \in Bytes
  BY <1>1, ConcatProperties DEF Bytes
<1>3. FlattenSeq(s.packets) \in Bytes
  BY <1>1, FlattenTyped DEF Bytes
<1>4. (s.noise \o s.reply) \o FlattenSeq(s.packets) \in Bytes
  BY <1>2, <1>3, ConcatProperties DEF Bytes
<1>5. ((s.noise \o s.reply) \o FlattenSeq(s.packets)) \o s.rest \in Bytes
  BY <1>1, <1>4, ConcatProperties DEF Bytes
<1> QED
  BY <1>1, <1>2, <1>3, <1>5 DEF Said

\* The beginning has them.
LEMMA InitTyped == Init => Typed
<1> SUFFICES ASSUME Init PROVE Typed
  OBVIOUS
<1>1. <<>> \in Bytes /\ line \in Bytes
  <2>1. Said(saying) \in Bytes
    BY SaidTyped DEF Init
  <2> QED
    BY <2>1 DEF Init, IoInit, Bytes
<1>2. IoTyped
  BY <1>1 DEF Init, IoInit, NoIo, NoResult, IoTyped, Ios, Results
<1>3. SessionTyped
  <2>1. 0 \in 0..ReadLimit /\ 0 \in 0..MaxEmpty /\ 0 \in 0..MaxCalls
    BY BoundsAssumption
  <2>2. session \in Sessions /\ session.phase = "listed" /\ session.reads = 0
    BY <2>1 DEF Init, Sessions, Phases
  <2>3. received \in Seq(Bytes) /\ taken \in Seq(Bytes)
    BY DEF Init
  <2>4. broken \in BOOLEAN /\ aligned \in BOOLEAN /\ saying \in Sayings /\ decoder = <<>>
    BY DEF Init
  <2> QED
    BY <1>1, <2>2, <2>3, <2>4 DEF SessionTyped
<1>4. trace \in Traces /\ trace.entries = <<>> /\ trace.tx.bytes = <<>> /\ trace.rx.bytes = <<>>
      /\ \A d \in Directions : trace.shed[d] = <<>> /\ trace.seen[d] = <<>>
  BY <1>1 DEF Init, NewTrace, NewTraceDecoder, TraceDecoder, Traces, Directions
<1>5. Kept(trace)
  <2>1. \A d \in Directions : BytesOf(<<>>, d) = <<>>
    BY FlattenEmpty DEF BytesOf
  <2>2. <<>> \o <<>> = <<>>
    OBVIOUS
  <2> QED
    BY <1>4, <2>1, <2>2 DEF Kept, Directions
<1>6. Len(trace.entries) <= MaxEntries
  BY <1>4, BoundsAssumption
<1> QED
  BY <1>2, <1>3, <1>4, <1>5, <1>6 DEF Typed, TraceTyped

\* So they always hold.
LEMMA AlwaysTyped == Spec => []Typed
<1>1. Typed /\ [Next]_vars => Typed'
  BY TypedKeeps
<1> QED
  BY <1>1, InitTyped, PTL DEF Spec

\* The state keeps to its types, and what is counted to its limits: the reads
\* of wait_for_entry_reply, the empty reads of next_packet, and the entries
\* that append_transfer keeps.
THEOREM TypeCorrect == Spec => []TypeOK
<1>1. Typed => TypeOK
  BY DEF Typed, IoTyped, SessionTyped, TraceTyped, TypeOK, Ios, Results, Sessions, Phases
<1> QED
  BY <1>1, AlwaysTyped, PTL

\* No byte of a transfer that succeeded is missing in the debug trace: whatever
\* the bytes are and however they are cut into transfers, append_captured puts
\* each of them in an entry or keeps it for one.
THEOREM TraceIsWhole == Spec => []TraceLosesNoByte
<1>1. Typed => TraceLosesNoByte
  BY DEF Typed, TraceTyped, Kept, Directions, TraceLosesNoByte
<1> QED
  BY <1>1, AlwaysTyped, PTL

-----------------------------------------------------------------------------
(* The entry reply in what was read.                                       *)

\* An entry reply ends at position i of b.
ReplyEnds(b, i) == SubSeq(b, i - 2, i) = EntryReply

\* EPSON_D4_ENTRY_REPLY is three bytes.
LEMMA ReplyIs ==
  EntryReply \in Bytes /\ Len(EntryReply) = 3 /\ EntryReply # <<>>
BY DEF EntryReply, Bytes

\* EndOfReply is the first of them.
LEMMA FirstReply ==
  ASSUME NEW b \in Bytes
  PROVE  /\ EndOfReply(b) # 0 => EndOfReply(b) \in 3..Len(b) /\ ReplyEnds(b, EndOfReply(b))
         /\ \A i \in 3..Len(b) : ReplyEnds(b, i) => EndOfReply(b) # 0 /\ EndOfReply(b) <= i
<1> DEFINE ends == {i \in 3..Len(b) : ReplyEnds(b, i)}
<1>1. EndOfReply(b) = IF ends = {} THEN 0 ELSE CHOOSE x \in ends : \A y \in ends : x <= y
  <2>1. ends = {i \in Len(EntryReply)..Len(b) :
                  SubSeq(b, i - Len(EntryReply) + 1, i) = EntryReply}
    BY ReplyIs DEF ReplyEnds
  <2> HIDE DEF ends
  <2> QED
    BY <2>1 DEF EndOfReply, Min
<1>2. ends \subseteq Nat
  OBVIOUS
<1>3. ASSUME ends # {} PROVE EndOfReply(b) \in ends /\ \A y \in ends : EndOfReply(b) <= y
  <2>1. \E x \in ends : \A y \in ends : x <= y
    <3> HIDE DEF ends
    <3> QED
      BY <1>2, <1>3, LeastNumber
  <2> HIDE DEF ends
  <2> QED
    BY <1>1, <1>3, <2>1
<1>4. ASSUME ends = {} PROVE EndOfReply(b) = 0
  BY <1>1, <1>4
<1>5. ASSUME EndOfReply(b) # 0 PROVE EndOfReply(b) \in ends
  BY <1>3, <1>4, <1>5
<1>6. ASSUME NEW i \in ends PROVE EndOfReply(b) # 0 /\ EndOfReply(b) <= i
  <2>1. EndOfReply(b) \in ends /\ EndOfReply(b) <= i
    BY <1>3
  <2> QED
    BY <2>1
<1> QED
  BY <1>5, <1>6

\* What is in the end of b is in b.
LEMMA ReplyInTail ==
  ASSUME NEW x \in Bytes, NEW b \in Bytes, IsPrefix(EntryReply, b)
  PROVE  LET all == x \o b IN
         /\ EndOfReply(all) # 0 /\ EndOfReply(all) <= Len(x) + 3
         /\ EndOfReply(all) = Len(all) => b = EntryReply
<1> DEFINE all == x \o b
           i == Len(x) + 3
<1>1. all \in Bytes /\ Len(all) = Len(x) + Len(b) /\ Len(x) \in Nat /\ Len(b) \in Nat
  BY ConcatProperties DEF Bytes
<1>2. 3 <= Len(b) /\ SubSeq(b, 1, 3) = EntryReply
  <2>1. SubSeq(EntryReply, 1, Len(EntryReply)) = EntryReply
    BY ReplyIs, SubSeqFull DEF Bytes
  <2> QED
    BY <2>1, ReplyIs DEF IsPrefix
<1>3. i \in 3..Len(all)
  BY <1>1, <1>2
<1>4. ReplyEnds(all, i)
  <2>1. i - 2 \in Len(x) + 1 .. Len(x) + Len(b) /\ i \in Len(x) + 1 .. Len(x) + Len(b)
    BY <1>1, <1>2
  <2>2. SubSeq(x \o b, i - 2, i) = SubSeq(b, (i - 2) - Len(x), i - Len(x))
    BY <2>1, SubSeqOfConcat2 DEF Bytes
  <2>3. (i - 2) - Len(x) = 1 /\ i - Len(x) = 3
    BY <1>1
  <2> QED
    BY <1>2, <2>2, <2>3 DEF ReplyEnds
<1> HIDE DEF all
<1>5. EndOfReply(all) # 0 /\ EndOfReply(all) <= i
  BY <1>1, <1>3, <1>4, FirstReply
<1>6. ASSUME EndOfReply(all) = Len(all) PROVE b = EntryReply
  <2>3. 3 <= Len(b)
    BY <1>2
  <2>4. Len(x) + Len(b) <= Len(x) + 3
    BY <1>1, <1>5, <1>6
  <2>5. Len(b) <= 3
    BY <1>1, <2>4
  <2> DEFINE n == Len(b)
  <2>6. n \in Nat /\ 3 <= n /\ n <= 3
    BY <1>1, <2>3, <2>5
  <2>2. SubSeq(b, 1, n) = b
    BY SubSeqFull DEF Bytes
  <2> HIDE DEF n
  <2>1. n = 3
    BY <2>6
  <2> QED
    BY <1>2, <2>1, <2>2
<1> QED
  BY <1>5, <1>6 DEF all

-----------------------------------------------------------------------------
(* The trace before it has seen the entry reply.                           *)

\* The decoder of the trace goes on waiting and has framed nothing.
StillWaits(r, b) ==
  /\ r.decoder.active = FALSE /\ r.decoder.bytes \in {b, <<>>}
  /\ PacketsOf(r.transfers) = <<>>

\* It has seen the entry reply and nothing behind it.
SeesReply(r) ==
  r.decoder.active = TRUE /\ r.decoder.bytes = <<>> /\ PacketsOf(r.transfers) = <<>>

\* Transfers that hold no packet, and more of them in front.
LEMMA NoPacketInFront ==
  ASSUME NEW r, NEW b \in Bytes, Accounts(r, b), PacketsOf(r.transfers) = <<>>,
         NEW x \in ATransfer, x.kind # "packet"
  PROVE  LET q == [r EXCEPT !.transfers = <<x>> \o @] IN
         PacketsOf(q.transfers) = <<>> /\ q.decoder = r.decoder
<1> DEFINE ts == r.transfers
           all == <<x>> \o ts
<1>1. ts \in Seq(ATransfer) /\ <<x>> \in Seq(ATransfer) /\ PacketsOf(<<x>>) = <<>>
  <2>1. ts \in Seq(ATransfer) /\ <<x>> \in Seq(ATransfer)
    BY DEF Accounts
  <2>2. PacketsOf(<<x>>) = <<>>
    BY PacketsOfOne
  <2> QED
    BY <2>1, <2>2
<1>2. PacketsOf(<<x>> \o ts) = PacketsOf(<<x>>) \o PacketsOf(ts)
  BY <1>1, PacketsOfConcat
<1>3. PacketsOf(all) = <<>>
  <2>1. <<>> \o <<>> = <<>>
    OBVIOUS
  <2> HIDE DEF ts
  <2> QED
    BY <1>1, <1>2, <2>1 DEF ts
<1> HIDE DEF all
<1>4. [r EXCEPT !.transfers = all].transfers = all /\ [r EXCEPT !.transfers = all].decoder = r.decoder
  BY DEF Accounts
<1> QED
  BY <1>3, <1>4 DEF all, ts

\* What the trace makes of bytes that are not, or just are, the entry reply.
LEMMA TransfersWait ==
  ASSUME NEW b \in Bytes
  PROVE  LET r == Transfers(b, FALSE, EntryReply) IN
         /\ ~IsPrefix(EntryReply, b) => StillWaits(r, b)
         /\ b = EntryReply => SeesReply(r)
<1> DEFINE r == Transfers(b, FALSE, EntryReply)
<1>1. CASE ~IsPrefix(EntryReply, b) /\ IsPrefix(b, EntryReply)
  <2> DEFINE d == [bytes |-> b, active |-> FALSE]
  <2>1. r = [transfers |-> <<>>, decoder |-> d]
    BY <1>1 DEF Transfers
  <2>4. d.bytes = b /\ d.active = FALSE
    OBVIOUS
  <2> HIDE DEF d, r
  <2>2. r.transfers = <<>> /\ r.decoder = d
    BY <2>1
  <2>3. IsPrefix(EntryReply, EntryReply)
    BY ReplyIs DEF IsPrefix
  <2> QED
    BY <1>1, <2>2, <2>3, <2>4, OfNone DEF StillWaits, r
<1>2. CASE ~IsPrefix(EntryReply, b) /\ ~IsPrefix(b, EntryReply)
  <2> DEFINE x == Transfer("raw", b)
  <2>1. x \in ATransfer /\ x.kind = "raw"
    BY DEF Transfer, ATransfer
  <2>2. r = [transfers |-> <<x>>, decoder |-> NewTraceDecoder]
    BY <1>2 DEF Transfers
  <2>3. r.transfers = <<x>> /\ r.decoder.bytes = <<>> /\ r.decoder.active = FALSE
    <3> HIDE DEF r, x
    <3>1. r.transfers = <<x>> /\ r.decoder = NewTraceDecoder
      BY <2>2
    <3> QED
      BY <3>1 DEF NewTraceDecoder
  <2> HIDE DEF x
  <2>4. PacketsOf(<<x>>) = <<>>
    BY <2>1, PacketsOfOne
  <2>5. IsPrefix(EntryReply, EntryReply)
    BY ReplyIs DEF IsPrefix
  <2> QED
    BY <1>2, <2>3, <2>4, <2>5 DEF StillWaits
<1>3. CASE IsPrefix(EntryReply, b)
  <2> SUFFICES ASSUME b = EntryReply PROVE SeesReply(r)
    BY <1>3
  <2> DEFINE rest == ActiveTransfers(b, 4)
             x == Transfer("entry", EntryReply)
  <2>1. PICK g : /\ Scan(g, b)
                 /\ \A i \in 1..(Len(b) + 1) :
                      ActiveTransfers(b, i) =
                        [transfers |-> g[i].transfers,
                         decoder   |-> [bytes |-> SubSeq(b, g[i].at, Len(b)), active |-> TRUE]]
    BY ActiveScans
  <2>2. Len(b) = 3 /\ 4 \in 1..(Len(b) + 1) /\ ~HasHeader(b, 4)
    BY ReplyIs DEF HasHeader, HeaderLength
  <2>3. Onward(b, 4) = 4
    BY <2>2 DEF Onward
  <2>4. g[4] = [transfers |-> <<>>, at |-> 4]
    BY <2>1, <2>2, <2>3 DEF Scan
  <2>5. SubSeq(b, 4, 3) = <<>>
    BY SubSeqEmpty
  <2>6. rest = [transfers |-> <<>>, decoder |-> [bytes |-> <<>>, active |-> TRUE]]
    BY <2>1, <2>2, <2>4, <2>5
  <2>7. rest.transfers = <<>> /\ rest.decoder.bytes = <<>> /\ rest.decoder.active = TRUE
    BY <2>6
  <2>8. Accounts(rest, From(b, 4)) /\ From(b, 4) \in Bytes
    BY <2>2, ActiveAccounts, FromTyped
  <2>9. x \in ATransfer /\ x.kind # "packet"
    BY ReplyIs DEF Transfer, ATransfer
  <2>10. r = [rest EXCEPT !.transfers = <<x>> \o @]
    BY <1>3, ReplyIs DEF Transfers
  <2> HIDE DEF rest, x
  <2>11. PacketsOf(rest.transfers) = <<>>
    BY <2>7, OfNone
  <2>12. PacketsOf(r.transfers) = <<>> /\ r.decoder = rest.decoder
    BY <2>8, <2>9, <2>10, <2>11, NoPacketInFront
  <2> QED
    BY <2>7, <2>12 DEF SeesReply
<1> QED
  BY <1>1, <1>2, <1>3

\* Bytes that come while the trace waits for the entry reply: what its decoder
\* keeps stays the end of all that came, and it begins behind the same byte as
\* the link if it has seen the reply when the link has, with nothing behind it.
LEMMA PushWaits ==
  ASSUME NEW d \in TraceDecoder, d.active = FALSE, NEW bytes \in Bytes, bytes # <<>>,
         NEW x \in Bytes
  PROVE  LET all == x \o (d.bytes \o bytes)
             r == TracePush(d, bytes, EntryReply)
         IN /\ EndOfReply(all) = 0 =>
                 /\ r.decoder.active = FALSE /\ PacketsOf(r.transfers) = <<>>
                 /\ \E z \in Bytes : all = z \o r.decoder.bytes
            /\ EndOfReply(all) # 0 /\ EndOfReply(all) = Len(all) /\ r.decoder.active = TRUE =>
                 r.decoder.bytes = <<>> /\ PacketsOf(r.transfers) = <<>>
<1> DEFINE b == d.bytes \o bytes
           all == x \o b
           r == TracePush(d, bytes, EntryReply)
<1>1. d.bytes \in Bytes
  BY DEF TraceDecoder
<1>2. b \in Bytes
  BY <1>1, ConcatProperties DEF Bytes
<1>3. all \in Bytes
  BY <1>2, ConcatProperties DEF Bytes
<1> DEFINE Fits(y, c) ==
             /\ all = y \o c
             /\ ~IsPrefix(EntryReply, c) => StillWaits(r, c)
             /\ c = EntryReply => SeesReply(r)
<1>4. \E y \in Bytes, c \in Bytes : Fits(y, c)
  <2>1. CASE d.bytes # <<>> /\ ~MayBeEntry(b, EntryReply)
    <3> DEFINE rest == Transfers(bytes, FALSE, EntryReply)
               raw == Transfer("raw", d.bytes)
    <3>1. r = [rest EXCEPT !.transfers = <<raw>> \o @]
      BY <2>1 DEF TracePush
    <3>2. raw \in ATransfer /\ raw.kind # "packet"
      BY <1>1 DEF Transfer, ATransfer
    <3>3. Accounts(rest, bytes)
      BY ReplyIs, TransfersAccount
    <3>4. /\ ~IsPrefix(EntryReply, bytes) => StillWaits(rest, bytes)
          /\ bytes = EntryReply => SeesReply(rest)
      BY TransfersWait
    <3> HIDE DEF rest, raw, r
    <3>5. PacketsOf(rest.transfers) = <<>> => PacketsOf(r.transfers) = <<>> /\ r.decoder = rest.decoder
      BY <3>1, <3>2, <3>3, NoPacketInFront
    <3>6. /\ ~IsPrefix(EntryReply, bytes) => StillWaits(r, bytes)
          /\ bytes = EntryReply => SeesReply(r)
      BY <3>4, <3>5, Zenon DEF StillWaits, SeesReply
    <3>7. x \o d.bytes \in Bytes
      BY <1>1, ConcatProperties DEF Bytes
    <3>8. (x \o d.bytes) \o bytes = all
      BY <1>1, JoinedAssociate DEF ++
    <3>9. Fits(x \o d.bytes, bytes)
      BY <3>6, <3>8
    <3> HIDE DEF Fits
    <3> QED
      BY <3>7, <3>9
  <2>2. CASE ~(d.bytes # <<>> /\ ~MayBeEntry(b, EntryReply))
    <3>1. r = Transfers(b, FALSE, EntryReply)
      BY <2>2 DEF TracePush
    <3> HIDE DEF b, r
    <3>2. /\ ~IsPrefix(EntryReply, b) => StillWaits(r, b)
          /\ b = EntryReply => SeesReply(r)
      BY <1>2, <3>1, TransfersWait
    <3>3. Fits(x, b)
      BY <3>2
    <3> HIDE DEF Fits
    <3> QED
      BY <1>2, <3>3
  <2> QED
    BY <2>1, <2>2
<1> HIDE DEF all, r, b
<1>5. PICK y \in Bytes, c \in Bytes : Fits(y, c)
  BY <1>4
<1>6. IsPrefix(EntryReply, c) => EndOfReply(all) # 0 /\ (EndOfReply(all) = Len(all) => c = EntryReply)
  BY <1>5, ReplyInTail
<1>7. ASSUME EndOfReply(all) = 0
      PROVE  /\ r.decoder.active = FALSE /\ PacketsOf(r.transfers) = <<>>
             /\ \E z \in Bytes : all = z \o r.decoder.bytes
  <2>1. StillWaits(r, c)
    BY <1>5, <1>6, <1>7
  <2>2. CASE r.decoder.bytes = c
    BY <1>5, <2>1, <2>2 DEF StillWaits
  <2>3. CASE r.decoder.bytes = <<>>
    <3>1. all = all \o <<>>
      BY <1>3, ConcatEmptySeq DEF Bytes
    <3> QED
      BY <1>3, <2>1, <2>3, <3>1 DEF StillWaits
  <2> QED
    BY <2>1, <2>2, <2>3 DEF StillWaits
<1>8. ASSUME EndOfReply(all) # 0, EndOfReply(all) = Len(all), r.decoder.active = TRUE
      PROVE  r.decoder.bytes = <<>> /\ PacketsOf(r.transfers) = <<>>
  <2>1. IsPrefix(EntryReply, c)
    BY <1>5, <1>8 DEF StillWaits
  <2>2. SeesReply(r)
    BY <1>5, <1>6, <1>8, <2>1
  <2> QED
    BY <2>2 DEF SeesReply
<1> QED
  BY <1>7, <1>8 DEF all, r, b

\* What the trace makes of what was read, and of what was written.
LEMMA TracedRx ==
  ASSUME trace \in Traces, NEW bytes \in Bytes
  PROVE  LET r == TracePush(trace.rx, bytes, EntryReply)
             t == Traced("rx", bytes)
         IN t.rx = r.decoder /\ t.framed = trace.framed \o PacketsOf(r.transfers)
<1> DEFINE r == TracePush(trace.rx, bytes, EntryReply)
<1>1. \E all, shed : Traced("rx", bytes) =
        [trace EXCEPT !.rx = r.decoder, !.entries = all, !.shed = shed,
                      !.seen["rx"] = @ \o bytes, !.framed = @ \o PacketsOf(r.transfers)]
  BY DEF Traced
<1> HIDE DEF r
<1> QED
  BY <1>1 DEF Traces, r

\* What is written leaves the decoder of the replies alone.
LEMMA TracedTx ==
  ASSUME trace \in Traces, NEW bytes \in Bytes
  PROVE  Traced("tx", bytes).rx = trace.rx /\ Traced("tx", bytes).framed = trace.framed
<1> DEFINE r == TracePush(trace.tx, bytes, EntryCommand)
<1>1. \E all, shed : Traced("tx", bytes) =
        [trace EXCEPT !.tx = r.decoder, !.entries = all, !.shed = shed,
                      !.seen["tx"] = @ \o bytes, !.framed = @ \o <<>>]
  BY DEF Traced
<1> HIDE DEF r
<1>2. trace.framed \in Seq(Bytes)
  BY DEF Traces
<1>3. trace.framed \o <<>> = trace.framed
  BY <1>2, ConcatEmptySeq
<1> QED
  BY <1>1, <1>3 DEF Traces

-----------------------------------------------------------------------------
(* The link and the trace agree on the packets.                            *)

\* What a session calls the transport for.
OpOf(phase) == IF phase \in {"command", "sending"} THEN "write" ELSE "read"

\* A call is under way, or its outcome waits, only where the session waits for it.
Serves ==
  /\ step # "idle" => /\ session.phase \in {"command", "entry", "sending", "next"}
                      /\ io.op = OpOf(session.phase) /\ result = NoResult
  /\ result # NoResult => /\ session.phase \in {"command", "entry", "sending", "next"}
                          /\ result.op = OpOf(session.phase)

\* Until D4 is entered the link has no packet, and what the decoder of the trace
\* keeps is the end of all that the link has read.
Early ==
  session.phase \in {"listed", "command", "entry"} =>
    /\ received = <<>> /\ taken = <<>> /\ aligned = FALSE /\ broken = FALSE
    /\ trace.rx.active = FALSE /\ trace.framed = <<>>
    /\ \E z \in Bytes : decoder = z \o trace.rx.bytes

\* From then on, if they began behind the same byte, both keep the same bytes and
\* have framed the same packets, until a header does not decode.
Late ==
  /\ session.phase = "next" => received = <<>>
  /\ session.phase \in {"linked", "sending", "next"} /\ aligned = TRUE /\ broken = FALSE =>
       /\ trace.rx.active = TRUE /\ trace.rx.bytes = decoder
       /\ trace.framed = taken \o received

FInv == Typed /\ Serves /\ Early /\ Late

\* A call of the session begins where none is under way.
LEMMA CallsServe ==
  ASSUME Serves, NEW op, NEW data, Calls(op, data), op = OpOf(session'.phase),
         session'.phase \in {"command", "entry", "sending", "next"}
  PROVE  Serves'
<1>1. CASE Begin(op, data)
  BY <1>1 DEF Begin, Serves
<1>2. CASE Refuse(op)
  BY <1>2 DEF Refuse, Serves, NoResult
<1> QED
  BY <1>1, <1>2 DEF Calls

\* When the outcome is taken, nothing is under way.
LEMMA TakeServes ==
  ASSUME Serves, NEW phase, Take(phase)
  PROVE  Serves' /\ result.op = OpOf(phase)
BY DEF Take, Serves

\* What the transport does in a call serves it.
LEMMA TransportServes ==
  ASSUME Serves, IoTyped, Transport
  PROVE  Serves'
<1> USE DEF Serves
<1>1. step # "idle" /\ session' = session
  BY DEF Transport, callerVars, TransportStep, WaitEnds, WaitTimesOut, Cancel, CancelFails,
         CleanupEnds, CleanupTimesOut
<1>2. ASSUME NEW outcome, Return(outcome) PROVE Serves'
  BY <1>1, <1>2 DEF Return
<1>3. CASE WaitTimesOut
  BY <1>1, <1>3 DEF WaitTimesOut
<1>4. CASE Cancel
  <2>1. io'.op = io.op
    BY <1>4 DEF Cancel, IoTyped, Ios
  <2> QED
    BY <1>1, <1>4, <2>1 DEF Cancel
<1> QED
  BY <1>2, <1>3, <1>4 DEF Transport, TransportStep, WaitEnds, CancelFails, CleanupEnds,
                          CleanupTimesOut

\* What the driver does leaves that alone.
LEMMA DriverServes ==
  ASSUME Serves, IoTyped, Driver
  PROVE  Serves'
<1>1. step # "idle" => io'.op = io.op
  BY DEF Driver, DriverEnds, IoTyped, Ios
<1> QED
  BY <1>1 DEF Driver, callerVars, DriverEnds, Serves

\* Every step keeps it.
LEMMA ServesKeeps ==
  ASSUME Typed, Serves, [Next]_vars
  PROVE  Serves'
<1> USE DEF Phase
<1>0. session \in Sessions
  BY DEF Typed, SessionTyped
<1>1. CASE Open
  BY <1>0, <1>1 DEF Open, Serves, Sessions
<1>2. CASE WriteEntryCommand
  BY <1>0, <1>2, CallsServe DEF WriteEntryCommand, OpOf, Sessions
<1>3. CASE ReadEntryReply
  BY <1>0, <1>3, CallsServe DEF ReadEntryReply, OpOf, Sessions
<1>4. CASE Send
  BY <1>0, <1>4, CallsServe DEF Send, OpOf, Sessions
<1>5. CASE Read
  BY <1>0, <1>5, CallsServe DEF Read, OpOf, Sessions
<1>6. CASE EntryCommandWritten
  BY <1>6, TakeServes DEF EntryCommandWritten
<1>7. CASE EntryReplyRead
  BY <1>7, TakeServes DEF EntryReplyRead
<1>8. CASE Sent
  BY <1>8, TakeServes DEF Sent
<1>9. CASE TakeReceived
  BY <1>9 DEF TakeReceived, ioVars, Serves
<1>10. CASE ReadFailed
  BY <1>10, TakeServes DEF ReadFailed
<1>11. CASE ReadNothing
  BY <1>11, TakeServes DEF ReadNothing
<1>12. CASE ReadBytes
  BY <1>12, TakeServes DEF ReadBytes
<1>13. CASE Shutdown
  BY <1>0, <1>13 DEF Shutdown, ioVars, Serves, Sessions
<1>14. CASE Close
  BY <1>0, <1>14 DEF Close, CloseHandle, ioVars, Serves, Sessions
<1>15. CASE Transport
  BY <1>15, TransportServes DEF Typed
<1>16. CASE Driver
  BY <1>16, DriverServes DEF Typed
<1>17. CASE UNCHANGED vars
  BY <1>17 DEF vars, ioVars, callerVars, Serves
<1> QED
  BY <1>1, <1>2, <1>3, <1>4, <1>5, <1>6, <1>7, <1>8, <1>9, <1>10, <1>11, <1>12, <1>13,
     <1>14, <1>15, <1>16, <1>17 DEF Next

\* The trace is not given what failed, and what is written does not concern it here.
LEMMA RecordedSame ==
  ASSUME Typed, trace' = Recorded, result.outcome # "ok" \/ result.op = "write"
  PROVE  trace'.rx = trace.rx /\ trace'.framed = trace.framed
<1>1. CASE result.outcome # "ok"
  BY <1>1 DEF Recorded
<1>2. CASE result.outcome = "ok"
  <2>1. trace' = Traced("tx", result.bytes)
    BY <1>2 DEF Recorded
  <2>2. trace \in Traces /\ result.bytes \in Bytes
    BY DEF Typed, TraceTyped, IoTyped, Results
  <2> QED
    BY <2>1, <2>2, TracedTx
<1> QED
  BY <1>1, <1>2

\* What was read goes through the decoder of the replies.
LEMMA RecordedRead ==
  ASSUME Typed, trace' = Recorded, result.outcome = "ok", result.op = "read"
  PROVE  LET r == TracePush(trace.rx, result.bytes, EntryReply) IN
         /\ trace'.rx = r.decoder /\ trace'.framed = trace.framed \o PacketsOf(r.transfers)
         /\ result.bytes = <<>> => trace'.rx = trace.rx /\ trace'.framed = trace.framed
<1> DEFINE r == TracePush(trace.rx, result.bytes, EntryReply)
<1>1. trace \in Traces /\ result.bytes \in Bytes
  BY DEF Typed, TraceTyped, IoTyped, Results
<1>2. trace' = Traced("rx", result.bytes)
  BY DEF Recorded
<1>3. trace'.rx = r.decoder /\ trace'.framed = trace.framed \o PacketsOf(r.transfers)
  BY <1>1, <1>2, TracedRx
<1>4. ASSUME result.bytes = <<>> PROVE trace'.rx = trace.rx /\ trace'.framed = trace.framed
  <2> DEFINE x == Transfer("empty", <<>>)
  <2>1. r.transfers = <<x>> /\ r.decoder = trace.rx
    BY <1>4 DEF TracePush
  <2>2. x \in ATransfer /\ x.kind = "empty"
    BY DEF Transfer, ATransfer, Bytes
  <2> HIDE DEF x, r
  <2>3. PacketsOf(r.transfers) = <<>>
    BY <2>1, <2>2, PacketsOfOne
  <2>4. trace.framed \o <<>> = trace.framed
    BY <1>1, ConcatEmptySeq DEF Traces
  <2> QED
    BY <1>3, <2>1, <2>3, <2>4
<1> QED
  BY <1>3, <1>4

\* The reply to the entry command.
LEMMA ReplyFrames ==
  ASSUME FInv, EntryReplyRead
  PROVE  Early' /\ Late'
<1> DEFINE bytes == result.bytes
           reply == decoder \o bytes
           end == EndOfReply(reply)
           found == bytes # <<>> /\ end # 0
           r == TracePush(trace.rx, bytes, EntryReply)
<1>1. /\ Take("entry") /\ trace' = Recorded
      /\ session' = [session EXCEPT !.reads = @ + 1,
                          !.phase = IF result.outcome # "ok" THEN "closing"
                                    ELSE IF found THEN "linked"
                                    ELSE IF session.reads + 1 = ReadLimit THEN "closing" ELSE @]
      /\ decoder' = IF found THEN <<>> ELSE reply
      /\ aligned' = (found /\ end = Len(reply) /\ trace'.rx.active)
      /\ UNCHANGED <<received, taken, broken>>
  BY DEF EntryReplyRead, Take
<1>2. /\ session.phase = "entry" /\ session \in Sessions /\ result.op = "read"
      /\ bytes \in Bytes /\ (result.outcome # "ok" => bytes = <<>>) /\ trace.rx \in TraceDecoder
  BY <1>1, TakeServes DEF FInv, Typed, SessionTyped, IoTyped, TraceTyped, Traces, Take, OpOf, Results
<1>3. /\ received = <<>> /\ taken = <<>> /\ aligned = FALSE /\ broken = FALSE
      /\ trace.rx.active = FALSE /\ trace.framed = <<>>
  BY <1>2 DEF FInv, Early
<1>4. PICK z \in Bytes : decoder = z \o trace.rx.bytes
  BY <1>2 DEF FInv, Early
<1>5. trace.rx.bytes \in Bytes
  BY <1>2 DEF TraceDecoder
<1>6. reply = z \o (trace.rx.bytes \o bytes)
  BY <1>2, <1>4, <1>5, JoinedAssociate DEF ++
<1>7. <<>> \o <<>> = <<>>
  OBVIOUS
<1> HIDE DEF r, reply, found
<1>8. CASE result.outcome # "ok"
  <2>1. session'.phase = "closing"
    BY <1>1, <1>2, <1>8 DEF Sessions
  <2> QED
    BY <2>1 DEF Early, Late
<1>9. CASE result.outcome = "ok" /\ bytes = <<>>
  <2>1. found = FALSE
    BY <1>9 DEF found
  <2>2. session'.phase \in {"entry", "closing"}
    BY <1>1, <1>2, <1>9, <2>1 DEF Sessions
  <2>3. trace'.rx = trace.rx /\ trace'.framed = trace.framed
    BY <1>1, <1>2, <1>9, RecordedRead DEF FInv
  <2>4. decoder' = decoder
    <3>1. decoder \o <<>> = decoder
      BY ConcatEmptySeq DEF FInv, Typed, SessionTyped, Bytes
    <3> QED
      BY <1>1, <1>9, <2>1, <3>1 DEF reply
  <2>5. aligned' = FALSE /\ decoder' = z \o trace'.rx.bytes
    BY <1>1, <1>4, <2>1, <2>3, <2>4
  <2>6. Early'
    BY <1>1, <1>3, <2>3, <2>5 DEF Early
  <2>7. Late'
    BY <2>2 DEF Late
  <2> QED
    BY <2>6, <2>7
<1>10. CASE result.outcome = "ok" /\ bytes # <<>>
  <2>1. trace'.rx = r.decoder /\ trace'.framed = trace.framed \o PacketsOf(r.transfers)
    BY <1>1, <1>2, <1>10, RecordedRead DEF FInv, r
  <2>2. /\ end = 0 =>
             /\ r.decoder.active = FALSE /\ PacketsOf(r.transfers) = <<>>
             /\ \E y \in Bytes : reply = y \o r.decoder.bytes
        /\ end # 0 /\ end = Len(reply) /\ r.decoder.active = TRUE =>
             r.decoder.bytes = <<>> /\ PacketsOf(r.transfers) = <<>>
    BY <1>2, <1>3, <1>6, <1>10, PushWaits DEF r
  <2>3. CASE end = 0
    <3>1. found = FALSE
      BY <2>3 DEF found
    <3>2. session'.phase \in {"entry", "closing"}
      BY <1>1, <1>2, <1>10, <3>1 DEF Sessions
    <3>3. decoder' = reply /\ aligned' = FALSE
      BY <1>1, <3>1
    <3>4. trace'.framed = <<>> /\ trace'.rx.active = FALSE
      BY <1>3, <1>7, <2>1, <2>2, <2>3
    <3>5. \E y \in Bytes : decoder' = y \o trace'.rx.bytes
      BY <2>1, <2>2, <2>3, <3>3
    <3>6. Early'
      BY <1>1, <1>3, <3>3, <3>4, <3>5 DEF Early
    <3>7. Late'
      BY <3>2 DEF Late
    <3> QED
      BY <3>6, <3>7
  <2>4. CASE end # 0
    <3>1. found = TRUE
      BY <1>10, <2>4 DEF found
    <3>2. session'.phase = "linked" /\ decoder' = <<>>
      BY <1>1, <1>2, <1>10, <3>1 DEF Sessions
    <3>3. ASSUME aligned' = TRUE
          PROVE  trace'.rx.bytes = <<>> /\ trace'.framed = <<>> /\ trace'.rx.active = TRUE
      <4>1. end = Len(reply) /\ trace'.rx.active = TRUE
        <5>1. trace'.rx.active
          BY <1>1, <3>3
        <5>2. r.decoder.active \in BOOLEAN
          <6>1. trace'.rx \in TraceDecoder
            BY <1>1, TypedKeeps DEF FInv, Typed, TraceTyped, Traces, Next
          <6> QED
            BY <2>1, <6>1 DEF TraceDecoder
        <5> QED
          BY <1>1, <2>1, <3>3, <5>1, <5>2
      <4> QED
        BY <1>3, <1>7, <2>1, <2>2, <2>4, <4>1
    <3>4. Late'
      BY <1>1, <1>3, <1>7, <3>2, <3>3 DEF Late
    <3> QED
      BY <3>2, <3>4 DEF Early
  <2> QED
    BY <2>3, <2>4
<1> QED
  BY <1>8, <1>9, <1>10

\* The bytes of a read of the link.
LEMMA ReadFrames ==
  ASSUME FInv, ReadBytes
  PROVE  Early' /\ Late'
<1> DEFINE bytes == result.bytes
           b == decoder \o bytes
           push == Push(decoder, bytes)
           a == ActiveTransfers(b, 1)
           r == TracePush(trace.rx, bytes, EntryReply)
<1>1. /\ Take("next") /\ trace' = Recorded /\ session.phase = "next" /\ session \in Sessions
      /\ result.outcome = "ok" /\ bytes # <<>> /\ decoder' = push.buffer
      /\ broken' = (broken \/ ~push.ok)
      /\ IF push.packets = <<>> THEN UNCHANGED <<received, taken>>
         ELSE received' = Tail(push.packets) /\ taken' = Append(taken, Head(push.packets))
      /\ session' = [session EXCEPT !.empty = 0,
                        !.phase = IF push.ok /\ push.packets = <<>> THEN @ ELSE "linked"]
      /\ aligned' = aligned
  BY DEF ReadBytes, Take, FInv, Typed, SessionTyped
<1>2. /\ result.op = "read" /\ bytes \in Bytes /\ received = <<>> /\ trace.rx \in TraceDecoder
      /\ decoder \in Bytes /\ taken \in Seq(Bytes) /\ {broken, aligned} \subseteq BOOLEAN
  BY <1>1, TakeServes DEF FInv, Typed, SessionTyped, IoTyped, TraceTyped, Traces, OpOf, Results, Late
<1>3. /\ push \in [ok : BOOLEAN, packets : Seq(Bytes), buffer : Bytes]
      /\ push.ok = TRUE => push.packets = PacketsOf(a.transfers) /\ push.buffer = a.decoder.bytes
  BY <1>2, PushAgrees
<1>4. trace'.rx = r.decoder /\ trace'.framed = trace.framed \o PacketsOf(r.transfers)
  BY <1>1, <1>2, RecordedRead DEF FInv
<1>5. session'.phase \in {"next", "linked"} /\ (session'.phase = "next" => push.packets = <<>>)
  <2> HIDE DEF push
  <2>1. push.ok \in BOOLEAN
    BY <1>3
  <2> QED
    BY <1>1, <2>1 DEF Sessions
<1>6. session'.phase = "next" => received' = <<>>
  BY <1>1, <1>2, <1>5
<1>7. ASSUME aligned' = TRUE, broken' = FALSE
      PROVE  /\ trace'.rx.active = TRUE /\ trace'.rx.bytes = decoder'
             /\ trace'.framed = taken' \o received'
  <2>1. push.ok = TRUE /\ broken = FALSE /\ aligned = TRUE
    <3> HIDE DEF push
    <3> QED
      BY <1>1, <1>2, <1>3, <1>7
  <2>2. trace.rx.active = TRUE /\ trace.rx.bytes = decoder /\ trace.framed = taken \o received
    BY <1>1, <2>1 DEF FInv, Late
  <2>3. r = a
    BY <1>1, <2>2 DEF TracePush, Transfers
  <2>4. b \in Bytes /\ 1 \in 1..(Len(b) + 1)
    BY <1>2, PushAgrees DEF Bytes
  <2>5. a.decoder.active = TRUE
    <3> HIDE DEF b
    <3> QED
      BY <2>4, ActiveAccounts
  <2> HIDE DEF push, a, r
  <2>6. trace'.rx.active = TRUE /\ trace'.rx.bytes = decoder'
    BY <1>1, <1>3, <1>4, <2>1, <2>3, <2>5
  <2>7. trace'.framed = taken \o push.packets
    <3>1. taken \o <<>> = taken
      BY <1>2, ConcatEmptySeq
    <3> QED
      BY <1>2, <1>3, <1>4, <2>1, <2>2, <2>3, <3>1
  <2>8. taken \o push.packets = taken' \o received'
    <3>1. CASE push.packets = <<>>
      BY <1>1, <1>2, <3>1
    <3>2. CASE push.packets # <<>>
      <4> DEFINE x == Head(push.packets)
                 xs == Tail(push.packets)
      <4>1. push.packets \in Seq(Bytes)
        BY <1>3
      <4>2. x \in Bytes /\ xs \in Seq(Bytes) /\ push.packets = <<x>> \o xs
        BY <3>2, <4>1, HeadTailProperties
      <4>3. Append(taken, x) = taken \o <<x>> /\ <<x>> \in Seq(Bytes)
        BY <1>2, <4>2, AppendIsConcat
      <4> HIDE DEF x, xs
      <4>4. (taken \o <<x>>) \o xs = taken \o (<<x>> \o xs)
        BY <1>2, <4>2, <4>3, ConcatAssociative
      <4> QED
        BY <1>1, <3>2, <4>2, <4>3, <4>4 DEF x, xs
    <3> QED
      BY <3>1, <3>2
  <2> QED
    BY <2>6, <2>7, <2>8
<1> QED
  BY <1>5, <1>6, <1>7 DEF Early, Late

\* Until the session is linked nothing but the reply changes what it has read.
LEMMA EarlyKeeps ==
  ASSUME FInv, [Next]_vars
  PROVE  Early' /\ Late'
<1> USE DEF Phase
<1>0. /\ session \in Sessions
      /\ session.phase \in {"command", "sending"} /\ result # NoResult => result.op = "write"
  BY DEF FInv, Typed, SessionTyped, Serves, OpOf
<1>1. ASSUME UNCHANGED <<decoder, received, taken, aligned, broken>>,
             trace'.rx = trace.rx, trace'.framed = trace.framed,
             session'.phase \in {"listed", "command", "entry"} =>
               session.phase \in {"listed", "command", "entry"},
             session'.phase \in {"linked", "sending", "next"} =>
               session.phase \in {"linked", "sending", "next"},
             session'.phase = "next" => received = <<>>
      PROVE  Early' /\ Late'
  BY <1>1 DEF FInv, Early, Late
<1>2. CASE Open
  BY <1>0, <1>1, <1>2 DEF Open, Sessions
<1>3. CASE WriteEntryCommand
  BY <1>0, <1>1, <1>3 DEF WriteEntryCommand, Calls, Sessions
<1>4. CASE ReadEntryReply
  BY <1>0, <1>1, <1>4 DEF ReadEntryReply, Calls, Sessions
<1>5. CASE Send
  BY <1>0, <1>1, <1>5 DEF Send, Calls, Sessions
<1>6. CASE Read
  BY <1>0, <1>1, <1>6 DEF Read, Calls, Sessions, FInv, Late
<1>7. CASE EntryCommandWritten
  <2>1. trace'.rx = trace.rx /\ trace'.framed = trace.framed
    BY <1>0, <1>7, RecordedSame DEF EntryCommandWritten, Take, FInv
  <2> QED
    BY <1>0, <1>1, <1>7, <2>1 DEF EntryCommandWritten, Take, Sessions
<1>8. CASE Sent
  <2>1. trace'.rx = trace.rx /\ trace'.framed = trace.framed
    BY <1>0, <1>8, RecordedSame DEF Sent, Take, FInv
  <2> QED
    BY <1>0, <1>1, <1>8, <2>1 DEF Sent, Take, Sessions
<1>9. CASE TakeReceived
  <2> DEFINE x == Head(received)
             xs == Tail(received)
  <2>1. /\ session.phase = "linked" /\ received # <<>> /\ taken' = Append(taken, x)
        /\ received' = xs /\ UNCHANGED <<session, decoder, broken, aligned, trace>>
    BY <1>9 DEF TakeReceived
  <2>2. taken \in Seq(Bytes) /\ received \in Seq(Bytes)
    BY DEF FInv, Typed, SessionTyped
  <2>3. x \in Bytes /\ xs \in Seq(Bytes) /\ received = <<x>> \o xs
    BY <2>1, <2>2, HeadTailProperties
  <2>4. Append(taken, x) = taken \o <<x>> /\ <<x>> \in Seq(Bytes)
    BY <2>2, <2>3, AppendIsConcat
  <2> HIDE DEF x, xs
  <2>5. (taken \o <<x>>) \o xs = taken \o (<<x>> \o xs)
    BY <2>2, <2>3, <2>4, ConcatAssociative
  <2>6. taken' \o received' = taken \o received
    BY <2>1, <2>3, <2>4, <2>5
  <2> QED
    BY <2>1, <2>6 DEF FInv, Early, Late
<1>10. CASE ReadFailed
  <2>1. trace'.rx = trace.rx /\ trace'.framed = trace.framed
    BY <1>10, RecordedSame DEF ReadFailed, Take, FInv
  <2> QED
    BY <1>0, <1>1, <1>10, <2>1 DEF ReadFailed, Take, Sessions
<1>11. CASE ReadNothing
  <2>1. result.op = "read" /\ session.phase = "next"
    BY <1>11, TakeServes DEF ReadNothing, Take, FInv, OpOf
  <2>2. trace'.rx = trace.rx /\ trace'.framed = trace.framed
    BY <1>11, <2>1, RecordedRead DEF ReadNothing, Take, FInv
  <2>3. session'.phase \in {"next", "linked"} /\ received = <<>>
    BY <1>0, <1>11, <2>1 DEF ReadNothing, Sessions, FInv, Late
  <2> QED
    BY <1>1, <1>11, <2>1, <2>2, <2>3 DEF ReadNothing
<1>12. CASE Shutdown
  BY <1>0, <1>1, <1>12 DEF Shutdown, Sessions
<1>13. CASE Close
  BY <1>0, <1>1, <1>13 DEF Close, Sessions
<1>14. CASE Transport \/ Driver \/ UNCHANGED vars
  <2>1. UNCHANGED callerVars
    BY <1>14 DEF Transport, Driver, vars
  <2> QED
    BY <1>1, <2>1 DEF callerVars, FInv, Late
<1> QED
  BY <1>2, <1>3, <1>4, <1>5, <1>6, <1>7, <1>8, <1>9, <1>10, <1>11, <1>12, <1>13, <1>14,
     ReplyFrames, ReadFrames DEF Next

\* The beginning has it all.
LEMMA InitFrames == Init => FInv
<1> SUFFICES ASSUME Init PROVE FInv
  OBVIOUS
<1>1. step = "idle" /\ result = NoResult /\ session.phase = "listed"
  BY DEF Init, IoInit
<1>2. /\ received = <<>> /\ taken = <<>> /\ aligned = FALSE /\ broken = FALSE /\ decoder = <<>>
      /\ trace.rx.active = FALSE /\ trace.framed = <<>> /\ trace.rx.bytes = <<>>
  BY DEF Init, NewTrace, NewTraceDecoder
<1>3. <<>> = <<>> \o <<>> /\ <<>> \in Bytes
  BY DEF Bytes
<1>4. Early
  BY <1>2, <1>3 DEF Early
<1> QED
  BY <1>1, <1>4, InitTyped DEF FInv, Serves, Late

\* So it always holds.
LEMMA AlwaysFrames == Spec => []FInv
<1>1. FInv /\ [Next]_vars => FInv'
  BY TypedKeeps, ServesKeeps, EarlyKeeps DEF FInv
<1> QED
  BY <1>1, InitFrames, PTL DEF Spec

\* The trace of the graphical interface and the link frame the same packets.
THEOREM FramingAgrees == Spec => []SameFraming
<1>1. FInv => SameFraming
  BY DEF FInv, Typed, SessionTyped, Late, SameFraming
<1> QED
  BY <1>1, AlwaysFrames, PTL

-----------------------------------------------------------------------------
(* What the printer says, packet by packet.                                *)

\* Two beginnings of the same bytes that are equally long are the same.
LEMMA SameBeginning ==
  ASSUME NEW a \in Bytes, NEW b \in Bytes, NEW c \in Bytes, NEW d \in Bytes,
         a \o b = c \o d, Len(a) = Len(c)
  PROVE  a = c /\ b = d
<1> DEFINE n == Len(a)
<1>1. n \in Nat
  BY DEF Bytes
<1>2. a = c
  <2>1. \A i \in 1..n : (a \o b)[i] = a[i]
    <3>1. n <= n + Len(b) /\ Len(b) \in Nat
      BY <1>1 DEF Bytes
    <3> QED
      BY <1>1, <3>1, ConcatProperties DEF Bytes
  <2>2. \A i \in 1..n : (c \o d)[i] = c[i]
    <3>1. n <= n + Len(d) /\ Len(d) \in Nat
      BY <1>1 DEF Bytes
    <3> QED
      BY <1>1, <3>1, ConcatProperties DEF Bytes
  <2>3. \A i \in 1..n : a[i] = c[i]
    <3> HIDE DEF n
    <3> QED
      BY <2>1, <2>2
  <2> QED
    BY <2>3, SeqEqual DEF Bytes
<1>3. b = d
  <2>1. a \o b = a \o d
    BY <1>2
  <2>2. \A S : \A s, t, v \in Seq(S) : s \o t = s \o v => t = v
    BY ConcatSimplifications
  <2>3. \A t, v \in Bytes : a \o t = a \o v => t = v
    BY <2>2, Zenon DEF Bytes
  <2> QED
    BY <2>1, <2>3
<1> QED
  BY <1>2, <1>3

\* A packet that stands in front of what comes is the one that is framed there.
LEMMA FramesFirst ==
  ASSUME NEW c \in Bytes, NEW tail \in Bytes, NEW p \in Bytes, NEW q \in Bytes,
         c \o tail = p \o q, Whole(p), Drains(c, 1)
  PROVE  /\ PacketAt(c, 1) = p /\ EndOfPacket(c, 1) \in 1..(Len(c) + 1)
         /\ From(c, EndOfPacket(c, 1)) \o tail = q
<1> DEFINE n == Len(p)
           rest == From(c, n + 1)
<1>1. n \in Nat /\ 2 <= n /\ p[2] = n
  BY DEF Whole, HasHeader, HeaderLength, Decodes, EndOfPacket, Bytes
<1>2. Len(c) \in Nat /\ 2 <= Len(c)
  BY DEF Drains, HasHeader, HeaderLength, Bytes
<1>3. (c \o tail)[2] = c[2] /\ (p \o q)[2] = p[2]
  <2>1. Len(tail) \in Nat /\ Len(q) \in Nat
    BY DEF Bytes
  <2> QED
    BY <1>1, <1>2, <2>1, ConcatProperties DEF Bytes
<1>4. EndOfPacket(c, 1) = n + 1
  BY <1>1, <1>3 DEF EndOfPacket
<1>5. n \in 0..Len(c) /\ n + 1 \in 1..(Len(c) + 1)
  BY <1>1, <1>2, <1>4 DEF Drains, Complete
<1>6. PacketAt(c, 1) = SubSeq(c, 1, n)
  BY <1>1, <1>4 DEF PacketAt
<1>7. SubSeq(c, 1, n) \in Bytes /\ rest \in Bytes /\ SubSeq(c, 1, n) \o rest = c
      /\ Len(SubSeq(c, 1, n)) = n
  <2>1. SubSeq(c, 1, n) \in Bytes /\ rest \in Bytes /\ Len(SubSeq(c, 1, n)) = n
    BY <1>5, BeginningTyped
  <2>2. SubSeq(c, 1, (n + 1) - 1) \o SubSeq(c, n + 1, Len(c)) = SubSeq(c, 1, Len(c))
    <3>1. 1 \in 1..(Len(c) + 1) /\ n + 1 \in 1..(Len(c) + 1) /\ c \in Seq(Nat)
      BY <1>2, <1>5 DEF Bytes
    <3> DEFINE m == n + 1
    <3> HIDE DEF m
    <3>2. SubSeq(c, 1, m - 1) \o SubSeq(c, m, Len(c)) = SubSeq(c, 1, Len(c))
      BY <3>1, SubSeqParts DEF m
    <3> QED
      BY <3>2 DEF m
  <2>3. (n + 1) - 1 = n /\ SubSeq(c, 1, Len(c)) = c
    BY <1>1, SubSeqFull DEF Bytes
  <2> HIDE DEF n
  <2> QED
    BY <2>1, <2>2, <2>3 DEF From
<1> DEFINE first == SubSeq(c, 1, n)
<1> HIDE DEF first, rest, n
<1>8. first \o (rest \o tail) = p \o q
  <2>1. first \in Bytes /\ rest \in Bytes /\ first \o rest = c
    BY <1>7 DEF first
  <2>3. (first ++ rest) ++ tail = first ++ (rest ++ tail)
    BY <2>1, JoinedAssociate
  <2>2. (first \o rest) \o tail = first \o (rest \o tail)
    BY <2>3, Zenon DEF ++
  <2> QED
    BY <2>1, <2>2
<1>9. first = p /\ rest \o tail = q
  <2>1. rest \o tail \in Bytes
    BY <1>7, JoinedAssociate DEF ++
  <2>2. Len(first) = Len(p) /\ first \in Bytes
    BY <1>7 DEF first, n
  <2> QED
    BY <1>8, <2>1, <2>2, SameBeginning
<1> QED
  BY <1>4, <1>5, <1>6, <1>9 DEF first, rest

\* What is framed in front of some bytes is framed in front of more of them.
LEMMA DrainsMore ==
  ASSUME NEW c \in Bytes, NEW tail \in Bytes, Drains(c, 1)
  PROVE  Drains(c \o tail, 1)
<1>1. Len(c) \in Nat /\ 2 <= Len(c) /\ Len(tail) \in Nat
  BY DEF Drains, HasHeader, HeaderLength, Bytes
<1>2. (c \o tail)[1] = c[1] /\ (c \o tail)[2] = c[2] /\ Len(c \o tail) = Len(c) + Len(tail)
  BY <1>1, ConcatProperties DEF Bytes
<1>3. c[2] \in Nat
  BY <1>1 DEF Bytes
<1> QED
  BY <1>1, <1>2, <1>3 DEF Drains, HasHeader, HeaderLength, Decodes, Complete, EndOfPacket

\* A whole packet is framed as soon as its bytes are there.
LEMMA FramesWhole ==
  ASSUME NEW c \in Bytes, NEW tail \in Bytes, NEW p \in Bytes, NEW q \in Bytes,
         c \o tail = p \o q, Whole(p), Len(p) <= Len(c)
  PROVE  Drains(c, 1)
<1>1. Len(p) \in Nat /\ 2 <= Len(p) /\ p[2] = Len(p) /\ p[1] # ReservedBits
  BY DEF Whole, HasHeader, HeaderLength, Decodes, EndOfPacket, Bytes
<1>2. Len(c) \in Nat /\ Len(tail) \in Nat /\ Len(q) \in Nat
  BY DEF Bytes
<1>3. (c \o tail)[1] = c[1] /\ (c \o tail)[2] = c[2] /\ (p \o q)[1] = p[1] /\ (p \o q)[2] = p[2]
  BY <1>1, <1>2, ConcatProperties DEF Bytes
<1>4. c[1] = p[1] /\ c[2] = p[2]
  BY <1>3
<1> QED
  BY <1>1, <1>2, <1>4 DEF Drains, HasHeader, HeaderLength, Decodes, Complete, EndOfPacket

\* The packets from the k-th on, and what comes behind them.
Awaits(s, k, c) ==
  k \in 0..Len(s.packets) /\ c = FlattenSeq(SubSeq(s.packets, k + 1, Len(s.packets))) \o s.rest

\* There is another packet, or only the rest.
LEMMA AwaitsOne ==
  ASSUME NEW s \in Sayings, NEW k \in 0..Len(s.packets), NEW c, Awaits(s, k, c)
  PROVE  /\ k = Len(s.packets) => c = s.rest
         /\ k < Len(s.packets) =>
              \E q \in Bytes : /\ s.packets[k + 1] \in Bytes /\ Whole(s.packets[k + 1])
                               /\ c = s.packets[k + 1] \o q /\ Awaits(s, k + 1, q)
<1> DEFINE ps == s.packets
           n == Len(ps)
<1>1. ps \in Seq(Bytes) /\ s.rest \in Bytes /\ n \in Nat
  BY SaidTyped
<1>2. ASSUME k = n PROVE c = s.rest
  <2>1. SubSeq(ps, k + 1, n) = <<>>
    BY <1>1, <1>2, SubSeqEmpty
  <2>2. <<>> \o s.rest = s.rest
    BY <1>1, ConcatEmptySeq DEF Bytes
  <2> QED
    BY <2>1, <2>2, FlattenEmpty DEF Awaits
<1>3. ASSUME k < n
      PROVE  \E q \in Bytes : /\ ps[k + 1] \in Bytes /\ Whole(ps[k + 1])
                              /\ c = ps[k + 1] \o q /\ Awaits(s, k + 1, q)
  <2> DEFINE p == ps[k + 1]
             more == SubSeq(ps, (k + 1) + 1, n)
             q == FlattenSeq(more) \o s.rest
  <2>1. k + 1 \in 1..n /\ n \in (k + 1)..n /\ k + 1 \in DOMAIN ps
    BY <1>1, <1>3
  <2>2. p \in Bytes /\ Whole(p)
    <3>1. \A i \in DOMAIN s.packets : Whole(s.packets[i])
      BY SayingsAssumption
    <3> QED
      BY <1>1, <2>1, <3>1
  <2>3. SubSeq(ps, k + 1, n) = <<p>> \o more
    BY <1>1, <2>1, SubSeqRecursiveFirst
  <2>4. more \in Seq(Bytes)
    <3>1. (k + 1) + 1 \in 1..(n + 1) /\ n \in ((k + 1) + 1 - 1)..n
      BY <1>1, <2>1
    <3> QED
      BY <1>1, <3>1, SubSeqTyped
  <2>5. FlattenSeq(<<p>> \o more) = p \o FlattenSeq(more) /\ FlattenSeq(more) \in Bytes
    <3> HIDE DEF more, p
    <3>1. <<p>> \in Seq(Bytes) /\ FlattenSeq(<<p>>) = p
      BY <2>2, FlattenOne DEF Bytes
    <3>2. FlattenSeq(<<p>> \o more) = FlattenSeq(<<p>>) \o FlattenSeq(more)
      BY <2>4, <3>1, FlattenConcat DEF Bytes
    <3> QED
      BY <2>4, <3>1, <3>2, FlattenTyped DEF Bytes
  <2> DEFINE f == FlattenSeq(more)
  <2>6. c = (p \o f) \o s.rest
    BY <2>3, <2>5 DEF Awaits
  <2>7. Awaits(s, k + 1, q)
    BY <2>1 DEF Awaits
  <2> HIDE DEF p, f
  <2>8. (p \o f) \o s.rest = p \o (f \o s.rest) /\ f \o s.rest \in Bytes
    BY <1>1, <2>2, <2>5, JoinedAssociate DEF ++, f
  <2> QED
    BY <2>2, <2>6, <2>7, <2>8 DEF p, f
<1> QED
  BY <1>2, <1>3

\* What is framed in front of what comes is the next packet.
LEMMA AwaitsNext ==
  ASSUME NEW s \in Sayings, NEW k \in 0..Len(s.packets), NEW c \in Bytes, NEW tail \in Bytes,
         Awaits(s, k, c \o tail), Drains(c, 1)
  PROVE  /\ k < Len(s.packets) /\ PacketAt(c, 1) = s.packets[k + 1]
         /\ Awaits(s, k + 1, From(c, EndOfPacket(c, 1)) \o tail)
<1>1. k < Len(s.packets)
  <2> SUFFICES ASSUME k = Len(s.packets) PROVE FALSE
    BY SaidTyped
  <2>1. c \o tail = s.rest
    BY AwaitsOne
  <2>2. Drains(s.rest, 1)
    BY <2>1, DrainsMore
  <2> QED
    BY <2>2, SayingsAssumption DEF Drains
<1>2. PICK q \in Bytes : /\ s.packets[k + 1] \in Bytes /\ Whole(s.packets[k + 1])
                         /\ c \o tail = s.packets[k + 1] \o q /\ Awaits(s, k + 1, q)
  BY <1>1, AwaitsOne
<1>3. PacketAt(c, 1) = s.packets[k + 1] /\ From(c, EndOfPacket(c, 1)) \o tail = q
  <2> DEFINE p == s.packets[k + 1]
  <2>1. p \in Bytes /\ Whole(p) /\ c \o tail = p \o q
    BY <1>2
  <2> HIDE DEF p
  <2>2. PacketAt(c, 1) = p /\ From(c, EndOfPacket(c, 1)) \o tail = q
    BY <2>1, FramesFirst
  <2> QED
    BY <2>2 DEF p
<1> QED
  BY <1>1, <1>2, <1>3

\* What is framed at a position is framed in front of what is left from there.
LEMMA DrainsThere ==
  ASSUME NEW b \in Bytes, NEW k \in 1..(Len(b) + 1)
  PROVE  LET c == From(b, k) IN
         /\ c \in Bytes /\ (Drains(b, k) <=> Drains(c, 1))
         /\ HasHeader(b, k) /\ ~Decodes(b, k) => HasHeader(c, 1) /\ ~Decodes(c, 1)
         /\ Drains(b, k) => /\ PacketAt(b, k) = PacketAt(c, 1)
                            /\ From(b, EndOfPacket(b, k)) = From(c, EndOfPacket(c, 1))
<1> DEFINE c == From(b, k)
           N == Len(b)
<1>1. N \in Nat /\ N \in (k - 1)..N
  BY DEF Bytes
<1>2. c \in Bytes /\ Len(c) = N - k + 1
  BY <1>1, SubSeqTyped DEF Bytes, From
<1>3. \A i \in 1..(N - k + 1) : c[i] = b[k + i - 1]
  <2>1. \A i \in k..N : b[i] \in Nat
    BY DEF Bytes
  <2>2. k \in Int /\ N \in Int
    BY <1>1
  <2> QED
    BY <2>1, <2>2, SubSeqProperties DEF From
<1>4. HasHeader(b, k) <=> HasHeader(c, 1)
  <2> HIDE DEF c
  <2> QED
    BY <1>1, <1>2 DEF HasHeader, HeaderLength
<1>5. ASSUME HasHeader(b, k) PROVE c[1] = b[k] /\ c[2] = b[k + 1] /\ b[k + 1] \in Nat
  <2>1. 1 \in 1..(N - k + 1) /\ 2 \in 1..(N - k + 1) /\ k + 1 \in 1..N
    BY <1>1, <1>5 DEF HasHeader, HeaderLength
  <2>2. k + 1 - 1 = k /\ k + 2 - 1 = k + 1
    BY <1>1
  <2>3. b[k + 1] \in Nat
    BY <2>1 DEF Bytes
  <2> HIDE DEF c, N
  <2>4. c[1] = b[k + 1 - 1]
    BY <1>3, <2>1
  <2>5. c[2] = b[k + 2 - 1]
    BY <1>3, <2>1
  <2>6. c[1] = b[k] /\ c[2] = b[k + 1]
    BY <2>2, <2>4, <2>5, Zenon
  <2> QED
    BY <2>3, <2>6, Zenon
<1> HIDE DEF c
<1>6. HasHeader(b, k) => (Decodes(b, k) <=> Decodes(c, 1)) /\ (Complete(b, k) <=> Complete(c, 1))
  <2> SUFFICES ASSUME HasHeader(b, k)
               PROVE  (Decodes(b, k) <=> Decodes(c, 1)) /\ (Complete(b, k) <=> Complete(c, 1))
    OBVIOUS
  <2> DEFINE l == b[k + 1]
             m == Len(c)
  <2> HIDE DEF l, m
  <2>1. l \in Nat /\ c[1] = b[k] /\ c[1 + 1] = l
    <3>1. 1 + 1 = 2
      OBVIOUS
    <3> QED
      BY <1>5, <3>1 DEF l
  <2>2. Decodes(b, k) <=> Decodes(c, 1)
    BY <2>1 DEF Decodes, l
  <2>3. k + l <= N + 1 <=> 1 + l <= m + 1
    <3>1. m = N - k + 1
      BY <1>2 DEF m
    <3> HIDE DEF N
    <3> QED
      BY <1>1, <2>1, <3>1
  <2>4. Complete(b, k) <=> k + l <= N + 1
    BY DEF Complete, EndOfPacket, l
  <2>5. Complete(c, 1) <=> 1 + l <= m + 1
    BY <2>1 DEF Complete, EndOfPacket, m
  <2> QED
    BY <2>2, <2>3, <2>4, <2>5
<1>7. Drains(b, k) <=> Drains(c, 1)
  BY <1>4, <1>6 DEF Drains
<1>8. ASSUME Drains(b, k)
      PROVE  /\ PacketAt(b, k) = PacketAt(c, 1)
             /\ From(b, EndOfPacket(b, k)) = From(c, EndOfPacket(c, 1))
  <2> DEFINE l == b[k + 1]
  <2>1. c[2] = l /\ l \in Nat /\ 2 <= l /\ k + l <= N + 1
    BY <1>1, <1>5, <1>8 DEF Drains, Decodes, Complete, EndOfPacket, HeaderLength
  <2> HIDE DEF l
  <2>2. EndOfPacket(b, k) = k + l /\ EndOfPacket(c, 1) = 1 + l
    BY <2>1 DEF EndOfPacket, l
  <2>3. SubSeq(c, 1, l) = SubSeq(b, k, k + l - 1)
    <3>1. /\ k \in 1..N /\ N \in 1..N /\ 1 \in 1..(N - k + 1) /\ l \in 1..(N - k + 1)
          /\ k + 1 - 1 = k /\ k + l - 1 = k + l - 1
      BY <1>1, <2>1
    <3>2. SubSeq(SubSeq(b, k, N), 1, l) = SubSeq(b, k + 1 - 1, k + l - 1)
      BY <3>1, SubSeqOfSubSeq DEF Bytes
    <3> QED
      BY <3>1, <3>2 DEF c, From
  <2>4. SubSeq(c, 1 + l, Len(c)) = SubSeq(b, k + l, N)
    <3>1. CASE k + l = N + 1
      <4>1. Len(c) < 1 + l /\ N < k + l
        BY <1>1, <1>2, <2>1, <3>1
      <4>2. SubSeq(b, k + l, N) = <<>>
        BY <1>1, <2>1, <4>1, SubSeqEmpty
      <4>3. SubSeq(c, 1 + l, Len(c)) = <<>>
        BY <1>1, <1>2, <2>1, <4>1, SubSeqEmpty
      <4> QED
        BY <4>2, <4>3
    <3>2. CASE k + l <= N
      <4>1. /\ k \in 1..N /\ N \in 1..N /\ 1 + l \in 1..(N - k + 1) /\ Len(c) \in 1..(N - k + 1)
            /\ k + (1 + l) - 1 = k + l /\ k + Len(c) - 1 = N
        BY <1>1, <1>2, <2>1, <3>2
      <4> DEFINE m == 1 + l
                 o == Len(c)
      <4> HIDE DEF m, o, N
      <4>2. SubSeq(SubSeq(b, k, N), m, o) = SubSeq(b, k + m - 1, k + o - 1)
        <5>1. /\ b \in Seq(Nat) /\ k \in 1..Len(b) /\ N \in 1..Len(b)
              /\ m \in 1..(N - k + 1) /\ o \in 1..(N - k + 1)
          BY <4>1 DEF Bytes, m, o, N
        <5> QED
          BY <5>1, SubSeqOfSubSeq
      <4> QED
        BY <4>1, <4>2 DEF c, From, m, o, N
    <3> QED
      BY <1>1, <2>1, <3>1, <3>2
  <2>5. (k + l) - 1 = k + l - 1 /\ (1 + l) - 1 = l
    BY <1>1, <2>1
  <2> QED
    BY <2>2, <2>3, <2>4, <2>5 DEF PacketAt, From
<1> QED
  BY <1>2, <1>4, <1>6, <1>7, <1>8 DEF c

\* Pieces of the packets of a saying, one behind the other.
LEMMA PiecesJoin ==
  ASSUME NEW ps \in Seq(Bytes), NEW j \in 0..Len(ps), NEW m \in j..Len(ps)
  PROVE  /\ SubSeq(ps, j + 1, m) \in Seq(Bytes)
         /\ SubSeq(ps, 1, j) \o SubSeq(ps, j + 1, m) = SubSeq(ps, 1, m)
         /\ j < m => SubSeq(ps, j + 1, m) = <<ps[j + 1]>> \o SubSeq(ps, (j + 1) + 1, m)
<1>1. Len(ps) \in Nat
  OBVIOUS
<1>2. j + 1 \in 1..(Len(ps) + 1) /\ m \in ((j + 1) - 1)..Len(ps)
  BY <1>1
<1>3. SubSeq(ps, j + 1, m) \in Seq(Bytes)
  BY <1>2, SubSeqTyped
<1>4. SubSeq(ps, 1, j) \o SubSeq(ps, j + 1, m) = SubSeq(ps, 1, m)
  <2>1. 1 \in 1..(Len(ps) + 1) /\ j \in (1 - 1)..Len(ps) /\ m \in j..Len(ps)
    BY <1>1
  <2> QED
    BY <2>1, ConcatAdjacentSubSeq
<1>5. ASSUME j < m PROVE SubSeq(ps, j + 1, m) = <<ps[j + 1]>> \o SubSeq(ps, (j + 1) + 1, m)
  <2>1. j + 1 \in 1..Len(ps) /\ m \in (j + 1)..Len(ps)
    BY <1>1, <1>5
  <2> QED
    BY <2>1, SubSeqRecursiveFirst
<1> QED
  BY <1>3, <1>4, <1>5

\* What f makes of position i of b are the packets of s that come next.
Frames(f, s, b, tail, i) ==
  \A j \in 0..Len(s.packets) : Awaits(s, j, From(b, i) \o tail) =>
    \E m \in j..Len(s.packets) :
      /\ f[i].packets = SubSeq(s.packets, j + 1, m)
      /\ Awaits(s, m, From(b, f[i].at) \o tail)

\* The decoder frames the packets of the printer, one by one.
LEMMA DrainsPackets ==
  ASSUME NEW s \in Sayings, NEW b \in Bytes, NEW tail \in Bytes, NEW f, Drain(f, b),
         NEW i \in 1..(Len(b) + 1)
  PROVE  Frames(f, s, b, tail, i)
<1> DEFINE N == Len(b) + 1
           S == {k \in 1..N : Frames(f, s, b, tail, k)}
           ps == s.packets
<1>1. N \in Nat /\ ps \in Seq(Bytes) /\ Len(ps) \in Nat
  BY SaidTyped DEF Bytes
<1>2. ASSUME NEW k \in 1..N, \A j \in (k + 1)..N : Frames(f, s, b, tail, j)
      PROVE  Frames(f, s, b, tail, k)
  <2> SUFFICES ASSUME NEW j \in 0..Len(ps), Awaits(s, j, From(b, k) \o tail)
               PROVE  \E m \in j..Len(ps) : /\ f[k].packets = SubSeq(ps, j + 1, m)
                                            /\ Awaits(s, m, From(b, f[k].at) \o tail)
    BY DEF Frames
  <2>1. CASE ~Drains(b, k)
    <3>1. f[k] = Stop(b, k)
      BY <2>1 DEF Drain
    <3>2. f[k].packets = <<>> /\ f[k].at = k
      BY <3>1 DEF Stop
    <3>3. SubSeq(ps, j + 1, j) = <<>>
      BY <1>1, SubSeqEmpty
    <3>4. j \in j..Len(ps)
      BY <1>1
    <3> QED
      BY <3>2, <3>3, <3>4
  <2>2. CASE Drains(b, k)
    <3> DEFINE c == From(b, k)
               end == EndOfPacket(b, k)
    <3>1. end \in (k + 1)..N /\ end \in 1..N
      BY <1>1, <2>2, DrainsOnward
    <3>2. /\ f[k].at = f[end].at /\ f[k].packets = <<PacketAt(b, k)>> \o f[end].packets
      BY <2>2, DrainedValue
    <3>3. /\ c \in Bytes /\ Drains(c, 1) /\ PacketAt(b, k) = PacketAt(c, 1)
          /\ From(b, end) = From(c, EndOfPacket(c, 1))
      BY <2>2, DrainsThere
    <3> HIDE DEF c
    <3>4. /\ j < Len(ps) /\ PacketAt(c, 1) = ps[j + 1]
          /\ Awaits(s, j + 1, From(c, EndOfPacket(c, 1)) \o tail)
      BY <3>3, AwaitsNext DEF c
    <3> HIDE DEF end
    <3>5. Awaits(s, j + 1, From(b, end) \o tail) /\ j + 1 \in 0..Len(ps)
      BY <1>1, <3>3, <3>4
    <3>6. Frames(f, s, b, tail, end)
      BY <1>2, <3>1
    <3>7. PICK m \in (j + 1)..Len(ps) : /\ f[end].packets = SubSeq(ps, (j + 1) + 1, m)
                                        /\ Awaits(s, m, From(b, f[end].at) \o tail)
      BY <3>5, <3>6 DEF Frames
    <3>8. m \in j..Len(ps) /\ j < m
      BY <1>1, <3>7
    <3>9. SubSeq(ps, j + 1, m) = <<ps[j + 1]>> \o SubSeq(ps, (j + 1) + 1, m)
      BY <1>1, <3>8, PiecesJoin
    <3> QED
      BY <3>2, <3>3, <3>4, <3>7, <3>8, <3>9
  <2> QED
    BY <2>1, <2>2
<1>3. 1..N \subseteq S
  <2>1. \A k \in 1..N : (\A j \in (k + 1)..N : j \in S) => k \in S
    <3> SUFFICES ASSUME NEW k \in 1..N, \A j \in (k + 1)..N : j \in S
                 PROVE  k \in S
      OBVIOUS
    <3>1. \A j \in (k + 1)..N : Frames(f, s, b, tail, j)
      OBVIOUS
    <3> QED
      BY <1>2, <3>1
  <2> HIDE DEF S
  <2> QED
    BY <1>1, <2>1, DownwardInduction
<1> QED
  BY <1>3

\* A push of the link's decoder: it frames the next packets of the printer, and
\* keeps what comes behind them; or it meets a header that does not decode.
LEMMA PushFrames ==
  ASSUME NEW s \in Sayings, NEW d \in Bytes, NEW bytes \in Bytes, NEW tail \in Bytes,
         NEW k \in 0..Len(s.packets), Awaits(s, k, (d \o bytes) \o tail)
  PROVE  LET push == Push(d, bytes) IN
         /\ push.ok = TRUE =>
              \E m \in k..Len(s.packets) :
                /\ push.packets = SubSeq(s.packets, k + 1, m)
                /\ Awaits(s, m, push.buffer \o tail) /\ ~Drains(push.buffer, 1)
         /\ push.ok = FALSE =>
              push.packets = <<>> /\ HasHeader(push.buffer, 1) /\ ~Decodes(push.buffer, 1)
<1> DEFINE b == d \o bytes
           push == Push(d, bytes)
<1>1. b \in Bytes
  BY PushDrains
<1>2. PICK f : /\ Drain(f, b)
               /\ Push(d, bytes) = [ok      |-> f[1].ok,
                                    packets |-> IF f[1].ok THEN f[1].packets ELSE <<>>,
                                    buffer  |-> From(b, f[1].at)]
  BY PushDrains
<1> HIDE DEF b
<1>3. 1 \in 1..(Len(b) + 1)
  BY <1>1 DEF Bytes
<1>4. Stays(f, b, 1) /\ f[1] \in Pushed /\ f[1].at \in 1..(Len(b) + 1)
  <2>1. Stays(f, b, 1)
    BY <1>1, <1>2, <1>3, DrainStays
  <2> QED
    BY <1>2, <1>3, <2>1 DEF Drain, Stays
<1>5. Frames(f, s, b, tail, 1)
  BY <1>1, <1>2, <1>3, DrainsPackets
<1>6. From(b, 1) = b
  BY <1>1, FromStart
<1>7. \E m \in k..Len(s.packets) : /\ f[1].packets = SubSeq(s.packets, k + 1, m)
                                   /\ Awaits(s, m, From(b, f[1].at) \o tail)
  <2>1. Awaits(s, k, From(b, 1) \o tail)
    BY <1>6 DEF b
  <2> QED
    BY <1>5, <2>1 DEF Frames
<1>8. push.ok = f[1].ok /\ push.buffer = From(b, f[1].at)
      /\ push.packets = IF f[1].ok THEN f[1].packets ELSE <<>>
  BY <1>2
<1> DEFINE at == f[1].at
<1>9. LET c == From(b, at) IN
      /\ Drains(b, at) <=> Drains(c, 1)
      /\ HasHeader(b, at) /\ ~Decodes(b, at) => HasHeader(c, 1) /\ ~Decodes(c, 1)
  <2>1. at \in 1..(Len(b) + 1)
    BY <1>4
  <2> HIDE DEF at
  <2> QED
    BY <1>1, <2>1, DrainsThere
<1> HIDE DEF push
<1>10. ASSUME push.ok = TRUE
       PROVE  \E m \in k..Len(s.packets) :
                /\ push.packets = SubSeq(s.packets, k + 1, m)
                /\ Awaits(s, m, push.buffer \o tail) /\ ~Drains(push.buffer, 1)
  <2>1. ~Drains(b, f[1].at)
    BY <1>4 DEF Stays
  <2> QED
    BY <1>7, <1>8, <1>9, <1>10, <2>1
<1>11. ASSUME push.ok = FALSE
       PROVE  push.packets = <<>> /\ HasHeader(push.buffer, 1) /\ ~Decodes(push.buffer, 1)
  <2>1. HasHeader(b, f[1].at) /\ ~Decodes(b, f[1].at)
    BY <1>4, <1>8, <1>11 DEF Stays
  <2> QED
    BY <1>8, <1>9, <1>11, <2>1
<1> QED
  BY <1>10, <1>11 DEF push

\* A decoder with a header in front that does not decode keeps it.
LEMMA PushStaysBad ==
  ASSUME NEW d \in Bytes, HasHeader(d, 1), ~Decodes(d, 1), NEW bytes \in Bytes
  PROVE  LET push == Push(d, bytes) IN
         /\ push.ok = FALSE /\ push.packets = <<>>
         /\ HasHeader(push.buffer, 1) /\ ~Decodes(push.buffer, 1)
<1> DEFINE b == d \o bytes
<1>1. PICK f : /\ Drain(f, b)
               /\ Push(d, bytes) = [ok      |-> f[1].ok,
                                    packets |-> IF f[1].ok THEN f[1].packets ELSE <<>>,
                                    buffer  |-> From(b, f[1].at)]
  BY PushDrains
<1>2. b \in Bytes /\ HasHeader(b, 1) /\ ~Decodes(b, 1)
  <2>1. Len(d) \in Nat /\ 2 <= Len(d) /\ Len(bytes) \in Nat
    BY DEF HasHeader, HeaderLength, Bytes
  <2>2. b \in Bytes /\ b[1] = d[1] /\ b[2] = d[2] /\ Len(b) = Len(d) + Len(bytes)
    BY <2>1, ConcatProperties DEF Bytes
  <2> HIDE DEF b
  <2> QED
    BY <2>1, <2>2 DEF HasHeader, HeaderLength, Decodes
<1> HIDE DEF b
<1>3. 1 \in 1..(Len(b) + 1) /\ ~Drains(b, 1)
  BY <1>2 DEF Drains, Bytes
<1>4. f[1] = Stop(b, 1)
  BY <1>1, <1>3 DEF Drain
<1>5. f[1].ok = FALSE /\ f[1].at = 1
  BY <1>2, <1>4 DEF Stop
<1>6. From(b, 1) = b
  BY <1>2, FromStart
<1> QED
  BY <1>1, <1>2, <1>5, <1>6

\* What the printer has said when its k-th packet is complete.
Before(s, k) == Said([s EXCEPT !.packets = SubSeq(@, 1, k), !.rest = <<>>])

\* It is the noise, the reply and the packets so far.
LEMMA BeforeLength ==
  ASSUME NEW s \in Sayings, NEW k \in 0..Len(s.packets)
  PROVE  /\ FlattenSeq(SubSeq(s.packets, 1, k)) \in Bytes
         /\ Len(Before(s, k)) = Len(s.noise \o s.reply) + Len(FlattenSeq(SubSeq(s.packets, 1, k)))
         /\ Len(Before(s, k)) \in Nat
<1> DEFINE ps == SubSeq(s.packets, 1, k)
           f == FlattenSeq(ps)
           head == s.noise \o s.reply
<1>1. s.packets \in Seq(Bytes) /\ Len(s.packets) \in Nat /\ head \in Bytes
  BY SaidTyped
<1>2. ps \in Seq(Bytes)
  <2>1. 1 \in 1..(Len(s.packets) + 1) /\ k \in (1 - 1)..Len(s.packets)
    BY <1>1
  <2> QED
    BY <1>1, <2>1, SubSeqTyped
<1>3. f \in Bytes
  <2> HIDE DEF ps
  <2> QED
    BY <1>2, FlattenTyped DEF Bytes
<1>4. Before(s, k) = (head \o f) \o <<>>
  <2> DEFINE t == [s EXCEPT !.packets = SubSeq(@, 1, k), !.rest = <<>>]
  <2>1. t.noise = s.noise /\ t.reply = s.reply /\ t.packets = ps /\ t.rest = <<>>
    BY SayingsAssumption
  <2> HIDE DEF t
  <2>2. Said(t) = (head \o f) \o <<>>
    BY <2>1 DEF Said
  <2> QED
    BY <2>2 DEF Before, t
<1> HIDE DEF f, head, ps
<1>5. head \o f \in Bytes /\ Len(head \o f) = Len(head) + Len(f)
  BY <1>1, <1>3, ConcatProperties DEF Bytes
<1>6. (head \o f) \o <<>> = head \o f
  BY <1>5, ConcatEmptySeq DEF Bytes
<1>7. Len(Before(s, k)) = Len(head) + Len(f)
  BY <1>4, <1>5, <1>6
<1>8. Len(head) \in Nat /\ Len(f) \in Nat
  BY <1>1, <1>3 DEF Bytes
<1> DEFINE l == Len(head)
           m == Len(f)
<1>9. l + m \in Nat
  <2>1. l \in Nat /\ m \in Nat
    BY <1>8
  <2> HIDE DEF l, m
  <2> QED
    BY <2>1
<1>10. f \in Bytes /\ Len(Before(s, k)) = Len(head) + Len(f) /\ Len(Before(s, k)) \in Nat
  BY <1>3, <1>7, <1>9
<1> QED
  BY <1>10, Zenon DEF f, head, ps

\* All that the printer says is that, and what is awaited then.
LEMMA SaidLength ==
  ASSUME NEW s \in Sayings, NEW k \in 0..Len(s.packets), NEW c \in Bytes, Awaits(s, k, c)
  PROVE  Len(Said(s)) = Len(Before(s, k)) + Len(c)
<1> DEFINE ps == s.packets
           n == Len(ps)
           head == s.noise \o s.reply
           f == FlattenSeq(SubSeq(ps, 1, k))
           g == FlattenSeq(SubSeq(ps, k + 1, n))
<1>1. ps \in Seq(Bytes) /\ n \in Nat /\ head \in Bytes /\ s.rest \in Bytes
  BY SaidTyped
<1>2. f \in Bytes /\ g \in Bytes /\ FlattenSeq(ps) = f \o g
  <2> DEFINE a == SubSeq(ps, 1, k)
             b == SubSeq(ps, k + 1, n)
  <2>1. n \in k..n /\ k \in 0..n /\ 0 \in 0..n /\ k \in 0..k
    BY <1>1
  <2>2. a \in Seq(Bytes)
    <3>1. 1 \in 1..(n + 1) /\ k \in (1 - 1)..n
      BY <1>1
    <3> QED
      BY <1>1, <3>1, SubSeqTyped
  <2>3. b \in Seq(Bytes) /\ a \o b = SubSeq(ps, 1, n)
    BY <1>1, <2>1, PiecesJoin
  <2>4. SubSeq(ps, 1, n) = ps
    BY <1>1, SubSeqFull
  <2> HIDE DEF a, b
  <2>5. FlattenSeq(a \o b) = FlattenSeq(a) \o FlattenSeq(b)
    BY <2>2, <2>3, FlattenConcat DEF Bytes
  <2>6. FlattenSeq(a) \in Bytes /\ FlattenSeq(b) \in Bytes
    BY <2>2, <2>3, FlattenTyped DEF Bytes
  <2> QED
    BY <2>3, <2>4, <2>5, <2>6 DEF a, b
<1>3. c = g \o s.rest
  BY DEF Awaits
<1>4. Said(s) = (head \o (f \o g)) \o s.rest
  BY <1>2 DEF Said
<1>5. Len(Before(s, k)) = Len(head) + Len(f)
  BY BeforeLength
<1> HIDE DEF head, f, g
<1>6. Len(c) = Len(g) + Len(s.rest)
  BY <1>1, <1>2, <1>3, ConcatProperties DEF Bytes
<1>7. f \o g \in Bytes /\ Len(f \o g) = Len(f) + Len(g)
  BY <1>2, ConcatProperties DEF Bytes
<1> DEFINE fg == f \o g
<1> HIDE DEF fg
<1>8. head \o fg \in Bytes /\ Len(head \o fg) = Len(head) + Len(fg)
  BY <1>1, <1>7, ConcatProperties DEF Bytes, fg
<1> DEFINE all == head \o fg
<1> HIDE DEF all
<1>9. Len(all \o s.rest) = Len(all) + Len(s.rest)
  BY <1>1, <1>8, ConcatProperties DEF Bytes, all
<1>10. Len(head) \in Nat /\ Len(f) \in Nat /\ Len(g) \in Nat /\ Len(s.rest) \in Nat
  BY <1>1, <1>2 DEF Bytes
<1>11. Len(Said(s)) = Len(all) + Len(s.rest) /\ Len(all) = Len(head) + Len(fg)
       /\ Len(fg) = Len(f) + Len(g)
  BY <1>4, <1>7, <1>8, <1>9 DEF all, fg
<1> DEFINE lh == Len(head)
           lf == Len(f)
           lg == Len(g)
           lr == Len(s.rest)
<1> HIDE DEF lh, lf, lg, lr
<1>12. Len(Said(s)) = (lh + (lf + lg)) + lr
  BY <1>11, Zenon DEF lh, lf, lg, lr
<1>13. Len(Before(s, k)) = lh + lf /\ Len(c) = lg + lr
  BY <1>5, <1>6, Zenon DEF lh, lf, lg, lr
<1>14. (lh + (lf + lg)) + lr = (lh + lf) + (lg + lr)
  <2>1. lh \in Nat /\ lf \in Nat /\ lg \in Nat /\ lr \in Nat
    BY <1>10, Zenon DEF lh, lf, lg, lr
  <2> QED
    BY <2>1
<1> QED
  BY <1>12, <1>13, <1>14

\* It grows by each packet.
LEMMA BeforeGrows ==
  ASSUME NEW s \in Sayings, NEW j \in 0..Len(s.packets), NEW k \in j..Len(s.packets)
  PROVE  /\ Len(Before(s, j)) <= Len(Before(s, k))
         /\ j < k => Len(Before(s, j)) + Len(s.packets[j + 1]) <= Len(Before(s, k))
<1> DEFINE ps == s.packets
           a == SubSeq(ps, 1, j)
           b == SubSeq(ps, j + 1, k)
           c == SubSeq(ps, (j + 1) + 1, k)
<1>1. ps \in Seq(Bytes) /\ Len(ps) \in Nat /\ k \in 0..Len(ps)
  <2>1. ps \in Seq(Bytes) /\ Len(ps) \in Nat
    BY SaidTyped
  <2> QED
    BY <2>1
<1>2. b \in Seq(Bytes) /\ a \o b = SubSeq(ps, 1, k) /\ (j < k => b = <<ps[j + 1]>> \o c)
  BY <1>1, PiecesJoin
<1>3. a \in Seq(Bytes)
  <2>1. 1 \in 1..(Len(ps) + 1) /\ j \in (1 - 1)..Len(ps)
    BY <1>1
  <2> QED
    BY <1>1, <2>1, SubSeqTyped
<1>4. Len(s.noise \o s.reply) \in Nat
  <2> DEFINE head == s.noise \o s.reply
  <2>1. head \in Bytes
    BY SaidTyped
  <2> HIDE DEF head
  <2>2. Len(head) \in Nat
    BY <2>1 DEF Bytes
  <2> QED
    BY <2>2 DEF head
<1>5. /\ Len(Before(s, j)) = Len(s.noise \o s.reply) + Len(FlattenSeq(a))
      /\ Len(Before(s, k)) = Len(s.noise \o s.reply) + Len(FlattenSeq(a \o b))
  BY <1>1, <1>2, BeforeLength
<1>8. ASSUME j < k
      PROVE  <<ps[j + 1]>> \in Seq(Bytes) /\ FlattenSeq(<<ps[j + 1]>>) = ps[j + 1]
             /\ c \in Seq(Bytes) /\ ps[j + 1] \in Bytes
  <2>1. j + 1 \in 1..Len(ps) /\ (j + 1) + 1 \in 1..(Len(ps) + 1) /\ k \in (((j + 1) + 1) - 1)..Len(ps)
    BY <1>1, <1>8
  <2>2. ps[j + 1] \in Bytes
    BY <1>1, <2>1
  <2>3. c \in Seq(Bytes)
    BY <1>1, <2>1, SubSeqTyped
  <2> HIDE DEF c
  <2>4. <<ps[j + 1]>> \in Seq(Bytes) /\ FlattenSeq(<<ps[j + 1]>>) = ps[j + 1]
    BY <2>2, FlattenOne DEF Bytes
  <2> QED
    BY <2>2, <2>3, <2>4
<1> DEFINE p == ps[j + 1]
<1> HIDE DEF a, b, c, p
<1>6. /\ FlattenSeq(a \o b) = FlattenSeq(a) \o FlattenSeq(b)
      /\ FlattenSeq(a) \in Bytes /\ FlattenSeq(b) \in Bytes
  BY <1>2, <1>3, FlattenConcat, FlattenTyped DEF Bytes
<1>7. Len(FlattenSeq(a \o b)) = Len(FlattenSeq(a)) + Len(FlattenSeq(b))
      /\ Len(FlattenSeq(a)) \in Nat /\ Len(FlattenSeq(b)) \in Nat
  BY <1>6, ConcatProperties DEF Bytes
<1>9. ASSUME j < k PROVE Len(p) <= Len(FlattenSeq(b)) /\ Len(p) \in Nat
  <2>1. b = <<p>> \o c /\ <<p>> \in Seq(Bytes) /\ FlattenSeq(<<p>>) = p /\ c \in Seq(Bytes) /\ p \in Bytes
    BY <1>2, <1>8, <1>9 DEF p
  <2>2. FlattenSeq(b) = p \o FlattenSeq(c) /\ FlattenSeq(c) \in Bytes
    BY <2>1, FlattenConcat, FlattenTyped DEF Bytes
  <2>3. Len(FlattenSeq(b)) = Len(p) + Len(FlattenSeq(c)) /\ Len(FlattenSeq(c)) \in Nat /\ Len(p) \in Nat
    BY <2>1, <2>2, ConcatProperties DEF Bytes
  <2> QED
    BY <2>3
<1> DEFINE lh == Len(s.noise \o s.reply)
           la == Len(FlattenSeq(a))
           lb == Len(FlattenSeq(b))
           lp == Len(p)
<1> HIDE DEF lh, la, lb, lp
<1>10. Len(Before(s, j)) = lh + la /\ Len(Before(s, k)) = lh + (la + lb)
  BY <1>5, <1>7, Zenon DEF lh, la, lb
<1>11. lh \in Nat /\ la \in Nat /\ lb \in Nat /\ (j < k => lp \in Nat /\ lp <= lb)
  BY <1>4, <1>7, <1>9, Zenon DEF lh, la, lb, lp
<1>12. lh + la <= lh + (la + lb) /\ (j < k => (lh + la) + lp <= lh + (la + lb))
  BY <1>11
<1>13. /\ Len(Before(s, j)) <= Len(Before(s, k))
       /\ j < k => Len(Before(s, j)) + lp <= Len(Before(s, k))
  BY <1>10, <1>12, Zenon
<1> QED
  BY <1>13, Zenon DEF p, lp

-----------------------------------------------------------------------------
(* PacketsRead is what the link has, if it has lost nothing.               *)

\* The packets that are complete in what was read.
ReadWhole == {k \in DOMAIN saying.packets : Len(Before(saying, k)) <= Len(Said(saying)) - Len(line)}

\* They are those that the property counts.
LEMMA PacketsReadIs == PacketsRead = Cardinality(ReadWhole)
BY DEF PacketsRead, ReadWhole, Before

\* All those that it has framed were read.
LEMMA FramedWasRead ==
  ASSUME saying \in Sayings, line \in Bytes, NEW k \in 0..Len(saying.packets),
         Len(Before(saying, k)) + Len(line) <= Len(Said(saying))
  PROVE  PacketsRead \in k..Len(saying.packets)
<1> DEFINE n == Len(saying.packets)
           said == Len(Said(saying))
           l == Len(line)
<1>1. /\ saying.packets \in Seq(Bytes) /\ n \in Nat /\ said \in Nat /\ l \in Nat
      /\ DOMAIN saying.packets = 1..n
  BY SaidTyped DEF Bytes
<1>2. ASSUME NEW j \in 1..k PROVE j \in ReadWhole
  <2>1. k \in j..n /\ j \in 0..n /\ j \in 1..n
    BY <1>1
  <2>2. Len(Before(saying, j)) <= Len(Before(saying, k))
    BY <2>1, BeforeGrows
  <2>3. Len(Before(saying, j)) \in Nat /\ Len(Before(saying, k)) \in Nat
    BY <2>1, BeforeLength
  <2>4. Len(Before(saying, j)) <= said - l
    BY <1>1, <2>2, <2>3
  <2> QED
    BY <1>1, <2>1, <2>4 DEF ReadWhole
<1>3. ReadWhole \subseteq 1..n
  BY <1>1 DEF ReadWhole
<1>4. IsFiniteSet(1..n) /\ Cardinality(1..n) = n /\ IsFiniteSet(1..k) /\ Cardinality(1..k) = k
  <2>1. k \in Int /\ n \in Int /\ 0 <= k /\ 0 <= n
    BY <1>1
  <2> HIDE DEF n
  <2>2. /\ IsFiniteSet(1..n) /\ Cardinality(1..n) = IF 1 > n THEN 0 ELSE n - 1 + 1
        /\ IsFiniteSet(1..k) /\ Cardinality(1..k) = IF 1 > k THEN 0 ELSE k - 1 + 1
    BY <2>1, FS_Interval
  <2> QED
    BY <2>1, <2>2
<1>5. IsFiniteSet(ReadWhole) /\ Cardinality(ReadWhole) <= n
  BY <1>3, <1>4, FS_Subset
<1>6. k <= Cardinality(ReadWhole)
  <2>1. 1..k \in SUBSET ReadWhole
    BY <1>2
  <2> QED
    BY <1>4, <1>5, <2>1, FS_Subset
<1>7. Cardinality(ReadWhole) \in Nat
  BY <1>5, FS_CardinalityType
<1> QED
  BY <1>1, <1>5, <1>6, <1>7, PacketsReadIs

\* No packet that it has not framed was read as a whole.
LEMMA ReadIsFramed ==
  ASSUME saying \in Sayings, line \in Bytes, decoder \in Bytes,
         NEW k \in 0..Len(saying.packets), Awaits(saying, k, decoder \o line),
         ~Drains(decoder, 1)
  PROVE  PacketsRead = k
<1> DEFINE n == Len(saying.packets)
           c == decoder \o line
           said == Len(Said(saying))
           l == Len(line)
<1>1. /\ saying.packets \in Seq(Bytes) /\ n \in Nat /\ said \in Nat /\ l \in Nat
      /\ Len(decoder) \in Nat /\ DOMAIN saying.packets = 1..n
  BY SaidTyped DEF Bytes
<1>2. c \in Bytes /\ Len(c) = Len(decoder) + l
  BY ConcatProperties DEF Bytes
<1>3. said = Len(Before(saying, k)) + Len(c) /\ Len(Before(saying, k)) \in Nat
  <2> HIDE DEF c
  <2> QED
    BY <1>2, SaidLength, BeforeLength DEF c
<1>4. ASSUME NEW j \in ReadWhole PROVE j \in 1..k
  <2>1. j \in 1..n /\ Len(Before(saying, j)) <= said - l
    BY <1>1 DEF ReadWhole
  <2> SUFFICES ASSUME k < j PROVE FALSE
    BY <1>1, <2>1
  <2> DEFINE p == saying.packets[k + 1]
  <2>2. PICK q \in Bytes : p \in Bytes /\ Whole(p) /\ c = p \o q
    <3>1. k < n
      BY <1>1, <2>1
    <3>2. Awaits(saying, k, c)
      OBVIOUS
    <3> HIDE DEF c
    <3>3. \E q \in Bytes : /\ saying.packets[k + 1] \in Bytes /\ Whole(saying.packets[k + 1])
                           /\ c = saying.packets[k + 1] \o q /\ Awaits(saying, k + 1, q)
      BY <3>1, <3>2, AwaitsOne
    <3> QED
      BY <3>3, Zenon
  <2>3. Len(Before(saying, k)) + Len(p) <= Len(Before(saying, j)) /\ Len(Before(saying, j)) \in Nat
    <3>1. j \in k..n /\ j \in 0..n
      BY <1>1, <2>1
    <3> QED
      BY <3>1, BeforeGrows, BeforeLength
  <2> HIDE DEF p
  <2>4. Len(p) \in Nat
    BY <2>2 DEF Bytes
  <2>5. Len(p) <= Len(decoder)
    BY <1>1, <1>2, <1>3, <2>1, <2>3, <2>4
  <2>6. Drains(decoder, 1)
    BY <2>2, <2>5, FramesWhole
  <2> QED
    BY <2>6
<1>5. PacketsRead \in k..n
  <2>1. Len(Before(saying, k)) + Len(line) <= Len(Said(saying))
    BY <1>1, <1>2, <1>3
  <2> QED
    BY <2>1, FramedWasRead
<1>6. Cardinality(ReadWhole) <= k
  <2>1. ReadWhole \in SUBSET (1..k)
    BY <1>4
  <2>2. IsFiniteSet(1..k) /\ Cardinality(1..k) = k
    BY <1>1, FS_Interval
  <2> QED
    BY <2>1, <2>2, FS_Subset
<1> QED
  BY <1>1, <1>5, <1>6, PacketsReadIs

-----------------------------------------------------------------------------
(* The entry reply, and the packets behind it.                             *)

\* The entry reply that the link finds at the end of all it has read is the one
\* that the printer means, and its packets come next.
LEMMA ReplyFound ==
  ASSUME NEW s \in Sayings, NEW reply \in Bytes, NEW more \in Bytes, reply \o more = Said(s),
         EndOfReply(reply) # 0, EndOfReply(reply) = Len(reply)
  PROVE  Awaits(s, 0, more)
<1> DEFINE n == Len(reply)
           head == s.noise \o s.reply
           e == EndOfReply(Said(s))
           f == FlattenSeq(s.packets)
<1>1. n \in 3..n /\ ReplyEnds(reply, n)
  BY FirstReply
<1>2. Said(s) \in Bytes /\ Len(Said(s)) = n + Len(more) /\ Len(more) \in Nat /\ n \in Nat
  BY SaidTyped, ConcatProperties DEF Bytes
<1>3. ASSUME NEW i \in 3..n PROVE ReplyEnds(Said(s), i) <=> ReplyEnds(reply, i)
  <2>1. i - 2 \in 1..n /\ i \in 1..n
    BY <1>2
  <2>2. SubSeq(reply \o more, i - 2, i) = SubSeq(reply, i - 2, i)
    BY <2>1, SubSeqOfConcat1 DEF Bytes
  <2> QED
    BY <2>2 DEF ReplyEnds
<1>4. e # 0 /\ e <= n
  <2>1. ReplyEnds(Said(s), n) /\ n \in 3..Len(Said(s))
    BY <1>1, <1>2, <1>3
  <2> QED
    BY <1>2, <2>1, FirstReply
<1>5. e \in 3..Len(Said(s)) /\ ReplyEnds(Said(s), e)
  BY <1>2, <1>4, FirstReply
<1>6. e = n
  <2>1. e \in 3..n
    BY <1>2, <1>4, <1>5
  <2>2. ReplyEnds(reply, e)
    BY <1>3, <1>5, <2>1
  <2>3. n <= e
    BY <2>1, <2>2, FirstReply
  <2> QED
    BY <1>2, <2>1, <2>3
<1>7. Len(head) = n
  BY <1>4, <1>6, SayingsAssumption
<1>8. /\ head \in Bytes /\ f \in Bytes /\ s.rest \in Bytes /\ s.packets \in Seq(Bytes)
      /\ Said(s) = (head \o f) \o s.rest
  BY SaidTyped DEF Said
<1> HIDE DEF head, f
<1>9. Said(s) = head \o (f \o s.rest) /\ f \o s.rest \in Bytes
  <2>1. (head ++ f) ++ s.rest = head ++ (f ++ s.rest) /\ f ++ s.rest \in Bytes
    BY <1>8, JoinedAssociate
  <2> QED
    BY <1>8, <2>1, Zenon DEF ++
<1>10. more = f \o s.rest
  <2> DEFINE g == f \o s.rest
  <2>1. g \in Bytes /\ reply \o more = head \o g
    BY <1>9
  <2> HIDE DEF g
  <2>2. more = g
    BY <1>7, <1>8, <2>1, SameBeginning
  <2> QED
    BY <2>2 DEF g
<1>11. SubSeq(s.packets, 0 + 1, Len(s.packets)) = s.packets /\ 0 \in 0..Len(s.packets)
  BY <1>8, SubSeqFull
<1> QED
  BY <1>10, <1>11 DEF Awaits, f

-----------------------------------------------------------------------------
(* The link has the packets of the printer.                                *)

\* What was read and the session has yet to be given.
InFlight ==
  IF io.op = "read" /\ Over THEN io.bytes
  ELSE IF result.op = "read" THEN result.bytes ELSE <<>>

\* What the session has yet to be given.
Coming == InFlight \o line

\* What did not end well has moved nothing, if nothing was lost.
Clean == gap = FALSE /\ io.op = "read" /\ io.state \in {"aborted", "failed"} => io.bytes = <<>>

\* Until D4 is entered: the link keeps all that it has read.
Opening ==
  gap = FALSE /\ session.phase \in {"listed", "command", "entry"} =>
    Said(saying) = decoder \o Coming

\* The link has k packets, and what it keeps comes right behind them; or it has
\* met a header that does not decode, by when more was read than those k.
Follows(k) ==
  /\ taken \o received = SubSeq(saying.packets, 1, k)
  /\ IF broken
     THEN /\ HasHeader(decoder, 1) /\ ~Decodes(decoder, 1)
          /\ Len(Before(saying, k)) + Len(line) <= Len(Said(saying))
     ELSE ~Drains(decoder, 1) /\ Awaits(saying, k, decoder \o Coming)

Linked ==
  gap = FALSE /\ session.phase \in {"linked", "sending", "next"} =>
    \E k \in 0..Len(saying.packets) : Follows(k)

GInv == SInv /\ FInv /\ Clean /\ Opening /\ Linked

\* Types of what is under way.
LEMMA ComingTyped ==
  ASSUME IoTyped
  PROVE  InFlight \in Bytes /\ line \in Bytes /\ Coming \in Bytes
<1>1. InFlight \in Bytes /\ line \in Bytes
  <2>1. <<>> \in Bytes
    BY DEF Bytes
  <2> QED
    BY <2>1 DEF IoTyped, InFlight, Ios, Results
<1> HIDE DEF InFlight
<1>2. InFlight \o line \in Bytes
  BY <1>1, ConcatProperties DEF Bytes
<1> QED
  BY <1>1, <1>2 DEF Coming

\* Between two calls nothing is under way.
LEMMA IdleFlight ==
  ASSUME IInv, step = "idle"
  PROVE  /\ InFlight = IF result.op = "read" THEN result.bytes ELSE <<>>
         /\ result = NoResult => InFlight = <<>>
BY DEF IInv, CallHolds, Over, InFlight, NoResult

\* Nor has a call that is under way an outcome.
LEMMA BusyFlight ==
  ASSUME Serves, step # "idle"
  PROVE  InFlight = IF io.op = "read" /\ Over THEN io.bytes ELSE <<>>
BY DEF Serves, InFlight, NoResult

\* What the transport does in a call keeps what comes.
LEMMA TransportComing ==
  ASSUME IInv, Serves, Clean, IoTyped, TransportStep, gap' = FALSE
  PROVE  gap = FALSE /\ line' = line /\ InFlight' = InFlight /\ Clean'
<1>1. step # "idle" /\ gap = FALSE /\ line' = line
  BY DEF TransportStep, WaitEnds, WaitTimesOut, Cancel, CancelFails, CleanupEnds,
         CleanupTimesOut, Return, IoTyped
<1>2. InFlight = IF io.op = "read" /\ Over THEN io.bytes ELSE <<>>
  BY <1>1, BusyFlight
<1>3. ASSUME NEW outcome, Return(outcome), io'.state \notin {"done", "aborted", "failed"}
      PROVE  InFlight' = (IF io.op = "read" /\ outcome = "ok" THEN io.bytes ELSE <<>>)
  BY <1>3 DEF Return, InFlight, Over
<1>4. CASE WaitEnds
  <2>1. io' = NoIo /\ Over /\ io.state \in {"done", "failed"}
    BY <1>4 DEF WaitEnds, Release, Over
  <2>2. io'.state = "none" /\ io'.op = "none"
    BY <2>1 DEF NoIo
  <2>3. CASE io.state = "done"
    <3>1. Return(Counted)
      BY <1>4, <2>3 DEF WaitEnds
    <3>2. io.op = "read" => Counted = "ok"
      BY DEF Counted
    <3>3. InFlight' = (IF io.op = "read" /\ Counted = "ok" THEN io.bytes ELSE <<>>)
      BY <1>3, <2>2, <3>1
    <3> QED
      BY <1>1, <1>2, <2>1, <2>2, <3>2, <3>3 DEF Clean
  <2>4. CASE io.state = "failed"
    <3>1. Return("failed")
      BY <1>4, <2>4 DEF WaitEnds
    <3>2. InFlight' = <<>>
      BY <1>3, <2>2, <3>1
    <3>3. io.op = "read" => io.bytes = <<>>
      BY <1>1, <2>4 DEF Clean
    <3> QED
      BY <1>1, <1>2, <2>2, <3>2, <3>3 DEF Clean
  <2> QED
    BY <2>1, <2>3, <2>4
<1>5. CASE WaitTimesOut
  BY <1>1, <1>5 DEF WaitTimesOut, InFlight, Over, Clean
<1>6. CASE Cancel
  <2>1. /\ io'.op = io.op /\ io'.bytes = io.bytes /\ result' = result
        /\ io'.state = IF io.state = "pending" THEN "cancelled" ELSE io.state
    BY <1>6 DEF Cancel, IoTyped, Ios
  <2> QED
    BY <1>1, <2>1 DEF InFlight, Over, Clean
<1>7. CASE CancelFails \/ CleanupTimesOut
  <2>1. io'.state = "cancelled" /\ io.state \in {"pending", "cancelled"}
    BY <1>7 DEF CancelFails, CleanupTimesOut, AbandonStalledIo, IoTyped, Ios
  <2>2. Return("failed") \/ Return("timeout")
    BY <1>7 DEF CancelFails, CleanupTimesOut
  <2>3. InFlight' = <<>>
    BY <1>3, <2>1, <2>2
  <2>4. InFlight = <<>>
    BY <1>2, <2>1 DEF Over
  <2> QED
    BY <1>1, <2>1, <2>3, <2>4 DEF Clean
<1>8. CASE CleanupEnds
  <2>1. io'.state = "none" /\ io'.op = "none" /\ (io.op = "read" => io.bytes = <<>>)
    BY <1>8 DEF CleanupEnds, Release, NoIo
  <2>2. Return("failed") \/ Return("timeout")
    BY <1>8 DEF CleanupEnds
  <2>3. InFlight' = <<>>
    BY <1>3, <2>1, <2>2
  <2> QED
    BY <1>1, <1>2, <2>1, <2>3 DEF Clean
<1> QED
  BY <1>4, <1>5, <1>6, <1>7, <1>8 DEF TransportStep

\* So does the driver, unless it moves bytes that no one is told of.
LEMMA DriverComing ==
  ASSUME IInv, Serves, IoTyped, DriverEnds, gap' = FALSE
  PROVE  /\ gap = FALSE /\ Coming' = Coming /\ Clean'
         /\ Len(line') \in Nat /\ Len(line) \in Nat /\ Len(line') <= Len(line)
<1>1. PICK state \in {"done", "failed", "aborted"},
           moved \in Beginnings(IF io.op = "write" THEN io.data ELSE line) :
        /\ io' = IF step = "idle" THEN NoIo ELSE [io EXCEPT !.state = state, !.bytes = moved]
        /\ IF io.op = "write" THEN UNCHANGED <<line, gap>>
           ELSE /\ line' = SubSeq(line, Len(moved) + 1, Len(line))
                /\ gap' = (gap \/ (moved # <<>> /\ (state # "done" \/ step = "idle")))
  BY DEF DriverEnds
<1>2. /\ io.state \in {"pending", "cancelled"} /\ result' = result /\ gap = FALSE
      /\ io \in Ios /\ line \in Bytes
  BY <1>1 DEF DriverEnds, IoTyped
<1>3. Len(line) \in Nat /\ SubSeq(line, 1, Len(line)) = line /\ <<>> \o line = line
  BY <1>2, SubSeqFull, ConcatEmptySeq DEF Bytes
<1>4. ASSUME io.op # "write"
      PROVE  /\ moved \in Bytes /\ line' \in Bytes /\ moved \o line' = line
             /\ moved = <<>> => line' = line
             /\ Len(line') \in Nat /\ Len(line') <= Len(line)
  <2>1. PICK n \in 0..Len(line) : moved = SubSeq(line, 1, n)
    BY <1>1, <1>4 DEF Beginnings
  <2>2. moved \in Bytes /\ Len(moved) = n /\ From(line, n + 1) \in Bytes
    BY <1>2, <2>1, BeginningTyped
  <2>3. line' = From(line, n + 1)
    BY <1>1, <1>4, <2>2 DEF From
  <2>4. SubSeq(line, 1, n) \o From(line, n + 1) = line
    <3> DEFINE m == n + 1
    <3>1. 1 \in 1..(Len(line) + 1) /\ m \in 1..(Len(line) + 1) /\ m - 1 = n
      BY <1>3
    <3> HIDE DEF m
    <3>2. SubSeq(line, 1, m - 1) \o SubSeq(line, m, Len(line)) = SubSeq(line, 1, Len(line))
      BY <1>2, <3>1, SubSeqParts DEF Bytes
    <3>3. SubSeq(line, 1, n) \o SubSeq(line, m, Len(line)) = line
      BY <1>3, <3>1, <3>2
    <3> QED
      BY <3>3 DEF m, From
  <2>5. Len(line) = Len(moved) + Len(line') /\ Len(line') \in Nat
    BY <2>1, <2>2, <2>3, <2>4, ConcatProperties DEF Bytes
  <2>6. moved = <<>> => line' = line
    <3> SUFFICES ASSUME moved = <<>> PROVE line' = line
      OBVIOUS
    <3>1. <<>> \o line' = line'
      BY <2>2, <2>3, ConcatEmptySeq DEF Bytes
    <3> QED
      BY <2>1, <2>3, <2>4, <3>1
  <2>7. Len(line') <= Len(line)
    BY <2>2, <2>5
  <2> QED
    BY <2>1, <2>2, <2>3, <2>4, <2>5, <2>6, <2>7
<1>5. ASSUME io.op = "write" PROVE line' = line
  BY <1>1, <1>5
<1>6. Len(line') \in Nat /\ Len(line') <= Len(line)
  <2> DEFINE n == Len(line)
  <2>1. n \in Nat /\ n <= n
    BY <1>3
  <2> HIDE DEF n
  <2>2. io.op = "write" => Len(line') = n
    BY <1>5 DEF n
  <2>3. CASE io.op = "write"
    BY <2>1, <2>2, <2>3 DEF n
  <2> QED
    BY <1>4, <2>3
<1>7. CASE step = "idle"
  <2>1. io'.op = "none" /\ line' = line
    BY <1>1, <1>4, <1>5, <1>7 DEF NoIo
  <2>2. InFlight' = InFlight
    BY <1>2, <2>1 DEF InFlight, Over
  <2> QED
    BY <1>2, <1>3, <1>6, <2>1, <2>2 DEF Coming, Clean
<1>8. CASE step # "idle"
  <2>1. io'.op = io.op /\ io'.bytes = moved /\ io'.state = state
    BY <1>1, <1>2, <1>8 DEF Ios
  <2>2. InFlight = <<>> /\ result = NoResult
    BY <1>2, <1>8, BusyFlight DEF Over, Serves
  <2>3. io.op \in {"read", "write"}
    BY <1>8 DEF Serves, OpOf
  <2>4. InFlight' = IF io.op = "read" THEN moved ELSE <<>>
    BY <1>2, <2>1, <2>2 DEF InFlight, Over, NoResult
  <2>5. Coming' = Coming
    <3>1. CASE io.op = "write"
      BY <1>5, <2>2, <2>4, <3>1 DEF Coming
    <3>2. CASE io.op = "read"
      BY <1>3, <1>4, <2>2, <2>4, <3>2 DEF Coming
    <3> QED
      BY <2>3, <3>1, <3>2
  <2>6. Clean'
    BY <1>1, <2>1, <2>3 DEF Clean
  <2> QED
    BY <1>2, <1>3, <1>6, <2>5, <2>6
<1> QED
  BY <1>7, <1>8

\* A call that begins keeps what comes.
LEMMA CallComing ==
  ASSUME IInv, Clean, NEW op, NEW data, Begin(op, data) \/ Refuse(op)
  PROVE  gap' = gap /\ line' = line /\ InFlight' = InFlight /\ Clean'
<1>1. step = "idle" /\ result = NoResult /\ gap' = gap /\ line' = line
  BY DEF Begin, Refuse
<1>2. InFlight = <<>> /\ ~Over
  BY <1>1, IdleFlight DEF IInv, CallHolds, Over
<1>3. CASE Begin(op, data)
  <2>1. io'.state = "pending" /\ result' = result
    BY <1>3 DEF Begin
  <2> QED
    BY <1>1, <1>2, <2>1 DEF InFlight, Over, NoResult, Clean
<1>4. CASE Refuse(op)
  <2>1. io' = io /\ result'.bytes = <<>>
    BY <1>4 DEF Refuse
  <2> QED
    BY <1>1, <1>2, <2>1 DEF InFlight, Over, Clean
<1> QED
  BY <1>3, <1>4

\* The session takes what was read, or the outcome of a write.
LEMMA TakeComing ==
  ASSUME IInv, Serves, Clean, IoTyped, gap' = gap \/ gap = FALSE, NEW phase, Take(phase)
  PROVE  /\ line' = line /\ InFlight' = <<>> /\ Coming' = line
         /\ Coming = (IF result.op = "read" THEN result.bytes ELSE <<>>) \o line /\ Clean'
<1>1. step = "idle" /\ result' = NoResult /\ UNCHANGED <<step, io, line>>
  BY DEF Take, Serves
<1>2. ~Over
  BY <1>1 DEF IInv, CallHolds, Over
<1>3. InFlight' = <<>>
  BY <1>1, <1>2 DEF InFlight, Over, NoResult
<1>4. InFlight = IF result.op = "read" THEN result.bytes ELSE <<>>
  BY <1>1, IdleFlight
<1>5. <<>> \o line = line
  BY ConcatEmptySeq DEF IoTyped, Bytes
<1>6. Clean'
  BY <1>1, <1>2 DEF Clean, Over
<1> QED
  BY <1>1, <1>3, <1>4, <1>5, <1>6 DEF Coming

\* What was taken and what waits, when the first of what waits is taken.
LEMMA TakesFirst ==
  ASSUME NEW t \in Seq(Bytes), NEW r \in Seq(Bytes), r # <<>>
  PROVE  Append(t, Head(r)) \o Tail(r) = t \o r
<1> DEFINE x == Head(r)
           xs == Tail(r)
<1>1. x \in Bytes /\ xs \in Seq(Bytes) /\ r = <<x>> \o xs
  BY HeadTailProperties
<1>2. Append(t, x) = t \o <<x>> /\ <<x>> \in Seq(Bytes)
  BY <1>1, AppendIsConcat
<1> HIDE DEF x, xs
<1>3. (t \o <<x>>) \o xs = t \o (<<x>> \o xs)
  BY <1>1, <1>2, ConcatAssociative
<1> QED
  BY <1>1, <1>2, <1>3 DEF x, xs

\* The entry reply with nothing read behind it: what comes are the packets.
LEMMA ReplyFollows ==
  ASSUME GInv, EntryReplyRead
  PROVE  Opening' /\ Linked' /\ Clean'
<1> DEFINE bytes == result.bytes
           reply == decoder \o bytes
           end == EndOfReply(reply)
           found == bytes # <<>> /\ end # 0
<1>1. /\ Take("entry") /\ session.phase = "entry" /\ session \in Sessions
      /\ session' = [session EXCEPT !.reads = @ + 1,
                          !.phase = IF result.outcome # "ok" THEN "closing"
                                    ELSE IF found THEN "linked"
                                    ELSE IF session.reads + 1 = ReadLimit THEN "closing" ELSE @]
      /\ decoder' = IF found THEN <<>> ELSE reply
      /\ gap' = (gap \/ (found /\ end < Len(reply)))
      /\ UNCHANGED <<received, taken, broken, saying>>
  BY DEF EntryReplyRead, Take, GInv, FInv, Typed, SessionTyped
<1>2. /\ result.op = "read" /\ bytes \in Bytes /\ decoder \in Bytes /\ line \in Bytes
      /\ saying \in Sayings /\ gap \in BOOLEAN
  BY <1>1, TakeServes DEF GInv, FInv, Typed, SessionTyped, IoTyped, OpOf, Results
<1>3. /\ line' = line /\ Coming' = line /\ Coming = bytes \o line /\ Clean'
  <2>1. gap' = gap \/ gap = FALSE
    BY <1>1, <1>2
  <2> QED
    BY <1>1, <1>2, <2>1, TakeComing DEF GInv, SInv, FInv, Typed
<1>4. reply \in Bytes /\ Len(reply) \in Nat
  BY <1>2, ConcatProperties DEF Bytes
<1>5. decoder \o (bytes \o line) = reply \o line
  <2>1. (decoder ++ bytes) ++ line = decoder ++ (bytes ++ line)
    BY <1>2, JoinedAssociate
  <2> QED
    BY <2>1, Zenon DEF ++
<1> HIDE DEF reply, found
<1>6. ASSUME gap' = FALSE PROVE gap = FALSE /\ Said(saying) = reply \o line
  <2>1. gap = FALSE
    BY <1>1, <1>2, <1>6
  <2> QED
    BY <1>1, <1>3, <1>5, <2>1 DEF GInv, Opening
<1>7. session'.phase = IF result.outcome # "ok" THEN "closing"
                       ELSE IF found THEN "linked"
                       ELSE IF session.reads + 1 = ReadLimit THEN "closing" ELSE "entry"
  BY <1>1 DEF Sessions
<1>8. Opening'
  <2> SUFFICES ASSUME gap' = FALSE, session'.phase \in {"listed", "command", "entry"}
               PROVE  Said(saying') = decoder' \o Coming'
    BY DEF Opening
  <2>1. decoder' = reply
    BY <1>1, <1>7
  <2>2. Said(saying) = reply \o line
    BY <1>6
  <2> QED
    BY <1>1, <1>3, <2>1, <2>2
<1>9. Linked'
  <2> SUFFICES ASSUME gap' = FALSE, session'.phase \in {"linked", "sending", "next"}
               PROVE  \E k \in 0..Len(saying.packets) : Follows(k)'
    BY <1>1 DEF Linked
  <2>1. found
    BY <1>7
  <2>2. EndOfReply(reply) # 0 /\ EndOfReply(reply) = Len(reply)
    <3>1. ~(end < Len(reply)) /\ end # 0
      BY <1>1, <2>1 DEF found
    <3>2. end \in 3..Len(reply)
      BY <1>4, <3>1, FirstReply
    <3> QED
      BY <1>4, <3>1, <3>2
  <2>3. Awaits(saying, 0, line)
    BY <1>2, <1>4, <1>6, <2>2, ReplyFound
  <2>4. decoder' = <<>> /\ decoder' \o Coming' = line
    <3>1. <<>> \o line = line
      BY <1>2, ConcatEmptySeq DEF Bytes
    <3> QED
      BY <1>1, <1>3, <2>1, <3>1
  <2>5. received' = <<>> /\ taken' = <<>> /\ broken' = FALSE
    BY <1>1 DEF GInv, FInv, Early
  <2>6. ~Drains(decoder', 1)
    BY <2>4 DEF Drains, HasHeader, HeaderLength
  <2>7. SubSeq(saying'.packets, 1, 0) = <<>> /\ <<>> \o <<>> = <<>> /\ 0 \in 0..Len(saying.packets)
    <3>1. Len(saying.packets) \in Nat
      BY <1>2, SaidTyped
    <3> QED
      BY <3>1, SubSeqEmpty
  <2>8. Awaits(saying, 0, line)' <=> Awaits(saying, 0, line)
    BY <1>1, <1>3 DEF Awaits
  <2>9. Awaits(saying', 0, decoder' \o Coming')
    BY <1>1, <2>3, <2>4 DEF Awaits
  <2>10. Follows(0)'
    BY <2>5, <2>6, <2>7, <2>9 DEF Follows
  <2> QED
    BY <2>7, <2>10
<1> QED
  BY <1>3, <1>8, <1>9

\* Bytes that the link has read: their packets come next.
LEMMA ReadFollows ==
  ASSUME GInv, ReadBytes
  PROVE  Opening' /\ Linked' /\ Clean'
<1> DEFINE bytes == result.bytes
           push == Push(decoder, bytes)
           ps == saying.packets
<1>1. /\ Take("next") /\ session.phase = "next" /\ session \in Sessions
      /\ decoder' = push.buffer
      /\ broken' = (broken \/ ~push.ok)
      /\ IF push.packets = <<>> THEN UNCHANGED <<received, taken>>
         ELSE received' = Tail(push.packets) /\ taken' = Append(taken, Head(push.packets))
      /\ session' = [session EXCEPT !.empty = 0,
                        !.phase = IF push.ok /\ push.packets = <<>> THEN @ ELSE "linked"]
      /\ gap' = gap /\ saying' = saying
  BY DEF ReadBytes, Take, GInv, FInv, Typed, SessionTyped
<1>2. /\ result.op = "read" /\ bytes \in Bytes /\ decoder \in Bytes /\ line \in Bytes
      /\ saying \in Sayings /\ received = <<>> /\ taken \in Seq(Bytes) /\ broken \in BOOLEAN
  BY <1>1, TakeServes DEF GInv, FInv, Typed, SessionTyped, IoTyped, OpOf, Results, Late
<1>3. /\ line' = line /\ Coming' = line /\ Coming = bytes \o line /\ Clean'
  BY <1>1, <1>2, TakeComing DEF GInv, SInv, FInv, Typed
<1>4. push \in [ok : BOOLEAN, packets : Seq(Bytes), buffer : Bytes]
  BY <1>2, PushAgrees
<1>5. ps \in Seq(Bytes) /\ Len(ps) \in Nat
  BY <1>2, SaidTyped
<1>6. taken' \o received' = taken \o push.packets
  <2> HIDE DEF push
  <2>1. CASE push.packets = <<>>
    BY <1>1, <1>2, <2>1
  <2>2. CASE push.packets # <<>>
    <3>1. push.packets \in Seq(Bytes)
      BY <1>4
    <3>2. Append(taken, Head(push.packets)) \o Tail(push.packets) = taken \o push.packets
      BY <1>2, <2>2, <3>1, TakesFirst
    <3> QED
      BY <1>1, <2>2, <3>2
  <2> QED
    BY <2>1, <2>2
<1>7. session'.phase \in {"next", "linked"}
  <2> HIDE DEF push
  <2> QED
    BY <1>1 DEF Sessions
<1>8. Linked'
  <2> SUFFICES ASSUME gap = FALSE PROVE \E k \in 0..Len(ps) : Follows(k)'
    BY <1>1 DEF Linked
  <2>1. PICK k \in 0..Len(ps) : Follows(k)
    BY <1>1 DEF GInv, Linked
  <2>2. taken \o <<>> = taken /\ SubSeq(ps, 1, k) = taken
    BY <1>2, <2>1, ConcatEmptySeq DEF Follows
  <2>3. CASE broken
    <3>1. /\ push.ok = FALSE /\ push.packets = <<>>
          /\ HasHeader(push.buffer, 1) /\ ~Decodes(push.buffer, 1)
      BY <1>2, <2>1, <2>3, PushStaysBad DEF Follows
    <3>2. Len(Before(saying, k)) + Len(line) <= Len(Said(saying))
      BY <2>1, <2>3 DEF Follows
    <3> HIDE DEF push
    <3>3. (Len(Before(saying, k)) + Len(line) <= Len(Said(saying)))'
      BY <1>1, <1>3, <3>2
    <3>4. Follows(k)'
      BY <1>1, <1>6, <2>2, <2>3, <3>1, <3>3 DEF Follows
    <3> QED
      BY <3>4
  <2>4. CASE ~broken
    <3>1. Awaits(saying, k, (decoder \o bytes) \o line)
      <4>1. (decoder ++ bytes) ++ line = decoder ++ (bytes ++ line)
        BY <1>2, JoinedAssociate
      <4>2. (decoder \o bytes) \o line = decoder \o (bytes \o line)
        BY <4>1, Zenon DEF ++
      <4>3. Awaits(saying, k, decoder \o Coming)
        BY <2>1, <2>4 DEF Follows
      <4> QED
        BY <1>3, <4>2, <4>3
    <3>2. /\ push.ok = TRUE =>
               \E m \in k..Len(ps) :
                 /\ push.packets = SubSeq(ps, k + 1, m)
                 /\ Awaits(saying, m, push.buffer \o line) /\ ~Drains(push.buffer, 1)
          /\ push.ok = FALSE =>
               push.packets = <<>> /\ HasHeader(push.buffer, 1) /\ ~Decodes(push.buffer, 1)
      BY <1>2, <3>1, PushFrames
    <3> HIDE DEF push
    <3>3. CASE push.ok = TRUE
      <4>1. PICK m \in k..Len(ps) : /\ push.packets = SubSeq(ps, k + 1, m)
                                    /\ Awaits(saying, m, push.buffer \o line)
                                    /\ ~Drains(push.buffer, 1)
        BY <3>2, <3>3
      <4>2. m \in 0..Len(ps)
        BY <1>5, <4>1
      <4>3. taken \o push.packets = SubSeq(ps, 1, m)
        BY <1>5, <2>2, <4>1, PiecesJoin
      <4>4. broken' = FALSE
        BY <1>1, <2>4, <3>3
      <4>5. Awaits(saying', m, decoder' \o Coming')
        BY <1>1, <1>3, <4>1
      <4>6. Follows(m)'
        BY <1>1, <1>6, <4>1, <4>3, <4>4, <4>5 DEF Follows
      <4> QED
        BY <4>2, <4>6
    <3>4. CASE push.ok = FALSE
      <4>1. broken' = TRUE
        BY <1>1, <3>4
      <4>2. (Len(Before(saying, k)) + Len(line) <= Len(Said(saying)))'
        <5> DEFINE c == (decoder \o bytes) \o line
                   b == decoder \o bytes
        <5>1. b \in Bytes /\ Len(b) \in Nat
          BY <1>2, ConcatProperties DEF Bytes
        <5>2. c \in Bytes /\ Len(c) = Len(b) + Len(line) /\ Len(line) \in Nat
          <6> HIDE DEF b
          <6> QED
            BY <1>2, <5>1, ConcatProperties DEF Bytes, b
        <5> HIDE DEF c
        <5>3. Len(Said(saying)) = Len(Before(saying, k)) + Len(c)
          BY <1>2, <3>1, <5>2, SaidLength DEF c
        <5>4. Len(Before(saying, k)) \in Nat
          BY <1>2, BeforeLength
        <5> HIDE DEF b
        <5>5. Len(Before(saying, k)) + Len(line) <= Len(Said(saying))
          BY <5>1, <5>2, <5>3, <5>4
        <5> QED
          BY <1>1, <1>3, <5>5
      <4>3. Follows(k)'
        BY <1>1, <1>6, <2>2, <3>2, <3>4, <4>1, <4>2 DEF Follows
      <4> QED
        BY <4>3
    <3> QED
      BY <1>4, <3>3, <3>4
  <2> QED
    BY <2>3, <2>4
<1> QED
  BY <1>3, <1>7, <1>8 DEF Opening

\* The other steps take nothing from what comes, and add nothing to what the
\* link has.
LEMMA FollowsOn ==
  ASSUME GInv, gap' = gap, Coming' = Coming,
         UNCHANGED <<decoder, broken, saying, line>>, taken' \o received' = taken \o received,
         session'.phase \in {"listed", "command", "entry"} =>
           session.phase \in {"listed", "command", "entry"},
         session'.phase \in {"linked", "sending", "next"} =>
           session.phase \in {"linked", "sending", "next"}
  PROVE  Opening' /\ Linked'
<1>1. Opening'
  BY DEF GInv, Opening
<1>2. ASSUME NEW k, Follows(k) PROVE Follows(k)'
  <2>1. /\ Awaits(saying, k, decoder \o Coming) => Awaits(saying', k, decoder' \o Coming')
        /\ Len(Before(saying, k)) + Len(line) <= Len(Said(saying)) =>
             Len(Before(saying', k)) + Len(line') <= Len(Said(saying'))
    OBVIOUS
  <2> QED
    BY <1>2, <2>1 DEF Follows
<1>3. Linked'
  <2> SUFFICES ASSUME gap' = FALSE, session'.phase \in {"linked", "sending", "next"}
               PROVE  \E k \in 0..Len(saying'.packets) : Follows(k)'
    BY DEF Linked
  <2>1. PICK k \in 0..Len(saying.packets) : Follows(k)
    BY DEF GInv, Linked
  <2>2. Follows(k)'
    BY <1>2, <2>1
  <2> QED
    BY <2>1, <2>2
<1> QED
  BY <1>1, <1>3

\* The driver may shorten what is to be read, and lengthens what was.
LEMMA DriverFollows ==
  ASSUME GInv, Driver
  PROVE  Clean' /\ Opening' /\ Linked'
<1>1. UNCHANGED <<session, saying, decoder, received, taken, broken>>
  BY DEF Driver, callerVars
<1> SUFFICES ASSUME gap' = FALSE PROVE Clean' /\ Opening' /\ Linked'
  <2>1. gap' \in BOOLEAN
    BY TypedKeeps DEF GInv, FInv, Typed, IoTyped, Next
  <2> QED
    BY <2>1 DEF Clean, Opening, Linked
<1>2. /\ gap = FALSE /\ Coming' = Coming /\ Clean'
      /\ Len(line') \in Nat /\ Len(line) \in Nat /\ Len(line') <= Len(line)
  BY DriverComing DEF Driver, GInv, SInv, FInv, Typed
<1>3. Opening'
  BY <1>1, <1>2 DEF GInv, Opening
<1>4. ASSUME NEW k \in 0..Len(saying.packets), Follows(k) PROVE Follows(k)'
  <2>1. Awaits(saying, k, decoder \o Coming) => Awaits(saying', k, decoder' \o Coming')
    BY <1>1, <1>2
  <2>2. Len(Before(saying, k)) \in Nat /\ Len(Said(saying)) \in Nat
    <3>1. saying \in Sayings
      BY DEF GInv, FInv, Typed, SessionTyped
    <3>2. Said(saying) \in Bytes
      BY <3>1, SaidTyped
    <3> QED
      BY <3>1, <3>2, BeforeLength DEF Bytes
  <2> DEFINE n == Len(Before(saying, k))
             m == Len(Said(saying))
  <2>3. n + Len(line) <= m => n + Len(line') <= m
    <3> HIDE DEF n, m
    <3>1. n \in Nat /\ m \in Nat
      BY <2>2 DEF n, m
    <3> QED
      BY <1>2, <3>1
  <2>4. n + Len(line) <= m =>
          Len(Before(saying', k)) + Len(line') <= Len(Said(saying'))
    BY <1>1, <2>3
  <2>5. /\ taken' = taken /\ received' = received /\ saying' = saying /\ decoder' = decoder
        /\ broken' = broken
    BY <1>1
  <2> QED
    BY <1>4, <2>1, <2>4, <2>5 DEF Follows
<1>5. Linked'
  <2> SUFFICES ASSUME session.phase \in {"linked", "sending", "next"}
               PROVE  \E k \in 0..Len(saying.packets) : Follows(k)'
    BY <1>1 DEF Linked
  <2>1. PICK k \in 0..Len(saying.packets) : Follows(k)
    BY <1>2 DEF GInv, Linked
  <2> QED
    BY <1>4, <2>1
<1> QED
  BY <1>2, <1>3, <1>5

\* Nothing of this holds once bytes were lost.
LEMMA LostAnyhow ==
  ASSUME gap' = TRUE
  PROVE  Clean' /\ Opening' /\ Linked'
BY DEF Clean, Opening, Linked

\* Every step keeps what comes behind the packets that the link has.
LEMMA LinkKeeps ==
  ASSUME GInv, [Next]_vars
  PROVE  Clean' /\ Opening' /\ Linked'
<1> USE DEF Phase
<1>0. session \in Sessions /\ IInv /\ Serves /\ Clean /\ IoTyped /\ gap \in BOOLEAN
  BY DEF GInv, SInv, FInv, Typed, SessionTyped, IoTyped
<1>1. ASSUME NEW op, NEW data, Calls(op, data)
      PROVE  /\ gap' = gap /\ Coming' = Coming /\ Clean'
             /\ UNCHANGED <<decoder, broken, saying, line, taken, received>>
  BY <1>0, <1>1, CallComing DEF Calls, Coming
<1>2. ASSUME NEW phase, Take(phase), result.op = "write" \/ result.bytes = <<>>, gap' = gap
      PROVE  Coming' = Coming /\ Clean' /\ line' = line
  BY <1>0, <1>2, TakeComing DEF Coming
<1>3. ASSUME NEW phase \in {"command", "sending"}, Take(phase) PROVE result.op = "write"
  BY <1>0, <1>3, TakeServes DEF OpOf
<1>4. CASE Open
  <2>1. UNCHANGED <<io, result, line, gap>> /\ session'.phase \in {"command", "closed"}
        /\ session.phase = "listed"
    BY <1>0, <1>4 DEF Open, Sessions
  <2>2. Coming' = Coming /\ Clean'
    BY <1>0, <2>1 DEF Coming, InFlight, Over, Clean
  <2> QED
    BY <1>4, <2>1, <2>2, FollowsOn DEF Open
<1>5. CASE WriteEntryCommand
  <2>1. session.phase = "command" /\ session'.phase = "command"
    BY <1>0, <1>5 DEF WriteEntryCommand, Sessions
  <2> QED
    BY <1>1, <1>5, <2>1, FollowsOn DEF WriteEntryCommand
<1>6. CASE ReadEntryReply
  <2>1. session.phase = "entry" /\ session'.phase = "entry"
    BY <1>0, <1>6 DEF ReadEntryReply, Sessions
  <2> QED
    BY <1>1, <1>6, <2>1, FollowsOn DEF ReadEntryReply
<1>7. CASE Send
  <2>1. session.phase = "linked" /\ session'.phase = "sending"
    BY <1>0, <1>7 DEF Send, Sessions
  <2> QED
    BY <1>1, <1>7, <2>1, FollowsOn DEF Send
<1>8. CASE Read
  <2>1. session.phase \in {"linked", "next"} /\ session'.phase = "next"
    BY <1>0, <1>8 DEF Read, Sessions
  <2> QED
    BY <1>1, <1>8, <2>1, FollowsOn DEF Read
<1>9. CASE EntryCommandWritten
  <2>1. session.phase = "command" /\ session'.phase \in {"entry", "closing"}
    BY <1>0, <1>9 DEF EntryCommandWritten, Take, Sessions
  <2>2. Coming' = Coming /\ Clean' /\ line' = line
    BY <1>2, <1>3, <1>9 DEF EntryCommandWritten
  <2> QED
    BY <1>9, <2>1, <2>2, FollowsOn DEF EntryCommandWritten, Take
<1>10. CASE Sent
  <2>1. session.phase = "sending" /\ session'.phase = "linked"
    BY <1>0, <1>10 DEF Sent, Take, Sessions
  <2>2. Coming' = Coming /\ Clean' /\ line' = line
    BY <1>2, <1>3, <1>10 DEF Sent
  <2> QED
    BY <1>10, <2>1, <2>2, FollowsOn DEF Sent, Take
<1>11. CASE TakeReceived
  <2>1. UNCHANGED <<io, result, line, gap, session, decoder, broken, saying>>
    BY <1>11 DEF TakeReceived, ioVars
  <2>2. Coming' = Coming /\ Clean'
    BY <1>0, <2>1 DEF Coming, InFlight, Over, Clean
  <2>3. taken' \o received' = taken \o received
    <3>1. taken \in Seq(Bytes) /\ received \in Seq(Bytes)
      BY DEF GInv, FInv, Typed, SessionTyped
    <3> QED
      BY <1>11, <3>1, TakesFirst DEF TakeReceived
  <2> QED
    BY <2>1, <2>2, <2>3, FollowsOn
<1>12. CASE ReadFailed
  <2>1. session.phase = "next" /\ session'.phase = "linked" /\ result.bytes = <<>>
    BY <1>0, <1>12 DEF ReadFailed, Take, Sessions, IoTyped
  <2>2. Coming' = Coming /\ Clean' /\ line' = line
    BY <1>2, <1>12, <2>1 DEF ReadFailed
  <2> QED
    BY <1>12, <2>1, <2>2, FollowsOn DEF ReadFailed, Take
<1>13. CASE ReadNothing
  <2>1. session.phase = "next" /\ session'.phase \in {"next", "linked"} /\ result.bytes = <<>>
    BY <1>0, <1>13 DEF ReadNothing, Take, Sessions
  <2>2. Coming' = Coming /\ Clean' /\ line' = line
    BY <1>2, <1>13, <2>1 DEF ReadNothing
  <2> QED
    BY <1>13, <2>1, <2>2, FollowsOn DEF ReadNothing, Take
<1>14. CASE Shutdown
  <2>1. UNCHANGED <<io, result, line, gap>> /\ session'.phase = "closing"
    BY <1>0, <1>14 DEF Shutdown, ioVars, Sessions
  <2> QED
    BY <1>0, <2>1 DEF Opening, Linked, Clean
<1>15. CASE Close
  <2>1. UNCHANGED <<io, gap>> /\ session'.phase = "closed"
    BY <1>0, <1>15 DEF Close, CloseHandle, ioVars, Sessions
  <2> QED
    BY <1>0, <2>1 DEF Opening, Linked, Clean
<1>16. CASE Transport
  <2>1. gap' \in BOOLEAN
    BY <1>16, TypedKeeps DEF GInv, FInv, Typed, IoTyped, Next
  <2>2. CASE gap' = FALSE
    <3>1. gap = FALSE /\ line' = line /\ InFlight' = InFlight /\ Clean'
      BY <1>0, <1>16, <2>2, TransportComing DEF Transport
    <3> QED
      BY <1>16, <2>2, <3>1, FollowsOn DEF Transport, callerVars, Coming
  <2> QED
    BY <2>1, <2>2, LostAnyhow
<1>17. CASE UNCHANGED vars
  <2>1. UNCHANGED <<io, result, line, gap, session, decoder, broken, saying, taken, received>>
    BY <1>17 DEF vars, ioVars, callerVars
  <2>2. Coming' = Coming /\ Clean'
    BY <1>0, <2>1 DEF Coming, InFlight, Over, Clean
  <2> QED
    BY <2>1, <2>2, FollowsOn
<1> QED
  BY <1>4, <1>5, <1>6, <1>7, <1>8, <1>9, <1>10, <1>11, <1>12, <1>13, <1>14, <1>15, <1>16,
     <1>17, ReplyFollows, ReadFollows, DriverFollows DEF Next

\* All that the printer says comes behind none.
LEMMA InitFollows == Init => GInv
<1> SUFFICES ASSUME Init PROVE GInv
  OBVIOUS
<1>1. FInv /\ SInv
  BY InitFrames, InitHolds
<1>2. /\ io.op = "none" /\ result.op = "none" /\ line = Said(saying) /\ decoder = <<>>
      /\ session.phase = "listed"
  BY DEF Init, IoInit, NoIo, NoResult
<1>3. Said(saying) \in Bytes
  BY SaidTyped DEF Init
<1>4. Said(saying) = decoder \o Coming
  <2>1. InFlight = <<>>
    BY <1>2 DEF InFlight
  <2>2. <<>> \o line = line
    BY <1>2, <1>3, ConcatEmptySeq DEF Bytes
  <2> QED
    BY <1>2, <2>1, <2>2 DEF Coming
<1> QED
  BY <1>1, <1>2, <1>4 DEF GInv, Clean, Opening, Linked

\* So it always holds.
LEMMA AlwaysFollows == Spec => []GInv
<1>1. GInv /\ [Next]_vars => GInv'
  BY StepKeeps, TypedKeeps, ServesKeeps, EarlyKeeps, LinkKeeps DEF GInv, FInv
<1> QED
  BY <1>1, InitFollows, PTL DEF Spec

\* The packets that the link has are then just those that were read.
LEMMA FollowedIsExact == GInv => FramesExact
<1> SUFFICES ASSUME GInv, Settled, ~gap, session.phase \in {"linked", "next"}
             PROVE  LET out == taken \o received IN
                    IF broken THEN IsPrefix(out, SubSeq(saying.packets, 1, PacketsRead))
                    ELSE out = SubSeq(saying.packets, 1, PacketsRead)
  BY DEF FramesExact
<1> DEFINE out == taken \o received
           ps == saying.packets
<1>1. saying \in Sayings /\ line \in Bytes /\ decoder \in Bytes /\ gap = FALSE
  BY DEF GInv, FInv, Typed, SessionTyped, IoTyped
<1>2. ps \in Seq(Bytes) /\ Len(ps) \in Nat
  BY <1>1, SaidTyped
<1>3. PICK k \in 0..Len(ps) : Follows(k)
  BY <1>1 DEF GInv, Linked
<1>4. Coming = line
  <2>1. InFlight = <<>>
    BY IdleFlight DEF GInv, SInv, Settled
  <2>2. <<>> \o line = line
    BY <1>1, ConcatEmptySeq DEF Bytes
  <2> QED
    BY <2>1, <2>2 DEF Coming
<1>5. CASE ~broken
  <2>1. Awaits(saying, k, decoder \o line) /\ ~Drains(decoder, 1)
    BY <1>3, <1>4, <1>5 DEF Follows
  <2>2. PacketsRead = k
    BY <1>1, <2>1, ReadIsFramed
  <2> QED
    BY <1>3, <1>5, <2>2 DEF Follows
<1>6. CASE broken
  <2> DEFINE n == PacketsRead
  <2>1. n \in k..Len(ps)
    BY <1>1, <1>3, <1>6, FramedWasRead DEF Follows
  <2> HIDE DEF n
  <2>2. out = SubSeq(ps, 1, k)
    BY <1>3 DEF Follows
  <2>3. SubSeq(ps, 1, k) \in Seq(Bytes) /\ Len(SubSeq(ps, 1, k)) = k
        /\ SubSeq(ps, 1, n) \in Seq(Bytes) /\ Len(SubSeq(ps, 1, n)) = n
    <3>1. 1 \in 1..(Len(ps) + 1) /\ k \in (1 - 1)..Len(ps) /\ n \in (1 - 1)..Len(ps)
          /\ k - 1 + 1 = k /\ n - 1 + 1 = n
      BY <1>2, <2>1
    <3> QED
      BY <1>2, <3>1, SubSeqTyped
  <2>4. SubSeq(SubSeq(ps, 1, n), 1, k) = SubSeq(SubSeq(ps, 1, k), 1, k)
    <3>1. CASE k = 0
      <4>1. SubSeq(SubSeq(ps, 1, n), 1, 0) = <<>> /\ SubSeq(SubSeq(ps, 1, k), 1, 0) = <<>>
        BY SubSeqEmpty
      <4> QED
        BY <3>1, <4>1
    <3>2. CASE k # 0
      <4>1. k \in 1..Len(ps) /\ n \in 1..Len(ps) /\ 1 \in 1..Len(ps)
            /\ 1 \in 1..(n - 1 + 1) /\ k \in 1..(n - 1 + 1)
            /\ 1 \in 1..(k - 1 + 1) /\ k \in 1..(k - 1 + 1)
            /\ 1 + 1 - 1 = 1 /\ 1 + k - 1 = k
        BY <1>2, <2>1, <3>2
      <4>2. SubSeq(SubSeq(ps, 1, n), 1, k) = SubSeq(ps, 1 + 1 - 1, 1 + k - 1)
        BY <1>2, <4>1, SubSeqOfSubSeq
      <4>3. SubSeq(SubSeq(ps, 1, k), 1, k) = SubSeq(ps, 1 + 1 - 1, 1 + k - 1)
        BY <1>2, <4>1, SubSeqOfSubSeq
      <4> QED
        BY <4>2, <4>3
    <3> QED
      BY <3>1, <3>2
  <2>5. k <= n
    BY <2>1
  <2>6. IsPrefix(out, SubSeq(ps, 1, n))
    BY <2>2, <2>3, <2>4, <2>5 DEF IsPrefix
  <2> QED
    BY <1>6, <2>6 DEF n
<1> QED
  BY <1>5, <1>6

\* However the reads cut the stream and whatever the printer says, the packets
\* of next_packet are the printer's, whole, in order and none missing.
THEOREM FramingIsExact == Spec => []FramesExact
BY AlwaysFollows, FollowedIsExact, PTL
=============================================================================

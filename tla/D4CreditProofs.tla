--------------------------- MODULE D4CreditProofs ---------------------------
(* The credit of the link of D4Conversation.tla against the printer's own  *)
(* books, for every set of services, every limit and every bound.          *)
EXTENDS D4Proofs, NaturalSets

-----------------------------------------------------------------------------
(* The printer's account.                                                  *)

\* What the printer would have in its ledger had it been sent nothing but what
\* the host has paid for.
Books(c) == ledger[c] + unpaid[c]

\* t is the printer's account of channel c: t[i] is what it will have been
\* when the host has read the first i packets of Coming, and the reply that
\* opens the channel starts it anew.
Starts(p, c) == OpensChannel(p) /\ p.chan = c
Account(t, c) ==
    /\ t \in [0..Len(Coming) -> Int]
    /\ \A i \in 1..Len(Coming) :
          t[i] = IF Starts(Coming[i], c) THEN Coming[i].added ELSE t[i - 1] + Worth(Coming[i], c)
    /\ t[Len(Coming)] = Books(c)

\* No packet takes credit away: without a new start the account only grows.
LEMMA AccountGrows ==
    ASSUME TypeOK, NEW c \in Channels, NEW t, Account(t, c),
           \A i \in 1..Len(Coming) : ~Starts(Coming[i], c)
    PROVE  t[0] <= Books(c)
<1>0. Len(Coming) \in Nat /\ \A i \in 1..Len(Coming) : Coming[i] \in Packets
  BY QueueLengths
<1> DEFINE S == {n \in 0..Len(Coming) : t[0] <= t[n]}
<1>1. 0 \in S
  BY <1>0 DEF Account
<1>2. ASSUME NEW n \in 0..(Len(Coming) - 1), n \in S
      PROVE  n + 1 \in S
  <2>1. n + 1 \in 1..Len(Coming) /\ n \in 0..Len(Coming) /\ (n + 1) - 1 = n /\ n + 1 \in 0..Len(Coming)
    BY <1>0
  <2>2. Worth(Coming[n + 1], c) \in Nat
    <3>1. Coming[n + 1].credit \in Nat /\ Coming[n + 1].added \in Nat
      BY <1>0, <2>1, BoundAssumption DEF Packets
    <3> QED
      BY <3>1 DEF Worth, CreditFor
  <2>3. t[n + 1] = t[n] + Worth(Coming[n + 1], c)
    BY <2>1 DEF Account
  <2>4. t[0] \in Int /\ t[n] \in Int /\ t[n + 1] \in Int /\ t[0] <= t[n]
    BY <1>0, <1>2, <2>1 DEF Account
  <2>5. t[0] <= t[n + 1]
    BY <2>2, <2>3, <2>4
  <2> QED
    BY <2>1, <2>5
<1>3. Len(Coming) \in S
  <2> HIDE DEF S
  <2>1. 0..Len(Coming) \subseteq S
    BY <1>0, <1>1, <1>2, SetInduction
  <2> QED
    BY <1>0, <2>1
<1> QED
  BY <1>3 DEF Account

\* What the account becomes when the host reads the first packet, or writes
\* on the channel, which changes the ledger by d; when it puts the first
\* packet back; and when the printer sends one.
LEMMA AccountAdvanced ==
    ASSUME TypeOK, Len(Coming) > 0, NEW c \in Channels, NEW t, Account(t, c),
           Advanced(Coming', Coming), NEW d \in Int, Books(c)' = Books(c) + d,
           d = 0 \/ \A i \in 1..Len(Coming) : i > 1 => ~Starts(Coming[i], c)
    PROVE  \E u : Account(u, c)' /\ u[0] = t[1] + d
<1>0. Len(Coming) \in Nat /\ \A i \in 1..Len(Coming) : Coming[i] \in Packets
  BY QueueLengths
<1>1. Len(Coming') = Len(Coming) - 1 /\ \A i \in 1..Len(Coming') : Coming'[i] = Coming[i + 1]
  BY DEF Advanced
<1>2. \A i \in 0..Len(Coming) : t[i] \in Int
  BY DEF Account
<1> DEFINE u == [i \in 0..Len(Coming') |-> t[i + 1] + d]
<1>3. u \in [0..Len(Coming') -> Int]
  <2> SUFFICES ASSUME NEW i \in 0..Len(Coming') PROVE t[i + 1] + d \in Int
    OBVIOUS
  <2>1. i + 1 \in 0..Len(Coming)
    BY <1>0, <1>1
  <2> QED
    BY <1>2, <2>1
<1>4. ASSUME NEW i \in 1..Len(Coming')
      PROVE  u[i] = IF Starts(Coming'[i], c) THEN Coming'[i].added ELSE u[i - 1] + Worth(Coming'[i], c)
  <2>1. /\ i + 1 \in 1..Len(Coming) /\ i + 1 > 1 /\ Coming'[i] = Coming[i + 1]
        /\ i \in 0..Len(Coming') /\ i - 1 \in 0..Len(Coming') /\ (i - 1) + 1 = i /\ (i + 1) - 1 = i
        /\ i \in 0..Len(Coming)
    BY <1>0, <1>1
  <2>2. u[i] = t[i + 1] + d /\ u[i - 1] = t[i] + d
    BY <2>1
  <2>3. t[i + 1] = IF Starts(Coming[i + 1], c) THEN Coming[i + 1].added ELSE t[i] + Worth(Coming[i + 1], c)
    BY <2>1 DEF Account
  <2>4. Coming[i + 1].added \in Int /\ Worth(Coming[i + 1], c) \in Int
    <3>1. Coming[i + 1].credit \in Nat /\ Coming[i + 1].added \in Nat
      BY <1>0, <2>1, BoundAssumption DEF Packets
    <3> QED
      BY <3>1 DEF Worth, CreditFor
  <2>5. t[i] \in Int /\ t[i + 1] \in Int
    BY <1>2, <2>1
  <2> HIDE DEF u
  <2>6. CASE Starts(Coming[i + 1], c)
    BY <2>1, <2>2, <2>3, <2>4, <2>6
  <2>7. CASE ~Starts(Coming[i + 1], c)
    <3>1. u[i] = (t[i] + Worth(Coming[i + 1], c)) + d
      BY <2>2, <2>3, <2>7
    <3> QED
      BY <2>1, <2>2, <2>4, <2>5, <2>7, <3>1
  <2> QED
    BY <2>6, <2>7
<1>5. u[Len(Coming')] = Books(c)'
  <2>1. Len(Coming') \in 0..Len(Coming') /\ Len(Coming') + 1 = Len(Coming)
    BY <1>0, <1>1
  <2> QED
    BY <2>1 DEF Account
<1>6. u[0] = t[1] + d
  BY <1>0, <1>1
<1> HIDE DEF u
<1> QED
  BY <1>3, <1>4, <1>5, <1>6 DEF Account, Starts, OpensChannel, Worth, CreditFor, Opens

\* The first packet stays where it is.
LEMMA AccountKept ==
    ASSUME TypeOK, NEW c \in Channels, NEW t, Account(t, c),
           UNCHANGED Coming, NEW d \in Int, Books(c)' = Books(c) + d,
           d = 0 \/ \A i \in 1..Len(Coming) : ~Starts(Coming[i], c)
    PROVE  \E u : Account(u, c)' /\ u[0] = t[0] + d
<1>0. Len(Coming) \in Nat /\ \A i \in 1..Len(Coming) : Coming[i] \in Packets
  BY QueueLengths
<1>1. \A i \in 0..Len(Coming) : t[i] \in Int
  BY DEF Account
<1> DEFINE u == [i \in 0..Len(Coming) |-> t[i] + d]
<1>2. u \in [0..Len(Coming) -> Int] /\ \A i \in 0..Len(Coming) : u[i] = t[i] + d
  BY <1>1
<1> HIDE DEF u
<1>3. ASSUME NEW i \in 1..Len(Coming)
      PROVE  u[i] = IF Starts(Coming[i], c) THEN Coming[i].added ELSE u[i - 1] + Worth(Coming[i], c)
  <2>1. i \in 0..Len(Coming) /\ i - 1 \in 0..Len(Coming)
    BY <1>0
  <2>2. t[i] = IF Starts(Coming[i], c) THEN Coming[i].added ELSE t[i - 1] + Worth(Coming[i], c)
    BY DEF Account
  <2>3. Coming[i].added \in Int /\ Worth(Coming[i], c) \in Int
    <3>1. Coming[i].credit \in Nat /\ Coming[i].added \in Nat
      BY <1>0, BoundAssumption DEF Packets
    <3> QED
      BY <3>1 DEF Worth, CreditFor
  <2>4. CASE Starts(Coming[i], c)
    BY <1>1, <1>2, <2>1, <2>2, <2>3, <2>4
  <2>5. CASE ~Starts(Coming[i], c)
    BY <1>1, <1>2, <2>1, <2>2, <2>3, <2>5
  <2> QED
    BY <2>4, <2>5
<1>4. u[Len(Coming)] = Books(c)' /\ u[0] = t[0] + d
  BY <1>0, <1>2 DEF Account
<1> QED
  BY <1>2, <1>3, <1>4 DEF Account, Starts, OpensChannel, Worth, CreditFor, Opens

\* The first packet is worth nothing on c and is put back.
LEMMA AccountRotated ==
    ASSUME TypeOK, NEW c \in Channels, NEW t, Account(t, c),
           NEW k \in 1..Len(Coming), Rotated(Coming', Coming, k), Books(c)' = Books(c),
           ~Starts(Coming[1], c), Worth(Coming[1], c) = 0
    PROVE  \E u : Account(u, c)' /\ u[0] = t[0]
<1>0. Len(Coming) \in Nat /\ k \in Nat /\ 1 <= k /\ k <= Len(Coming)
  BY QueueLengths
<1>1. /\ Len(Coming') = Len(Coming) /\ Coming'[k] = Coming[1]
      /\ \A i \in 1..Len(Coming) : i < k => Coming'[i] = Coming[i + 1]
      /\ \A i \in 1..Len(Coming) : i > k => Coming'[i] = Coming[i]
  BY <1>0 DEF Rotated
<1>2. \A i \in 0..Len(Coming) : t[i] \in Int
  BY DEF Account
<1>3. t[1] = t[0]
  <2>1. 1 \in 1..Len(Coming) /\ 0 \in 0..Len(Coming) /\ 1 - 1 = 0
    BY <1>0
  <2> QED
    BY <1>2, <2>1 DEF Account
<1> DEFINE u == [i \in 0..Len(Coming) |-> IF i < k THEN t[i + 1] ELSE t[i]]
<1>4. /\ \A i \in 0..Len(Coming) : i < k => u[i] = t[i + 1]
      /\ \A i \in 0..Len(Coming) : ~(i < k) => u[i] = t[i]
  OBVIOUS
<1>5. u \in [0..Len(Coming) -> Int]
  <2> SUFFICES ASSUME NEW i \in 0..Len(Coming)
               PROVE  (IF i < k THEN t[i + 1] ELSE t[i]) \in Int
    OBVIOUS
  <2>1. i < k => i + 1 \in 0..Len(Coming)
    BY <1>0
  <2> QED
    BY <1>2, <2>1
<1> HIDE DEF u
<1>6. ASSUME NEW i \in 1..Len(Coming)
      PROVE  u[i] = IF Starts(Coming'[i], c) THEN Coming'[i].added ELSE u[i - 1] + Worth(Coming'[i], c)
  <2>1. i \in 0..Len(Coming) /\ i - 1 \in 0..Len(Coming)
    BY <1>0
  <2>2. CASE i < k
    <3>1. /\ i + 1 \in 1..Len(Coming) /\ (i + 1) - 1 = i /\ i - 1 < k /\ (i - 1) + 1 = i
      BY <1>0, <2>2
    <3>2. u[i] = t[i + 1] /\ u[i - 1] = t[i] /\ Coming'[i] = Coming[i + 1]
      BY <1>1, <1>4, <2>1, <2>2, <3>1
    <3> QED
      BY <3>1, <3>2 DEF Account
  <2>3. CASE i = k
    <3>1. i - 1 < k /\ (i - 1) + 1 = i /\ ~(i < k)
      BY <1>0, <2>3
    <3>2. u[i] = t[i] /\ u[i - 1] = t[i] /\ Coming'[i] = Coming[1]
      BY <1>1, <1>4, <2>1, <2>3, <3>1
    <3> QED
      BY <1>2, <2>1, <3>2
  <2>4. CASE i > k
    <3>1. ~(i - 1 < k) /\ ~(i < k)
      BY <1>0, <2>4
    <3>2. u[i] = t[i] /\ u[i - 1] = t[i - 1] /\ Coming'[i] = Coming[i]
      BY <1>1, <1>4, <2>1, <2>4, <3>1
    <3> QED
      BY <3>2 DEF Account
  <2> QED
    BY <1>0, <2>2, <2>3, <2>4
<1>7. u[Len(Coming)] = Books(c)'
  <2>1. Len(Coming) \in 0..Len(Coming) /\ ~(Len(Coming) < k)
    BY <1>0
  <2> QED
    BY <1>4, <2>1 DEF Account
<1>8. u[0] = t[0]
  <2>1. 0 \in 0..Len(Coming) /\ 0 < k /\ 0 + 1 = 1
    BY <1>0
  <2> QED
    BY <1>3, <1>4, <2>1
<1> QED
  BY <1>1, <1>5, <1>6, <1>7, <1>8 DEF Account, Starts, OpensChannel, Worth, CreditFor, Opens

\* The printer sends q and enters in its ledger what it is worth.
LEMMA AccountLonger ==
    ASSUME TypeOK, NEW c \in Channels, NEW t, Account(t, c),
           NEW q \in Packets, Longer(Coming', Coming, q),
           Books(c)' = IF Starts(q, c) THEN q.added ELSE Books(c) + Worth(q, c)
    PROVE  \E u : Account(u, c)' /\ u[0] = t[0]
<1>0. Len(Coming) \in Nat /\ Books(c) \in Int
  BY QueueLengths DEF TypeOK, Books
<1>1. /\ Len(Coming') = Len(Coming) + 1 /\ Coming'[Len(Coming) + 1] = q
      /\ \A i \in 1..Len(Coming) : Coming'[i] = Coming[i]
  BY DEF Longer
<1>2. \A i \in 0..Len(Coming) : t[i] \in Int
  BY DEF Account
<1>3. Books(c)' \in Int
  <2>1. q.credit \in Nat /\ q.added \in Nat
    BY BoundAssumption DEF Packets
  <2> QED
    BY <1>0, <2>1 DEF Worth, CreditFor
<1> DEFINE u == [i \in 0..Len(Coming') |-> IF i = Len(Coming') THEN Books(c)' ELSE t[i]]
<1>4. \A i \in 0..Len(Coming) : i \in 0..Len(Coming') /\ i # Len(Coming') /\ u[i] = t[i]
  BY <1>0, <1>1
<1>5. u[Len(Coming')] = Books(c)'
  BY <1>0, <1>1
<1>6. u \in [0..Len(Coming') -> Int]
  BY <1>0, <1>1, <1>2, <1>3
<1> HIDE DEF u
<1>7. ASSUME NEW i \in 1..Len(Coming')
      PROVE  u[i] = IF Starts(Coming'[i], c) THEN Coming'[i].added ELSE u[i - 1] + Worth(Coming'[i], c)
  <2>1. CASE i = Len(Coming')
    <3>1. i - 1 = Len(Coming) /\ Len(Coming) \in 0..Len(Coming) /\ Coming'[i] = q
      BY <1>0, <1>1, <2>1
    <3>2. u[i - 1] = Books(c)
      BY <1>4, <3>1 DEF Account
    <3> QED
      BY <1>5, <2>1, <3>1, <3>2
  <2>2. CASE i # Len(Coming')
    <3>1. i \in 1..Len(Coming) /\ i \in 0..Len(Coming) /\ i - 1 \in 0..Len(Coming)
      BY <1>0, <1>1, <2>2
    <3>2. u[i] = t[i] /\ u[i - 1] = t[i - 1] /\ Coming'[i] = Coming[i]
      BY <1>1, <1>4, <3>1
    <3> QED
      BY <3>1, <3>2 DEF Account
  <2> QED
    BY <2>1, <2>2
<1>8. u[0] = t[0]
  BY <1>0, <1>4
<1> QED
  BY <1>5, <1>6, <1>7, <1>8 DEF Account, Starts, OpensChannel, Worth, CreditFor, Opens

-----------------------------------------------------------------------------
(* The entries of the channels.                                            *)

\* When a conversation ends, every service channel loses its entry.
LEMMA IterationEnds ==
    ASSUME NEW p, NEW rest, NEW written, Iterates(p, rest, written),
           conversation # "Terminated", conversation' = "Terminated"
    PROVE  \A c \in Services : chan'[c] = "absent"
<1>1. \E cr : Terminated(cr)
  BY DEF Iterates, Dropped, Rejected, DataArrived, TransactionArrived, LinkUnchanged,
         HandlePeerTransaction, HandleInit, HandleQuery, HandleCloseChannel,
         HandleCredit, HandleExit, HandleError, HandleReply, InitReplied, SocketResolved,
         ChannelOpened, NameResolved, ChannelClosed, ExitReplied, CreditRequested
<1> QED
  BY <1>1, ChannelAssumption DEF Terminated, Channels

\* No iteration touches the entry of the transaction channel.
LEMMA IterationKeepsTransaction ==
    ASSUME TypeOK, TargetOK, NEW p \in Packets, PacketOK(p), NEW rest, NEW written,
           Iterates(p, rest, written)
    PROVE  chan'[Transaction] = chan[Transaction]
<1>0. Transaction \in Channels /\ Transaction \notin Services /\ chan \in [Channels -> Presence]
  BY ChannelAssumption DEF Channels, TypeOK
<1>1. CASE UNCHANGED chan
  BY <1>1
<1>2. CASE \E cr : Terminated(cr)
  BY <1>0, <1>2 DEF Terminated
<1>3. CASE HandlePeerTransaction(p, Accrued(p), written)
  <2>1. CASE Shut(p.chan) /\ p.kind = "CloseChannel"
    BY <1>0, <2>1 DEF Shut, PacketOK
  <2> QED
    BY <1>1, <1>2, <1>3, <2>1
       DEF HandlePeerTransaction, HandleInit, HandleQuery, HandleCloseChannel,
           HandleCredit, HandleExit, HandleError
<1>4. CASE HandleReply(p, Accrued(p), written)
  <2>1. CASE ChannelOpened(p, Accrued(p)) \/ ChannelClosed(p, Accrued(p))
             \/ SocketResolved(p, Accrued(p), written)
    <3>1. target \in Services
      BY <2>1 DEF ChannelOpened, ChannelClosed, SocketResolved, TargetOK, InitWaits
    <3> QED
      BY <1>0, <2>1, <3>1 DEF ChannelOpened, ChannelClosed, SocketResolved, Insert
  <2> QED
    BY <1>1, <1>2, <1>4, <2>1
       DEF HandleReply, InitReplied, NameResolved, ExitReplied, CreditRequested
<1> QED
  BY <1>1, <1>3, <1>4 DEF Iterates, Dropped, Rejected, DataArrived, TransactionArrived, LinkUnchanged

\* OpenChannel is asked for a fresh entry, in a conversation that is not over.
LEMMA IterationAsksOpen ==
    ASSUME TypeOK, NEW p \in Packets, NEW rest, NEW written, Iterates(p, rest, written),
           pc # "OpenChannelReply", pc' = "OpenChannelReply"
    PROVE  /\ pc = "GetSocketIdReply" /\ p.kind = "GetSocketIdReply"
           /\ conversation' # "Terminated" /\ chan'[target'] = "pending"
<1>1. SocketResolved(p, Accrued(p), written) /\ p.kind = Expected
  BY DEF Iterates, Dropped, Rejected, DataArrived, TransactionArrived, Wait, Fail,
         Returns, End, NotAnswered, HandlePeerTransaction, HandleInit, HandleQuery,
         HandleCloseChannel, HandleCredit, HandleExit, HandleError, HandleReply,
         InitReplied, ChannelOpened, NameResolved, ChannelClosed,
         ExitReplied, CreditRequested, Command, SendData
<1>2. \E cr : /\ CanCommand(cr) /\ target' = p.chan /\ UNCHANGED conversation
              /\ chan' = [chan EXCEPT ![p.chan] = "pending"]
  BY <1>1 DEF SocketResolved, Insert, Command, Fail, End
<1>3. p.chan \in Channels /\ chan \in [Channels -> Presence]
  BY DEF Packets, TypeOK
<1>4. conversation' # "Terminated"
  BY <1>2 DEF CanCommand, MaySend
<1> QED
  BY <1>1, <1>2, <1>3, <1>4 DEF SocketResolved, Expected

\* The transaction channel is always open; in a conversation that is over no
\* channel is, and the reply to OpenChannel finds no entry.
Entries ==
    /\ chan[Transaction] = "open"
    /\ conversation = "Terminated" =>
          /\ \A c \in Services : chan[c] # "open"
          /\ pc = "OpenChannelReply" => chan[target] = "absent"

\* Every step keeps the entries of a conversation in order.
LEMMA EntriesStep ==
    ASSUME TypeOK, Consistent, Entries, Next
    PROVE  Entries'
<1> USE DEF Consistent
<1>1. CASE Start
  <2>1. UNCHANGED <<chan, conversation>> /\ pc = "idle"
    BY <1>1, StartAsks
  <2>2. pc' # "OpenChannelReply"
    <3>1. \A u : Asks(u) /\ u.kind # "OpenChannel" => pc' # "OpenChannelReply"
      BY DEF Asks, ReplyTo, Awaited, InitWaits, Requests
    <3> QED
      BY <1>1, <2>1, <3>1, StartAsks
  <2> QED
    BY <2>1, <2>2 DEF Entries
<1>2. CASE Receive
  <2> DEFINE p == Coming[1]
  <2>1. PICK written, rest, m, w :
           written \in BOOLEAN /\ Iterates(p, rest, written) /\ Moves(Coming', Coming, m, w)
    BY <1>2, Iteration
  <2>2. p \in Packets /\ PacketOK(p) /\ pc # "idle" /\ TargetOK
    <3>1. 1 \in 1..Len(Coming)
      BY <1>2, Iteration
    <3> QED
      BY <1>2, <3>1, Iteration DEF Receive, Wellformed
  <2>3. chan'[Transaction] = "open"
    BY <2>1, <2>2, IterationKeepsTransaction DEF Entries
  <2>4. target' = target /\ pc' \in {pc, "idle", "InitReply10", "OpenChannelReply", "Data"}
    BY <2>1, <2>2, IterationTarget
  <2>5. ASSUME conversation' = "Terminated"
        PROVE  /\ \A c \in Services : chan'[c] # "open"
               /\ pc' = "OpenChannelReply" => chan'[target'] = "absent"
    <3>1. CASE conversation # "Terminated"
      <4>1. \A c \in Services : chan'[c] = "absent"
        BY <2>1, <2>5, <3>1, IterationEnds
      <4>2. pc' = "OpenChannelReply" => target' \in Services
        <5>1. TargetOK'
          BY <2>1, <2>2, IterationTarget
        <5> QED
          BY <5>1 DEF TargetOK, InitWaits
      <4> QED
        BY <4>1, <4>2
    <3>2. CASE conversation = "Terminated"
      <4>1. \A c \in Services : chan'[c] # "open"
        <5> SUFFICES ASSUME NEW c \in Services, chan'[c] = "open" PROVE FALSE
          OBVIOUS
        <5> QED
          BY <2>1, <3>2, IterationOpens DEF Entries
      <4>2. ASSUME pc' = "OpenChannelReply"
            PROVE  chan'[target'] = "absent"
        <5>1. pc = "OpenChannelReply"
          BY <2>1, <2>2, <2>5, <4>2, IterationAsksOpen
        <5>2. target \in Services /\ chan[target] = "absent"
          BY <2>2, <3>2, <5>1 DEF Entries, TargetOK, InitWaits
        <5> QED
          BY <2>1, <2>2, <2>4, <5>1, <5>2, IterationEntries
      <4> QED
        BY <4>1, <4>2
    <3> QED
      BY <3>1, <3>2
  <2> QED
    BY <2>3, <2>5 DEF Entries
<1>3. CASE ReadFails
  BY <1>3 DEF ReadFails, Fail, End, LinkUnchanged, Entries
<1>4. CASE Peer
  <2>1. UNCHANGED <<chan, conversation, pc, target>>
    BY <1>4, PeerAnswersShape, PeerVolunteers DEF link
  <2> QED
    BY <2>1 DEF Entries
<1>5. CASE Arrives
  BY <1>5, ArrivesShape DEF Entries
<1> QED
  BY <1>1, <1>2, <1>3, <1>4, <1>5 DEF Next, Host

\* Unless a call has given up its OpenChannel, the one on its way, or its
\* reply, belongs to the running call, whose channel is not open yet.
Opening(c) == pc = "OpenChannelReply" /\ c = target /\ chan[c] # "open"
Outstanding ==
    ~abandoned =>
       /\ \A i \in 1..Len(unanswered) : unanswered[i].kind = "OpenChannel" =>
             /\ Opening(unanswered[i].chan)
             /\ \A j \in 1..Len(unanswered) : unanswered[j].kind = "OpenChannel" => i = j
             /\ \A j \in 1..Len(Coming) : Coming[j].kind # "OpenChannelReply"
       /\ \A i \in 1..Len(Coming) : Coming[i].kind = "OpenChannelReply" =>
             /\ Opening(Coming[i].chan)
             /\ \A j \in 1..Len(Coming) : Coming[j].kind = "OpenChannelReply" => i = j

\* A call that is not given up goes on until its reply arrives.
LEMMA IterationOpening ==
    ASSUME TypeOK, NEW p \in Packets, PacketOK(p), NEW rest, NEW written,
           Iterates(p, rest, written), pc = "OpenChannelReply", ~abandoned'
    PROVE  \/ p.kind = "OpenChannelReply" /\ pc' = "idle" /\ UNCHANGED unanswered
           \/ p.kind # "OpenChannelReply" /\ UNCHANGED <<pc, target, unanswered>>
<1>1. ~Fail
  BY DEF Fail
<1>2. CASE p.kind = "OpenChannelReply"
  <2>1. p.on = Transaction
    BY <1>2 DEF PacketOK, Replies
  <2>2. HandleReply(p, Accrued(p), written)
    BY <1>1, <1>2, <2>1 DEF Iterates, Dropped, Rejected, DataArrived, TransactionArrived, PeerCommands
  <2>3. ChannelOpened(p, Accrued(p))
    BY <2>2 DEF HandleReply, InitReplied, SocketResolved, NameResolved, ChannelClosed,
                ExitReplied, CreditRequested
  <2> QED
    BY <1>2, <2>3 DEF ChannelOpened, Returns, End, Silent
<1>3. CASE p.kind # "OpenChannelReply"
  <2>1. CASE HandlePeerTransaction(p, Accrued(p), written)
    BY <1>1, <1>3, <2>1 DEF HandlePeerTransaction, HandleInit, HandleQuery, HandleCloseChannel,
           HandleCredit, HandleExit, HandleError, NotAnswered, Answered, Wait, Silent
  <2>2. CASE p.kind = Expected
    BY <1>3, <2>2 DEF Expected
  <2> QED
    BY <1>1, <1>3, <2>1, <2>2
       DEF Iterates, Dropped, Rejected, DataArrived, TransactionArrived, Wait, Silent
<1> QED
  BY <1>2, <1>3

\* Every step keeps the OpenChannel on its way with its call.
LEMMA OutstandingStep ==
    ASSUME TypeOK, Consistent, Outstanding, Next
    PROVE  Outstanding'
<1>0. Len(unanswered) \in Nat /\ Len(Coming) \in Nat
  BY QueueLengths
<1> USE DEF Consistent
<1> DEFINE Now(c) == pc' = "OpenChannelReply" /\ c = target' /\ chan'[c] # "open"
<1> SUFFICES ASSUME ~abandoned'
             PROVE  Outstanding'
  BY DEF Outstanding, Opening
<1>1. CASE Start
  <2>1. Coming' = Coming /\ pc = "idle" /\ UNCHANGED abandoned
    BY <1>1, StartAsks DEF Coming
  <2>2. /\ \A i \in 1..Len(unanswered) : unanswered[i].kind # "OpenChannel"
        /\ \A i \in 1..Len(Coming) : Coming[i].kind # "OpenChannelReply"
    BY <2>1 DEF Outstanding, Opening
  <2>3. UNCHANGED unanswered \/ \E u : Longer(unanswered', unanswered, u) /\ u.kind # "OpenChannel"
    BY <1>1, StartAsks DEF Asks
  <2>4. \A i \in 1..Len(unanswered') : unanswered'[i].kind # "OpenChannel"
    BY <1>0, <2>2, <2>3 DEF Longer
  <2> QED
    BY <2>1, <2>2, <2>4 DEF Outstanding, Opening
<1>2. CASE Receive
  <2> DEFINE p == Coming[1]
  <2>1. PICK written, rest, m, w :
           written \in BOOLEAN /\ Iterates(p, rest, written) /\ Moves(Coming', Coming, m, w)
    BY <1>2, Iteration
  <2>2. p \in Packets /\ PacketOK(p) /\ pc # "idle" /\ TargetOK /\ 1 \in 1..Len(Coming)
    <3>1. 1 \in 1..Len(Coming)
      BY <1>2, Iteration
    <3> QED
      BY <1>2, <3>1, Iteration DEF Receive, Wellformed
  <2>3. ~abandoned
    BY <2>1 DEF Iterates, Dropped, Rejected, DataArrived, TransactionArrived, Wait, Fail,
             Returns, End, NotAnswered, HandlePeerTransaction, HandleInit, HandleQuery,
             HandleCloseChannel, HandleCredit, HandleExit, HandleError, HandleReply,
             InitReplied, ChannelOpened, NameResolved, ChannelClosed,
             ExitReplied, CreditRequested, SocketResolved
  <2>4. \A i \in 1..Len(Coming) : Coming[i].kind = "OpenChannelReply" => i \in OnTransaction(Coming)
    BY DEF Wellformed, PacketOK, Replies, OnTransaction
  <2>5. \A i \in 1..Len(Coming') : Coming'[i].kind = "OpenChannelReply" =>
           /\ i \in OnTransaction(Coming') /\ m[i] \in 1..Len(Coming) /\ Coming'[i] = Coming[m[i]]
           /\ m[i] > 1 /\ w[m[i]] = i
    BY <2>1, <2>4 DEF Moves, OnTransaction
  <2>6. target' = target
    BY <2>1, <2>2, IterationTarget
  <2>7. CASE pc = "OpenChannelReply" /\ p.kind = "OpenChannelReply"
    <3>1. UNCHANGED unanswered
      BY <2>1, <2>2, <2>7, IterationOpening
    <3>2. \A i \in 1..Len(unanswered') : unanswered'[i].kind # "OpenChannel"
      BY <2>2, <2>3, <2>7, <3>1 DEF Outstanding, Opening
    <3>3. \A i \in 1..Len(Coming') : Coming'[i].kind # "OpenChannelReply"
      <4> SUFFICES ASSUME NEW i \in 1..Len(Coming'), Coming'[i].kind = "OpenChannelReply"
                   PROVE  FALSE
        OBVIOUS
      <4> QED
        BY <2>2, <2>3, <2>5, <2>7 DEF Outstanding, Opening
    <3> QED
      BY <3>2, <3>3 DEF Outstanding, Opening
  <2>8. CASE pc = "OpenChannelReply" /\ p.kind # "OpenChannelReply"
    <3>1. UNCHANGED <<pc, target, unanswered>>
      BY <2>1, <2>2, <2>8, IterationOpening
    <3>2. \A c : Opening(c) => Now(c)
      <4> SUFFICES ASSUME NEW c, Opening(c), chan'[c] = "open" PROVE FALSE
        BY <3>1 DEF Opening
      <4>1. c \in Services
        BY <2>2 DEF Opening, TargetOK, InitWaits
      <4> QED
        BY <2>1, <2>8, <4>1, IterationOpens DEF Opening, OpensChannel
    <3>3. \A i \in 1..Len(unanswered') : unanswered'[i].kind = "OpenChannel" =>
             /\ Now(unanswered'[i].chan)
             /\ \A j \in 1..Len(unanswered') : unanswered'[j].kind = "OpenChannel" => i = j
             /\ \A j \in 1..Len(Coming') : Coming'[j].kind # "OpenChannelReply"
      BY <2>3, <2>5, <3>1, <3>2 DEF Outstanding, Opening
    <3>4. ASSUME NEW i \in 1..Len(Coming'), Coming'[i].kind = "OpenChannelReply"
          PROVE  /\ Now(Coming'[i].chan)
                 /\ \A j \in 1..Len(Coming') : Coming'[j].kind = "OpenChannelReply" => i = j
      <4>1. Opening(Coming[m[i]].chan)
        BY <2>3, <2>5, <3>4 DEF Outstanding, Opening
      <4>2. ASSUME NEW j \in 1..Len(Coming'), Coming'[j].kind = "OpenChannelReply"
            PROVE  i = j
        <5>1. m[i] = m[j]
          BY <2>3, <2>5, <3>4, <4>2 DEF Outstanding, Opening
        <5> QED
          BY <2>5, <3>4, <4>2, <5>1
      <4> QED
        BY <2>5, <3>2, <3>4, <4>1, <4>2
    <3> QED
      BY <3>3, <3>4 DEF Outstanding, Opening
  <2>9. CASE pc # "OpenChannelReply"
    <3>1. /\ \A i \in 1..Len(unanswered) : unanswered[i].kind # "OpenChannel"
          /\ \A i \in 1..Len(Coming') : Coming'[i].kind # "OpenChannelReply"
      BY <2>3, <2>5, <2>9 DEF Outstanding, Opening
    <3>2. CASE UNCHANGED unanswered
      BY <3>1, <3>2 DEF Outstanding, Opening
    <3>3. CASE \E u : IterationAsksFor(p, u)
      <4>1. PICK u : IterationAsksFor(p, u)
        BY <3>3
      <4>2. Longer(unanswered', unanswered, u)
        BY <4>1 DEF IterationAsksFor, Asks
      <4>3. u.kind = "OpenChannel" => Now(u.chan)
        <5>1. ASSUME u.kind = "OpenChannel" PROVE pc' = "OpenChannelReply" /\ u.chan = target'
          <6>1. Awaited' = "OpenChannelReply"
            BY <4>1, <5>1 DEF IterationAsksFor, Asks, ReplyTo
          <6> QED
            BY <4>1, <5>1, <6>1 DEF IterationAsksFor, Asks, Awaited
        <5> QED
          BY <2>1, <2>2, <2>9, <5>1, IterationAsksOpen DEF Opening
      <4> QED
        BY <1>0, <3>1, <4>2, <4>3 DEF Outstanding, Opening, Longer
    <3> QED
      BY <2>1, <2>2, <3>2, <3>3, IterationAsks
  <2> QED
    BY <2>7, <2>8, <2>9
<1>3. CASE ReadFails
  <2>1. UNCHANGED <<unanswered, Coming>> /\ ~abandoned /\ pc # "OpenChannelReply"
    BY <1>3 DEF ReadFails, Silent, Coming, Fail
  <2> QED
    BY <2>1 DEF Outstanding, Opening
<1>4. CASE Peer
  <2>1. UNCHANGED <<abandoned, pc, target, chan>>
    BY <1>4, PeerAnswersShape, PeerVolunteers DEF link
  <2>2. \A c : Opening(c) => Now(c)
    BY <2>1 DEF Opening
  <2>3. CASE PeerAnswers
    <3>1. PICK i, q :
             /\ i \in 1..Len(unanswered)
             /\ Shorter(unanswered', unanswered, i) /\ Longer(Coming', Coming, q)
             /\ AnswersWith(unanswered[i], q)
      BY <2>3, PeerAnswersShape
    <3>2. q.kind = "OpenChannelReply" <=> unanswered[i].kind = "OpenChannel"
      BY <3>1, QueueLengths DEF AnswersWith, ReplyTo, Requests
    <3>3. PICK m : /\ \A j \in 1..Len(unanswered') : /\ m[j] \in 1..Len(unanswered) /\ m[j] # i
                                                    /\ unanswered'[j] = unanswered[m[j]]
                   /\ \A j, k \in 1..Len(unanswered') : m[j] = m[k] => j = k
      BY <1>0, <3>1, ShorterOrder
    <3>4. q.chan = unanswered[i].chan
      BY <3>1 DEF AnswersWith
    <3>5. CASE unanswered[i].kind = "OpenChannel"
      <4>1. /\ Now(q.chan) /\ q.kind = "OpenChannelReply"
            /\ \A j \in 1..Len(Coming) : Coming[j].kind # "OpenChannelReply"
        BY <2>1, <2>2, <3>1, <3>2, <3>4, <3>5 DEF Outstanding, Opening
      <4>2. \A j \in 1..Len(unanswered') : unanswered'[j].kind # "OpenChannel"
        BY <2>1, <3>1, <3>3, <3>5 DEF Outstanding, Opening
      <4>3. \A j \in 1..Len(Coming') : Coming'[j].kind = "OpenChannelReply" =>
                j = Len(Coming) + 1 /\ Coming'[j] = q
        BY <1>0, <3>1, <4>1 DEF Longer
      <4> QED
        BY <4>1, <4>2, <4>3 DEF Outstanding, Opening
    <3>6. CASE unanswered[i].kind # "OpenChannel"
      <4>1. \A j \in 1..Len(Coming') : Coming'[j].kind = "OpenChannelReply" =>
                j \in 1..Len(Coming) /\ Coming'[j] = Coming[j]
        BY <1>0, <3>1, <3>2, <3>6 DEF Longer
      <4>2. \A j \in 1..Len(unanswered') : unanswered'[j].kind = "OpenChannel" =>
             /\ Now(unanswered'[j].chan)
             /\ \A k \in 1..Len(unanswered') : unanswered'[k].kind = "OpenChannel" => j = k
             /\ \A k \in 1..Len(Coming') : Coming'[k].kind # "OpenChannelReply"
        <5> SUFFICES ASSUME NEW j \in 1..Len(unanswered'), unanswered'[j].kind = "OpenChannel"
                     PROVE  /\ Now(unanswered'[j].chan)
                            /\ \A k \in 1..Len(unanswered') : unanswered'[k].kind = "OpenChannel" => j = k
                            /\ \A k \in 1..Len(Coming') : Coming'[k].kind # "OpenChannelReply"
          OBVIOUS
        <5>1. /\ Opening(unanswered[m[j]].chan)
              /\ \A k \in 1..Len(unanswered) : unanswered[k].kind = "OpenChannel" => m[j] = k
              /\ \A k \in 1..Len(Coming) : Coming[k].kind # "OpenChannelReply"
          BY <2>1, <3>3 DEF Outstanding, Opening
        <5>2. Now(unanswered'[j].chan)
          BY <2>2, <3>3, <5>1
        <5>3. \A k \in 1..Len(unanswered') : unanswered'[k].kind = "OpenChannel" => j = k
          BY <3>3, <5>1
        <5>4. \A k \in 1..Len(Coming') : Coming'[k].kind # "OpenChannelReply"
          BY <4>1, <5>1
        <5> QED
          BY <5>2, <5>3, <5>4
      <4> QED
        BY <2>1, <2>2, <4>1, <4>2 DEF Outstanding, Opening
    <3> QED
      BY <3>5, <3>6
  <2>4. CASE ~PeerAnswers
    <3>1. PICK q : Longer(Coming', Coming, q) /\ Volunteers(q)
      BY <1>4, <2>4, PeerVolunteers
    <3>2. UNCHANGED unanswered /\ q.kind # "OpenChannelReply"
      BY <1>4, <2>4, <3>1, PeerVolunteers DEF Volunteers, Replies
    <3>3. \A j \in 1..Len(Coming') : Coming'[j].kind = "OpenChannelReply" =>
              j \in 1..Len(Coming) /\ Coming'[j] = Coming[j]
      BY <1>0, <3>1, <3>2 DEF Longer
    <3> QED
      BY <2>1, <2>2, <3>2, <3>3 DEF Outstanding, Opening
  <2> QED
    BY <2>3, <2>4
<1>5. CASE Arrives
  <2>1. UNCHANGED <<Coming, chan, target>> /\ pc = "idle" /\ ~abandoned
    BY <1>5, ArrivesShape
  <2>2. UNCHANGED unanswered \/ \E u : Longer(unanswered', unanswered, u) /\ u.kind # "OpenChannel"
    BY <1>5, ArrivesShape
  <2>3. /\ \A i \in 1..Len(unanswered) : unanswered[i].kind # "OpenChannel"
        /\ \A i \in 1..Len(Coming) : Coming[i].kind # "OpenChannelReply"
    BY <2>1 DEF Outstanding, Opening
  <2>4. \A i \in 1..Len(unanswered') : unanswered'[i].kind # "OpenChannel"
    BY <1>0, <2>2, <2>3 DEF Longer
  <2> QED
    BY <2>1, <2>3, <2>4 DEF Outstanding, Opening
<1> QED
  BY <1>1, <1>2, <1>3, <1>4, <1>5 DEF Next, Host

-----------------------------------------------------------------------------
(* What an iteration does to credit and ledger.                            *)

\* x is entered in `credit`, and then a packet may be written against it.
Spends(x) ==
    \/ credit' = x /\ UNCHANGED ledger
    \/ \E e \in Channels :
          /\ x[e] > 0 /\ (e = Transaction \/ chan[e] = "open")
          /\ credit' = Minus(x, e) /\ ledger' = Minus(ledger, e)

\* What the packet p makes of the credits.  Only a call that fails, or a
\* channel that is not open, loses what the message itself grants.
Enters(p, x) ==
    \/ /\ x = Accrued(p)
       /\ clean' /\ ~OpensChannel(p) =>
             /\ p.kind \notin {"Credit", "OpenChannelReply"}
             /\ p.kind = "CreditRequestReply" => chan'[p.chan] # "open"
    \/ Opens(p) /\ p.on = Transaction /\ x = FirstCredit(Accrued(p))
    \/ p.kind \in {"Credit", "CreditRequestReply"} /\ x = Plus(Accrued(p), p.chan, p.added)
    \/ /\ p.kind \in {"GetSocketIdReply", "CloseChannelReply"} /\ target \in Services
       /\ x = [Accrued(p) EXCEPT ![target] = 0] /\ chan'[target] # "open"
    \/ /\ OpensChannel(p) /\ pc = "OpenChannelReply" /\ target \in Services
       /\ x = [Accrued(p) EXCEPT ![target] = p.added]

\* A command of the printer.
LEMMA PeerTransactionSpends ==
    ASSUME NEW p \in Packets, p.on = Transaction, NEW written,
           HandlePeerTransaction(p, Accrued(p), written)
    PROVE  \/ /\ \E cr : Terminated(cr)
              /\ \/ UNCHANGED ledger
                 \/ Accrued(p)[Transaction] > 0 /\ ledger' = Minus(ledger, Transaction)
           \/ \E x : Enters(p, x) /\ Spends(x)
<1> DEFINE cr == Accrued(p)
<1> HIDE DEF cr
<1>0. Transaction \in Channels
  BY DEF Channels
<1>1. \A x : Answered(x) /\ x[Transaction] > 0 => Spends(x)
  BY <1>0 DEF Answered, Spends
<1>2. \A x : NotAnswered(x) => Spends(x) /\ clean' = FALSE
  BY DEF NotAnswered, Silent, Spends, Fail, End
<1>3. p.kind \notin {"Credit", "OpenChannelReply", "CreditRequestReply"} \/ clean' = FALSE => Enters(p, cr)
  BY DEF Enters, cr
<1>4. CASE HandleInit(p, cr, written)
  <2>1. CASE conversation = "Inactive"
    <3>1. Enters(p, FirstCredit(cr))
      BY <1>4 DEF HandleInit, Enters, Opens, cr
    <3> QED
      BY <1>4, <2>1, <3>1 DEF HandleInit, Silent, Spends
  <2>2. CASE conversation # "Inactive"
    BY <1>3, <1>4, <2>2 DEF HandleInit, Silent, Spends
  <2> QED
    BY <2>1, <2>2
<1>5. CASE HandleQuery(p, cr, written)
  BY <1>1, <1>2, <1>3, <1>5 DEF HandleQuery, CanCommand
<1>6. CASE HandleCloseChannel(p, cr, written)
  BY <1>1, <1>2, <1>3, <1>6 DEF HandleCloseChannel, CanCommand
<1>7. CASE HandleCredit(p, cr, written)
  <2> DEFINE granted == Plus(cr, p.chan, p.added)
  <2>1. Enters(p, granted)
    BY <1>7 DEF HandleCredit, Enters, cr
  <2> HIDE DEF granted
  <2>2. CASE NotAnswered(cr)
    BY <1>2, <1>3, <2>2
  <2>3. CASE (Answered(granted) /\ CanCommand(granted)) \/ NotAnswered(granted)
    BY <1>1, <1>2, <2>1, <2>3 DEF CanCommand
  <2> QED
    BY <1>7, <2>2, <2>3 DEF HandleCredit, granted
<1>8. CASE HandleExit(p, cr, written)
  <2>1. CASE written /\ CanCommand(cr)
    <3>1. cr[Transaction] > 0 /\ ledger' = Minus(ledger, Transaction)
      BY <1>8, <2>1 DEF HandleExit, CanCommand
    <3>2. CASE exitRequested
      <4>1. Spends(cr)
        BY <1>0, <1>8, <2>1, <3>1, <3>2 DEF HandleExit, Spends
      <4> QED
        BY <1>3, <1>8, <4>1 DEF HandleExit
    <3>3. CASE ~exitRequested
      BY <1>8, <2>1, <3>1, <3>3 DEF HandleExit, cr
    <3> QED
      BY <3>2, <3>3
  <2>2. CASE ~(written /\ CanCommand(cr))
    BY <1>2, <1>3, <1>8, <2>2 DEF HandleExit
  <2> QED
    BY <2>1, <2>2
<1>9. CASE HandleError(p, cr)
  BY <1>3, <1>9 DEF HandleError, Silent, Spends
<1> QED
  BY <1>4, <1>5, <1>6, <1>7, <1>8, <1>9 DEF HandlePeerTransaction, cr

\* The reply the running call waits for.
LEMMA ReplySpends ==
    ASSUME TypeOK, TargetOK, NEW p \in Packets, p.on = Transaction, PacketOK(p), NEW written,
           p.kind = Expected, HandleReply(p, Accrued(p), written)
    PROVE  \/ /\ \E cr : Terminated(cr)
              /\ UNCHANGED ledger
           \/ \E x : Enters(p, x) /\ Spends(x)
<1> DEFINE cr == Accrued(p)
<1>0. Transaction \in Channels /\ chan \in [Channels -> Presence] /\ target \in Channels
      /\ Transaction \notin Services /\ Services \subseteq Channels
  BY ChannelAssumption DEF Channels, TypeOK
<1>11. cr \in [Channels -> Int]
  <2>1. p.credit \in Nat /\ p.on \in Channels /\ credit \in [Channels -> 0..CreditLimit]
    BY DEF Packets, TypeOK
  <2> QED
    BY <2>1, BoundAssumption DEF Accrued, Plus
<1> HIDE DEF cr
<1>1. \A x : Silent /\ credit' = x => Spends(x)
  BY DEF Silent, Spends
<1>2. Fail => clean' = FALSE
  BY DEF Fail, End
<1>3. p.kind \notin {"Credit", "OpenChannelReply", "CreditRequestReply"} \/ clean' = FALSE => Enters(p, cr)
  BY DEF Enters, cr
<1>4. CASE InitReplied(p, cr, written)
  <2>1. p.kind = "InitReply"
    BY <1>4 DEF InitReplied, Expected
  <2>2. CASE p.result = "ok"
    <3>1. Enters(p, FirstCredit(cr))
      BY <2>1, <2>2 DEF Enters, Opens, cr
    <3> QED
      BY <1>1, <1>4, <2>2, <3>1 DEF InitReplied
  <2>3. CASE p.result # "ok"
    BY <1>1, <1>3, <1>4, <2>1, <2>3 DEF InitReplied, Silent, Spends
  <2> QED
    BY <2>2, <2>3
<1>5. CASE SocketResolved(p, cr, written)
  <2>1. p.kind = "GetSocketIdReply" /\ target \in Services
    BY <1>5 DEF SocketResolved, Expected, TargetOK, InitWaits
  <2>2. CASE p.result = "ok" /\ p.chan = target
    <3> DEFINE fresh == [cr EXCEPT ![p.chan] = 0]
    <3>1. Enters(p, fresh)
      BY <1>0, <1>5, <2>1, <2>2 DEF SocketResolved, Insert, Enters, cr
    <3>2. fresh[Transaction] = cr[Transaction]
      BY <1>0, <1>11, <2>1, <2>2
    <3> HIDE DEF fresh
    <3>3. CASE Command("OpenChannel", p.chan, fresh, "OpenChannelReply") /\ CanCommand(fresh)
      BY <1>0, <3>1, <3>3 DEF Command, CanCommand, Spends
    <3>4. CASE credit' = fresh /\ Silent
      BY <1>1, <3>1, <3>4
    <3> QED
      BY <1>5, <2>2, <3>3, <3>4 DEF SocketResolved, fresh
  <2>3. CASE ~(p.result = "ok" /\ p.chan = target)
    BY <1>1, <1>3, <1>5, <2>1, <2>3 DEF SocketResolved
  <2> QED
    BY <2>2, <2>3
<1>6. CASE ChannelOpened(p, cr)
  <2>1. p.kind = "OpenChannelReply" /\ target \in Services
    BY <1>6 DEF ChannelOpened, Expected, TargetOK, InitWaits
  <2>2. CASE p.result = "ok" /\ chan[target] # "absent"
    <3>1. Enters(p, [cr EXCEPT ![target] = p.added])
      BY <1>6, <2>1, <2>2 DEF ChannelOpened, OpensChannel, Enters, cr
    <3> QED
      BY <1>1, <1>6, <2>2, <3>1 DEF ChannelOpened
  <2>3. CASE ~(p.result = "ok" /\ chan[target] # "absent")
    <3>1. ~OpensChannel(p) => clean' = FALSE
      BY <1>6, <2>1, <2>3 DEF ChannelOpened, OpensChannel, Returns, End
    <3>2. Enters(p, cr)
      BY <3>1 DEF Enters, cr
    <3> QED
      BY <1>1, <1>6, <2>3, <3>2 DEF ChannelOpened
  <2> QED
    BY <2>2, <2>3
<1>7. CASE NameResolved(p, cr)
  BY <1>1, <1>3, <1>7 DEF NameResolved, Expected
<1>8. CASE ChannelClosed(p, cr)
  <2>1. p.kind = "CloseChannelReply" /\ target \in Services
    BY <1>8 DEF ChannelClosed, Expected, TargetOK, InitWaits
  <2>2. CASE p.result = "ok" /\ p.chan = target
    <3>1. Enters(p, [cr EXCEPT ![target] = 0])
      BY <1>0, <1>8, <2>1, <2>2 DEF ChannelClosed, Enters, cr
    <3> QED
      BY <1>1, <1>8, <2>2, <3>1 DEF ChannelClosed
  <2>3. CASE ~(p.result = "ok" /\ p.chan = target)
    BY <1>1, <1>3, <1>8, <2>1, <2>3 DEF ChannelClosed
  <2> QED
    BY <2>2, <2>3
<1>9. CASE ExitReplied(p, cr)
  BY <1>1, <1>3, <1>9 DEF ExitReplied, Expected, Silent
<1>10. CASE CreditRequested(p, cr, written)
  <2> DEFINE granted == Plus(cr, target, p.added)
  <2>1. p.kind = "CreditRequestReply" /\ UNCHANGED chan
    BY <1>10 DEF CreditRequested, Expected
  <2>2. CASE p.result # "ok" \/ p.chan # target
    BY <1>1, <1>2, <1>3, <1>10, <2>2 DEF CreditRequested
  <2>3. CASE p.chan = target /\ credit' = cr /\ Silent /\ (chan[target] = "absent" \/ Fail)
    <3>1. Enters(p, cr)
      BY <1>2, <2>1, <2>3 DEF Enters, cr
    <3> QED
      BY <1>1, <2>3, <3>1
  <2>4. CASE /\ p.chan = target
             /\ \/ credit' = granted /\ Silent
                \/ CanSendData(target, granted) /\ SendData(target, granted)
                \/ CanCommand(granted)
                   /\ Command("CreditRequest", target, granted, "CreditRequestReply")
    <3>1. Enters(p, granted)
      BY <2>1, <2>4 DEF Enters, cr
    <3> HIDE DEF granted
    <3> QED
      BY <1>0, <1>1, <2>4, <3>1 DEF CanSendData, SendData, CanCommand, Command, Spends
  <2> HIDE DEF granted
  <2> QED
    BY <1>10, <2>2, <2>3, <2>4 DEF CreditRequested, granted
<1> QED
  BY <1>4, <1>5, <1>6, <1>7, <1>8, <1>9, <1>10 DEF HandleReply, cr

\* Whatever an iteration does, its credits come from the packet, and what it
\* writes is paid for; or it ends the conversation, or fails at once.
LEMMA IterationSpends ==
    ASSUME TypeOK, TargetOK, NEW p \in Packets, PacketOK(p), NEW rest, NEW written,
           Iterates(p, rest, written)
    PROVE  \/ UNCHANGED <<credit, ledger, chan>> /\ (conversation = "Terminated" \/ clean' = FALSE)
           \/ /\ \E cr : Terminated(cr)
              /\ \/ UNCHANGED ledger
                 \/ /\ p.on = Transaction /\ Accrued(p)[Transaction] > 0
                    /\ ledger' = Minus(ledger, Transaction)
           \/ \E x : Enters(p, x) /\ Spends(x)
<1>1. CASE Dropped(p, rest) \/ Rejected(p, rest)
  BY <1>1 DEF Dropped, Rejected, Silent, LinkUnchanged, Fail, End
<1>2. CASE DataArrived(p, rest)
  <2>1. p.kind \in {"Data", "Oversize"}
    BY <1>2 DEF DataArrived, PacketOK, Packets
  <2>2. Enters(p, Accrued(p)) /\ Spends(Accrued(p))
    BY <1>2, <2>1 DEF DataArrived, Enters, Spends, Silent
  <2> QED
    BY <2>2
<1>3. CASE TransactionArrived(p, rest, written)
  <2>1. p.on = Transaction
    BY <1>3 DEF TransactionArrived
  <2>2. CASE HandlePeerTransaction(p, Accrued(p), written)
    BY <2>1, <2>2, PeerTransactionSpends
  <2>3. CASE p.kind = Expected /\ HandleReply(p, Accrued(p), written)
    BY <2>1, <2>3, ReplySpends
  <2>4. CASE credit' = Accrued(p) /\ Fail /\ Silent
    <3>1. Enters(p, Accrued(p)) /\ Spends(Accrued(p))
      BY <2>4 DEF Enters, Spends, Silent, Fail, End
    <3> QED
      BY <3>1
  <2> QED
    BY <1>3, <2>2, <2>3, <2>4 DEF TransactionArrived
<1> QED
  BY <1>1, <1>2, <1>3 DEF Iterates

\* No packet is worth less than nothing.
LEMMA WorthIsNat == \A p \in Packets, c \in Channels : Worth(p, c) \in Nat
<1> SUFFICES ASSUME NEW p \in Packets, NEW c \in Channels PROVE Worth(p, c) \in Nat
  OBVIOUS
<1>1. p.credit \in Nat /\ p.added \in Nat
  BY BoundAssumption DEF Packets
<1> QED
  BY <1>1 DEF Worth, CreditFor

\* Nothing but the reply that opens a channel gives it more than the packet
\* is worth.
LEMMA EntersWorth ==
    ASSUME TypeOK, NEW p \in Packets, PacketOK(p), NEW x, Enters(p, x), NEW c \in Channels
    PROVE  /\ x \in [Channels -> Int]
           /\ ~(OpensChannel(p) /\ pc = "OpenChannelReply" /\ c = target) =>
                  x[c] <= credit[c] + Worth(p, c)
           /\ c \in Services /\ chan'[c] = "open" /\ clean' /\ (OpensChannel(p) => c \notin {p.chan, target}) =>
                  x[c] = credit[c] + Worth(p, c)
<1>1. /\ p.credit \in Nat /\ p.added \in Nat /\ p.on \in Channels /\ p.chan \in Channels
      /\ Transaction \in Channels /\ Transaction \notin Services /\ target \in Channels
      /\ credit \in [Channels -> Nat]
  <2>1. p.credit \in Nat /\ p.added \in Nat /\ p.on \in Channels /\ p.chan \in Channels
    BY BoundAssumption DEF Packets
  <2>2. Transaction \in Channels /\ Transaction \notin Services /\ target \in Channels
    BY ChannelAssumption DEF TypeOK, Channels
  <2>3. credit \in [Channels -> Nat]
    BY BoundAssumption DEF TypeOK
  <2> QED
    BY <2>1, <2>2, <2>3
<1> DEFINE cr == Accrued(p)
<1>2. cr \in [Channels -> Nat] /\ \A e \in Channels : cr[e] = credit[e] + (IF p.on = e THEN p.credit ELSE 0)
  BY <1>1 DEF Accrued, Plus
<1> HIDE DEF cr
<1>3. cr[c] \in Nat /\ credit[c] \in Nat
  BY <1>1, <1>2
<1>4. CASE /\ x = cr
           /\ clean' /\ ~OpensChannel(p) =>
                 /\ p.kind \notin {"Credit", "OpenChannelReply"}
                 /\ p.kind = "CreditRequestReply" => chan'[p.chan] # "open"
  <2>1. x[c] <= credit[c] + Worth(p, c)
    BY <1>1, <1>2, <1>3, <1>4 DEF Worth, CreditFor
  <2>2. ASSUME c \in Services, chan'[c] = "open", clean', OpensChannel(p) => c \notin {p.chan, target}
        PROVE  x[c] = credit[c] + Worth(p, c)
    <3>1. CASE OpensChannel(p)
      BY <1>1, <1>2, <1>3, <1>4, <2>2, <3>1 DEF Worth, CreditFor
    <3>2. CASE ~OpensChannel(p)
      BY <1>1, <1>2, <1>3, <1>4, <2>2, <3>2 DEF Worth, CreditFor
    <3> QED
      BY <3>1, <3>2
  <2> QED
    BY <1>2, <1>4, <2>1, <2>2
<1>5. CASE Opens(p) /\ p.on = Transaction /\ x = FirstCredit(cr)
  <2>1. p.credit = 0 /\ p.kind \in {"Init", "InitReply"}
    BY <1>5 DEF PacketOK, Opens
  <2>2. x \in [Channels -> Nat] /\ \A e \in Channels : x[e] = IF e = Transaction THEN 1 ELSE cr[e]
    BY <1>1, <1>2, <1>5 DEF FirstCredit
  <2> QED
    BY <1>1, <1>2, <1>3, <1>5, <2>1, <2>2 DEF Worth, CreditFor
<1>6. CASE p.kind \in {"Credit", "CreditRequestReply"} /\ x = Plus(cr, p.chan, p.added)
  <2>1. x \in [Channels -> Nat] /\ \A e \in Channels : x[e] = cr[e] + (IF e = p.chan THEN p.added ELSE 0)
    BY <1>1, <1>2, <1>6 DEF Plus
  <2> QED
    BY <1>1, <1>2, <1>3, <1>6, <2>1 DEF Worth, CreditFor, Opens
<1>7. CASE /\ p.kind \in {"GetSocketIdReply", "CloseChannelReply"}
           /\ x = [cr EXCEPT ![target] = 0] /\ chan'[target] # "open"
  <2>1. x \in [Channels -> Nat] /\ \A e \in Channels : x[e] = IF e = target THEN 0 ELSE cr[e]
    BY <1>1, <1>2, <1>7
  <2> QED
    BY <1>1, <1>2, <1>3, <1>7, <2>1 DEF Worth, CreditFor, Opens
<1>8. CASE OpensChannel(p) /\ pc = "OpenChannelReply" /\ x = [cr EXCEPT ![target] = p.added]
  <2>1. x \in [Channels -> Nat] /\ \A e \in Channels : x[e] = IF e = target THEN p.added ELSE cr[e]
    BY <1>1, <1>2, <1>8
  <2> QED
    BY <1>1, <1>2, <1>3, <1>8, <2>1 DEF Worth, CreditFor
<1> QED
  BY <1>4, <1>5, <1>6, <1>7, <1>8 DEF Enters, cr

\* What is written is charged to both books.
LEMMA SpendsAlike ==
    ASSUME TypeOK, NEW x \in [Channels -> Int], Spends(x), NEW c \in Channels
    PROVE  /\ credit'[c] \in Int /\ ledger'[c] \in Int
           /\ credit'[c] - ledger'[c] = x[c] - ledger[c]
           /\ c \in Services => ledger'[c] = ledger[c] \/ (chan[c] = "open" /\ ledger'[c] = ledger[c] - 1)
<1>1. ledger \in [Channels -> Int] /\ Transaction \notin Services
  BY ChannelAssumption DEF TypeOK
<1>2. CASE credit' = x /\ UNCHANGED ledger
  BY <1>1, <1>2
<1>3. CASE \E e \in Channels : /\ e = Transaction \/ chan[e] = "open"
                               /\ credit' = Minus(x, e) /\ ledger' = Minus(ledger, e)
  <2>1. PICK e \in Channels : /\ e = Transaction \/ chan[e] = "open"
                              /\ credit' = Minus(x, e) /\ ledger' = Minus(ledger, e)
    BY <1>3
  <2>2. /\ \A f \in Channels : credit'[f] = IF f = e THEN x[f] - 1 ELSE x[f]
        /\ \A f \in Channels : ledger'[f] = IF f = e THEN ledger[f] - 1 ELSE ledger[f]
    BY <1>1, <2>1 DEF Minus
  <2> QED
    BY <1>1, <2>1, <2>2
<1> QED
  BY <1>2, <1>3 DEF Spends

\* On no channel does an iteration gain on the printer's ledger more than its
\* packet is worth, unless it opens the channel.
LEMMA IterationBacks ==
    ASSUME TypeOK, TargetOK, NEW p \in Packets, PacketOK(p), NEW rest, NEW written,
           Iterates(p, rest, written), NEW c \in Channels,
           ~(OpensChannel(p) /\ pc = "OpenChannelReply" /\ c = target)
    PROVE  credit'[c] - ledger'[c] <= (credit[c] - ledger[c]) + Worth(p, c)
<1>1. /\ credit \in [Channels -> Nat] /\ ledger \in [Channels -> Int] /\ Worth(p, c) \in Nat
      /\ Transaction \in Channels /\ credit[c] \in Nat /\ ledger[c] \in Int
      /\ p.on \in Channels /\ p.credit \in Nat
  <2>1. Worth(p, c) \in Nat /\ Transaction \in Channels
    BY WorthIsNat DEF Channels
  <2>2. p.on \in Channels /\ p.credit \in Nat
    BY DEF Packets
  <2>3. credit \in [Channels -> Nat] /\ ledger \in [Channels -> Int]
    BY BoundAssumption DEF TypeOK
  <2> QED
    BY <2>1, <2>2, <2>3
<1>2. CASE UNCHANGED <<credit, ledger>>
  BY <1>1, <1>2
<1>3. CASE /\ \E cr : Terminated(cr)
           /\ \/ UNCHANGED ledger
              \/ /\ p.on = Transaction /\ Accrued(p)[Transaction] > 0
                 /\ ledger' = Minus(ledger, Transaction)
  <2>1. credit'[c] = 0
    BY <1>3 DEF Terminated
  <2>2. CASE UNCHANGED ledger
    BY <1>1, <2>1, <2>2
  <2>3. CASE /\ p.on = Transaction /\ Accrued(p)[Transaction] > 0
             /\ ledger' = Minus(ledger, Transaction)
    <3>1. ledger'[c] = IF c = Transaction THEN ledger[c] - 1 ELSE ledger[c]
      BY <1>1, <2>3 DEF Minus
    <3>2. CASE c = Transaction
      <4>1. credit[c] + p.credit > 0
        BY <1>1, <2>3, <3>2 DEF Accrued, Plus
      <4>2. CreditFor(p, c) >= p.credit
        <5>1. p.added \in Nat
          BY BoundAssumption DEF Packets
        <5> QED
          BY <1>1, <2>3, <3>2, <5>1 DEF CreditFor
      <4>3. Worth(p, c) >= p.credit
        <5>1. CreditFor(p, c) \in Int
          <6>1. p.added \in Nat
            BY BoundAssumption DEF Packets
          <6> QED
            BY <1>1, <6>1 DEF CreditFor
        <5> QED
          BY <1>1, <4>2, <5>1 DEF Worth
      <4> QED
        BY <1>1, <2>1, <3>1, <3>2, <4>1, <4>3
    <3>3. CASE c # Transaction
      BY <1>1, <2>1, <3>1, <3>3
    <3> QED
      BY <3>2, <3>3
  <2> QED
    BY <1>3, <2>2, <2>3
<1>4. CASE \E x : Enters(p, x) /\ Spends(x)
  <2>1. PICK x : Enters(p, x) /\ Spends(x)
    BY <1>4
  <2>2. x \in [Channels -> Int] /\ x[c] <= credit[c] + Worth(p, c)
    BY <2>1, EntersWorth
  <2>3. /\ credit'[c] \in Int /\ ledger'[c] \in Int
        /\ credit'[c] - ledger'[c] = x[c] - ledger[c]
    BY <2>1, <2>2, SpendsAlike
  <2> QED
    BY <1>1, <2>2, <2>3
<1> QED
  BY <1>2, <1>3, <1>4, IterationSpends

\* On an open channel it gains exactly that, unless the call fails.
LEMMA IterationExact ==
    ASSUME TypeOK, TargetOK, NEW p \in Packets, PacketOK(p), NEW rest, NEW written,
           Iterates(p, rest, written), NEW c \in Services, chan'[c] = "open", clean',
           conversation # "Terminated", OpensChannel(p) => c \notin {p.chan, target}
    PROVE  credit'[c] - ledger'[c] = (credit[c] - ledger[c]) + Worth(p, c)
<1>1. /\ c \in Channels /\ Worth(p, c) \in Nat /\ credit[c] \in Int /\ ledger[c] \in Int
      /\ c # Transaction
  BY BoundAssumption, ChannelAssumption, WorthIsNat DEF TypeOK, Channels
<1>2. ~(\E cr : Terminated(cr))
  BY <1>1 DEF Terminated
<1>3. PICK x : Enters(p, x) /\ Spends(x)
  BY <1>2, IterationSpends
<1>4. x \in [Channels -> Int] /\ x[c] = credit[c] + Worth(p, c)
  BY <1>1, <1>3, EntersWorth
<1>5. /\ credit'[c] \in Int /\ ledger'[c] \in Int
      /\ credit'[c] - ledger'[c] = x[c] - ledger[c]
  BY <1>1, <1>3, <1>4, SpendsAlike
<1> QED
  BY <1>1, <1>4, <1>5

\* An iteration writes on a service channel only when it is open.
LEMMA IterationLedger ==
    ASSUME TypeOK, TargetOK, NEW p \in Packets, PacketOK(p), NEW rest, NEW written,
           Iterates(p, rest, written), NEW c \in Services
    PROVE  ledger'[c] = ledger[c] \/ (chan[c] = "open" /\ ledger'[c] = ledger[c] - 1)
<1>1. c \in Channels /\ c # Transaction /\ ledger \in [Channels -> Int] /\ Transaction \in Channels
  BY ChannelAssumption DEF TypeOK, Channels
<1>2. CASE UNCHANGED ledger \/ ledger' = Minus(ledger, Transaction)
  BY <1>1, <1>2 DEF Minus
<1>3. CASE \E x : Enters(p, x) /\ Spends(x)
  <2>1. PICK x : Enters(p, x) /\ Spends(x)
    BY <1>3
  <2>2. x \in [Channels -> Int]
    BY <1>1, <2>1, EntersWorth
  <2> QED
    BY <1>1, <2>1, <2>2, SpendsAlike
<1> QED
  BY <1>2, <1>3, IterationSpends

-----------------------------------------------------------------------------
(* The host against the printer's account.                                 *)

TransactionAccount == \E t : Account(t, Transaction) /\ credit[Transaction] <= t[0]

Backed(t, c) ==
    chan[c] = "open" => /\ credit[c] <= t[0]
                        /\ clean => credit[c] = t[0]
ServiceAccounts ==
    ~abandoned /\ ~deferred => \A c \in Services : \E t : Account(t, c) /\ Backed(t, c)

\* A new conversation begins with one account of nothing for every channel.
LEMMA AccountInitially ==
    ASSUME Init, NEW c \in Channels
    PROVE  \E t : Account(t, c) /\ t[0] = 0
<1>1. Len(Coming) = 0
  BY ConcatProperties DEF Init, Coming
<1> DEFINE t == [i \in 0..0 |-> 0]
<1>2. t \in [0..0 -> Int] /\ t[0] = 0 /\ 1..0 = {}
  OBVIOUS
<1>3. Books(c) = 0
  BY DEF Init, Books
<1> HIDE DEF t
<1> QED
  BY <1>1, <1>2, <1>3 DEF Account

\* What the printer sends leaves what the host has not paid for as it is, but
\* for the reply that opens a channel.
Settles(q) == \A c \in Channels : unpaid'[c] = IF Starts(q, c) THEN 0 ELSE unpaid[c]
LEMMA PeerSettles ==
    ASSUME TypeOK, Peer
    PROVE  \E q : Longer(Coming', Coming, q) /\ Settles(q)
<1>1. received \in Seq(Packets) /\ wire \in Seq(Packets) /\ UNCHANGED received
      /\ unpaid \in [Channels -> Nat]
  BY DEF TypeOK, Peer, PeerAnswers, PeerStep, link
<1>2. ASSUME NEW q, wire' = Append(wire, q), Settles(q)
      PROVE  \E x : Longer(Coming', Coming, x) /\ Settles(x)
  BY <1>1, <1>2, PutOnWire
<1>3. ASSUME NEW q, wire' = Append(wire, q), ~OpensChannel(q), UNCHANGED unpaid
      PROVE  \E x : Longer(Coming', Coming, x) /\ Settles(x)
  BY <1>2, <1>3 DEF Settles, Starts
<1>4. ASSUME NEW on, NEW n, NEW kind, NEW c, NEW result, NEW added, NEW id, NEW rev,
             kind # "OpenChannelReply" \/ result # "ok"
      PROVE  ~OpensChannel(Packet(on, n, kind, c, result, added, id, rev))
  BY <1>4 DEF OpensChannel, Packet
<1>5. ASSUME NEW i, NEW n, NEW kind, NEW result, NEW added, NEW rev, NEW books,
             Answer(i, n, kind, result, added, rev, books), UNCHANGED unpaid,
             kind # "OpenChannelReply" \/ result # "ok"
      PROVE  \E x : Longer(Coming', Coming, x) /\ Settles(x)
  BY <1>3, <1>4, <1>5 DEF Answer
<1>6. ASSUME NEW kind, NEW c, NEW n, NEW added, PeerSends(kind, c, n, added),
             kind # "OpenChannelReply"
      PROVE  \E x : Longer(Coming', Coming, x) /\ Settles(x)
  BY <1>3, <1>4, <1>6 DEF PeerSends
<1>7. CASE PeerAnswers
  <2>1. PICK i : \/ AnswerInit(i) /\ UNCHANGED unpaid
                 \/ (\E n \in Piggyback : AnswerExit(i, n)) /\ UNCHANGED unpaid
                 \/ \E n \in Piggyback :
                       \/ AnswerOpenChannel(i, n)
                       \/ /\ \/ AnswerCloseChannel(i, n) \/ AnswerCreditRequest(i, n)
                             \/ AnswerLookup(i, n) \/ AnswerData(i, n)
                          /\ UNCHANGED unpaid
    BY <1>7 DEF PeerAnswers
  <2>2. CASE \E n \in Piggyback : AnswerOpenChannel(i, n)
    <3>1. PICK n \in Piggyback : AnswerOpenChannel(i, n)
      BY <2>2
    <3> DEFINE c == unanswered[i].chan
    <3>2. CASE Answer(i, n, "OpenChannelReply", "refused", 0, revision, ledger) /\ UNCHANGED unpaid
      BY <1>5, <3>2
    <3>3. CASE \E g \in Grants :
                  /\ Answer(i, n, "OpenChannelReply", "ok", g, revision, [ledger EXCEPT ![c] = g])
                  /\ unpaid' = [unpaid EXCEPT ![c] = 0]
      <4>1. PICK g \in Grants :
                  /\ Answer(i, n, "OpenChannelReply", "ok", g, revision, [ledger EXCEPT ![c] = g])
                  /\ unpaid' = [unpaid EXCEPT ![c] = 0]
        BY <3>3
      <4> DEFINE q == Packet(Carrier(unanswered[i]), n, "OpenChannelReply", c, "ok", g,
                             unanswered[i].id, revision)
      <4>2. q.chan = c /\ q.kind = "OpenChannelReply" /\ q.result = "ok"
        BY DEF Packet
      <4>3. wire' = Append(wire, q)
        BY <4>1 DEF Answer
      <4> HIDE DEF q, c
      <4>4. Settles(q)
        BY <1>1, <4>1, <4>2 DEF Settles, Starts, OpensChannel
      <4> QED
        BY <1>2, <4>3, <4>4
    <3> QED
      BY <3>1, <3>2, <3>3 DEF AnswerOpenChannel
  <2>3. CASE UNCHANGED unpaid /\ AnswerInit(i)
    BY <1>5, <2>3 DEF AnswerInit
  <2>4. CASE UNCHANGED unpaid /\ \E n \in Piggyback :
                  \/ AnswerExit(i, n) \/ AnswerCloseChannel(i, n) \/ AnswerData(i, n)
    BY <1>5, <2>4 DEF AnswerExit, AnswerCloseChannel, AnswerData
  <2>5. CASE UNCHANGED unpaid /\ \E n \in Piggyback : AnswerCreditRequest(i, n)
    BY <1>5, <2>5 DEF AnswerCreditRequest
  <2>6. CASE UNCHANGED unpaid /\ \E n \in Piggyback : AnswerLookup(i, n)
    <3>1. PICK n \in Piggyback, result \in {"ok", "refused"} :
             Answer(i, n, IF unanswered[i].kind = "GetSocketId"
                          THEN "GetSocketIdReply" ELSE "GetServiceNameReply",
                    result, 0, revision, ledger)
      BY <2>6 DEF AnswerLookup
    <3> QED
      BY <1>5, <2>6, <3>1
  <2> QED
    BY <2>1, <2>2, <2>3, <2>4, <2>5, <2>6
<1>8. CASE PeerInit \/ PeerExit
  BY <1>6, <1>8 DEF PeerInit, PeerExit
<1>9. CASE PeerCommand
  BY <1>6, <1>9 DEF PeerCommand
<1> QED
  BY <1>7, <1>8, <1>9 DEF Peer

\* Whatever the printer sends, it keeps its account of every channel.
LEMMA PeerAccount ==
    ASSUME TypeOK, Wellformed, Peer, NEW c \in Channels, NEW t, Account(t, c)
    PROVE  \E u : Account(u, c)' /\ u[0] = t[0]
<1>1. \E q \in Packets :
         /\ Longer(Coming', Coming, q)
         /\ ledger'[c] = IF Starts(q, c) THEN q.added ELSE ledger[c] + Worth(q, c)
  <2>1. CASE PeerAnswers
    <3>1. PICK i, q : Longer(Coming', Coming, q) /\ AnswersWith(unanswered[i], q)
      BY <2>1, PeerAnswersShape
    <3> QED
      BY <3>1 DEF AnswersWith, Starts
  <2>2. CASE ~PeerAnswers
    <3>1. PICK q : Longer(Coming', Coming, q) /\ Volunteers(q)
      BY <2>2, PeerVolunteers
    <3>2. ~OpensChannel(q) /\ q \in Packets
      BY <3>1 DEF Volunteers, OpensChannel, Replies
    <3> QED
      BY <3>1, <3>2 DEF Volunteers, Starts
  <2> QED
    BY <2>1, <2>2
<1>2. PICK q \in Packets :
         /\ Longer(Coming', Coming, q)
         /\ ledger'[c] = IF Starts(q, c) THEN q.added ELSE ledger[c] + Worth(q, c)
  BY <1>1
<1>3. Settles(q)
  <2>1. PICK x : Longer(Coming', Coming, x) /\ Settles(x)
    BY PeerSettles
  <2>2. x = q
    BY <1>2, <2>1 DEF Longer
  <2> QED
    BY <2>1, <2>2
<1>4. Books(c)' = IF Starts(q, c) THEN q.added ELSE Books(c) + Worth(q, c)
  <2>1. unpaid'[c] = IF Starts(q, c) THEN 0 ELSE unpaid[c]
    BY <1>3 DEF Settles
  <2>2. ledger[c] \in Int /\ unpaid[c] \in Int /\ q.added \in Int /\ Worth(q, c) \in Int
    BY WorthIsNat, BoundAssumption DEF TypeOK, Packets
  <2> HIDE DEF Starts, Worth
  <2> QED
    BY <1>2, <2>1, <2>2 DEF Books
<1> QED
  BY <1>2, <1>4, AccountLonger

\* What the host writes changes the ledger only; all of the books are integers
\* before and after every step.
LEMMA BooksAreIntegers ==
    ASSUME TypeOK, Next, NEW c \in Channels
    PROVE  /\ credit[c] \in Int /\ Books(c) \in Int /\ credit'[c] \in Int /\ Books(c)' \in Int
           /\ ledger[c] \in Int /\ ledger'[c] \in Int
           /\ Host => Books(c)' - Books(c) = ledger'[c] - ledger[c]
<1>1. TypeOK => credit \in [Channels -> Int] /\ ledger \in [Channels -> Int] /\ unpaid \in [Channels -> Int]
  BY BoundAssumption DEF TypeOK
<1>2. TypeOK' => credit' \in [Channels -> Int] /\ ledger' \in [Channels -> Int] /\ unpaid' \in [Channels -> Int]
  <2>1. TypeOK' => /\ credit' \in [Channels -> 0..CreditLimit] /\ ledger' \in [Channels -> Int]
                   /\ unpaid' \in [Channels -> Nat]
    BY DEF TypeOK
  <2>2. 0..CreditLimit \subseteq Int
    BY BoundAssumption
  <2> QED
    BY <2>1, <2>2
<1>3. /\ credit[c] \in Int /\ ledger[c] \in Int /\ unpaid[c] \in Int
      /\ credit'[c] \in Int /\ ledger'[c] \in Int /\ unpaid'[c] \in Int
  BY <1>1, <1>2, TypeStep
<1>4. Host => UNCHANGED unpaid
  BY StartAsks DEF Host, Receive, ReadFails
<1> QED
  BY <1>3, <1>4 DEF Books

\* A packet that arrives though its write failed is charged, and not paid for.
LEMMA ArrivesAccount ==
    ASSUME TypeOK, Lost, Arrives, NEW c \in Channels, NEW t, Account(t, c)
    PROVE  \E u : Account(u, c)' /\ u[0] = t[0]
<1>1. PICK v \in doubtful : Charged(v)
  BY ArrivesShape
<1>2. ledger \in [Channels -> Int] /\ unpaid \in [Channels -> Nat]
  BY DEF TypeOK
<1>3. Books(c)' = Books(c) + 0
  <2>1. \/ UNCHANGED <<ledger, unpaid>>
        \/ ledger' = Minus(ledger, Carrier(v)) /\ unpaid' = Plus(unpaid, Carrier(v), 1)
    BY <1>1 DEF Charged
  <2> QED
    BY <1>2, <2>1 DEF Minus, Plus, Books
<1>4. UNCHANGED Coming
  BY ArrivesShape
<1>5. PICK u : Account(u, c)' /\ u[0] = t[0] + 0
  BY <1>3, <1>4, AccountKept
<1>6. t[0] \in Int
  BY QueueLengths DEF Account
<1> QED
  BY <1>5, <1>6

\* A call that starts writes against a credit that is there, on both books.
LEMMA StartBacks ==
    ASSUME TypeOK, Start, NEW c \in Channels
    PROVE  /\ \/ ledger'[c] = ledger[c] /\ credit'[c] = credit[c]
              \/ ledger'[c] = ledger[c] - 1 /\ credit'[c] = credit[c] - 1
           /\ clean' => clean
           /\ UNCHANGED <<Coming, chan, abandoned, deferred>> /\ pc = "idle"
<1>1. credit \in [Channels -> Int] /\ ledger \in [Channels -> Int]
  BY BoundAssumption DEF TypeOK
<1>2. \A e : \A f \in [Channels -> Int] : Minus(f, e)[c] = IF c = e THEN f[c] - 1 ELSE f[c]
  BY DEF Minus
<1>3. UNCHANGED <<Coming, chan, abandoned, deferred>> /\ pc = "idle"
  BY StartAsks DEF Coming
<1>4. clean' => clean
  BY StartAsks
<1>5. UNCHANGED <<credit, ledger>>
      \/ \E e : credit' = Minus(credit, e) /\ ledger' = Minus(ledger, e)
  BY StartAsks
<1> QED
  BY <1>1, <1>2, <1>3, <1>4, <1>5

\* Every step keeps the credit of the transaction channel within the account.
LEMMA TransactionAccountStep ==
    ASSUME TypeOK, Consistent, TransactionAccount, Next
    PROVE  TransactionAccount'
<1> USE DEF Consistent
<1> DEFINE c == Transaction
<1>0. c \in Channels /\ c \notin Services
  BY ChannelAssumption DEF Channels
<1>1. \A i \in 1..Len(Coming) : ~Starts(Coming[i], c)
  BY <1>0 DEF Wellformed, PacketOK, Starts, OpensChannel, CommandReplies, Replies
<1>2. PICK t : Account(t, c) /\ credit[c] <= t[0]
  BY DEF TransactionAccount
<1> HIDE DEF c
<1>3. /\ Len(Coming) \in Nat /\ t[0] \in Int /\ credit[c] \in Int /\ Books(c) \in Int
      /\ ledger[c] \in Int /\ ledger'[c] \in Int
      /\ credit'[c] \in Int /\ Books(c)' \in Int
      /\ Host => Books(c)' - Books(c) = ledger'[c] - ledger[c]
  <2>1. 0 \in 0..Len(Coming)
    BY QueueLengths
  <2>2. Len(Coming) \in Nat /\ t[0] \in Int
    BY <1>2, <2>1, QueueLengths DEF Account
  <2>3. /\ credit[c] \in Int /\ Books(c) \in Int /\ credit'[c] \in Int /\ Books(c)' \in Int
        /\ ledger[c] \in Int /\ ledger'[c] \in Int
        /\ Host => Books(c)' - Books(c) = ledger'[c] - ledger[c]
    BY <1>0, BooksAreIntegers
  <2> QED
    BY <2>2, <2>3
<1> DEFINE d == Books(c)' - Books(c)
<1>4. d \in Int /\ Books(c)' = Books(c) + d
  BY <1>3
<1> HIDE DEF d
<1>5. ASSUME NEW u, Account(u, c)', credit'[c] <= u[0]
      PROVE  TransactionAccount'
  BY <1>5 DEF TransactionAccount, c
<1>6. CASE Start
  <2>1. UNCHANGED Coming /\ credit'[c] = credit[c] + d
    <3>1. ledger'[c] = ledger[c] + d
      BY <1>3, <1>4, <1>6 DEF Host
    <3>2. /\ UNCHANGED Coming
          /\ \/ ledger'[c] = ledger[c] /\ credit'[c] = credit[c]
             \/ ledger'[c] = ledger[c] - 1 /\ credit'[c] = credit[c] - 1
      BY <1>0, <1>6, StartBacks
    <3> QED
      BY <1>3, <1>4, <3>1, <3>2
  <2>2. PICK u : Account(u, c)' /\ u[0] = t[0] + d
    BY <1>0, <1>1, <1>2, <1>4, <2>1, AccountKept
  <2>3. credit'[c] <= u[0]
    BY <1>2, <1>3, <1>4, <2>1, <2>2
  <2> QED
    BY <1>5, <2>2, <2>3
<1>7. CASE Receive
  <2> DEFINE p == Coming[1]
  <2>0. ledger'[c] = ledger[c] + d
    BY <1>3, <1>4, <1>7 DEF Host
  <2>1. PICK written, rest, m, w :
           /\ written \in BOOLEAN /\ Iterates(p, rest, written) /\ Moves(Coming', Coming, m, w)
           /\ \/ Advanced(Coming', Coming)
              \/ p.on # Transaction /\ DataArrived(p, rest)
                 /\ \E k \in 1..Len(Coming) : Rotated(Coming', Coming, k)
    BY <1>7, Iteration
  <2>2. p \in Packets /\ PacketOK(p) /\ TargetOK /\ 1 \in 1..Len(Coming) /\ Len(Coming) > 0
    <3>1. 1 \in 1..Len(Coming) /\ Len(Coming) > 0
      BY <1>7, Iteration
    <3> QED
      BY <1>7, <3>1, Iteration DEF Wellformed
  <2>3. Worth(p, c) \in Nat /\ ~Starts(p, c)
    BY <1>0, <1>1, <2>2, WorthIsNat
  <2>4. t[1] = t[0] + Worth(p, c)
    BY <1>2, <2>2, <2>3 DEF Account
  <2>5. credit'[c] - ledger'[c] <= (credit[c] - ledger[c]) + Worth(p, c)
    <3>1. ~(OpensChannel(p) /\ pc = "OpenChannelReply" /\ c = target)
      BY <1>0, <2>2 DEF TargetOK, InitWaits
    <3> QED
      BY <1>0, <2>1, <2>2, <3>1, IterationBacks
  <2>6. credit'[c] <= (t[0] + Worth(p, c)) + d
    <3> DEFINE b == credit[c]  l == ledger[c]  b2 == credit'[c]  l2 == ledger'[c]
               s == t[0]  x == Worth(p, c)
    <3>1. b \in Int /\ l \in Int /\ b2 \in Int /\ l2 \in Int /\ s \in Int /\ x \in Int /\ d \in Int
      BY <1>3, <1>4, <2>3
    <3>2. b <= s /\ b2 - l2 <= (b - l) + x /\ l2 = l + d
      BY <1>2, <2>0, <2>5
    <3> HIDE DEF b, l, b2, l2, s, x
    <3>3. b2 <= (s + x) + d
      BY <3>1, <3>2
    <3> QED
      BY <3>3 DEF b2, s, x
  <2>7. CASE Advanced(Coming', Coming)
    <3>1. PICK u : Account(u, c)' /\ u[0] = t[1] + d
      BY <1>0, <1>1, <1>2, <1>4, <2>2, <2>7, AccountAdvanced
    <3> QED
      BY <1>5, <2>4, <2>6, <3>1
  <2>8. CASE p.on # Transaction /\ DataArrived(p, rest)
             /\ \E k \in 1..Len(Coming) : Rotated(Coming', Coming, k)
    <3>1. p.kind \in {"Data", "Oversize"} /\ Worth(p, c) = 0
      BY <1>0, <2>2, <2>8 DEF PacketOK, Packets, Worth, CreditFor, Opens, c
    <3>2. Books(c)' = Books(c) /\ d = 0
      BY <1>3, <1>4, <2>0, <2>8 DEF DataArrived, Silent
    <3>3. PICK u : Account(u, c)' /\ u[0] = t[0]
      BY <1>0, <1>2, <2>3, <2>8, <3>1, <3>2, AccountRotated
    <3> QED
      BY <1>3, <1>5, <2>6, <3>1, <3>2, <3>3
  <2> QED
    BY <2>1, <2>7, <2>8
<1>8. CASE ReadFails
  <2>1. UNCHANGED <<Coming, credit, ledger>> /\ d = 0
    BY <1>3, <1>4, <1>8 DEF ReadFails, Silent, Coming, Host
  <2>2. PICK u : Account(u, c)' /\ u[0] = t[0] + d
    BY <1>0, <1>1, <1>2, <1>4, <2>1, AccountKept
  <2> QED
    BY <1>2, <1>3, <1>5, <2>1, <2>2
<1>9. CASE Peer
  <2>1. UNCHANGED credit
    BY <1>9, PeerAnswersShape, PeerVolunteers DEF link
  <2>2. PICK u : Account(u, c)' /\ u[0] = t[0]
    BY <1>0, <1>2, <1>9, PeerAccount
  <2> QED
    BY <1>2, <1>5, <2>1, <2>2
<1>10. CASE Arrives
  <2>1. UNCHANGED credit
    BY <1>10, ArrivesShape
  <2>2. PICK u : Account(u, c)' /\ u[0] = t[0]
    BY <1>0, <1>2, <1>10, ArrivesAccount
  <2> QED
    BY <1>2, <1>5, <2>1, <2>2
<1> QED
  BY <1>6, <1>7, <1>8, <1>9, <1>10 DEF Next, Host

\* A packet that opens a channel reaches the call that asked for it.
LEMMA StartsForCall ==
    ASSUME Outstanding, ~abandoned, NEW i \in 1..Len(Coming), OpensChannel(Coming[i])
    PROVE  Opening(Coming[i].chan)
BY DEF Outstanding, OpensChannel

\* Every step keeps the credit of every open service channel within its
\* account, and equal to it until a call fails.
LEMMA ServiceAccountsStep ==
    ASSUME TypeOK, Consistent, InStep, Entries, Outstanding, ServiceAccounts, Next
    PROVE  ServiceAccounts'
<1> USE DEF Consistent
<1> SUFFICES ASSUME ~abandoned', ~deferred', NEW c \in Services
             PROVE  \E u : Account(u, c)' /\ Backed(u, c)'
  BY DEF ServiceAccounts
<1>0. c \in Channels /\ c # Transaction
  BY ChannelAssumption DEF Channels
<1>1. /\ credit[c] \in Int /\ Books(c) \in Int /\ credit'[c] \in Int /\ Books(c)' \in Int
      /\ ledger[c] \in Int /\ ledger'[c] \in Int
      /\ Host => Books(c)' - Books(c) = ledger'[c] - ledger[c]
      /\ Len(Coming) \in Nat
  BY <1>0, BooksAreIntegers, QueueLengths
<1> DEFINE d == Books(c)' - Books(c)
<1>2. d \in Int /\ Books(c)' = Books(c) + d
  BY <1>1
<1> HIDE DEF d
<1>3. ASSUME ~abandoned, ~deferred
      PROVE  \E t : Account(t, c) /\ Backed(t, c) /\ t[0] \in Int
  <2>1. PICK t : Account(t, c) /\ Backed(t, c)
    BY <1>3 DEF ServiceAccounts
  <2>2. 0 \in 0..Len(Coming)
    BY <1>1
  <2> QED
    BY <2>1, <2>2 DEF Account
<1>4. CASE Start
  <2>1. /\ UNCHANGED <<Coming, chan, abandoned, deferred>> /\ pc = "idle" /\ (clean' => clean)
        /\ credit'[c] = credit[c] + d
    BY <1>0, <1>1, <1>2, <1>4, StartBacks DEF Host
  <2>2. PICK t : Account(t, c) /\ Backed(t, c) /\ t[0] \in Int
    BY <1>3, <2>1
  <2>3. \A i \in 1..Len(Coming) : ~Starts(Coming[i], c)
    BY <2>1, StartsForCall DEF Starts, Opening
  <2>4. PICK u : Account(u, c)' /\ u[0] = t[0] + d
    BY <1>0, <1>2, <2>1, <2>2, <2>3, AccountKept
  <2>5. Backed(u, c)'
    BY <1>1, <1>2, <2>1, <2>2, <2>4 DEF Backed
  <2> QED
    BY <2>4, <2>5
<1>5. CASE Receive
  <2> DEFINE p == Coming[1]
  <2>0. ledger'[c] = ledger[c] + d
    BY <1>1, <1>2, <1>5 DEF Host
  <2>1. PICK written, rest :
           /\ written \in BOOLEAN /\ Iterates(p, rest, written) /\ Advanced(Coming', Coming)
    BY <1>5, Iteration
  <2>2. p \in Packets /\ PacketOK(p) /\ TargetOK /\ 1 \in 1..Len(Coming) /\ Len(Coming) > 0
    <3>1. 1 \in 1..Len(Coming) /\ Len(Coming) > 0
      BY <1>5, Iteration
    <3> QED
      BY <1>5, <3>1, Iteration DEF Wellformed
  <2>3. ~abandoned /\ ~deferred
    <3>1. ~abandoned
      BY <2>1 DEF Iterates, Dropped, Rejected, DataArrived, TransactionArrived, Wait, Fail,
               Returns, End, NotAnswered, HandlePeerTransaction, HandleInit, HandleQuery,
               HandleCloseChannel, HandleCredit, HandleExit, HandleError, HandleReply,
               InitReplied, ChannelOpened, NameResolved, ChannelClosed,
               ExitReplied, CreditRequested, SocketResolved
    <3>2. ~deferred
      BY <2>1 DEF Iterates, Dropped, Rejected, DataArrived, TransactionArrived
    <3> QED
      BY <3>1, <3>2
  <2>4. PICK t : Account(t, c) /\ Backed(t, c) /\ t[0] \in Int
    BY <1>3, <2>3
  <2>5. clean' => clean
    BY <2>1, IterationWasClean
  <2>6. \A i \in 1..Len(Coming) : Starts(Coming[i], c) => chan[c] # "open" /\ c = target /\ pc = "OpenChannelReply"
    BY <2>3, StartsForCall DEF Starts, Opening
  <2>7. d = 0 \/ \A i \in 1..Len(Coming) : ~Starts(Coming[i], c)
    BY <1>1, <1>2, <2>1, <2>0, <2>2, <2>6, IterationLedger
  <2>8. PICK u : Account(u, c)' /\ u[0] = t[1] + d
    BY <1>0, <1>2, <2>1, <2>2, <2>4, <2>7, AccountAdvanced
  <2>9. CASE Starts(p, c)
    <3>1. t[1] = p.added /\ p.added \in Int
      <4>1. p.added \in Int
        BY <2>2, BoundAssumption DEF Packets
      <4> QED
        BY <2>2, <2>4, <2>9, <4>1 DEF Account
    <3>2. d = 0
      BY <2>2, <2>7, <2>9
    <3>3. ASSUME chan'[c] = "open" PROVE credit'[c] = p.added
      <4>1. chan[c] # "open"
        BY <2>2, <2>6, <2>9
      <4>2. credit' = [Accrued(p) EXCEPT ![c] = p.added]
        BY <2>1, <3>3, <4>1, IterationOpens
      <4>3. DOMAIN Accrued(p) = Channels
        BY DEF Accrued, Plus, TypeOK
      <4> QED
        BY <1>0, <4>2, <4>3
    <3>4. Backed(u, c)'
      BY <1>1, <2>8, <3>1, <3>2, <3>3 DEF Backed
    <3> QED
      BY <2>8, <3>4
  <2>10. CASE ~Starts(p, c)
    <3>1. OpensChannel(p) => c \notin {p.chan, target}
      BY <2>2, <2>3, <2>10, StartsForCall DEF Starts, Opening
    <3>2. t[1] = t[0] + Worth(p, c) /\ Worth(p, c) \in Nat
      BY <1>0, <2>2, <2>4, <2>10, WorthIsNat DEF Account
    <3>3. ASSUME chan'[c] = "open" PROVE chan[c] = "open"
      BY <2>1, <3>1, <3>3, IterationOpens
    <3>4. ASSUME chan'[c] = "open" PROVE credit'[c] <= u[0]
      <4>1. credit[c] <= t[0]
        BY <2>4, <3>3, <3>4 DEF Backed
      <4>2. credit'[c] - ledger'[c] <= (credit[c] - ledger[c]) + Worth(p, c)
        BY <1>0, <2>1, <2>2, <3>1, IterationBacks
      <4> DEFINE b == credit[c]  l == ledger[c]  b2 == credit'[c]  l2 == ledger'[c]
                 s == t[0]  w == Worth(p, c)
      <4>3. b \in Int /\ l \in Int /\ b2 \in Int /\ l2 \in Int /\ s \in Int /\ w \in Int /\ d \in Int
        BY <1>1, <1>2, <2>4, <3>2
      <4>4. b <= s /\ b2 - l2 <= (b - l) + w /\ l2 = l + d
        BY <2>0, <4>1, <4>2
      <4> HIDE DEF b, l, b2, l2, s, w
      <4>5. b2 <= (s + w) + d
        BY <4>3, <4>4
      <4>6. credit'[c] <= u[0]
        BY <2>8, <3>2, <4>5 DEF b2, s, w
      <4> QED
        BY <4>6
    <3>5. ASSUME chan'[c] = "open", clean' PROVE credit'[c] = u[0]
      <4>1. credit[c] = t[0]
        BY <2>4, <2>5, <3>3, <3>5 DEF Backed
      <4>2. conversation # "Terminated"
        BY <3>3, <3>5 DEF Entries
      <4>3. credit'[c] - ledger'[c] = (credit[c] - ledger[c]) + Worth(p, c)
        BY <2>1, <2>2, <3>1, <3>5, <4>2, IterationExact
      <4> DEFINE b == credit[c]  l == ledger[c]  b2 == credit'[c]  l2 == ledger'[c]
                 s == t[0]  w == Worth(p, c)
      <4>4. b \in Int /\ l \in Int /\ b2 \in Int /\ l2 \in Int /\ s \in Int /\ w \in Int /\ d \in Int
        BY <1>1, <1>2, <2>4, <3>2
      <4>5. b = s /\ b2 - l2 = (b - l) + w /\ l2 = l + d
        BY <2>0, <4>1, <4>3
      <4> HIDE DEF b, l, b2, l2, s, w
      <4>6. b2 = (s + w) + d
        BY <4>4, <4>5
      <4>7. credit'[c] = u[0]
        BY <2>8, <3>2, <4>6 DEF b2, s, w
      <4> QED
        BY <4>7
    <3>6. Backed(u, c)'
      BY <3>4, <3>5 DEF Backed
    <3> QED
      BY <2>8, <3>6
  <2> QED
    BY <2>9, <2>10
<1>6. CASE ReadFails
  <2>1. /\ UNCHANGED <<Coming, credit, ledger, chan, deferred>> /\ clean' = FALSE /\ d = 0
        /\ ~abandoned /\ ~deferred
    <3>1. UNCHANGED <<Coming, credit, ledger, chan, deferred>> /\ clean' = FALSE
      BY <1>6 DEF ReadFails, Silent, Coming, Fail, End, LinkUnchanged
    <3>2. ~abandoned
      BY <1>6 DEF ReadFails, Fail
    <3> QED
      BY <1>1, <1>2, <1>6, <3>1, <3>2 DEF Host
  <2>2. PICK t : Account(t, c) /\ Backed(t, c) /\ t[0] \in Int
    BY <1>3, <2>1
  <2>3. PICK u : Account(u, c)' /\ u[0] = t[0] + d
    BY <1>0, <1>2, <2>1, <2>2, AccountKept
  <2>4. u[0] = t[0]
    BY <2>1, <2>2, <2>3
  <2>5. Backed(u, c)'
    BY <2>1, <2>2, <2>4 DEF Backed
  <2> QED
    BY <2>3, <2>5
<1>7. CASE Peer
  <2>1. UNCHANGED <<credit, chan, clean, abandoned, deferred>>
    BY <1>7, PeerAnswersShape, PeerVolunteers DEF link
  <2>2. PICK t : Account(t, c) /\ Backed(t, c) /\ t[0] \in Int
    BY <1>3, <2>1
  <2>3. PICK u : Account(u, c)' /\ u[0] = t[0]
    BY <1>0, <1>7, <2>2, PeerAccount
  <2>4. Backed(u, c)'
    BY <2>1, <2>2, <2>3 DEF Backed
  <2> QED
    BY <2>3, <2>4
<1>8. CASE Arrives
  <2>1. UNCHANGED <<credit, chan, clean, deferred>> /\ ~abandoned
    BY <1>8, ArrivesShape
  <2>2. PICK t : Account(t, c) /\ Backed(t, c) /\ t[0] \in Int
    BY <1>3, <2>1
  <2>3. PICK u : Account(u, c)' /\ u[0] = t[0]
    BY <1>0, <1>8, <2>2, ArrivesAccount
  <2>4. Backed(u, c)'
    BY <2>1, <2>2, <2>3 DEF Backed
  <2> QED
    BY <2>3, <2>4
<1> QED
  BY <1>4, <1>5, <1>6, <1>7, <1>8 DEF Next, Host

-----------------------------------------------------------------------------
(* The two theorems.                                                       *)

\* As long as no call has failed, nothing has reached the printer unpaid.
Paid == clean => \A c \in Channels : unpaid[c] = 0

\* Every step keeps it so.
LEMMA PaidStep ==
    ASSUME TypeOK, Consistent, Paid, Next
    PROVE  Paid'
<1> USE DEF Consistent
<1>1. CASE Start
  BY <1>1, StartAsks DEF Paid
<1>2. CASE Receive
  <2>1. PICK written, rest : written \in BOOLEAN /\ Iterates(Coming[1], rest, written)
    BY <1>2, Iteration
  <2>2. clean' => clean
    BY <2>1, IterationWasClean
  <2> QED
    BY <1>2, <2>2 DEF Receive, Paid
<1>3. CASE ReadFails
  BY <1>3 DEF ReadFails, Fail, End, Paid
<1>4. CASE Peer
  <2>1. \A c \in Channels : unpaid'[c] \in {0, unpaid[c]}
    BY <1>4, PeerSettles DEF Settles
  <2>2. UNCHANGED clean
    BY <1>4, PeerAnswersShape, PeerVolunteers DEF link
  <2> QED
    BY <2>1, <2>2 DEF Paid
<1>5. CASE Arrives
  BY <1>5, ArrivesShape DEF Paid
<1> QED
  BY <1>1, <1>2, <1>3, <1>4, <1>5 DEF Next, Host

Accounts == Entries /\ Outstanding /\ TransactionAccount /\ ServiceAccounts /\ Paid

\* Stuttering keeps the accounts.
LEMMA AccountsStutter == Accounts /\ UNCHANGED vars => Accounts'
<1> SUFFICES ASSUME Accounts, UNCHANGED vars PROVE Accounts'
  OBVIOUS
<1>1. /\ UNCHANGED <<Coming, unanswered, chan, conversation, pc, target, abandoned>>
      /\ UNCHANGED <<credit, ledger, unpaid, deferred, clean>>
  BY DEF vars, link, peer, Coming
<1>2. Entries' /\ Outstanding'
  BY <1>1 DEF Accounts, Entries, Outstanding, Opening
<1>3. TransactionAccount' /\ ServiceAccounts' /\ Paid'
  BY <1>1 DEF Accounts, TransactionAccount, ServiceAccounts, Account, Backed, Books, Paid
<1> QED
  BY <1>2, <1>3 DEF Accounts

\* The accounts hold always.
LEMMA AccountsInvariant == Spec => [](TypeOK /\ Consistent /\ InStep /\ Accounts)
<1>1. Init => Accounts
  <2> SUFFICES ASSUME Init PROVE Accounts
    OBVIOUS
  <2>1. Len(Coming) = 0 /\ Len(unanswered) = 0 /\ 1..0 = {}
    BY ConcatProperties DEF Init, Coming
  <2>2. Entries
    BY ChannelAssumption DEF Init, Entries, Channels
  <2>3. Outstanding
    BY <2>1 DEF Outstanding
  <2>4. Transaction \in Channels /\ Services \subseteq Channels /\ \A c \in Channels : credit[c] = 0
    BY DEF Init, Channels
  <2>5. TransactionAccount /\ ServiceAccounts
    <3>1. \A c \in Channels : \E t : Account(t, c) /\ t[0] = 0
      BY AccountInitially
    <3> QED
      BY <2>4, <3>1 DEF TransactionAccount, ServiceAccounts, Backed
  <2>6. Paid
    BY DEF Init, Paid
  <2> QED
    BY <2>2, <2>3, <2>5, <2>6 DEF Accounts
<1>2. TypeOK /\ Consistent /\ InStep /\ Accounts /\ [Next]_vars => Accounts'
  BY EntriesStep, OutstandingStep, TransactionAccountStep, ServiceAccountsStep, PaidStep,
     AccountsStutter DEF Accounts
<1> QED
  BY <1>1, <1>2, InStepInvariant, PTL DEF Spec

\* A service channel that is open is opened by no packet on its way.
LEMMA OpenNeedsNoStart ==
    ASSUME Outstanding, ~abandoned, NEW c \in Services, chan[c] = "open"
    PROVE  \A i \in 1..Len(Coming) : ~Starts(Coming[i], c)
BY StartsForCall DEF Starts, Opening

\* The host never holds more credit than the printer granted and it has not
\* spent, but for one credit for every packet that reached the printer although
\* its write failed: on the transaction channel always, on an open service
\* channel until a packet has been put back or a call has given up its
\* OpenChannel.
THEOREM CreditIsBacked == Spec => []CreditBacked
<1>1. TypeOK /\ Consistent /\ Accounts => CreditBacked
  <2> SUFFICES ASSUME TypeOK, Consistent, Accounts PROVE CreditBacked
    OBVIOUS
  <2>1. credit[Transaction] <= Books(Transaction)
    <3>1. PICK t : Account(t, Transaction) /\ credit[Transaction] <= t[0]
      BY DEF Accounts, TransactionAccount
    <3>2. Transaction \in Channels /\ Transaction \notin Services
      BY ChannelAssumption DEF Channels
    <3>3. \A i \in 1..Len(Coming) : ~Starts(Coming[i], Transaction)
      BY <3>2 DEF Consistent, Wellformed, PacketOK, Starts, OpensChannel, CommandReplies, Replies
    <3>4. t[0] <= Books(Transaction)
      BY <3>1, <3>2, <3>3, AccountGrows
    <3>5. t[0] \in Int /\ credit[Transaction] \in Int /\ Books(Transaction) \in Int
      <4>1. 0 \in 0..Len(Coming)
        BY QueueLengths
      <4>2. t[0] \in Int
        BY <3>1, <4>1 DEF Account
      <4> QED
        BY <3>2, <4>2, BoundAssumption DEF TypeOK, Books
    <3> QED
      BY <3>1, <3>4, <3>5
  <2>2. ASSUME ~deferred, ~abandoned, NEW c \in Services, chan[c] = "open"
        PROVE  credit[c] <= Books(c)
    <3>1. PICK t : Account(t, c) /\ Backed(t, c)
      BY <2>2 DEF Accounts, ServiceAccounts
    <3>2. c \in Channels
      BY DEF Channels
    <3>3. t[0] <= Books(c)
      BY <2>2, <3>1, <3>2, OpenNeedsNoStart, AccountGrows DEF Accounts
    <3>4. t[0] \in Int /\ credit[c] \in Int /\ Books(c) \in Int
      <4>1. 0 \in 0..Len(Coming)
        BY QueueLengths
      <4>2. t[0] \in Int
        BY <3>1, <4>1 DEF Account
      <4> QED
        BY <3>2, <4>2, BoundAssumption DEF TypeOK, Books
    <3> QED
      BY <2>2, <3>1, <3>3, <3>4 DEF Backed
  <2> QED
    BY <2>1, <2>2 DEF CreditBacked, Books
<1> QED
  BY <1>1, AccountsInvariant, PTL

\* Without a new start, what the account grows by is what is promised.
LEMMA AccountPromises ==
    ASSUME TypeOK, NEW c \in Services, NEW t, Account(t, c),
           \A i \in 1..Len(Coming) : ~Starts(Coming[i], c)
    PROVE  Promised(Coming, c) = Books(c) - t[0]
<1>0. Len(Coming) \in Nat /\ c \in Channels /\ c # Transaction
      /\ \A i \in 1..Len(Coming) : Coming[i] \in Packets
  BY QueueLengths, ChannelAssumption DEF Channels
<1>1. \A i \in 0..Len(Coming) : t[i] \in Int
  BY DEF Account
<1>2. \A i \in 1..Len(Coming) : /\ t[i] = t[i - 1] + CreditFor(Coming[i], c)
                                /\ CreditFor(Coming[i], c) \in Int
  <2> SUFFICES ASSUME NEW i \in 1..Len(Coming)
               PROVE  t[i] = t[i - 1] + CreditFor(Coming[i], c) /\ CreditFor(Coming[i], c) \in Int
    OBVIOUS
  <2>1. CreditFor(Coming[i], c) \in Int
    <3>1. Coming[i].credit \in Nat /\ Coming[i].added \in Nat
      BY <1>0, BoundAssumption DEF Packets
    <3> QED
      BY <3>1 DEF CreditFor
  <2>2. Worth(Coming[i], c) = CreditFor(Coming[i], c)
    BY <1>0, <2>1 DEF Worth
  <2> QED
    BY <2>1, <2>2 DEF Account
<1> DEFINE Sums(f) == [n \in 0..Len(Coming) |->
                         IF n = 0 THEN 0 ELSE f[n - 1] + CreditFor(Coming[n], c)]
           sum == CHOOSE f : f = Sums(f)
           g == [n \in 0..Len(Coming) |-> t[n] - t[0]]
<1>3. Promised(Coming, c) = sum[Len(Coming)]
  BY DEF Promised
<1>4. sum = Sums(sum)
  <2>1. g = Sums(g)
    <3> SUFFICES ASSUME NEW n \in 0..Len(Coming)
                 PROVE  g[n] = IF n = 0 THEN 0 ELSE g[n - 1] + CreditFor(Coming[n], c)
      OBVIOUS
    <3>1. CASE n = 0
      BY <1>0, <1>1, <3>1
    <3>2. CASE n # 0
      <4>1. n \in 1..Len(Coming) /\ n - 1 \in 0..Len(Coming) /\ 0 \in 0..Len(Coming)
        BY <1>0, <3>2
      <4>2. g[n - 1] = t[n - 1] - t[0] /\ g[n] = t[n] - t[0]
        BY <4>1
      <4>3. t[n - 1] \in Int /\ t[n] \in Int /\ t[0] \in Int
        BY <1>1, <4>1
      <4> HIDE DEF g
      <4> QED
        BY <1>2, <3>2, <4>1, <4>2, <4>3
    <3> QED
      BY <3>1, <3>2
  <2> HIDE DEF Sums, g
  <2> QED
    BY <2>1, Zenon DEF sum
<1> HIDE DEF sum
<1>5. /\ sum[0] = 0
      /\ \A n \in 1..Len(Coming) : sum[n] = sum[n - 1] + CreditFor(Coming[n], c)
  <2> DEFINE s == Sums(sum)
  <2>1. /\ s[0] = 0
        /\ \A n \in 1..Len(Coming) : s[n] = sum[n - 1] + CreditFor(Coming[n], c)
    BY <1>0
  <2> HIDE DEF s
  <2> QED
    BY <1>4, <2>1 DEF s
<1> HIDE DEF Sums, g
<1> DEFINE S == {n \in 0..Len(Coming) : sum[n] = t[n] - t[0]}
<1>6. 0 \in S
  BY <1>0, <1>1, <1>5
<1>7. ASSUME NEW n \in 0..(Len(Coming) - 1), n \in S
      PROVE  n + 1 \in S
  <2>1. n + 1 \in 1..Len(Coming) /\ (n + 1) - 1 = n /\ n \in 0..Len(Coming)
        /\ n + 1 \in 0..Len(Coming) /\ 0 \in 0..Len(Coming)
    BY <1>0
  <2>2. /\ sum[n + 1] = sum[n] + CreditFor(Coming[n + 1], c) /\ t[n + 1] = t[n] + CreditFor(Coming[n + 1], c)
        /\ CreditFor(Coming[n + 1], c) \in Int /\ sum[n] = t[n] - t[0]
    BY <1>2, <1>5, <1>7, <2>1
  <2>3. sum[n + 1] = t[n + 1] - t[0]
    BY <1>1, <2>1, <2>2
  <2> QED
    BY <2>1, <2>3
<1>8. Len(Coming) \in S
  <2> HIDE DEF S
  <2>1. 0..Len(Coming) \subseteq S
    BY <1>0, <1>6, <1>7, SetInduction
  <2> QED
    BY <1>0, <2>1
<1> QED
  BY <1>3, <1>8 DEF Account

\* As long as no call has failed, the credit of an open service channel and
\* what is on its way to it make up the printer's ledger.
THEOREM CreditIsExact == Spec => []CreditExact
<1>1. TypeOK /\ InStep /\ Accounts => CreditExact
  <2> SUFFICES ASSUME TypeOK, InStep, Accounts, clean, NEW c \in Services, chan[c] = "open"
               PROVE  ledger[c] = credit[c] + Promised(Coming, c)
    BY DEF CreditExact
  <2>1. ~deferred /\ ~abandoned
    BY DEF InStep
  <2>2. PICK t : Account(t, c) /\ Backed(t, c)
    BY <2>1 DEF Accounts, ServiceAccounts
  <2>3. Promised(Coming, c) = Books(c) - t[0]
    BY <2>1, <2>2, OpenNeedsNoStart, AccountPromises DEF Accounts
  <2>4. credit[c] = t[0]
    BY <2>2 DEF Backed
  <2>5. /\ c \in Channels /\ credit[c] \in Int /\ ledger[c] \in Int
        /\ Books(c) = ledger[c]
    BY BoundAssumption DEF TypeOK, Channels, Accounts, Paid, Books
  <2> QED
    BY <2>3, <2>4, <2>5
<1> QED
  BY <1>1, AccountsInvariant, PTL

-----------------------------------------------------------------------------
(* A conversation can be left.                                             *)

\* A command of the host the printer has to answer, and with it grants a
\* credit.
Costs(u) == u.kind \notin {"Init", "Data"}

\* Credit of the transaction channel is spent only on what brings it back.
Solvent ==
    conversation = "Active" /\ credit[Transaction] = 0 =>
        \/ \E i \in 1..Len(unanswered) : Costs(unanswered[i])
        \/ \E i \in 1..Len(Coming) : Coming[i].kind \in CommandReplies

\* A conversation becomes active with one credit.
LEMMA IterationActivates ==
    ASSUME TypeOK, NEW p, NEW rest, NEW written, Iterates(p, rest, written),
           conversation # "Active", conversation' = "Active"
    PROVE  credit'[Transaction] = 1
<1>1. credit' = FirstCredit(Accrued(p))
  BY DEF Iterates, Dropped, Rejected, DataArrived, TransactionArrived, LinkUnchanged,
         HandlePeerTransaction, HandleInit, HandleQuery, HandleCloseChannel,
         HandleCredit, HandleExit, HandleError, HandleReply, InitReplied, SocketResolved,
         ChannelOpened, NameResolved, ChannelClosed, ExitReplied, CreditRequested, Terminated
<1>2. DOMAIN Accrued(p) = Channels /\ Transaction \in Channels
  BY DEF Accrued, Plus, TypeOK, Channels
<1> QED
  BY <1>1, <1>2 DEF FirstCredit

\* Apart from the Inits, which grant none, a packet of the transaction
\* channel brings at least what its header grants.
LEMMA EntersAtLeast ==
    ASSUME TypeOK, NEW p \in Packets, p.on = Transaction, p.kind \notin {"Init", "InitReply"},
           NEW x, Enters(p, x)
    PROVE  x \in [Channels -> Nat] /\ x[Transaction] >= credit[Transaction] + p.credit
<1>1. /\ p.credit \in Nat /\ p.added \in Nat /\ p.chan \in Channels
      /\ Transaction \in Channels /\ Transaction \notin Services /\ target \in Channels
      /\ credit \in [Channels -> Nat]
  <2>1. p.credit \in Nat /\ p.added \in Nat /\ p.on \in Channels /\ p.chan \in Channels
    BY BoundAssumption DEF Packets
  <2>2. Transaction \in Channels /\ Transaction \notin Services /\ target \in Channels
    BY ChannelAssumption DEF TypeOK, Channels
  <2>3. credit \in [Channels -> Nat]
    BY BoundAssumption DEF TypeOK
  <2> QED
    BY <2>1, <2>2, <2>3
<1> DEFINE cr == Accrued(p)
<1>2. cr \in [Channels -> Nat] /\ cr[Transaction] = credit[Transaction] + p.credit
  BY <1>1 DEF Accrued, Plus
<1> HIDE DEF cr
<1>3. CASE x = cr
  BY <1>1, <1>2, <1>3
<1>4. CASE x = Plus(cr, p.chan, p.added)
  BY <1>1, <1>2, <1>4 DEF Plus
<1>5. CASE target \in Services /\ x = [cr EXCEPT ![target] = 0]
  BY <1>1, <1>2, <1>5
<1>6. CASE target \in Services /\ x = [cr EXCEPT ![target] = p.added]
  BY <1>1, <1>2, <1>6
<1> QED
  BY <1>3, <1>4, <1>5, <1>6 DEF Enters, Opens, cr

\* An Init and its reply cost nothing.
LEMMA InitsAreFree ==
    ASSUME NEW p, p.kind \in {"Init", "InitReply"}, PacketOK(p),
           NEW rest, NEW written, Iterates(p, rest, written),
           TypeOK, conversation' = "Active", credit'[Transaction] = 0
    PROVE  credit[Transaction] = 0
<1>1. p.on = Transaction /\ p.credit = 0
  BY DEF PacketOK, PeerCommands, Replies
<1>2. Transaction \in Channels /\ credit \in [Channels -> Nat]
  BY BoundAssumption DEF TypeOK, Channels
<1> DEFINE cr == Accrued(p)
<1>3. cr \in [Channels -> Nat] /\ cr[Transaction] = credit[Transaction]
  BY <1>1, <1>2 DEF Accrued, Plus
<1> HIDE DEF cr
<1>4. credit' \in {credit, cr, FirstCredit(cr)}
  <2>1. CASE HandlePeerTransaction(p, cr, written)
    BY <2>1 DEF HandlePeerTransaction, HandleInit, HandleQuery, HandleCloseChannel,
         HandleCredit, HandleExit, HandleError
  <2>2. CASE HandleReply(p, cr, written) /\ p.kind = Expected
    BY <2>2 DEF Expected, HandleReply, InitReplied, SocketResolved,
         ChannelOpened, NameResolved, ChannelClosed, ExitReplied, CreditRequested
  <2> QED
    BY <1>1, <2>1, <2>2 DEF Iterates, Dropped, Rejected, DataArrived, TransactionArrived, cr
<1>5. FirstCredit(cr)[Transaction] = 1
  BY <1>2, <1>3 DEF FirstCredit
<1> QED
  BY <1>2, <1>3, <1>4, <1>5

\* A reply ends the call and keeps what it brought, or the call asks on.
LEMMA ReplyKeeps ==
    ASSUME TypeOK, TargetOK, NEW p \in Packets, PacketOK(p), p.kind \in CommandReplies,
           NEW written, p.kind = Expected, HandleReply(p, Accrued(p), written),
           UNCHANGED unanswered, conversation' = "Active"
    PROVE  credit'[Transaction] >= credit[Transaction] + p.credit
<1> DEFINE cr == Accrued(p)
<1>0. /\ p.on = Transaction /\ p.credit \in Nat /\ Transaction \in Channels
      /\ credit \in [Channels -> Nat] /\ Transaction \notin Services /\ unanswered \in Asked
      /\ p.added \in Nat
  BY BoundAssumption, ChannelAssumption
     DEF TypeOK, Channels, Packets, PacketOK, CommandReplies, Asked
<1>1. cr \in [Channels -> Nat] /\ cr[Transaction] = credit[Transaction] + p.credit
  BY <1>0 DEF Accrued, Plus
<1> HIDE DEF cr
<1>2. \A u : Append(unanswered, u) # unanswered
  <2> SUFFICES ASSUME NEW u PROVE Len(Append(unanswered, u)) # Len(unanswered)
    OBVIOUS
  <2>1. Longer(Append(unanswered, u), unanswered, u) /\ Len(unanswered) \in Nat
    BY <1>0, AppendLonger, LenProperties DEF Asked
  <2> QED
    BY <2>1 DEF Longer
<1>3. pc \in CommandReplies /\ p.kind = pc
  BY DEF Expected, CommandReplies, Replies
<1>4. pc # "ExitReply" => target \in Services
  BY <1>3 DEF TargetOK, InitWaits, CommandReplies, Replies
<1>5. credit' = cr \/ (target \in Services /\ \E n : credit' = [cr EXCEPT ![target] = n])
  <2>1. CASE SocketResolved(p, cr, written)
    BY <1>2, <1>4, <2>1 DEF SocketResolved, Command
  <2>2. CASE CreditRequested(p, cr, written)
    BY <1>2, <1>4, <2>2 DEF CreditRequested, Command, SendData, Written, Plus
  <2>3. CASE ChannelOpened(p, cr) \/ NameResolved(p, cr) \/ ChannelClosed(p, cr) \/ ExitReplied(p, cr)
    BY <1>4, <2>3 DEF ChannelOpened, NameResolved, ChannelClosed, ExitReplied, Terminated
  <2>4. ~InitReplied(p, cr, written)
    BY <1>3 DEF InitReplied, CommandReplies, Replies
  <2> QED
    BY <2>1, <2>2, <2>3, <2>4 DEF HandleReply, cr
<1> QED
  BY <1>0, <1>1, <1>5

\* An iteration that leaves no credit either wrote the command that brings it
\* back, or found none and its packet was no reply to a command.
LEMMA IterationSolvent ==
    ASSUME MinGrant >= 1, TypeOK, TargetOK, chan[Transaction] = "open", pc # "idle",
           NEW p \in Packets, PacketOK(p), NEW rest, NEW written \in BOOLEAN,
           Iterates(p, rest, written),
           conversation = "Active", conversation' = "Active", credit'[Transaction] = 0
    PROVE  \/ \E u : Asks(u) /\ Costs(u)
           \/ credit[Transaction] = 0 /\ p.kind \notin CommandReplies
<1>0. /\ Transaction \in Channels /\ Transaction \notin Services /\ p.credit \in Nat
      /\ credit \in [Channels -> Nat] /\ ledger \in [Channels -> Int]
      /\ credit[Transaction] \in Nat
  <2>1. p.credit \in Nat
    BY BoundAssumption DEF Packets
  <2>2. Transaction \in Channels /\ Transaction \notin Services
    BY ChannelAssumption DEF Channels
  <2>3. credit \in [Channels -> Nat] /\ ledger \in [Channels -> Int]
    BY BoundAssumption DEF TypeOK
  <2> QED
    BY <2>1, <2>2, <2>3
<1>1. p.kind \notin {"Init", "InitReply"} => p.credit >= 1 /\ p.credit <= CreditLimit
  BY <1>0, BoundAssumption DEF PacketOK, Piggyback
<1>2. CASE p.kind \in CommandReplies
  <2>0. p.on = Transaction /\ p.credit >= 1 /\ p.credit <= CreditLimit
        /\ p.kind \notin PeerCommands
    BY <1>1, <1>2 DEF PacketOK, CommandReplies, Replies, PeerCommands
  <2>1. ASSUME Rejected(p, rest) PROVE credit[Transaction] > 0 /\ UNCHANGED credit
    BY <1>0, <1>2, <2>0, <2>1, BoundAssumption DEF Rejected, Rejects, CommandReplies, Replies
  <2>2. CASE credit' = Accrued(p)
    BY <1>0, <2>0, <2>2 DEF Accrued, Plus
  <2>3. CASE p.kind = Expected /\ HandleReply(p, Accrued(p), written) /\ UNCHANGED unanswered
    BY <1>0, <1>2, <2>0, <2>3, ReplyKeeps
  <2>4. CASE \E u : IterationAsksFor(p, u)
    <3>1. PICK u : IterationAsksFor(p, u)
      BY <2>4
    <3>2. CASE u.kind \in {"OpenChannel", "CreditRequest"}
      BY <3>1, <3>2 DEF IterationAsksFor, Costs
    <3>3. CASE u.kind = "Init"
      BY <1>2, <3>1, <3>3 DEF IterationAsksFor, Awaited, CommandReplies
    <3>4. CASE u.kind = "Data" /\ pc = "CreditRequestReply"
      <4>1. Carrier(u) \in Services /\ target \in Services
            /\ credit' = Minus(Plus(Accrued(p), target, p.added), Carrier(u))
        BY <3>1, <3>4 DEF IterationAsksFor, Asks, Carrier, TargetOK, InitWaits
      <4>2. credit'[Transaction] = credit[Transaction] + p.credit
        BY <1>0, <2>0, <4>1 DEF Minus, Plus, Accrued
      <4> QED
        BY <1>0, <2>0, <4>2
    <3> QED
      BY <3>1, <3>2, <3>3, <3>4 DEF IterationAsksFor
  <2>5. Rejected(p, rest) \/ credit' = Accrued(p) \/ (p.kind = Expected /\ HandleReply(p, Accrued(p), written))
    BY <2>0 DEF Iterates, Dropped, DataArrived, TransactionArrived
  <2>6. UNCHANGED unanswered \/ \E u : IterationAsksFor(p, u)
    BY IterationAsks
  <2>7. ~Rejected(p, rest)
    BY <1>0, <2>1
  <2> QED
    BY <2>2, <2>3, <2>4, <2>5, <2>6, <2>7
<1>3. CASE p.kind \notin CommandReplies
  <2>1. CASE p.kind \in {"Init", "InitReply"}
    BY <1>3, <2>1, InitsAreFree
  <2>2. CASE p.on # Transaction
    <3>1. UNCHANGED credit \/ credit' = Plus(credit, p.on, p.credit)
      BY <2>2 DEF Iterates, Dropped, Rejected, DataArrived, TransactionArrived, Accrued
    <3> QED
      BY <1>0, <1>3, <2>2, <3>1 DEF Plus
  <2>3. CASE p.on = Transaction /\ p.kind \notin {"Init", "InitReply"}
    <3>1. CASE UNCHANGED credit
      BY <1>3, <3>1
    <3>2. CASE \E cr : Terminated(cr)
      BY <3>2 DEF Terminated
    <3>3. CASE \E x : Enters(p, x) /\ Spends(x)
      <4>1. PICK x : Enters(p, x) /\ Spends(x)
        BY <3>3
      <4>2. x \in [Channels -> Nat] /\ x[Transaction] >= credit[Transaction] + p.credit
        BY <2>3, <4>1, EntersAtLeast
      <4>3. credit'[Transaction] \in {x[Transaction], x[Transaction] - 1}
        BY <1>0, <4>1, <4>2 DEF Spends, Minus
      <4> QED
        BY <1>0, <1>1, <1>3, <2>3, <4>2, <4>3
    <3> QED
      BY <3>1, <3>2, <3>3, IterationSpends
  <2> QED
    BY <2>1, <2>2, <2>3
<1> QED
  BY <1>2, <1>3

\* Every step keeps a credit, or a command or a reply that brings one.
LEMMA SolventStep ==
    ASSUME MinGrant >= 1, TypeOK, Consistent, Entries, Solvent, Next
    PROVE  Solvent'
<1> USE DEF Consistent
<1> SUFFICES ASSUME conversation' = "Active", credit'[Transaction] = 0
             PROVE  \/ \E i \in 1..Len(unanswered') : Costs(unanswered'[i])
                    \/ \E i \in 1..Len(Coming') : Coming'[i].kind \in CommandReplies
  BY DEF Solvent, Costs
<1>0. Len(unanswered) \in Nat /\ Len(Coming) \in Nat /\ Transaction \in Channels
  BY QueueLengths DEF Channels
<1>1. ASSUME NEW u, Longer(unanswered', unanswered, u), Costs(u)
      PROVE  \E i \in 1..Len(unanswered') : Costs(unanswered'[i])
  <2>1. Len(unanswered') \in 1..Len(unanswered') /\ unanswered'[Len(unanswered')] = u
    BY <1>0, <1>1 DEF Longer
  <2> QED
    BY <1>1, <2>1
<1>2. CASE Start
  <2>1. UNCHANGED <<Coming, conversation>>
    BY <1>2, StartAsks DEF Coming
  <2>2. CASE UNCHANGED <<unanswered, credit>>
    BY <2>1, <2>2 DEF Solvent
  <2>3. CASE \E u : /\ Asks(u)
                    /\ u.kind = "Init" => conversation = "Inactive"
                    /\ credit' = IF u.kind = "Init" THEN credit ELSE Minus(credit, Carrier(u))
    <3>1. PICK u : /\ Asks(u)
                   /\ u.kind = "Init" => conversation = "Inactive"
                   /\ credit' = IF u.kind = "Init" THEN credit ELSE Minus(credit, Carrier(u))
      BY <2>3
    <3>2. Longer(unanswered', unanswered, u) /\ u.kind # "Init"
      BY <2>1, <3>1 DEF Asks
    <3>3. CASE Costs(u)
      BY <1>1, <3>2, <3>3
    <3>4. CASE u.kind = "Data"
      <4>1. Carrier(u) # Transaction
        BY <3>1, <3>4, ChannelAssumption DEF Asks, RequestOK, Carrier
      <4>2. credit \in [Channels -> Nat]
        BY BoundAssumption DEF TypeOK
      <4>3. credit[Transaction] = 0
        BY <1>0, <3>1, <3>2, <4>1, <4>2 DEF Minus
      <4>4. \A i \in 1..Len(unanswered) : i \in 1..Len(unanswered') /\ unanswered'[i] = unanswered[i]
        BY <1>0, <3>2 DEF Longer
      <4> QED
        BY <2>1, <4>3, <4>4 DEF Solvent
    <3> QED
      BY <3>2, <3>3, <3>4 DEF Costs
  <2> QED
    BY <1>2, <2>2, <2>3, StartAsks
<1>3. CASE Receive
  <2> DEFINE p == Coming[1]
  <2>1. PICK written, rest, m, w :
           written \in BOOLEAN /\ Iterates(p, rest, written) /\ Moves(Coming', Coming, m, w)
    BY <1>3, Iteration
  <2>2. p \in Packets /\ PacketOK(p) /\ TargetOK /\ 1 \in 1..Len(Coming) /\ pc # "idle"
    <3>1. 1 \in 1..Len(Coming)
      BY <1>3, Iteration
    <3> QED
      BY <1>3, <3>1, Iteration DEF Wellformed, Receive
  <2>3. conversation = "Active"
    BY <2>1, IterationActivates
  <2>4. CASE \E u : Asks(u) /\ Costs(u)
    BY <1>1, <2>4 DEF Asks
  <2>5. CASE credit[Transaction] = 0 /\ p.kind \notin CommandReplies
    <3>1. CASE \E i \in 1..Len(unanswered) : Costs(unanswered[i])
      <4>1. PICK i \in 1..Len(unanswered) : Costs(unanswered[i])
        BY <3>1
      <4>2. UNCHANGED unanswered \/ \E u : Longer(unanswered', unanswered, u)
        BY <2>1, <2>2, IterationAsks DEF IterationAsksFor, Asks
      <4>3. i \in 1..Len(unanswered') /\ unanswered'[i] = unanswered[i]
        BY <1>0, <4>1, <4>2 DEF Longer
      <4> QED
        BY <4>1, <4>3
    <3>2. CASE \E i \in 1..Len(Coming) : Coming[i].kind \in CommandReplies
      <4>1. PICK i \in 1..Len(Coming) : Coming[i].kind \in CommandReplies
        BY <3>2
      <4>2. i > 1 /\ i \in OnTransaction(Coming)
        BY <1>0, <2>5, <4>1 DEF Wellformed, PacketOK, CommandReplies, OnTransaction
      <4>3. w[i] \in 1..Len(Coming') /\ Coming'[w[i]] = Coming[i]
        BY <2>1, <4>1, <4>2 DEF Moves, OnTransaction
      <4> QED
        BY <4>1, <4>3
    <3> QED
      BY <2>3, <2>5, <3>1, <3>2 DEF Solvent
  <2> QED
    BY <2>1, <2>2, <2>3, <2>4, <2>5, IterationSolvent DEF Entries
<1>4. CASE ReadFails
  <2>1. UNCHANGED <<Coming, unanswered, credit, conversation>>
    BY <1>4 DEF ReadFails, Silent, Coming, LinkUnchanged
  <2> QED
    BY <2>1 DEF Solvent
<1>5. CASE Peer
  <2>1. UNCHANGED <<credit, conversation>>
    BY <1>5, PeerAnswersShape, PeerVolunteers DEF link
  <2>2. \A q : Longer(Coming', Coming, q) =>
           /\ Len(Coming') \in 1..Len(Coming') /\ Coming'[Len(Coming')] = q
           /\ \A i \in 1..Len(Coming) : i \in 1..Len(Coming') /\ Coming'[i] = Coming[i]
    BY <1>0 DEF Longer
  <2>3. CASE \E i \in 1..Len(Coming) : Coming[i].kind \in CommandReplies
    <3>1. \E q : Longer(Coming', Coming, q)
      BY <1>5, PeerAnswersShape, PeerVolunteers
    <3> QED
      BY <2>2, <2>3, <3>1
  <2>4. CASE \E j \in 1..Len(unanswered) : Costs(unanswered[j])
    <3>1. PICK j \in 1..Len(unanswered) : Costs(unanswered[j])
      BY <2>4
    <3>2. CASE PeerAnswers
      <4>1. PICK i, q :
               /\ i \in 1..Len(unanswered)
               /\ Shorter(unanswered', unanswered, i) /\ Longer(Coming', Coming, q)
               /\ AnswersWith(unanswered[i], q)
        BY <3>2, PeerAnswersShape
      <4>2. CASE i = j
        <5>1. unanswered[i].kind \in Requests /\ q.kind = ReplyTo(unanswered[i].kind)
          BY <4>1, QueueLengths DEF AnswersWith
        <5>2. q.kind \in CommandReplies
          BY <3>1, <4>2, <5>1 DEF Requests, ReplyTo, Costs, CommandReplies, Replies
        <5> QED
          BY <2>2, <4>1, <5>2
      <4>3. CASE j < i
        <5>1. j \in 1..Len(unanswered') /\ unanswered'[j] = unanswered[j]
          BY <1>0, <3>1, <4>1, <4>3 DEF Shorter
        <5> QED
          BY <3>1, <5>1
      <4>4. CASE j > i
        <5>1. /\ j - 1 \in 1..Len(unanswered') /\ ~(j - 1 < i) /\ (j - 1) + 1 = j
          BY <1>0, <3>1, <4>1, <4>4 DEF Shorter
        <5>2. unanswered'[j - 1] = unanswered[j]
          BY <4>1, <5>1 DEF Shorter
        <5> QED
          BY <3>1, <5>1, <5>2
      <4> QED
        BY <3>1, <4>1, <4>2, <4>3, <4>4
    <3>3. CASE ~PeerAnswers
      BY <1>5, <3>1, <3>3, PeerVolunteers
    <3> QED
      BY <3>2, <3>3
  <2> QED
    BY <2>1, <2>3, <2>4 DEF Solvent
<1>6. CASE Arrives
  <2>1. UNCHANGED <<Coming, credit, conversation>>
    BY <1>6, ArrivesShape
  <2>2. UNCHANGED unanswered \/ \E u : Longer(unanswered', unanswered, u)
    BY <1>6, ArrivesShape
  <2>3. \A i \in 1..Len(unanswered) : i \in 1..Len(unanswered') /\ unanswered'[i] = unanswered[i]
    BY <1>0, <2>2 DEF Longer
  <2> QED
    BY <2>1, <2>3 DEF Solvent
<1> QED
  BY <1>2, <1>3, <1>4, <1>5, <1>6 DEF Next, Host

\* If every packet of the printer returns a credit, a host at rest in an
\* active conversation can write its Exit.
THEOREM ExitIsPossible == ASSUME MinGrant >= 1 PROVE Spec => []ExitPossible
<1>1. Init => Solvent
  BY DEF Init, Solvent
<1>2. TypeOK /\ Consistent /\ Accounts /\ Solvent /\ [Next]_vars => Solvent'
  <2>1. Solvent /\ UNCHANGED vars => Solvent'
    BY DEF vars, link, peer, Solvent, Coming
  <2> QED
    BY <2>1, SolventStep DEF Accounts
<1>3. TypeOK /\ Solvent => ExitPossible
  <2> SUFFICES ASSUME TypeOK, Solvent, conversation = "Active", Coming = <<>>,
                      \A i \in 1..Len(unanswered) : Carrier(unanswered[i]) # Transaction
               PROVE  credit[Transaction] > 0
    BY DEF ExitPossible
  <2>1. Len(Coming) = 0 /\ 1..0 = {}
    OBVIOUS
  <2>2. \A i \in 1..Len(unanswered) : ~Costs(unanswered[i])
    BY DEF Costs, Carrier
  <2>3. credit[Transaction] \in Nat
    BY BoundAssumption DEF TypeOK, Channels
  <2> QED
    BY <2>1, <2>2, <2>3 DEF Solvent
<1> QED
  BY <1>1, <1>2, <1>3, AccountsInvariant, PTL DEF Spec
=============================================================================

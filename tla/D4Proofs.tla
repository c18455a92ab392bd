------------------------------ MODULE D4Proofs ------------------------------
(* Theorems about the link of D4Conversation.tla, for every set of         *)
(* services, every limit and every bound: types, and what host and printer *)
(* know of one another, that is the order of what is on its way between    *)
(* them and what follows from it about panics, agreement and replies.      *)
EXTENDS D4Conversation, SequenceTheorems, TLAPS

\* Once the host takes the conversation for terminated, no step of its own
\* writes a command or a packet that costs credit: send refuses it (MaySend),
\* data needs an active conversation, and the calls that read on drop or
\* answer nothing.  It does not try to write either.
LEMMA TerminatedSilent ==
    Host /\ conversation = "Terminated" =>
        UNCHANGED <<unanswered, ledger>> /\ doubtful' \subseteq doubtful
<1> SUFFICES ASSUME Host, conversation = "Terminated"
             PROVE  UNCHANGED <<unanswered, ledger>> /\ doubtful' \subseteq doubtful
  OBVIOUS
<1> USE DEF MaySend, CanCommand, CanSendData
<1>1. CASE Start
  BY <1>1 DEF Start, StartInitialize, StartOpenService, StartServiceName,
              StartCloseChannel, StartRequest, StartExit, StartCommand
<1>2. CASE Receive
  <2> PICK batch \in Batches, written \in Writes :
         \/ Dropped(Head(batch), Tail(batch))
         \/ Rejected(Head(batch), Tail(batch))
         \/ DataArrived(Head(batch), Tail(batch))
         \/ TransactionArrived(Head(batch), Tail(batch), written)
    BY <1>2 DEF Receive
  <2> DEFINE p == Head(batch)
  <2>1. CASE Dropped(p, Tail(batch)) \/ Rejected(p, Tail(batch))
             \/ DataArrived(p, Tail(batch))
    BY <2>1 DEF Dropped, Rejected, DataArrived, Silent, LinkUnchanged
  <2>2. CASE TransactionArrived(p, Tail(batch), written)
    <3>1. CASE HandlePeerTransaction(p, Accrued(p), written)
      BY <3>1 DEF HandlePeerTransaction, HandleInit, HandleQuery,
                  HandleCloseChannel, HandleCredit, HandleExit, HandleError,
                  NotAnswered, Silent, Doubt
    <3>2. CASE HandleReply(p, Accrued(p), written)
      BY <3>2 DEF HandleReply, InitReplied, SocketResolved, ChannelOpened,
                  NameResolved, ChannelClosed, ExitReplied, CreditRequested,
                  Silent, Doubt
    <3> QED
      BY <2>2, <3>1, <3>2 DEF TransactionArrived, Silent, LinkUnchanged
  <2> QED
    BY <2>1, <2>2
<1>3. CASE ReadFails
  BY <1>3 DEF ReadFails, Silent, LinkUnchanged
<1> QED
  BY <1>1, <1>2, <1>3 DEF Host

\* Once the conversation is terminated, the host writes no packet that costs
\* credit and no command, and tries to write none.
THEOREM TerminationSilent == Spec => HostSilentAfterTermination
<1>1. Next => (Host /\ conversation = "Terminated" =>
                  UNCHANGED <<unanswered, ledger>> /\ doubtful' \subseteq doubtful)
  BY TerminatedSilent
<1> QED
  BY <1>1, PTL DEF Spec, HostSilentAfterTermination

-----------------------------------------------------------------------------
(* Type correctness, and with it the bound of every channel's credit.      *)

CreditMaps == [Channels -> 0..CreditLimit]
Ledgers == [Channels -> Int]
Asked == Seq([kind : Requests, chan : Channels, id : Nat])

\* What one iteration of the loop may change besides the queues it reads.
IterationOK ==
    /\ conversation \in Conversations /\ revision \in Revisions
    /\ exitRequested \in BOOLEAN
    /\ chan \in [Channels -> Presence] /\ credit \in CreditMaps
    /\ pc \in Waiting \cup {"idle"} /\ target \in Channels
    /\ tries \in 0..3 /\ serial \in Nat
    /\ outcome \in {"none", "ok", "reply", "error", "panic"}
    /\ unanswered \in Asked /\ ledger \in Ledgers
    /\ peerActive \in BOOLEAN /\ clean \in BOOLEAN /\ abandoned \in BOOLEAN

\* Spending a credit that is there and granting one that fits keep a credit
\* map in its bound.
LEMMA CreditArithmetic ==
    ASSUME NEW cr \in CreditMaps, NEW c \in Channels, NEW n \in Nat
    PROVE  /\ cr[c] > 0 => Minus(cr, c) \in CreditMaps
           /\ ~(cr[c] + n > CreditLimit) => Plus(cr, c, n) \in CreditMaps
           /\ ~(Plus(cr, c, n)[c] > CreditLimit) => Plus(cr, c, n) \in CreditMaps
           /\ n <= CreditLimit => [cr EXCEPT ![c] = n] \in CreditMaps
           /\ Plus(cr, c, n)[c] = cr[c] + n
  BY BoundAssumption DEF CreditMaps, Minus, Plus

\* Charging and crediting keep a ledger a ledger.
LEMMA LedgerArithmetic ==
    ASSUME NEW f \in Ledgers, NEW c \in Channels, NEW n \in Nat
    PROVE  Minus(f, c) \in Ledgers /\ Plus(f, c, n) \in Ledgers
           /\ [f EXCEPT ![c] = n] \in Ledgers
  BY DEF Ledgers, Minus, Plus

\* terminate_conversation leaves only the transaction channel, without credit.
LEMMA TerminatedType ==
    ASSUME IterationOK, NEW cr, Terminated(cr)
    PROVE  /\ chan' \in [Channels -> Presence] /\ credit' \in CreditMaps
           /\ conversation' \in Conversations
<1>1. \A c \in Channels : (IF c = Transaction THEN chan[c] ELSE "absent") \in Presence
  BY DEF IterationOK, Presence
<1>2. 0 \in 0..CreditLimit
  BY BoundAssumption
<1> QED
  BY <1>1, <1>2 DEF Terminated, CreditMaps, Conversations

\* A packet the host writes joins the unanswered ones.
LEMMA AskedType ==
    ASSUME unanswered \in Asked, NEW kind \in Requests, NEW c \in Channels, NEW id \in Nat
    PROVE  Append(unanswered, Request(kind, c, id)) \in Asked
  BY DEF Asked, Request

\* The two ways a call writes keep the types, whatever credits cr it holds.
LEMMA CommandType ==
    ASSUME IterationOK, NEW cr \in CreditMaps, NEW c \in Channels, CanCommand(cr),
           NEW kind \in Requests, NEW waiting \in Waiting, Command(kind, c, cr, waiting)
    PROVE  /\ credit' \in CreditMaps /\ ledger' \in Ledgers /\ unanswered' \in Asked
           /\ pc' \in Waiting \cup {"idle"} /\ target' \in Channels
<1>1. Transaction \in Channels
  BY DEF Channels
<1>2. credit' \in CreditMaps
  BY <1>1, CreditArithmetic, 0 \in Nat DEF Command, CanCommand
<1>3. ledger' \in Ledgers
  BY <1>1, LedgerArithmetic, 0 \in Nat DEF Command, IterationOK
<1>4. unanswered' \in Asked
  BY AskedType, 0 \in Nat DEF Command, IterationOK
<1> QED
  BY <1>2, <1>3, <1>4 DEF Command

\* Sending data against a credit that is there keeps the types.
LEMMA SendDataType ==
    ASSUME IterationOK, NEW cr \in CreditMaps, NEW c \in Channels, CanSendData(c, cr),
           SendData(c, cr)
    PROVE  /\ credit' \in CreditMaps /\ ledger' \in Ledgers /\ unanswered' \in Asked
           /\ pc' \in Waiting \cup {"idle"} /\ target' \in Channels /\ serial' \in Nat
<1>1. credit' \in CreditMaps
  BY CreditArithmetic, 0 \in Nat DEF SendData, CanSendData
<1>2. ledger' \in Ledgers
  BY LedgerArithmetic, 0 \in Nat DEF SendData, IterationOK
<1>3. serial + 1 \in Nat
  BY DEF IterationOK
<1>4. unanswered' \in Asked
  <2>1. "Data" \in Requests
    BY DEF Requests
  <2> QED
    BY <1>3, <2>1, AskedType DEF SendData, Written, IterationOK
<1> QED
  BY <1>1, <1>2, <1>3, <1>4 DEF SendData, Waiting

\* A command of the peer.
LEMMA PeerTransactionType ==
    ASSUME IterationOK, NEW p \in Packets, NEW cr \in CreditMaps,
           NEW written \in BOOLEAN, HandlePeerTransaction(p, cr, written)
    PROVE  IterationOK'
<1> USE DEF IterationOK, Wait, Fail, Returns, End, Silent, NotAnswered
<1>1. Transaction \in Channels /\ 0 \in Nat /\ 1 \in Nat /\ 1 <= CreditLimit
  BY BoundAssumption DEF Channels
<1>2. ledger \in Ledgers /\ Minus(ledger, Transaction) \in Ledgers
  BY <1>1, LedgerArithmetic
<1>3. \A m \in CreditMaps : CanCommand(m) => Minus(m, Transaction) \in CreditMaps
  BY <1>1, CreditArithmetic DEF CanCommand
<1>4. CASE HandleInit(p, cr, written)
  <2>1. p.revision \in Revisions
    BY DEF Packets
  <2>2. FirstCredit(cr) \in CreditMaps
    BY <1>1, CreditArithmetic DEF FirstCredit
  <2> QED
    BY <1>4, <2>1, <2>2 DEF HandleInit, Conversations
<1>5. CASE HandleQuery(p, cr, written) /\ UNCHANGED peerActive
  BY <1>2, <1>3, <1>5 DEF HandleQuery, Answered
<1>6. CASE HandleCloseChannel(p, cr, written) /\ UNCHANGED peerActive
  <2>1. [chan EXCEPT ![p.chan] = "shut"] \in [Channels -> Presence]
    BY DEF Presence
  <2> QED
    BY <1>2, <1>3, <1>6, <2>1 DEF HandleCloseChannel, Answered, Shut
<1>7. CASE HandleCredit(p, cr, written) /\ UNCHANGED peerActive
  <2>1. p.chan \in Channels /\ p.added \in Nat
    BY BoundAssumption DEF Packets
  <2> DEFINE granted == Plus(cr, p.chan, p.added)
  <2>2. ~(granted[p.chan] > CreditLimit) => granted \in CreditMaps
    BY <2>1, CreditArithmetic
  <2> HIDE DEF granted
  <2>3. credit' \in CreditMaps /\ ledger' \in Ledgers
    BY <1>2, <1>3, <1>7, <2>2 DEF HandleCredit, Answered, granted
  <2> QED
    BY <1>7, <2>3 DEF HandleCredit, Answered
<1>8. CASE HandleExit(p, cr, written) /\ UNCHANGED peerActive
  BY <1>2, <1>3, <1>8, TerminatedType DEF HandleExit, Conversations
<1>9. CASE HandleError(p, cr) /\ UNCHANGED peerActive
  BY <1>9 DEF HandleError
<1> QED
  BY <1>4, <1>5, <1>6, <1>7, <1>8, <1>9 DEF HandlePeerTransaction

\* The reply a call waits for.
LEMMA ReplyType ==
    ASSUME IterationOK, NEW p \in Packets, NEW cr \in CreditMaps,
           NEW written \in BOOLEAN, HandleReply(p, cr, written), UNCHANGED peerActive
    PROVE  IterationOK'
<1>1. /\ p.chan \in Channels /\ p.revision \in Revisions
      /\ p.added \in 0..CreditLimit /\ p.added \in Nat /\ target \in Channels
      /\ 0 \in Nat /\ Transaction \in Channels /\ 1 \in Nat /\ 0 <= CreditLimit /\ 1 <= CreditLimit
  BY BoundAssumption DEF Packets, IterationOK, Channels
<1>2. \A state \in Presence : [chan EXCEPT ![target] = state] \in [Channels -> Presence]
  BY DEF IterationOK
<1>3. \A n \in 0..CreditLimit : [cr EXCEPT ![target] = n] \in CreditMaps
  BY <1>1 DEF CreditMaps
<1>4. {"absent", "pending", "open", "shut"} \subseteq Presence
  BY DEF Presence
<1>5. 0 \in 0..CreditLimit
  BY <1>1, BoundAssumption
<1> USE DEF Fail, Returns, End, Silent
<1>6. CASE InitReplied(p, cr, written)
  <2>1. FirstCredit(cr) \in CreditMaps
    BY <1>1, CreditArithmetic DEF FirstCredit
  <2>2. "Init" \in Requests
    BY DEF Requests
  <2>3. Append(unanswered, Request("Init", Transaction, 0)) \in Asked
    BY <1>1, <2>2, AskedType DEF IterationOK
  <2>4. "InitReply10" \in Waiting
    BY DEF Waiting
  <2>5. /\ credit' \in CreditMaps /\ unanswered' \in Asked
        /\ pc' \in Waiting \cup {"idle"} /\ UNCHANGED <<ledger, serial, target, tries>>
    BY <1>6, <2>1, <2>3, <2>4 DEF InitReplied, IterationOK
  <2>6. outcome' \in {"none", "ok", "reply", "error", "panic"}
    BY <1>6 DEF InitReplied, IterationOK
  <2> QED
    BY <1>1, <1>6, <2>5, <2>6 DEF InitReplied, IterationOK, Conversations
<1>7. CASE SocketResolved(p, cr, written)
  <2>1. CASE p.result = "ok" /\ p.chan = target
    <3> DEFINE fresh == [cr EXCEPT ![p.chan] = 0]
    <3>1. fresh \in CreditMaps /\ chan' \in [Channels -> Presence]
      BY <1>2, <1>3, <1>4, <1>5, <1>7, <2>1 DEF SocketResolved, Insert
    <3> HIDE DEF fresh
    <3>2. "OpenChannel" \in Requests /\ "OpenChannelReply" \in Waiting
      BY DEF Requests, Waiting
    <3>3. CASE written /\ CanCommand(fresh)
      <4>1. Command("OpenChannel", p.chan, fresh, "OpenChannelReply")
        BY <1>7, <2>1, <3>3 DEF SocketResolved, fresh
      <4>2. /\ credit' \in CreditMaps /\ ledger' \in Ledgers /\ unanswered' \in Asked
            /\ pc' \in Waiting \cup {"idle"} /\ target' \in Channels
        BY <1>1, <3>1, <3>2, <3>3, <4>1, CommandType
      <4> QED
        BY <1>7, <2>1, <3>1, <3>3, <4>2 DEF SocketResolved, IterationOK, fresh
    <3>4. CASE ~(written /\ CanCommand(fresh))
      BY <1>7, <2>1, <3>1, <3>4 DEF SocketResolved, IterationOK, fresh
    <3> QED
      BY <3>3, <3>4
  <2>2. CASE ~(p.result = "ok" /\ p.chan = target)
    BY <1>7, <2>2 DEF SocketResolved, IterationOK
  <2> QED
    BY <2>1, <2>2
<1>8. CASE ChannelOpened(p, cr)
  BY <1>1, <1>2, <1>3, <1>4, <1>8 DEF ChannelOpened, IterationOK
<1>9. CASE NameResolved(p, cr)
  BY <1>9 DEF NameResolved, IterationOK
<1>10. CASE ChannelClosed(p, cr)
  BY <1>1, <1>2, <1>3, <1>4, <1>5, <1>10 DEF ChannelClosed, IterationOK
<1>11. CASE ExitReplied(p, cr)
  BY <1>11, TerminatedType DEF ExitReplied, IterationOK
<1>12. CASE CreditRequested(p, cr, written)
  <2> DEFINE granted == Plus(cr, target, p.added)
  <2>1. ~(granted[target] > CreditLimit) => granted \in CreditMaps
    BY <1>1, CreditArithmetic
  <2> HIDE DEF granted
  <2>2. CASE credit' = cr /\ (Fail \/ Returns("panic")) /\ Silent
    BY <1>12, <2>2 DEF CreditRequested, IterationOK
  <2>3. CASE ~(granted[target] > CreditLimit) /\ written /\ CanSendData(target, granted)
             /\ SendData(target, granted) /\ UNCHANGED <<tries, outcome, clean, abandoned>>
    <3>1. /\ credit' \in CreditMaps /\ ledger' \in Ledgers /\ unanswered' \in Asked
          /\ pc' \in Waiting \cup {"idle"} /\ target' \in Channels /\ serial' \in Nat
      BY <1>1, <2>1, <2>3, SendDataType
    <3> QED
      BY <1>12, <2>3, <3>1 DEF CreditRequested, IterationOK
  <2>4. CASE ~(granted[target] > CreditLimit) /\ tries < 3 /\ CanCommand(granted)
             /\ Command("CreditRequest", target, granted, "CreditRequestReply")
             /\ tries' = tries + 1 /\ UNCHANGED <<outcome, clean, abandoned, serial>>
    <3>1. "CreditRequest" \in Requests /\ "CreditRequestReply" \in Waiting
      BY DEF Requests, Waiting
    <3>2. /\ credit' \in CreditMaps /\ ledger' \in Ledgers /\ unanswered' \in Asked
          /\ pc' \in Waiting \cup {"idle"} /\ target' \in Channels
      BY <1>1, <2>1, <2>4, <3>1, CommandType
    <3>3. tries' \in 0..3
      BY <2>4 DEF IterationOK
    <3> QED
      BY <1>12, <2>4, <3>2, <3>3 DEF CreditRequested, IterationOK
  <2>5. CASE ~(granted[target] > CreditLimit) /\ credit' = granted /\ Fail /\ Silent
    BY <1>12, <2>1, <2>5 DEF CreditRequested, IterationOK
  <2> QED
    BY <1>12, <2>2, <2>3, <2>4, <2>5 DEF CreditRequested, granted
<1> QED
  BY <1>6, <1>7, <1>8, <1>9, <1>10, <1>11, <1>12 DEF HandleReply

\* Batches of packets to the host, whatever their origin, and what is left.
LEMMA BatchType ==
    ASSUME received \in Seq(Packets), wire \in Seq(Packets),
           NEW batch \in Batches, TakeFrom(batch)
    PROVE  /\ Head(batch) \in Packets /\ Tail(batch) \in Seq(Packets)
           /\ wire' \in Seq(Packets)
<1>1. CASE received # <<>>
  <2>1. batch = received /\ wire' = wire
    BY <1>1 DEF Batches, TakeFrom
  <2> QED
    BY <1>1, <2>1, HeadTailProperties
<1>2. CASE received = <<>>
  <2>1. PICK n \in 1..Len(wire) : batch = SubSeq(wire, 1, n)
    BY <1>2 DEF Batches
  <2>2. \A i \in 1..Len(wire) : wire[i] \in Packets
    BY ElementOfSeq
  <2>3. batch \in Seq(Packets) /\ Len(batch) = n
    <3>1. \A i \in 1..n : wire[i] \in Packets
      BY <2>2
    <3> QED
      BY <2>1, <3>1, SubSeqProperties
  <2>4. batch # <<>>
    BY <2>3, EmptySeq
  <2>5. SubSeq(wire, n + 1, Len(wire)) \in Seq(Packets)
    <3>1. \A i \in (n + 1)..Len(wire) : wire[i] \in Packets
      BY <2>2
    <3> QED
      BY <3>1, SubSeqProperties
  <2> QED
    BY <1>2, <2>3, <2>4, <2>5, HeadTailProperties DEF TakeFrom
<1> QED
  BY <1>1, <1>2

\* TypeOK is IterationOK and the rest.
QueuesOK ==
    /\ deferred \in BOOLEAN
    /\ received \in Seq(Packets) /\ wire \in Seq(Packets)
    /\ answered \in Nat /\ calls \in 0..MaxCalls
    /\ peerOpen \subseteq Channels /\ peerSent \in 0..MaxPeer
DoubtOK == doubtful \subseteq Sent /\ unpaid \in [Channels -> Nat]

\* TypeOK is what an iteration changes, the queues and counters, and what a
\* failed write carried or may have cost.
LEMMA TypeParts ==
    /\ TypeOK <=> IterationOK /\ QueuesOK /\ DoubtOK
    /\ TypeOK' <=> IterationOK' /\ QueuesOK' /\ DoubtOK'
  BY DEF TypeOK, IterationOK, QueuesOK, DoubtOK, CreditMaps, Ledgers, Asked

\* A packet the host writes, or fails to write.
LEMMA SentType ==
    ASSUME NEW kind \in Requests \cup {"Reply", "InitReply"}, NEW c \in Channels
    PROVE  {Request(kind, c, 0)} \subseteq Sent
  BY DEF Request, Sent

\* Starting a call keeps the type of what a failed write carried.
LEMMA StartDoubtType == Start => doubtful' \subseteq Sent
<1> USE SentType
<1>1. Services \subseteq Channels /\ Transaction \in Channels
  BY DEF Channels
<1>2. ASSUME NEW kind \in Requests, NEW c \in Channels, NEW waiting, NEW written,
             StartCommand(kind, c, waiting, written)
      PROVE  doubtful' \subseteq Sent
  BY <1>2 DEF StartCommand, Runs, NotStarted
<1>3. {"Init", "GetSocketId", "GetServiceName", "CloseChannel", "CreditRequest", "Exit", "Data"}
      \subseteq Requests
  BY DEF Requests
<1>4. ASSUME NEW written, StartInitialize(written) \/ StartExit(written)
      PROVE  doubtful' \subseteq Sent
  BY <1>1, <1>3, <1>4 DEF StartInitialize, StartExit, Runs, NotStarted
<1>5. ASSUME NEW written, NEW c \in Services, StartRequest(c, written)
      PROVE  doubtful' \subseteq Sent
  BY <1>1, <1>3, <1>5 DEF StartRequest, Runs, NotStarted
<1> QED
  BY <1>1, <1>2, <1>3, <1>4, <1>5
     DEF Start, StartOpenService, StartServiceName, StartCloseChannel

\* So does an iteration.
LEMMA ReceiveDoubtType ==
    ASSUME IterationOK, doubtful \subseteq Sent, NEW p \in Packets, NEW rest, NEW written,
           \/ Dropped(p, rest) \/ Rejected(p, rest) \/ DataArrived(p, rest)
           \/ TransactionArrived(p, rest, written)
    PROVE  doubtful' \subseteq Sent
<1> USE SentType DEF Doubt
<1>1. p.chan \in Channels /\ target \in Channels /\ Transaction \in Channels
  BY DEF Packets, IterationOK, Channels
<1>2. {"Init", "OpenChannel", "CreditRequest", "Data"} \subseteq Requests
  BY DEF Requests
<1>3. CASE UNCHANGED doubtful
  BY <1>3
<1>4. CASE HandlePeerTransaction(p, Accrued(p), written)
  BY <1>1, <1>4 DEF HandlePeerTransaction, HandleInit, HandleQuery, HandleCloseChannel,
                    HandleCredit, HandleExit, HandleError, Reply
<1>5. CASE HandleReply(p, Accrued(p), written)
  <2>1. CASE InitReplied(p, Accrued(p), written) \/ SocketResolved(p, Accrued(p), written)
    BY <1>1, <1>2, <2>1 DEF InitReplied, SocketResolved
  <2>2. CASE CreditRequested(p, Accrued(p), written)
    BY <1>1, <1>2, <2>2 DEF CreditRequested
  <2> QED
    BY <1>5, <2>1, <2>2 DEF HandleReply, ChannelOpened, NameResolved, ChannelClosed, ExitReplied
<1> QED
  BY <1>3, <1>4, <1>5 DEF Dropped, Rejected, DataArrived, TransactionArrived, LinkUnchanged

\* Starting a call keeps the types.
LEMMA StartType == TypeOK /\ Start => TypeOK'
<1> SUFFICES ASSUME IterationOK, QueuesOK, DoubtOK, Start
             PROVE  IterationOK' /\ QueuesOK' /\ DoubtOK'
  BY TypeParts
<1>1. QueuesOK' /\ DoubtOK' /\ UNCHANGED <<revision, chan, peerActive, abandoned>>
  <2>1. StartCall
    BY DEF Start, StartInitialize, StartOpenService, StartServiceName,
           StartCloseChannel, StartRequest, StartExit, StartCommand
  <2> QED
    BY <2>1, BoundAssumption, StartDoubtType DEF StartCall, QueuesOK, DoubtOK
<1>2. credit \in CreditMaps /\ Transaction \in Channels /\ 0 \in Nat /\ Services \subseteq Channels
  BY DEF IterationOK, Channels
<1>3. ASSUME NEW lost, NotStarted(lost), UNCHANGED <<revision, chan, peerActive, abandoned>>,
             UNCHANGED <<conversation>>, exitRequested' \in BOOLEAN
      PROVE  IterationOK'
  BY <1>3 DEF NotStarted, IterationOK
<1>8. ASSUME NEW kind \in Requests, NEW c \in Channels, NEW waiting \in Waiting, NEW written,
             StartCommand(kind, c, waiting, written)
      PROVE  IterationOK'
  <2>1. CASE written
    <3>1. CanCommand(credit) /\ Command(kind, c, credit, waiting)
      BY <1>8, <2>1 DEF StartCommand
    <3>2. /\ credit' \in CreditMaps /\ ledger' \in Ledgers /\ unanswered' \in Asked
          /\ pc' \in Waiting \cup {"idle"} /\ target' \in Channels
      BY <1>2, <3>1, CommandType
    <3> QED
      BY <1>1, <1>8, <2>1, <3>2 DEF StartCommand, Runs, IterationOK
  <2>2. CASE ~written
    BY <1>1, <1>3, <1>8, <2>2 DEF StartCommand, IterationOK
  <2> QED
    BY <2>1, <2>2
<1>4. ASSUME NEW written, StartInitialize(written)
      PROVE  IterationOK'
  <2>1. "Init" \in Requests /\ "InitReply20" \in Waiting
    BY DEF Requests, Waiting
  <2>2. Append(unanswered, Request("Init", Transaction, 0)) \in Asked
    BY <1>2, <2>1, AskedType DEF IterationOK
  <2>3. CASE written
    BY <1>1, <1>4, <2>1, <2>2, <2>3 DEF StartInitialize, Runs, IterationOK
  <2>4. CASE ~written
    BY <1>1, <1>3, <1>4, <2>4 DEF StartInitialize, IterationOK
  <2> QED
    BY <2>3, <2>4
<1>5. ASSUME NEW c \in Services, NEW written,
             \/ StartOpenService(c, written) \/ StartServiceName(c, written)
             \/ StartCloseChannel(c, written)
      PROVE  IterationOK'
  <2>1. {"GetSocketId", "GetServiceName", "CloseChannel"} \subseteq Requests
        /\ {"GetSocketIdReply", "GetServiceNameReply", "CloseChannelReply"} \subseteq Waiting
    BY DEF Requests, Waiting
  <2> QED
    BY <1>2, <1>5, <1>8, <2>1 DEF StartOpenService, StartServiceName, StartCloseChannel
<1>6. ASSUME NEW c \in Services, NEW written, StartRequest(c, written)
      PROVE  IterationOK'
  <2>1. CASE written /\ credit[c] > 0
    <3>1. CanSendData(c, credit) /\ SendData(c, credit) /\ tries' = 0
      BY <1>6, <2>1 DEF StartRequest
    <3>2. /\ credit' \in CreditMaps /\ ledger' \in Ledgers /\ unanswered' \in Asked
          /\ pc' \in Waiting \cup {"idle"} /\ target' \in Channels /\ serial' \in Nat
      BY <1>2, <3>1, SendDataType
    <3> QED
      BY <1>1, <1>6, <2>1, <3>1, <3>2 DEF StartRequest, Runs, IterationOK
  <2>2. CASE written /\ ~(credit[c] > 0)
    <3>1. /\ CanCommand(credit)
          /\ Command("CreditRequest", c, credit, "CreditRequestReply")
          /\ tries' = 1 /\ UNCHANGED serial
      BY <1>6, <2>2 DEF StartRequest
    <3>2. "CreditRequest" \in Requests /\ "CreditRequestReply" \in Waiting
      BY DEF Requests, Waiting
    <3>3. /\ credit' \in CreditMaps /\ ledger' \in Ledgers /\ unanswered' \in Asked
          /\ pc' \in Waiting \cup {"idle"} /\ target' \in Channels
      BY <1>2, <3>1, <3>2, CommandType
    <3> QED
      BY <1>1, <1>6, <2>2, <3>1, <3>3 DEF StartRequest, Runs, IterationOK
  <2>3. CASE ~written
    BY <1>1, <1>3, <1>6, <2>3 DEF StartRequest, IterationOK
  <2> QED
    BY <2>1, <2>2, <2>3
<1>7. ASSUME NEW written \in Writes, StartExit(written)
      PROVE  IterationOK'
  <2>1. CASE written /\ CanCommand(credit)
    <3>1. Command("Exit", Transaction, credit, "ExitReply")
      BY <1>7, <2>1 DEF StartExit
    <3>2. "Exit" \in Requests /\ "ExitReply" \in Waiting
      BY DEF Requests, Waiting
    <3>3. /\ credit' \in CreditMaps /\ ledger' \in Ledgers /\ unanswered' \in Asked
          /\ pc' \in Waiting \cup {"idle"} /\ target' \in Channels
      BY <1>2, <2>1, <3>1, <3>2, CommandType
    <3> QED
      BY <1>1, <1>7, <2>1, <3>3 DEF StartExit, Runs, IterationOK
  <2>2. CASE ~(written /\ CanCommand(credit))
    BY <1>1, <1>3, <1>7, <2>2 DEF StartExit, IterationOK
  <2> QED
    BY <2>1, <2>2
<1> QED
  BY <1>1, <1>4, <1>5, <1>6, <1>7 DEF Start

\* An iteration keeps the types.
LEMMA ReceiveType == TypeOK /\ Receive => TypeOK'
<1> SUFFICES ASSUME IterationOK, QueuesOK, DoubtOK, Receive
             PROVE  IterationOK' /\ QueuesOK' /\ DoubtOK'
  BY TypeParts
<1>1. PICK batch \in Batches, written \in Writes :
         /\ TakeFrom(batch)
         /\ \/ Dropped(Head(batch), Tail(batch))
            \/ Rejected(Head(batch), Tail(batch))
            \/ DataArrived(Head(batch), Tail(batch))
            \/ TransactionArrived(Head(batch), Tail(batch), written)
  BY DEF Receive
<1> DEFINE p == Head(batch)
           rest == Tail(batch)
<1>2. p \in Packets /\ rest \in Seq(Packets) /\ wire' \in Seq(Packets)
  BY <1>1, BatchType DEF QueuesOK
<1>3. written \in BOOLEAN
  BY DEF Writes
<1>4. UNCHANGED <<calls, peerOpen, peerSent, unpaid>>
  BY DEF Receive
<1>10. DoubtOK'
  BY <1>1, <1>2, <1>4, ReceiveDoubtType DEF DoubtOK
<1> HIDE DEF p, rest
<1>5. p.on \in Channels /\ p.credit \in Nat /\ p.id \in Nat
  BY <1>2 DEF Packets
<1>6. ~Rejects(p) => Accrued(p) \in CreditMaps
  BY <1>5, CreditArithmetic DEF Rejects, Accrued, IterationOK
<1>7. CASE Dropped(p, rest) \/ Rejected(p, rest)
  BY <1>2, <1>4, <1>7, <1>10 DEF Dropped, Rejected, Fail, Returns, End, Wait, Silent, LinkUnchanged,
                          IterationOK, QueuesOK
<1>8. CASE DataArrived(p, rest)
  <2>1. Append(rest, p) \in Seq(Packets)
    BY <1>2
  <2> QED
    BY <1>2, <1>4, <1>5, <1>6, <1>8, <1>10, <2>1
       DEF DataArrived, Returns, End, Wait, Silent, LinkUnchanged, IterationOK, QueuesOK
<1>9. CASE TransactionArrived(p, rest, written)
  <2>1. QueuesOK'
    BY <1>2, <1>4, <1>9 DEF TransactionArrived, QueuesOK
  <2>2. CASE HandlePeerTransaction(p, Accrued(p), written)
    BY <1>2, <1>3, <1>6, <1>9, <1>10, <2>1, <2>2, PeerTransactionType DEF TransactionArrived
  <2>3. CASE HandleReply(p, Accrued(p), written) /\ UNCHANGED peerActive
    BY <1>2, <1>3, <1>6, <1>9, <1>10, <2>1, <2>3, ReplyType DEF TransactionArrived
  <2>4. CASE credit' = Accrued(p) /\ Fail /\ Silent /\ LinkUnchanged
    BY <1>6, <1>9, <1>10, <2>1, <2>4
       DEF TransactionArrived, Fail, Returns, End, Silent, LinkUnchanged, IterationOK
  <2> QED
    BY <1>9, <2>2, <2>3, <2>4 DEF TransactionArrived
<1> QED
  BY <1>1, <1>7, <1>8, <1>9 DEF p, rest

\* A read that fails keeps the types.
LEMMA ReadFailsType == TypeOK /\ ReadFails => TypeOK'
  BY TypeParts DEF ReadFails, Fail, Returns, End, Silent, LinkUnchanged, IterationOK,
                    QueuesOK, DoubtOK

-----------------------------------------------------------------------------
(* The peer's steps.                                                       *)

\* What a step of the peer may change.
PeerOK ==
    /\ wire \in Seq(Packets) /\ unanswered \in Asked /\ ledger \in Ledgers
    /\ peerOpen \subseteq Channels /\ peerActive \in BOOLEAN /\ peerSent \in 0..MaxPeer

\* What the printer makes is a packet.
LEMMA PacketType ==
    ASSUME NEW on \in Channels, NEW n \in Nat, NEW kind, NEW c \in Channels,
           NEW result \in Results, NEW added \in 0..CreditLimit, NEW id \in Nat,
           NEW rev \in Revisions,
           kind \in PeerCommands \cup Replies \cup {"Data", "Malformed", "Oversize"}
    PROVE  Packet(on, n, kind, c, result, added, id, rev) \in Packets
  BY DEF Packet, Packets

\* Answering keeps the types.
LEMMA AnswerType ==
    ASSUME PeerOK, NEW i \in 1..Len(unanswered), NEW n \in Nat, NEW kind \in Replies \cup {"Data"},
           NEW result \in Results, NEW added \in 0..CreditLimit, NEW rev \in Revisions,
           NEW books \in Ledgers, Answer(i, n, kind, result, added, rev, books)
    PROVE  wire' \in Seq(Packets) /\ unanswered' \in Asked /\ ledger' \in Ledgers
<1> DEFINE u == unanswered[i]
           s == unanswered
           R == [kind : Requests, chan : Channels, id : Nat]
<1>1. s \in Seq(R) /\ Len(s) \in Nat
  BY DEF PeerOK, Asked
<1>2. \A j \in 1..Len(s) : s[j] \in R
  BY <1>1, ElementOfSeq
<1>3. u.chan \in Channels /\ u.id \in Nat /\ Carrier(u) \in Channels
  BY <1>2 DEF Carrier, Channels
<1>4. unanswered' \in Asked
  <2>1. SubSeq(s, 1, i - 1) \in Seq(R)
    <3>1. \A j \in 1..(i - 1) : s[j] \in R
      BY <1>1, <1>2
    <3> HIDE DEF s, R
    <3> QED
      BY <3>1, SubSeqProperties
  <2>2. SubSeq(s, i + 1, Len(s)) \in Seq(R)
    <3>1. \A j \in (i + 1)..Len(s) : s[j] \in R
      BY <1>1, <1>2
    <3> HIDE DEF s, R
    <3> QED
      BY <1>1, <3>1, SubSeqProperties
  <2>3. Without(s, i) \in Seq(R)
    <3> HIDE DEF s, R
    <3> QED
      BY <2>1, <2>2, ConcatProperties DEF Without
  <2> QED
    BY <2>3 DEF Answer, Asked
<1>5. wire' \in Seq(Packets)
  <2>1. Packet(Carrier(u), n, kind, u.chan, result, added, u.id, rev) \in Packets
    BY <1>3, PacketType
  <2> HIDE DEF u
  <2> QED
    BY <2>1 DEF Answer, PeerOK, u
<1>6. ledger' \in Ledgers
  BY <1>3, LedgerArithmetic DEF Answer
<1> QED
  BY <1>4, <1>5, <1>6

\* Sending of its own accord keeps the types.
LEMMA PeerSendsType ==
    ASSUME PeerOK, revision \in Revisions, NEW n \in Nat, NEW c \in Channels,
           NEW kind \in PeerCommands \cup {"Malformed", "Oversize"},
           NEW added \in 0..CreditLimit, PeerSends(kind, c, n, added)
    PROVE  wire' \in Seq(Packets) /\ unanswered' \in Asked /\ peerSent' \in 0..MaxPeer
<1> DEFINE p == Packet(IF kind = "Oversize" THEN c ELSE Transaction, n,
                       kind, c, "ok", added, 0, revision)
<1>1. p \in Packets
  <2>1. (IF kind = "Oversize" THEN c ELSE Transaction) \in Channels /\ "ok" \in Results /\ 0 \in Nat
    BY DEF Channels, Results
  <2> QED
    BY <2>1, PacketType
<1> HIDE DEF p
<1>2. wire' = Append(wire, p)
  BY DEF PeerSends, p
<1>3. wire' \in Seq(Packets)
  BY <1>1, <1>2 DEF PeerOK
<1>4. peerSent' \in 0..MaxPeer
  BY BoundAssumption DEF PeerSends, PeerOK
<1> QED
  BY <1>3, <1>4 DEF PeerSends, PeerOK

\* Every answer keeps the types.
LEMMA PeerAnswersType ==
    ASSUME PeerOK, revision \in Revisions, PeerAnswers
    PROVE  PeerOK'
<1>1. PICK i \in Answerable :
         \/ AnswerInit(i)
         \/ \E n \in Piggyback : AnswerExit(i, n)
         \/ /\ \E n \in Piggyback :
                  \/ AnswerOpenChannel(i, n) \/ AnswerCloseChannel(i, n)
                  \/ AnswerCreditRequest(i, n) \/ AnswerLookup(i, n)
                  \/ AnswerData(i, n)
            /\ UNCHANGED peerActive
  BY DEF PeerAnswers
<1>2. i \in 1..Len(unanswered) /\ peerSent' = peerSent
  BY DEF Answerable, PeerAnswers
<1>3. Piggyback \subseteq Nat /\ Grants \subseteq 0..CreditLimit /\ Grants \subseteq Nat /\ 0 \in Grants
  BY BoundAssumption DEF Piggyback, Grants
<1>4. {"ok", "unsupported", "refused"} = Results
  BY DEF Results
<1> DEFINE c == unanswered[i].chan
<1>5. c \in Channels
  <2>1. unanswered[i] \in [kind : Requests, chan : Channels, id : Nat]
    BY <1>2, ElementOfSeq DEF PeerOK, Asked
  <2> QED
    BY <2>1
<1> HIDE DEF c
<1>6. ledger \in Ledgers /\ Plus(ledger, Transaction, 1) \in Ledgers
      /\ \A g \in Grants : Plus(ledger, c, g) \in Ledgers /\ [ledger EXCEPT ![c] = g] \in Ledgers
  <2>1. Transaction \in Channels /\ 1 \in Nat /\ ledger \in Ledgers
    BY DEF Channels, PeerOK
  <2> QED
    BY <1>3, <1>5, <2>1, LedgerArithmetic
<1>7. Replies = {"InitReply", "GetSocketIdReply", "OpenChannelReply", "GetServiceNameReply",
                 "CloseChannelReply", "CreditRequestReply", "ExitReply"}
  BY DEF Replies
<1>8. \A n \in Nat, kind \in Replies \cup {"Data"}, result \in Results,
         added \in Grants, rev \in Revisions, books \in Ledgers :
         Answer(i, n, kind, result, added, rev, books) =>
            wire' \in Seq(Packets) /\ unanswered' \in Asked /\ ledger' \in Ledgers
  BY <1>2, <1>3, AnswerType
<1> USE <1>2, <1>3, <1>4, <1>6, <1>7, <1>8
<1>9. CASE AnswerInit(i)
  <2>1. wire' \in Seq(Packets) /\ unanswered' \in Asked /\ ledger' \in Ledgers
    <3>1. CASE \E rev \in Revisions :
                  Answer(i, 0, "InitReply", "ok", 0, rev, Plus(ledger, Transaction, 1))
      BY <3>1
    <3>2. CASE \E result \in {"unsupported", "refused"} :
                  Answer(i, 0, "InitReply", result, 0, "V20", ledger)
      <4>1. "V20" \in Revisions
        BY DEF Revisions
      <4> QED
        BY <3>2, <4>1
    <3> QED
      BY <1>9, <3>1, <3>2 DEF AnswerInit
  <2> QED
    BY <1>9, <2>1 DEF AnswerInit, PeerOK
<1>10. ASSUME NEW n \in Piggyback, AnswerExit(i, n)
       PROVE  PeerOK'
  BY <1>10 DEF AnswerExit, PeerOK
<1>11. ASSUME NEW n \in Piggyback, AnswerOpenChannel(i, n), UNCHANGED peerActive
       PROVE  PeerOK'
  <2>1. wire' \in Seq(Packets) /\ unanswered' \in Asked /\ ledger' \in Ledgers
    BY <1>11 DEF AnswerOpenChannel, c
  <2> QED
    BY <1>5, <1>11, <2>1 DEF AnswerOpenChannel, PeerOK, c
<1>12. ASSUME NEW n \in Piggyback, AnswerCloseChannel(i, n), UNCHANGED peerActive
       PROVE  PeerOK'
  BY <1>12 DEF AnswerCloseChannel, PeerOK
<1>13. ASSUME NEW n \in Piggyback, AnswerCreditRequest(i, n), UNCHANGED peerActive
       PROVE  PeerOK'
  BY <1>13 DEF AnswerCreditRequest, PeerOK, c
<1>14. ASSUME NEW n \in Piggyback, AnswerLookup(i, n) \/ AnswerData(i, n), UNCHANGED peerActive
       PROVE  PeerOK'
  BY <1>14 DEF AnswerLookup, AnswerData, PeerOK
<1> QED
  BY <1>1, <1>9, <1>10, <1>11, <1>12, <1>13, <1>14

\* Every packet nobody asked for keeps the types.
LEMMA PeerUnpromptedType ==
    ASSUME PeerOK, revision \in Revisions, PeerInit \/ PeerCommand \/ PeerExit
    PROVE  PeerOK'
<1>1. /\ Transaction \in Channels /\ ledger \in Ledgers /\ 0 \in Nat /\ 1 \in Nat
      /\ 0 \in 0..CreditLimit /\ peerOpen \subseteq Channels
  BY BoundAssumption DEF Channels, PeerOK
<1>2. Piggyback \subseteq Nat /\ Grants \subseteq 0..CreditLimit /\ Grants \subseteq Nat
  BY BoundAssumption DEF Piggyback, Grants
<1>3. \A n \in Nat, c \in Channels : Plus(ledger, c, n) \in Ledgers
  BY <1>1, LedgerArithmetic
<1>4. {"Init", "Exit", "Query", "Error", "Malformed", "CloseChannel", "Credit", "Oversize"}
      \subseteq PeerCommands \cup {"Malformed", "Oversize"}
  BY DEF PeerCommands
<1>5. \A n \in Nat, c \in Channels, kind \in PeerCommands \cup {"Malformed", "Oversize"},
         added \in 0..CreditLimit :
         PeerSends(kind, c, n, added) =>
            wire' \in Seq(Packets) /\ unanswered' \in Asked /\ peerSent' \in 0..MaxPeer
  BY PeerSendsType
<1> USE <1>1, <1>2, <1>4, <1>5
<1>6. CASE PeerInit
  BY <1>3, <1>6 DEF PeerInit, PeerOK
<1>7. CASE PeerExit
  BY <1>3, <1>7 DEF PeerExit, PeerOK
<1>8. CASE PeerCommand
  <2>1. PICK n \in Piggyback :
          \/ /\ \E kind \in {"Query", "Error", "Malformed"} :
                   PeerSends(kind, Transaction, n, 0)
             /\ ledger' = Plus(ledger, Transaction, n) /\ UNCHANGED peerOpen
          \/ \E c \in peerOpen :
                \/ /\ PeerSends("CloseChannel", c, n, 0)
                   /\ ledger' = Plus(ledger, Transaction, n)
                   /\ peerOpen' = peerOpen \ {c}
                \/ /\ \E g \in Grants :
                         /\ PeerSends("Credit", c, n, g)
                         /\ ledger' = Plus(Plus(ledger, Transaction, n), c, g)
                   /\ UNCHANGED peerOpen
                \/ /\ PeerSends("Oversize", c, n, 0)
                   /\ ledger' = Plus(ledger, c, n) /\ UNCHANGED peerOpen
    BY <1>8 DEF PeerCommand
  <2>2. Plus(ledger, Transaction, n) \in Ledgers
    BY <1>3
  <2>3. \A c \in Channels, g \in Nat : Plus(Plus(ledger, Transaction, n), c, g) \in Ledgers
    BY <2>2, LedgerArithmetic
  <2>4. wire' \in Seq(Packets) /\ unanswered' \in Asked /\ peerSent' \in 0..MaxPeer
    BY <2>1
  <2>5. ledger' \in Ledgers /\ peerOpen' \subseteq Channels
    BY <1>3, <2>1, <2>2, <2>3
  <2> QED
    BY <1>8, <2>4, <2>5 DEF PeerCommand, PeerOK
<1> QED
  BY <1>6, <1>7, <1>8

\* Every step of the printer keeps the types.
LEMMA PeerType == TypeOK /\ Peer => TypeOK'
<1> SUFFICES ASSUME IterationOK, QueuesOK, DoubtOK, Peer
             PROVE  IterationOK' /\ QueuesOK' /\ DoubtOK'
  BY TypeParts
<1>1. PeerOK /\ revision \in Revisions
  BY DEF IterationOK, QueuesOK, PeerOK
<1>2. PeerOK'
  BY <1>1, PeerAnswersType, PeerUnpromptedType DEF Peer
<1>3. UNCHANGED link
  BY DEF Peer, PeerAnswers, PeerStep
<1>4. unpaid' \in [Channels -> Nat]
  <2>1. UNCHANGED unpaid \/ \E c : unpaid' = [unpaid EXCEPT ![c] = 0]
    BY DEF Peer, PeerAnswers, AnswerOpenChannel, PeerInit, PeerExit, PeerCommand, PeerSends
  <2> QED
    BY <2>1 DEF DoubtOK
<1> QED
  BY <1>2, <1>3, <1>4 DEF link, IterationOK, QueuesOK, DoubtOK, PeerOK

\* A packet that arrives though its write failed keeps the types.
LEMMA ArrivesType == TypeOK /\ Arrives => TypeOK'
<1> SUFFICES ASSUME IterationOK, QueuesOK, DoubtOK, Arrives
             PROVE  IterationOK' /\ QueuesOK' /\ DoubtOK'
  BY TypeParts
<1>1. PICK u \in doubtful :
         /\ Charged(u)
         /\ unanswered' = IF u.kind \in Requests THEN Append(unanswered, u) ELSE unanswered
         /\ peerActive' = (peerActive \/ u.kind = "InitReply")
         /\ abandoned' = (abandoned \/ u.kind = "OpenChannel")
  BY DEF Arrives
<1>2. u.chan \in Channels /\ u \in Sent /\ Transaction \in Channels /\ 0 \in Nat
  BY DEF DoubtOK, Sent, Channels
<1>3. unanswered' \in Asked
  <2>1. u.kind \in Requests => u \in [kind : Requests, chan : Channels, id : Nat]
    BY <1>2 DEF Sent
  <2> QED
    BY <1>1, <2>1, AppendProperties DEF IterationOK, Asked
<1>4. ledger' \in Ledgers /\ unpaid' \in [Channels -> Nat]
  <2>1. Carrier(u) \in Channels
    BY <1>2 DEF Carrier
  <2>2. Minus(ledger, Carrier(u)) \in Ledgers
    BY <1>2, <2>1, LedgerArithmetic DEF IterationOK
  <2>3. Plus(unpaid, Carrier(u), 1) \in [Channels -> Nat]
    BY <2>1 DEF Plus, DoubtOK
  <2> QED
    BY <1>1, <2>2, <2>3 DEF Charged, IterationOK, DoubtOK
<1>5. doubtful' = {} /\ peerActive' \in BOOLEAN /\ abandoned' \in BOOLEAN
  BY <1>1 DEF Arrives, IterationOK
<1> QED
  BY <1>3, <1>4, <1>5 DEF Arrives, IterationOK, QueuesOK, DoubtOK

\* Every step keeps the types.
LEMMA TypeStep == TypeOK /\ Next => TypeOK'
  BY StartType, ReceiveType, ReadFailsType, PeerType, ArrivesType DEF Next, Host

\* TypeOK holds in every reachable state, for any services, limits and bounds:
\* in particular no channel's credit leaves the range of its u16, whatever
\* the peer grants and however the calls interleave with its packets.
THEOREM TypeCorrect == Spec => []TypeOK
<1>1. Init => TypeOK
  <2> SUFFICES ASSUME Init
               PROVE  IterationOK /\ QueuesOK /\ DoubtOK
    BY TypeParts
  <2>1. chan \in [Channels -> Presence]
    BY DEF Init, Presence
  <2>2. credit \in CreditMaps /\ ledger \in Ledgers
    BY BoundAssumption DEF Init, CreditMaps, Ledgers
  <2>3. received \in Seq(Packets) /\ wire \in Seq(Packets) /\ unanswered \in Asked
    BY DEF Init, Asked
  <2>4. /\ tries \in 0..3 /\ serial \in Nat /\ answered \in Nat
        /\ calls \in 0..MaxCalls /\ peerSent \in 0..MaxPeer
    BY BoundAssumption DEF Init
  <2>5. /\ exitRequested \in BOOLEAN /\ peerActive \in BOOLEAN
        /\ target \in Channels /\ peerOpen \subseteq Channels
        /\ conversation \in Conversations /\ revision \in Revisions
    BY DEF Init, Channels, Conversations, Revisions
  <2>6. deferred \in BOOLEAN /\ clean \in BOOLEAN /\ abandoned \in BOOLEAN
        /\ pc \in Waiting \cup {"idle"} /\ outcome \in {"none", "ok", "reply", "error", "panic"}
    BY DEF Init
  <2>7. doubtful = {} /\ unpaid \in [Channels -> Nat]
    BY DEF Init
  <2> QED
    BY <2>1, <2>2, <2>3, <2>4, <2>5, <2>6, <2>7 DEF IterationOK, QueuesOK, DoubtOK
<1>2. TypeOK /\ [Next]_vars => TypeOK'
  <2>1. TypeOK /\ UNCHANGED vars => TypeOK'
    BY DEF vars, link, peer, TypeOK
  <2> QED
    BY <2>1, TypeStep
<1> QED
  BY <1>1, <1>2, PTL DEF Spec

-----------------------------------------------------------------------------
(* How one step changes the queues.                                        *)

\* t is s with x behind it; t is s without its i-th element.
Longer(t, s, x) ==
    /\ Len(t) = Len(s) + 1 /\ t[Len(s) + 1] = x
    /\ \A i \in 1..Len(s) : t[i] = s[i]
Shorter(t, s, i) ==
    /\ Len(t) = Len(s) - 1
    /\ \A j \in 1..Len(t) : t[j] = IF j < i THEN s[j] ELSE s[j + 1]

\* t is s without its first element, which may return to t at k.
Advanced(t, s) ==
    /\ Len(t) = Len(s) - 1
    /\ \A i \in 1..Len(t) : t[i] = s[i + 1]
Rotated(t, s, k) ==
    /\ Len(t) = Len(s) /\ t[k] = s[1]
    /\ \A i \in 1..(k - 1) : t[i] = s[i + 1]
    /\ \A i \in (k + 1)..Len(t) : t[i] = s[i]

\* Append puts its element at the end and moves nothing.
LEMMA AppendLonger ==
    ASSUME NEW S, NEW s \in Seq(S), NEW x
    PROVE  Longer(Append(s, x), s, x)
<1> DEFINE T == S \cup {x}
<1>1. s \in Seq(T) /\ x \in T
  BY SeqDef
<1> HIDE DEF T
<1> QED
  BY <1>1, AppendProperties DEF Longer

\* Every place of the longer sequence is a place of the shorter one or the new
\* last one.
LEMMA LongerOrder ==
    ASSUME NEW t, NEW s, NEW x, Longer(t, s, x), Len(s) \in Nat
    PROVE  /\ \A i \in 1..Len(t) : \/ i \in 1..Len(s) /\ t[i] = s[i]
                                   \/ i = Len(s) + 1 /\ t[i] = x
           /\ \A i \in 1..Len(s) : i \in 1..Len(t) /\ t[i] = s[i]
           /\ Len(s) + 1 \in 1..Len(t) /\ t[Len(s) + 1] = x
  BY DEF Longer

\* Without(s, i) is s with its i-th element taken out.
LEMMA WithoutShorter ==
    ASSUME NEW S, NEW s \in Seq(S), NEW i \in 1..Len(s)
    PROVE  Shorter(Without(s, i), s, i)
<1> DEFINE a == SubSeq(s, 1, i - 1)
           b == SubSeq(s, i + 1, Len(s))
<1>1. Len(s) \in Nat /\ \A j \in 1..Len(s) : s[j] \in S
  BY ElementOfSeq
<1>2. a \in Seq(S) /\ Len(a) = i - 1 /\ \A j \in 1..(i - 1) : a[j] = s[j]
  <2>1. \A j \in 1..(i - 1) : s[j] \in S
    BY <1>1
  <2> QED
    BY <1>1, <2>1, SubSeqProperties
<1>3. b \in Seq(S) /\ Len(b) = Len(s) - i /\ \A j \in 1..(Len(s) - i) : b[j] = s[i + j]
  <2>1. \A j \in (i + 1)..Len(s) : s[j] \in S
    BY <1>1
  <2> QED
    BY <1>1, <2>1, SubSeqProperties
<1> HIDE DEF a, b
<1>4. /\ Len(a \o b) = Len(s) - 1
      /\ \A j \in 1..Len(a \o b) : (a \o b)[j] = IF j <= i - 1 THEN a[j] ELSE b[j - (i - 1)]
  <2>1. /\ Len(a \o b) = Len(a) + Len(b)
        /\ \A j \in 1..Len(a) + Len(b) :
              (a \o b)[j] = IF j <= Len(a) THEN a[j] ELSE b[j - Len(a)]
    BY <1>2, <1>3, ConcatProperties
  <2>2. Len(a) = i - 1 /\ Len(b) = Len(s) - i /\ Len(s) \in Nat
    BY <1>1, <1>2, <1>3
  <2> QED
    BY <2>1, <2>2
<1>5. ASSUME NEW j \in 1..(Len(s) - 1)
      PROVE  (a \o b)[j] = IF j < i THEN s[j] ELSE s[j + 1]
  <2>1. CASE j < i
    <3>1. j \in 1..(i - 1) /\ j <= i - 1
      BY <1>1, <2>1
    <3> QED
      BY <1>2, <1>4, <2>1, <3>1
  <2>2. CASE ~(j < i)
    <3>1. j - (i - 1) \in 1..(Len(s) - i) /\ i + (j - (i - 1)) = j + 1
      BY <1>1, <2>2
    <3>2. (a \o b)[j] = b[j - (i - 1)]
      BY <1>1, <1>4, <2>2
    <3>3. b[j - (i - 1)] = s[i + (j - (i - 1))]
      BY <1>3, <3>1
    <3> QED
      BY <2>2, <3>1, <3>2, <3>3
  <2> QED
    BY <2>1, <2>2
<1> QED
  BY <1>4, <1>5 DEF Shorter, Without, a, b

\* Taking an element out keeps the order of the others: m says where each
\* of them was.
LEMMA ShorterOrder ==
    ASSUME NEW s, NEW t, Len(s) \in Nat, NEW i \in 1..Len(s), Shorter(t, s, i)
    PROVE  \E m : /\ \A j \in 1..Len(t) : /\ m[j] \in 1..Len(s) /\ m[j] # i
                                         /\ t[j] = s[m[j]]
                  /\ \A j, k \in 1..Len(t) : m[j] < m[k] => j < k
                  /\ \A j, k \in 1..Len(t) : m[j] = m[k] => j = k
<1> DEFINE m == [j \in 1..Len(t) |-> IF j < i THEN j ELSE j + 1]
<1>1. Len(t) = Len(s) - 1 /\ i \in Nat
  BY DEF Shorter
<1>2. ASSUME NEW j \in 1..Len(t)
      PROVE  m[j] \in 1..Len(s) /\ m[j] # i /\ t[j] = s[m[j]]
  BY <1>1 DEF Shorter
<1>3. /\ \A j, k \in 1..Len(t) : m[j] < m[k] => j < k
      /\ \A j, k \in 1..Len(t) : m[j] = m[k] => j = k
  BY <1>1
<1> HIDE DEF m
<1> QED
  BY <1>2, <1>3

\* next_packet: the first packet of Coming is taken, and either it is gone or
\* it is put back behind the packets of its read.
LEMMA Takes ==
    ASSUME received \in Seq(Packets), wire \in Seq(Packets),
           NEW batch \in Batches, TakeFrom(batch)
    PROVE  /\ Coming \in Seq(Packets) /\ Len(Coming) > 0 /\ Head(batch) = Coming[1]
           /\ received' = Tail(batch) => Advanced(Coming', Coming)
           /\ received' = Append(Tail(batch), Head(batch)) =>
                 \E k \in 1..Len(Coming) : Rotated(Coming', Coming, k)
<1>1. Coming \in Seq(Packets) /\ Len(Coming) = Len(received) + Len(wire)
  BY ConcatProperties DEF Coming
<1>2. /\ batch \in Seq(Packets) /\ wire' \in Seq(Packets) /\ Len(batch) > 0
      /\ Len(Coming) = Len(batch) + Len(wire')
      /\ \A i \in 1..Len(Coming) :
            Coming[i] = IF i <= Len(batch) THEN batch[i] ELSE wire'[i - Len(batch)]
  <2>1. CASE received # <<>>
    <3>1. batch = received /\ wire' = wire
      BY <2>1 DEF Batches, TakeFrom
    <3>2. Len(received) > 0
      BY <2>1, EmptySeq
    <3> QED
      BY <1>1, <3>1, <3>2, ConcatProperties DEF Coming
  <2>2. CASE received = <<>>
    <3>1. PICK n \in 1..Len(wire) : batch = SubSeq(wire, 1, n)
      BY <2>2 DEF Batches
    <3>2. \A i \in 1..Len(wire) : wire[i] \in Packets
      BY ElementOfSeq
    <3>3. batch \in Seq(Packets) /\ Len(batch) = n /\ \A i \in 1..n : batch[i] = wire[i]
      <4>1. \A i \in 1..n : wire[i] \in Packets
        BY <3>2
      <4> QED
        BY <3>1, <4>1, SubSeqProperties
    <3> DEFINE b == SubSeq(wire, n + 1, Len(wire))
    <3>4. b \in Seq(Packets) /\ Len(b) = Len(wire) - n
          /\ \A i \in 1..(Len(wire) - n) : b[i] = wire[n + i]
      <4>1. \A i \in (n + 1)..Len(wire) : wire[i] \in Packets
        BY <3>2
      <4> QED
        BY <4>1, SubSeqProperties
    <3>5. wire' = b
      BY <2>2, <3>3 DEF TakeFrom
    <3>6. Coming = wire
      BY <2>2 DEF Coming
    <3> HIDE DEF b
    <3>7. ASSUME NEW i \in 1..Len(wire)
          PROVE  wire[i] = IF i <= n THEN batch[i] ELSE b[i - n]
      <4>1. CASE i <= n
        BY <3>3, <4>1
      <4>2. CASE i > n
        <5>1. i - n \in 1..(Len(wire) - n) /\ n + (i - n) = i
          BY <4>2
        <5> QED
          BY <3>4, <4>2, <5>1
      <4> QED
        BY <4>1, <4>2
    <3> QED
      BY <3>3, <3>4, <3>5, <3>6, <3>7
  <2> QED
    BY <2>1, <2>2
<1> DEFINE x == Head(batch)
           rest == Tail(batch)
<1>3. x = batch[1] /\ x \in Packets /\ rest \in Seq(Packets) /\ Len(rest) = Len(batch) - 1
      /\ \A i \in 1..Len(rest) : rest[i] = batch[i + 1]
  BY <1>2, HeadTailProperties, EmptySeq, ElementOfSeq
<1>4. x = Coming[1] /\ Len(Coming) > 0
  BY <1>2, <1>3
<1> HIDE DEF x, rest
<1>5. ASSUME received' = rest
      PROVE  Advanced(Coming', Coming)
  <2>1. Coming' = rest \o wire'
    BY <1>5 DEF Coming
  <2>2. /\ Len(Coming') = Len(rest) + Len(wire')
        /\ \A i \in 1..Len(Coming') :
              Coming'[i] = IF i <= Len(rest) THEN rest[i] ELSE wire'[i - Len(rest)]
    BY <1>2, <1>3, <2>1, ConcatProperties
  <2> QED
    BY <1>2, <1>3, <2>2 DEF Advanced
<1>6. ASSUME received' = Append(rest, x)
      PROVE  Rotated(Coming', Coming, Len(batch))
  <2> DEFINE r == Append(rest, x)
  <2>1. r \in Seq(Packets) /\ Longer(r, rest, x)
    BY <1>3, AppendLonger
  <2>2. Coming' = r \o wire'
    BY <1>6 DEF Coming
  <2> HIDE DEF r
  <2>3. /\ Len(Coming') = Len(r) + Len(wire')
        /\ \A i \in 1..Len(Coming') :
              Coming'[i] = IF i <= Len(r) THEN r[i] ELSE wire'[i - Len(r)]
    BY <1>2, <2>1, <2>2, ConcatProperties
  <2>4. Len(batch) \in Nat /\ Len(wire') \in Nat /\ Len(rest) \in Nat
    BY <1>2, <1>3
  <2>5. Len(r) = Len(batch) /\ r[Len(batch)] = x /\ \A i \in 1..(Len(batch) - 1) : r[i] = batch[i + 1]
    BY <1>3, <2>1, <2>4 DEF Longer
  <2>6. Len(Coming') = Len(Coming) /\ Coming'[Len(batch)] = Coming[1]
    BY <1>2, <1>4, <2>3, <2>4, <2>5
  <2>7. \A i \in 1..(Len(batch) - 1) : Coming'[i] = Coming[i + 1]
    BY <1>2, <2>3, <2>4, <2>5
  <2>8. \A i \in (Len(batch) + 1)..Len(Coming') : Coming'[i] = Coming[i]
    BY <1>2, <2>3, <2>4, <2>5
  <2> QED
    BY <2>6, <2>7, <2>8 DEF Rotated
<1>7. Len(batch) \in 1..Len(Coming)
  BY <1>2
<1> QED
  BY <1>1, <1>4, <1>5, <1>6, <1>7 DEF x, rest

\* What is put at the end of the wire is put at the end of Coming.
LEMMA PutOnWire ==
    ASSUME received \in Seq(Packets), wire \in Seq(Packets), NEW x,
           wire' = Append(wire, x), UNCHANGED received
    PROVE  Longer(Coming', Coming, x)
<1> DEFINE T == Packets \cup {x}
<1>1. received \in Seq(T) /\ wire \in Seq(T) /\ x \in T
  BY SeqDef
<1> HIDE DEF T
<1>2. Append(wire, x) \in Seq(T) /\ Longer(Append(wire, x), wire, x)
  BY <1>1, AppendProperties DEF Longer
<1>3. Len(Coming) = Len(received) + Len(wire)
      /\ \A i \in 1..Len(Coming) :
            Coming[i] = IF i <= Len(received) THEN received[i] ELSE wire[i - Len(received)]
  BY <1>1, ConcatProperties DEF Coming
<1>4. Coming' = received \o Append(wire, x)
  BY DEF Coming
<1>5. Len(Coming') = Len(received) + Len(Append(wire, x))
      /\ \A i \in 1..Len(Coming') :
            Coming'[i] = IF i <= Len(received) THEN received[i]
                         ELSE Append(wire, x)[i - Len(received)]
  <2> DEFINE w == Append(wire, x)
  <2>1. received \in Seq(T) /\ w \in Seq(T)
    BY <1>1, <1>2
  <2> HIDE DEF w
  <2>2. /\ Len(received \o w) = Len(received) + Len(w)
        /\ \A i \in 1..(Len(received) + Len(w)) :
              (received \o w)[i] = IF i <= Len(received) THEN received[i]
                                   ELSE w[i - Len(received)]
    BY <2>1, ConcatProperties
  <2> QED
    BY <1>4, <2>2 DEF w
<1>6. Len(received) \in Nat /\ Len(wire) \in Nat
  BY <1>1
<1> HIDE DEF Coming
<1>7. Len(Coming') = Len(Coming) + 1 /\ Coming'[Len(Coming) + 1] = x
  <2>1. Len(Append(wire, x)) = Len(wire) + 1 /\ Append(wire, x)[Len(wire) + 1] = x
    BY <1>2 DEF Longer
  <2>2. Len(Coming') = Len(Coming) + 1
    BY <1>3, <1>5, <1>6, <2>1
  <2>3. /\ Len(Coming) + 1 \in 1..Len(Coming') /\ ~(Len(Coming) + 1 <= Len(received))
        /\ (Len(Coming) + 1) - Len(received) = Len(wire) + 1
    BY <1>3, <1>6, <2>2
  <2> QED
    BY <1>5, <2>1, <2>2, <2>3
<1>8. ASSUME NEW i \in 1..Len(Coming)
      PROVE  Coming'[i] = Coming[i]
  <2>1. CASE i <= Len(received)
    BY <1>2, <1>3, <1>5, <1>6, <2>1 DEF Longer
  <2>2. CASE i > Len(received)
    <3>1. i - Len(received) \in 1..Len(wire)
      BY <1>3, <1>6, <2>2
    <3>2. i \in 1..Len(Coming') /\ ~(i <= Len(received))
      BY <1>3, <1>6, <1>7, <2>2
    <3>3. Coming'[i] = Append(wire, x)[i - Len(received)] /\ Coming[i] = wire[i - Len(received)]
      BY <1>3, <1>5, <3>2
    <3> QED
      BY <1>2, <3>1, <3>3 DEF Longer
  <2> QED
    BY <1>3, <1>6, <2>1, <2>2
<1> QED
  BY <1>7, <1>8 DEF Longer

\* What both have in common, for the packets on the transaction channel (the
\* only ones Rotated leaves where they were): m says where each packet of t
\* was in s, w where each of s but the first is in t, and both keep the order.
OnTransaction(s) == {i \in 1..Len(s) : s[i].on = Transaction}
Moves(t, s, m, w) ==
    /\ \A i \in 1..Len(t) : m[i] \in 1..Len(s) /\ t[i] = s[m[i]]
    /\ \A i \in OnTransaction(t) : m[i] \in OnTransaction(s) /\ m[i] > 1 /\ w[m[i]] = i
    /\ \A k \in OnTransaction(s) : k > 1 => w[k] \in OnTransaction(t) /\ m[w[k]] = k
    /\ \A i, j \in OnTransaction(t) : i < j => m[i] < m[j]
    /\ \A k, l \in OnTransaction(s) : 1 < k /\ k < l => w[k] < w[l]

\* Taking the first packet moves every other one down by one.
LEMMA AdvancedMoves ==
    ASSUME NEW s, NEW t, Len(s) \in Nat, Advanced(t, s)
    PROVE  \E m, w : Moves(t, s, m, w)
<1> DEFINE m == [i \in 1..Len(t) |-> i + 1]
           w == [k \in 1..Len(s) |-> k - 1]
<1>1. Moves(t, s, m, w)
  BY DEF Advanced, Moves, OnTransaction
<1> QED
  BY <1>1

\* Putting the first packet back behind the k-th moves no packet of the
\* transaction channel past another.
LEMMA RotatedMoves ==
    ASSUME NEW s, NEW t, Len(s) \in Nat, NEW k \in 1..Len(s), Rotated(t, s, k),
           s[1].on # Transaction
    PROVE  \E m, w : Moves(t, s, m, w)
<1> DEFINE m == [i \in 1..Len(t) |-> IF i < k THEN i + 1 ELSE IF i = k THEN 1 ELSE i]
           w == [i \in 1..Len(s) |-> IF i <= k THEN i - 1 ELSE i]
<1>1. /\ Len(t) = Len(s) /\ t[k] = s[1]
      /\ \A i \in 1..Len(t) : i < k => t[i] = s[i + 1]
      /\ \A i \in 1..Len(t) : i > k => t[i] = s[i]
  BY DEF Rotated
<1>2. \A i \in 1..Len(t) : m[i] \in 1..Len(s) /\ t[i] = s[m[i]]
  BY <1>1
<1>3. \A i \in OnTransaction(t) : m[i] \in OnTransaction(s) /\ m[i] > 1 /\ w[m[i]] = i
  BY <1>1, <1>2 DEF OnTransaction
<1>4. \A l \in OnTransaction(s) : l > 1 => w[l] \in OnTransaction(t) /\ m[w[l]] = l
  BY <1>1 DEF OnTransaction
<1>5. \A i, j \in OnTransaction(t) : i < j => m[i] < m[j]
  BY <1>1 DEF OnTransaction
<1>6. \A i, l \in OnTransaction(s) : 1 < i /\ i < l => w[i] < w[l]
  BY <1>1 DEF OnTransaction
<1> HIDE DEF m, w
<1> QED
  BY <1>2, <1>3, <1>4, <1>5, <1>6 DEF Moves

\* One iteration of the loop: its packet, and what becomes of Coming.  Only a
\* packet of a service channel is ever put back.
Iterates(p, rest, written) ==
    \/ Dropped(p, rest) \/ Rejected(p, rest) \/ DataArrived(p, rest)
    \/ TransactionArrived(p, rest, written)

\* A Receive step handles the first packet of Coming, and takes it off or,
\* if it is data nobody waits for, puts it back.
LEMMA Iteration ==
    ASSUME TypeOK, Receive
    PROVE  /\ Coming \in Seq(Packets) /\ Len(Coming) \in Nat /\ Len(Coming) > 0
           /\ Coming[1] \in Packets
           /\ \E written, rest, m, w :
                 /\ written \in BOOLEAN /\ Iterates(Coming[1], rest, written)
                 /\ Moves(Coming', Coming, m, w)
                 /\ ~deferred' => Advanced(Coming', Coming)
                 /\ \/ Advanced(Coming', Coming)
                    \/ /\ Coming[1].on # Transaction /\ DataArrived(Coming[1], rest)
                       /\ \E k \in 1..Len(Coming) : Rotated(Coming', Coming, k)
           /\ UNCHANGED <<calls, peerOpen, peerSent>>
<1>1. PICK batch \in Batches, written \in Writes :
         /\ TakeFrom(batch)
         /\ Iterates(Head(batch), Tail(batch), written)
  BY DEF Receive, Iterates
<1> DEFINE p == Head(batch)
           rest == Tail(batch)
<1>2. /\ Coming \in Seq(Packets) /\ Len(Coming) > 0 /\ p = Coming[1]
      /\ received' = rest => Advanced(Coming', Coming)
      /\ received' = Append(rest, p) => \E k \in 1..Len(Coming) : Rotated(Coming', Coming, k)
  BY <1>1, Takes DEF TypeOK
<1> HIDE DEF p, rest
<1>3. Len(Coming) \in Nat /\ Coming[1] \in Packets
  BY <1>2, ElementOfSeq
<1>4. Iterates(p, rest, written)
  BY <1>1 DEF p, rest
<1>5. \/ received' = rest
      \/ /\ received' = Append(rest, p) /\ p.on # Transaction /\ deferred' = TRUE
         /\ DataArrived(p, rest)
  BY <1>4 DEF Iterates, Dropped, Rejected, DataArrived, TransactionArrived
<1>6. \E m, w : Moves(Coming', Coming, m, w)
  BY <1>2, <1>3, <1>5, AdvancedMoves, RotatedMoves
<1>7. written \in BOOLEAN
  BY DEF Writes
<1>8. UNCHANGED <<calls, peerOpen, peerSent>>
  BY DEF Receive
<1>9. ~deferred' => Advanced(Coming', Coming)
  BY <1>2, <1>5
<1>10. PICK m, w : Moves(Coming', Coming, m, w)
  BY <1>6
<1>11. Iterates(Coming[1], rest, written)
  BY <1>2, <1>4
<1>12. \/ Advanced(Coming', Coming)
       \/ /\ Coming[1].on # Transaction /\ DataArrived(Coming[1], rest)
          /\ \E k \in 1..Len(Coming) : Rotated(Coming', Coming, k)
  BY <1>2, <1>5
<1> QED
  BY <1>2, <1>3, <1>7, <1>8, <1>9, <1>10, <1>11, <1>12

-----------------------------------------------------------------------------
(* What the host asks and what the printer answers.                        *)

InitWaits == {"InitReply20", "InitReply10"}
CommandReplies == Replies \ {"InitReply"}
Awaited == IF pc \in InitWaits THEN "InitReply" ELSE pc
ReplyTo(kind) ==
    CASE kind = "Init" -> "InitReply"
      [] kind = "GetSocketId" -> "GetSocketIdReply"
      [] kind = "OpenChannel" -> "OpenChannelReply"
      [] kind = "GetServiceName" -> "GetServiceNameReply"
      [] kind = "CloseChannel" -> "CloseChannelReply"
      [] kind = "CreditRequest" -> "CreditRequestReply"
      [] kind = "Exit" -> "ExitReply"
      [] kind = "Data" -> "Data"

\* The channels of a request and of a packet to the host, and what the header
\* and the message may grant.
RequestOK(u) == u.chan \in IF u.kind \in {"Init", "Exit"} THEN {Transaction} ELSE Services
PacketOK(p) ==
    /\ p.kind \in PeerCommands \cup Replies \cup {"Malformed"} => p.on = Transaction
    /\ p.kind \in {"Data", "Oversize"} => p.on \in Services /\ p.chan = p.on
    /\ p.kind \in {"Init", "InitReply", "Exit", "ExitReply"} => p.chan = Transaction
    /\ p.kind \in (CommandReplies \ {"ExitReply"}) \cup {"CloseChannel", "Credit"} => p.chan \in Services
    /\ p.credit \in IF p.kind \in {"Init", "InitReply"} THEN {0} ELSE Piggyback
    /\ p.added > 0 => p.kind \in {"Credit", "OpenChannelReply", "CreditRequestReply"}

TargetOK == pc \notin InitWaits \cup {"ExitReply", "idle"} => target \in Services
Wellformed ==
    /\ \A i \in 1..Len(Coming) : PacketOK(Coming[i])
    /\ \A i \in 1..Len(unanswered) : RequestOK(unanswered[i])
    /\ peerOpen \subseteq Services
    /\ TargetOK

\* A step of the host writes u, and from now on waits for its reply.
Asks(u) ==
    /\ Longer(unanswered', unanswered, u)
    /\ u.kind \in Requests /\ RequestOK(u)
    /\ pc' \in Waiting /\ Awaited' = ReplyTo(u.kind) /\ TargetOK'
    /\ u.kind # "Init" => u.chan = target'
    /\ u.kind = "Data" => u.id = serial'

\* A call that writes a well-formed request and waits for its reply asks it.
LEMMA AsksByWriting ==
    ASSUME unanswered \in Asked, NEW kind \in Requests, NEW c \in Channels, NEW id,
           unanswered' = Append(unanswered, Request(kind, c, id)),
           c \in IF kind \in {"Init", "Exit"} THEN {Transaction} ELSE Services,
           pc' \in Waiting, Awaited' = ReplyTo(kind),
           kind # "Init" => target' = c, kind = "Data" => id = serial'
    PROVE  Asks(Request(kind, c, id))
<1> DEFINE u == Request(kind, c, id)
<1>1. u.kind = kind /\ u.chan = c /\ u.id = id
  BY DEF Request
<1>2. Longer(unanswered', unanswered, u)
  BY AppendLonger DEF Asked
<1> HIDE DEF u
<1>3. RequestOK(u)
  BY <1>1 DEF RequestOK
<1>4. pc' # "idle"
  BY DEF Waiting
<1>5. TargetOK'
  <2>1. pc' \notin InitWaits \cup {"ExitReply", "idle"} => kind \notin {"Init", "Exit"}
    BY DEF ReplyTo, Awaited, InitWaits, Waiting
  <2> QED
    BY <2>1 DEF TargetOK
<1> QED
  BY <1>1, <1>2, <1>3, <1>4, <1>5 DEF Asks, u

\* What the failed first write of a call carried is a request it could write.
CouldBeAsked ==
    \A u \in doubtful' :
       /\ u.kind \in Requests /\ RequestOK(u)
       /\ u.kind = "Init" => conversation = "Inactive"
       /\ u.kind # "Init" => conversation = "Active" \/ credit[Transaction] > 0
\* A call ends at once because its first packet cannot be written.
FailsToAsk ==
    /\ UNCHANGED <<unanswered, pc, target, serial, credit, ledger>>
    /\ clean' = FALSE /\ outcome' = "error" /\ CouldBeAsked

\* A call whose first packet is not written fails to ask.
LEMMA FailsByNotStarting ==
    ASSUME NEW kind \in Requests, NEW c, NEW lost, NotStarted(lost),
           lost \subseteq {Request(kind, c, 0)},
           c \in IF kind \in {"Init", "Exit"} THEN {Transaction} ELSE Services,
           kind = "Init" => conversation = "Inactive",
           kind # "Init" => lost = {} \/ conversation = "Active" \/ credit[Transaction] > 0
    PROVE  FailsToAsk
<1>1. ASSUME NEW u \in lost
      PROVE  u.kind = kind /\ u.chan = c
  BY DEF Request
<1> QED
  BY <1>1 DEF NotStarted, FailsToAsk, CouldBeAsked, RequestOK

\* A call starts with a request, or fails to ask it; nothing the host has
\* received or heard of changes.
LEMMA StartAsks ==
    ASSUME TypeOK, Start
    PROVE  /\ pc = "idle"
           /\ UNCHANGED <<received, wire, chan, conversation, revision, deferred, abandoned,
                          peerOpen, peerActive, answered>>
           /\ UNCHANGED unpaid
           /\ \/ /\ UNCHANGED <<unanswered, pc, target, serial, credit, ledger>>
                 /\ clean' = FALSE /\ outcome' = "error" /\ CouldBeAsked
              \/ /\ clean' = clean /\ outcome' = "none" /\ doubtful' = {}
                 /\ \E u : /\ Asks(u)
                           /\ u.kind = "Init" => conversation = "Inactive"
                           /\ u.kind # "Init" => credit[Carrier(u)] > 0 /\ MaySend
                           /\ u.kind = "Data" => conversation = "Active" /\ chan[u.chan] = "open"
                           /\ u.kind = "CreditRequest" =>
                                 conversation = "Active" /\ chan[u.chan] \in {"open", "shut"}
                           /\ u.kind # "OpenChannel"
                           /\ credit' = IF u.kind = "Init" THEN credit ELSE Minus(credit, Carrier(u))
                           /\ ledger' = IF u.kind = "Init" THEN ledger ELSE Minus(ledger, Carrier(u))
<1> USE DEF Runs, FailsToAsk
<1>0. /\ unanswered \in Asked /\ Transaction \in Channels /\ Services \subseteq Channels
      /\ Transaction \notin Services
  BY ChannelAssumption DEF TypeOK, Asked, Channels
<1>1. /\ StartCall
      /\ UNCHANGED conversation
  BY DEF Start, StartInitialize, StartOpenService, StartServiceName,
         StartCloseChannel, StartRequest, StartExit, StartCommand
<1>2. ASSUME NEW kind \in Requests \ {"Init", "Data", "OpenChannel"}, NEW c \in Channels,
             c \in IF kind = "Exit" THEN {Transaction} ELSE Services,
             Command(kind, c, credit, ReplyTo(kind)), CanCommand(credit),
             kind = "CreditRequest" => conversation = "Active" /\ chan[c] \in {"open", "shut"}
      PROVE  \E u : /\ Asks(u)
                    /\ u.kind = kind /\ u.chan = c
                    /\ credit[Carrier(u)] > 0 /\ MaySend
                    /\ credit' = Minus(credit, Carrier(u)) /\ ledger' = Minus(ledger, Carrier(u))
  <2> DEFINE u == Request(kind, c, 0)
  <2>1. ReplyTo(kind) \in Waiting /\ (pc' = ReplyTo(kind) => Awaited' = ReplyTo(kind))
    BY DEF ReplyTo, Waiting, Requests, Awaited, InitWaits
  <2>2. Asks(u)
    BY <1>0, <1>2, <2>1, AsksByWriting DEF Command
  <2>3. u.kind = kind /\ u.chan = c /\ Carrier(u) = Transaction
    BY DEF Request, Carrier
  <2> QED
    BY <1>2, <2>2, <2>3 DEF Command, CanCommand
<1>3. CASE \E written \in Writes : StartInitialize(written)
  <2>0. PICK written \in Writes : StartInitialize(written)
    BY <1>3
  <2> DEFINE u == Request("Init", Transaction, 0)
  <2>1. written => Asks(u)
    BY <1>0, <2>0, AsksByWriting DEF StartInitialize, Requests, Waiting, ReplyTo, Awaited, InitWaits
  <2>2. u.kind = "Init" /\ "Init" \in Requests
    BY DEF Request, Requests
  <2>3. ~written => FailsToAsk
    BY <2>0, <2>2, FailsByNotStarting DEF StartInitialize
  <2> QED
    BY <1>1, <2>0, <2>1, <2>2, <2>3 DEF StartInitialize, StartCall
<1>4. CASE \E written \in Writes, c \in Services :
              \/ StartOpenService(c, written) \/ StartServiceName(c, written)
              \/ StartCloseChannel(c, written)
  <2>1. PICK written \in Writes, c \in Services,
             kind \in {"GetSocketId", "GetServiceName", "CloseChannel"} :
           StartCommand(kind, c, ReplyTo(kind), written)
    BY <1>4 DEF StartOpenService, StartServiceName, StartCloseChannel, ReplyTo
  <2>2. kind \in Requests \ {"Init", "Data", "OpenChannel", "CreditRequest", "Exit"}
    BY DEF Requests
  <2>6. CASE ~written
    <3>1. NotStarted({Request(kind, c, 0)}) /\ credit[Transaction] > 0
      BY <2>1, <2>6 DEF StartCommand, CanCommand
    <3> QED
      BY <1>1, <2>2, <3>1, FailsByNotStarting DEF StartCall
  <2> SUFFICES ASSUME written
               PROVE  \E u : /\ Runs /\ Asks(u) /\ u.kind = kind
                             /\ credit[Carrier(u)] > 0 /\ MaySend
                             /\ credit' = Minus(credit, Carrier(u))
                             /\ ledger' = Minus(ledger, Carrier(u))
    BY <1>1, <2>2, <2>6 DEF StartCall
  <2>3. Command(kind, c, credit, ReplyTo(kind)) /\ CanCommand(credit) /\ Runs
    BY <2>1 DEF StartCommand
  <2>4. c \in Channels /\ c \in IF kind = "Exit" THEN {Transaction} ELSE Services
    BY <1>0
  <2>5. PICK u : /\ Asks(u) /\ u.kind = kind
                 /\ credit[Carrier(u)] > 0 /\ MaySend
                 /\ credit' = Minus(credit, Carrier(u)) /\ ledger' = Minus(ledger, Carrier(u))
    BY <1>2, <2>2, <2>3, <2>4
  <2> QED
    BY <2>3, <2>5
<1>5. ASSUME NEW c \in Services, NEW written, written, StartRequest(c, written)
      PROVE  \E u : /\ Asks(u) /\ u.kind \in {"Data", "CreditRequest"}
                    /\ credit[Carrier(u)] > 0 /\ MaySend
                    /\ conversation = "Active" /\ chan[u.chan] \in {"open", "shut"}
                    /\ u.kind = "Data" => chan[u.chan] = "open"
                    /\ credit' = Minus(credit, Carrier(u)) /\ ledger' = Minus(ledger, Carrier(u))
  <2>1. CASE credit[c] > 0
    <3> DEFINE u == Request("Data", c, serial + 1)
    <3>1. CanSendData(c, credit) /\ SendData(c, credit)
      BY <1>5, <2>1 DEF StartRequest
    <3>2. Asks(u)
      <4>1. "Data" \in Requests /\ "Data" \in Waiting
            /\ (pc' = "Data" => Awaited' = ReplyTo("Data")) /\ "Data" \notin {"Init", "Exit"}
        BY DEF Requests, Waiting, Awaited, InitWaits, ReplyTo
      <4>2. c \in Channels
        BY <1>0
      <4> QED
        BY <1>0, <3>1, <4>1, <4>2, AsksByWriting DEF SendData, Written
    <3>3. u.kind = "Data" /\ u.chan = c /\ Carrier(u) = c
      BY DEF Request, Carrier
    <3> QED
      BY <3>1, <3>2, <3>3 DEF CanSendData, SendData, MaySend
  <2>2. CASE ~(credit[c] > 0)
    <3>1. /\ Command("CreditRequest", c, credit, ReplyTo("CreditRequest")) /\ CanCommand(credit)
          /\ conversation = "Active" /\ chan[c] \in {"open", "shut"}
      BY <1>5, <2>2 DEF StartRequest, ReplyTo
    <3>2. /\ "CreditRequest" \in Requests \ {"Init", "Data", "OpenChannel"} /\ c \in Channels
          /\ c \in IF "CreditRequest" = "Exit" THEN {Transaction} ELSE Services
      BY <1>0 DEF Requests
    <3>3. PICK u : /\ Asks(u) /\ u.kind = "CreditRequest" /\ u.chan = c
                   /\ credit[Carrier(u)] > 0 /\ MaySend
                   /\ credit' = Minus(credit, Carrier(u)) /\ ledger' = Minus(ledger, Carrier(u))
      BY <1>2, <3>1, <3>2
    <3> QED
      BY <3>1, <3>3
  <2> QED
    BY <2>1, <2>2
<1>6. CASE \E written \in Writes, c \in Services : StartRequest(c, written)
  <2>1. PICK written \in Writes, c \in Services : StartRequest(c, written)
    BY <1>6
  <2>2. written => Runs
    BY <2>1 DEF StartRequest
  <2>3. CASE ~written
    <3>1. {"Data", "CreditRequest"} \subseteq Requests
          /\ "Data" \notin {"Init", "Exit"} /\ "CreditRequest" \notin {"Init", "Exit"}
      BY DEF Requests
    <3>2. \E kind \in {"Data", "CreditRequest"} : NotStarted({Request(kind, c, 0)})
      BY <2>1, <2>3 DEF StartRequest
    <3>3. conversation = "Active"
      BY <2>1 DEF StartRequest
    <3> QED
      BY <1>1, <3>1, <3>2, <3>3, FailsByNotStarting DEF StartCall
  <2> QED
    BY <1>1, <1>5, <2>1, <2>2, <2>3 DEF StartCall
<1>7. ASSUME NEW written \in Writes, StartExit(written)
      PROVE  \/ FailsToAsk
             \/ /\ Runs
                /\ \E u : /\ Asks(u) /\ u.kind = "Exit"
                          /\ credit[Carrier(u)] > 0 /\ MaySend
                          /\ credit' = Minus(credit, Carrier(u)) /\ ledger' = Minus(ledger, Carrier(u))
  <2>1. CASE written /\ CanCommand(credit)
    <3>1. Command("Exit", Transaction, credit, ReplyTo("Exit")) /\ Runs
      BY <1>7, <2>1 DEF StartExit, ReplyTo
    <3>2. /\ "Exit" \in Requests \ {"Init", "Data", "OpenChannel", "CreditRequest"}
          /\ Transaction \in IF "Exit" = "Exit" THEN {Transaction} ELSE Services
      BY <1>0 DEF Requests
    <3> QED
      BY <1>0, <1>2, <2>1, <3>1, <3>2
  <2>2. CASE ~(written /\ CanCommand(credit))
    <3>1. "Exit" \in Requests
      BY DEF Requests
    <3> QED
      BY <1>7, <2>2, <3>1, FailsByNotStarting DEF StartExit
  <2> QED
    BY <2>1, <2>2
<1>8. CASE \E written \in Writes : StartExit(written)
  BY <1>1, <1>7, <1>8 DEF StartCall
<1> QED
  BY <1>3, <1>4, <1>6, <1>8 DEF Start

\* An iteration asks nothing, or takes the reply its call waits for and asks
\* the next thing: the other revision, the channel, or the data.
IterationAsksFor(p, u) ==
    /\ Asks(u) /\ UNCHANGED <<clean, abandoned, outcome>>
    /\ p.on = Transaction /\ p.kind = Awaited
    /\ \/ /\ u.kind = "Init" /\ pc \in InitWaits /\ pc' \in InitWaits
          /\ UNCHANGED <<chan, conversation, ledger>> /\ credit' = Accrued(p)
       \/ /\ u.kind = "OpenChannel" /\ pc = "GetSocketIdReply" /\ u.chan = target
          /\ chan' = [chan EXCEPT ![target] = "pending"] /\ UNCHANGED <<target, conversation>>
          /\ MaySend /\ Accrued(p)[Transaction] > 0
          /\ credit' = Minus([Accrued(p) EXCEPT ![target] = 0], Transaction)
          /\ ledger' = Minus(ledger, Transaction)
       \/ /\ u.kind \in {"CreditRequest", "Data"} /\ pc = "CreditRequestReply" /\ u.chan = target
          /\ chan[target] # "absent" /\ UNCHANGED <<chan, target, conversation>>
          /\ p.result = "ok" /\ p.chan = target
          /\ MaySend /\ Plus(Accrued(p), target, p.added)[Carrier(u)] > 0
          /\ u.kind = "Data" => conversation = "Active" /\ chan[target] = "open"
          /\ credit' = Minus(Plus(Accrued(p), target, p.added), Carrier(u))
          /\ ledger' = Minus(ledger, Carrier(u))

\* An iteration writes no request of its own except the ones of
\* IterationAsksFor.
LEMMA IterationAsks ==
    ASSUME TypeOK, TargetOK, pc # "idle", NEW p \in Packets, NEW rest, NEW written \in BOOLEAN,
           Iterates(p, rest, written)
    PROVE  \/ UNCHANGED <<unanswered, serial>>
           \/ UNCHANGED peerActive /\ \E u : IterationAsksFor(p, u)
<1>0. /\ unanswered \in Asked /\ Transaction \in Channels /\ Services \subseteq Channels
      /\ Transaction \notin Services
  BY ChannelAssumption DEF TypeOK, Asked, Channels
<1>1. CASE Dropped(p, rest) \/ Rejected(p, rest) \/ DataArrived(p, rest)
  BY <1>1 DEF Dropped, Rejected, DataArrived, Silent
<1>2. CASE HandlePeerTransaction(p, Accrued(p), written) \/ Silent
  BY <1>2 DEF HandlePeerTransaction, HandleInit, HandleQuery, HandleCloseChannel,
              HandleCredit, HandleExit, HandleError, Answered, NotAnswered, Silent
<1>3. CASE /\ TransactionArrived(p, rest, written) /\ HandleReply(p, Accrued(p), written)
           /\ p.kind = Expected /\ UNCHANGED peerActive
  <2> DEFINE cr == Accrued(p)
  <2> HIDE DEF cr
  <2>0. p.kind = Awaited /\ p.on = Transaction
    <3>1. pc # "Data"
      BY <1>3 DEF HandleReply, InitReplied, SocketResolved, ChannelOpened, NameResolved,
                  ChannelClosed, ExitReplied, CreditRequested
    <3> QED
      BY <1>3, <3>1 DEF Expected, Awaited, InitWaits, TransactionArrived
  <2>1. CASE InitReplied(p, cr, written)
    <3> DEFINE u == Request("Init", Transaction, 0)
    <3>1. CASE /\ pc \in InitWaits /\ pc' = "InitReply10" /\ credit' = cr
               /\ unanswered' = Append(unanswered, u)
               /\ UNCHANGED <<chan, conversation, clean, abandoned, outcome, ledger>>
      <4>1. "Init" \in Requests /\ pc' \in Waiting /\ Awaited' = ReplyTo("Init") /\ pc' \in InitWaits
        BY <3>1 DEF Requests, Waiting, Awaited, InitWaits, ReplyTo
      <4>2. Asks(u)
        BY <1>0, <3>1, <4>1, AsksByWriting
      <4>3. u.kind = "Init"
        BY DEF Request
      <4> QED
        BY <1>3, <2>0, <3>1, <4>1, <4>2, <4>3 DEF IterationAsksFor, cr
    <3>2. CASE UNCHANGED <<unanswered, serial>>
      BY <3>2
    <3> QED
      BY <2>1, <3>1, <3>2 DEF InitReplied, Silent, InitWaits
  <2>2. CASE SocketResolved(p, cr, written)
    <3> DEFINE u == Request("OpenChannel", target, 0)
               fresh == [cr EXCEPT ![target] = 0]
    <3>1. CASE /\ p.chan = target /\ Insert(target) /\ CanCommand(fresh)
               /\ Command("OpenChannel", target, fresh, "OpenChannelReply")
               /\ UNCHANGED <<outcome, clean, abandoned, conversation>>
      <4>1. pc = "GetSocketIdReply" /\ target \in Services
        BY <2>2 DEF SocketResolved, TargetOK, InitWaits
      <4>2. "OpenChannel" \in Requests /\ "OpenChannelReply" \in Waiting
            /\ (pc' = "OpenChannelReply" => Awaited' = ReplyTo("OpenChannel"))
        BY DEF Requests, Waiting, Awaited, InitWaits, ReplyTo
      <4>3. Asks(u)
        BY <1>0, <3>1, <4>1, <4>2, AsksByWriting DEF Command
      <4>4. u.kind = "OpenChannel" /\ u.chan = target
        BY DEF Request
      <4>5. MaySend /\ fresh[Transaction] > 0 /\ credit' = Minus(fresh, Transaction)
            /\ ledger' = Minus(ledger, Transaction) /\ target' = target
            /\ chan' = [chan EXCEPT ![target] = "pending"]
        BY <3>1 DEF CanCommand, Command, Insert
      <4>6. fresh[Transaction] = cr[Transaction]
        BY <1>0, <4>1
      <4> QED
        BY <1>3, <2>0, <3>1, <4>1, <4>3, <4>4, <4>5, <4>6 DEF IterationAsksFor, cr
    <3>2. CASE UNCHANGED <<unanswered, serial>>
      BY <3>2
    <3> QED
      BY <2>2, <3>1, <3>2 DEF SocketResolved, Silent
  <2>3. CASE CreditRequested(p, cr, written)
    <3> DEFINE granted == Plus(cr, target, p.added)
    <3> HIDE DEF granted
    <3>0. pc = "CreditRequestReply" /\ target \in Services /\ UNCHANGED <<chan, conversation>>
      BY <2>3 DEF CreditRequested, TargetOK, InitWaits
    <3>1. CASE /\ p.result = "ok" /\ p.chan = target /\ chan[target] # "absent"
               /\ CanSendData(target, granted) /\ SendData(target, granted)
               /\ UNCHANGED <<tries, outcome, clean, abandoned>>
      <4> DEFINE u == Request("Data", target, serial + 1)
      <4>1. "Data" \in Requests /\ "Data" \in Waiting
            /\ (pc' = "Data" => Awaited' = ReplyTo("Data")) /\ "Data" \notin {"Init", "Exit"}
        BY DEF Requests, Waiting, Awaited, InitWaits, ReplyTo
      <4>2. Asks(u)
        BY <1>0, <3>0, <3>1, <4>1, AsksByWriting DEF SendData, Written
      <4>3. u.kind = "Data" /\ u.chan = target /\ Carrier(u) = target
        BY DEF Request, Carrier
      <4>4. conversation = "Active" /\ chan[target] = "open" /\ granted[target] > 0 /\ MaySend
            /\ credit' = Minus(granted, target) /\ ledger' = Minus(ledger, target) /\ target' = target
        BY <3>1 DEF CanSendData, SendData, MaySend
      <4> QED
        BY <1>3, <2>0, <3>0, <3>1, <4>2, <4>3, <4>4 DEF IterationAsksFor, cr, granted
    <3>2. CASE /\ p.result = "ok" /\ p.chan = target /\ chan[target] # "absent"
               /\ CanCommand(granted)
               /\ Command("CreditRequest", target, granted, "CreditRequestReply")
               /\ UNCHANGED <<outcome, clean, abandoned, serial>>
      <4> DEFINE u == Request("CreditRequest", target, 0)
      <4>1. "CreditRequest" \in Requests /\ "CreditRequestReply" \in Waiting
            /\ (pc' = "CreditRequestReply" => Awaited' = ReplyTo("CreditRequest"))
            /\ "CreditRequest" \notin {"Init", "Exit", "Data"}
        BY DEF Requests, Waiting, Awaited, InitWaits, ReplyTo
      <4>2. Asks(u)
        BY <1>0, <3>0, <3>2, <4>1, AsksByWriting DEF Command
      <4>3. u.kind = "CreditRequest" /\ u.chan = target /\ Carrier(u) = Transaction
        BY DEF Request, Carrier
      <4>4. MaySend /\ granted[Transaction] > 0 /\ credit' = Minus(granted, Transaction)
            /\ ledger' = Minus(ledger, Transaction) /\ target' = target
        BY <3>2 DEF CanCommand, Command
      <4> QED
        BY <1>3, <2>0, <3>0, <3>2, <4>2, <4>3, <4>4 DEF IterationAsksFor, cr, granted
    <3>3. CASE UNCHANGED <<unanswered, serial>>
      BY <3>3
    <3> QED
      BY <2>3, <3>1, <3>2, <3>3 DEF CreditRequested, Silent, granted
  <2>4. CASE ChannelOpened(p, cr) \/ NameResolved(p, cr) \/ ChannelClosed(p, cr) \/ ExitReplied(p, cr)
    BY <2>4 DEF ChannelOpened, NameResolved, ChannelClosed, ExitReplied, Silent
  <2> QED
    BY <1>3, <2>1, <2>2, <2>3, <2>4 DEF HandleReply, cr
<1> QED
  BY <1>1, <1>2, <1>3 DEF Iterates, TransactionArrived

\* What a packet is worth to its receiver: the credit it grants, and the one
\* an accepted Init begins a conversation with.
Opens(p) == p.kind = "Init" \/ (p.kind = "InitReply" /\ p.result = "ok")
Worth(p, c) == CreditFor(p, c) + (IF Opens(p) /\ c = Transaction THEN 1 ELSE 0)
OpensChannel(p) == p.kind = "OpenChannelReply" /\ p.result = "ok"

\* The printer answers u with q, and enters in its ledger what q is worth;
\* opening a channel starts its account anew.
AnswersWith(u, q) ==
    /\ q \in Packets /\ PacketOK(q)
    /\ q.kind = ReplyTo(u.kind) /\ q.on = Carrier(u) /\ q.chan = u.chan /\ q.id = u.id
    /\ \/ u.kind = "Init" /\ q.result = "ok" /\ peerActive' = TRUE /\ peerOpen' = {}
       \/ u.kind = "Init" /\ q.result # "ok" /\ UNCHANGED <<peerActive, peerOpen>>
       \/ u.kind = "Exit" /\ peerActive' = FALSE /\ peerOpen' = {}
       \/ /\ u.kind \notin {"Init", "Exit"} /\ (peerActive \/ LateAnswers) /\ UNCHANGED peerActive
          /\ \/ OpensChannel(q) /\ u.chan \notin peerOpen /\ peerOpen' = peerOpen \cup {u.chan}
             \/ u.kind = "CloseChannel" /\ peerOpen' = peerOpen \ {u.chan}
             \/ ~OpensChannel(q) /\ u.kind # "CloseChannel" /\ UNCHANGED peerOpen
    /\ \A c \in Channels :
          ledger'[c] = IF OpensChannel(q) /\ c = u.chan THEN q.added ELSE ledger[c] + Worth(q, c)

\* Answer puts a packet on the wire that answers the request it takes off.
LEMMA AnswerShape ==
    ASSUME TypeOK, Wellformed, NEW i \in 1..Len(unanswered), NEW n \in Nat,
           NEW kind \in Replies \cup {"Data"}, NEW result \in Results,
           NEW added \in 0..CreditLimit, NEW rev \in Revisions, NEW books \in Ledgers,
           Answer(i, n, kind, result, added, rev, books), UNCHANGED received,
           kind = ReplyTo(unanswered[i].kind),
           n \in IF kind = "InitReply" THEN {0} ELSE Piggyback,
           added > 0 => kind \in {"OpenChannelReply", "CreditRequestReply"}
    PROVE  \E q : /\ q \in Packets /\ PacketOK(q) /\ q.result = result /\ q.added = added
                  /\ q.kind = kind /\ q.on = Carrier(unanswered[i]) /\ q.credit = n
                  /\ q.chan = unanswered[i].chan /\ q.id = unanswered[i].id
                  /\ Shorter(unanswered', unanswered, i) /\ Longer(Coming', Coming, q)
                  /\ ledger' = Plus(books, q.on, n)
<1> DEFINE u == unanswered[i]
           q == Packet(Carrier(u), n, kind, u.chan, result, added, u.id, rev)
<1>1. unanswered \in Asked /\ received \in Seq(Packets) /\ wire \in Seq(Packets)
  BY DEF TypeOK, Asked
<1>2. u \in [kind : Requests, chan : Channels, id : Nat]
  BY <1>1, ElementOfSeq DEF Asked
<1>3. RequestOK(u)
  BY DEF Wellformed
<1>4. u.chan \in Channels /\ u.id \in Nat /\ Carrier(u) \in Channels /\ u.kind \in Requests
  BY <1>2 DEF Carrier, Channels
<1>5. q \in Packets
  BY <1>4, PacketType
<1>6. /\ q.on = Carrier(u) /\ q.chan = u.chan /\ q.id = u.id /\ q.kind = kind
      /\ q.credit = n /\ q.added = added /\ q.result = result
  BY DEF Packet
<1>7. Shorter(unanswered', unanswered, i)
  BY <1>1, WithoutShorter DEF Answer, Asked
<1>8. wire' = Append(wire, q) /\ ledger' = Plus(books, Carrier(u), n)
  BY DEF Answer
<1> HIDE DEF u, q
<1>9. Longer(Coming', Coming, q)
  BY <1>1, <1>8, PutOnWire
<1>10. kind = ReplyTo(u.kind)
  BY DEF u
<1>11. PacketOK(q)
  BY <1>3, <1>4, <1>6, <1>10 DEF PacketOK, RequestOK, ReplyTo, Carrier, Requests, Replies,
                            CommandReplies, PeerCommands
<1> QED
  BY <1>5, <1>6, <1>7, <1>8, <1>9, <1>11 DEF u

\* Every answer of the printer takes one request off and is worth to the
\* host what the printer enters in its ledger.
LEMMA PeerAnswersShape ==
    ASSUME TypeOK, Wellformed, PeerAnswers
    PROVE  /\ UNCHANGED link /\ peerSent' = peerSent
           /\ \E i, q :
                 /\ i \in Answerable /\ i \in 1..Len(unanswered)
                 /\ Shorter(unanswered', unanswered, i) /\ Longer(Coming', Coming, q)
                 /\ AnswersWith(unanswered[i], q)
<1>1. PICK i \in Answerable :
         \/ AnswerInit(i)
         \/ \E n \in Piggyback : AnswerExit(i, n)
         \/ /\ peerActive \/ LateAnswers
            /\ \E n \in Piggyback :
                  \/ AnswerOpenChannel(i, n) \/ AnswerCloseChannel(i, n)
                  \/ AnswerCreditRequest(i, n) \/ AnswerLookup(i, n)
                  \/ AnswerData(i, n)
            /\ UNCHANGED peerActive
  BY DEF PeerAnswers
<1> DEFINE u == unanswered[i]
           c == u.chan
<1>2. i \in 1..Len(unanswered) /\ UNCHANGED received /\ UNCHANGED link /\ peerSent' = peerSent
  BY DEF Answerable, PeerAnswers, PeerStep, link
<1>3. /\ Piggyback \subseteq Nat /\ \A n \in Piggyback : n >= MinGrant
      /\ Grants \subseteq 0..CreditLimit /\ Grants \subseteq Nat /\ 0 \in Grants
  BY BoundAssumption DEF Piggyback, Grants
<1>4. u \in [kind : Requests, chan : Channels, id : Nat] /\ RequestOK(u)
  BY <1>2, ElementOfSeq DEF TypeOK, Wellformed
<1>5. c \in Channels /\ Transaction \in Channels /\ ledger \in Ledgers /\ u.kind \in Requests
      /\ Transaction \notin Services /\ Services \subseteq Channels
  BY <1>4, ChannelAssumption DEF Channels, TypeOK, Ledgers
<1>6. /\ Plus(ledger, Transaction, 1) \in Ledgers
      /\ \A g \in Grants : Plus(ledger, c, g) \in Ledgers /\ [ledger EXCEPT ![c] = g] \in Ledgers
  BY <1>3, <1>5, LedgerArithmetic, 1 \in Nat
<1>7. /\ \A d \in Channels : Plus(ledger, Transaction, 1)[d] = ledger[d] + (IF d = Transaction THEN 1 ELSE 0)
      /\ \A g \in Grants, d \in Channels :
            /\ Plus(ledger, c, g)[d] = ledger[d] + (IF d = c THEN g ELSE 0)
            /\ [ledger EXCEPT ![c] = g][d] = IF d = c THEN g ELSE ledger[d]
      /\ \A d \in Channels : ledger[d] \in Int
      /\ \A books \in Ledgers, on \in Channels, n \in Nat, d \in Channels :
            Plus(books, on, n)[d] = books[d] + (IF d = on THEN n ELSE 0)
  BY <1>3, <1>5 DEF Plus, Ledgers
<1>8. {"ok", "unsupported", "refused"} = Results /\ revision \in Revisions /\ "V20" \in Revisions
  BY DEF Results, Revisions, TypeOK
<1> USE <1>2, <1>3, <1>5, <1>8
<1>9. ASSUME NEW n \in Nat, NEW kind \in Replies \cup {"Data"}, NEW result \in Results,
             NEW added \in Grants, NEW rev \in Revisions, NEW books \in Ledgers,
             Answer(i, n, kind, result, added, rev, books), kind = ReplyTo(u.kind),
             n \in IF kind = "InitReply" THEN {0} ELSE Piggyback,
             added > 0 => kind \in {"OpenChannelReply", "CreditRequestReply"}
      PROVE  \E q : /\ q \in Packets /\ PacketOK(q) /\ q.result = result /\ q.added = added
                    /\ q.kind = kind /\ q.on = Carrier(u) /\ q.credit = n
                    /\ q.chan = c /\ q.id = u.id
                    /\ Shorter(unanswered', unanswered, i) /\ Longer(Coming', Coming, q)
                    /\ ledger' = Plus(books, q.on, n)
  <2> HIDE DEF c, u
  <2>1. added \in 0..CreditLimit
    OBVIOUS
  <2> QED
    BY <1>9, <2>1, AnswerShape DEF c, u
<1>10. /\ Replies = {"InitReply", "GetSocketIdReply", "OpenChannelReply", "GetServiceNameReply",
                     "CloseChannelReply", "CreditRequestReply", "ExitReply"}
       /\ u.kind # "Data" => Carrier(u) = Transaction
       /\ u.kind = "Data" => Carrier(u) = c
       /\ u.kind \in {"GetSocketId", "OpenChannel", "CreditRequest", "Data"} => c \in Services
       /\ u.kind = "Init" => c = Transaction
  BY <1>4 DEF Replies, Carrier, RequestOK
<1> HIDE DEF u, c
<1>11. CASE AnswerInit(i)
  <2>0. u.kind = "Init" /\ ReplyTo(u.kind) = "InitReply" /\ "InitReply" \in Replies \cup {"Data"}
        /\ "InitReply" \notin CommandReplies
    BY <1>10, <1>11 DEF AnswerInit, ReplyTo, u, CommandReplies
  <2>1. CASE \E rev \in Revisions :
                /\ Answer(i, 0, "InitReply", "ok", 0, rev, Plus(ledger, Transaction, 1))
                /\ peerOpen' = {} /\ peerActive' = TRUE
    <3>1. PICK rev \in Revisions : Answer(i, 0, "InitReply", "ok", 0, rev, Plus(ledger, Transaction, 1))
      BY <2>1
    <3>2. PICK q : /\ q \in Packets /\ PacketOK(q) /\ q.result = "ok" /\ q.added = 0
                   /\ q.kind = "InitReply" /\ q.on = Carrier(u) /\ q.credit = 0
                   /\ q.chan = c /\ q.id = u.id
                   /\ Shorter(unanswered', unanswered, i) /\ Longer(Coming', Coming, q)
                   /\ ledger' = Plus(Plus(ledger, Transaction, 1), q.on, 0)
      BY <1>6, <1>9, <2>0, <3>1, 0 \in Nat
    <3>3. ASSUME NEW d \in Channels
          PROVE  ledger'[d] = ledger[d] + Worth(q, d)
      <4>1. q.on = Transaction
        BY <1>10, <2>0, <3>2
      <4>2. ledger'[d] = Plus(ledger, Transaction, 1)[d] + (IF d = Transaction THEN 0 ELSE 0)
        BY <1>6, <1>7, <3>2, <4>1, 0 \in Nat
      <4>3. Worth(q, d) = IF d = Transaction THEN 1 ELSE 0
        BY <3>2 DEF Worth, CreditFor, Opens
      <4> QED
        BY <1>7, <4>2, <4>3
    <3>4. AnswersWith(u, q)
      BY <2>0, <2>1, <3>2, <3>3 DEF AnswersWith, OpensChannel, c
    <3> QED
      BY <3>2, <3>4 DEF u
  <2>2. CASE /\ \E result \in {"unsupported", "refused"} :
                   Answer(i, 0, "InitReply", result, 0, "V20", ledger)
             /\ UNCHANGED <<peerOpen, peerActive>>
    <3>1. PICK result \in {"unsupported", "refused"} : Answer(i, 0, "InitReply", result, 0, "V20", ledger)
      BY <2>2
    <3>2. PICK q : /\ q \in Packets /\ PacketOK(q) /\ q.result = result /\ q.added = 0
                   /\ q.kind = "InitReply" /\ q.on = Carrier(u) /\ q.credit = 0
                   /\ q.chan = c /\ q.id = u.id
                   /\ Shorter(unanswered', unanswered, i) /\ Longer(Coming', Coming, q)
                   /\ ledger' = Plus(ledger, q.on, 0)
      <4>1. result \in Results /\ 0 \in Nat /\ ~(0 > 0)
        OBVIOUS
      <4> QED
        BY <1>9, <2>0, <3>1, <4>1
    <3>3. \A d \in Channels : ledger'[d] = ledger[d] + Worth(q, d)
      BY <1>7, <1>10, <2>0, <3>2 DEF Worth, CreditFor, Opens
    <3>4. AnswersWith(u, q)
      BY <2>0, <2>2, <3>2, <3>3 DEF AnswersWith, OpensChannel, c
    <3> QED
      BY <3>2, <3>4 DEF u
  <2> QED
    BY <1>11, <2>1, <2>2 DEF AnswerInit
\* A reply that only moves the credit of its header and of its message.
<1>12. ASSUME NEW n \in Piggyback, NEW result \in Results, NEW g \in Grants,
              NEW kind \in CommandReplies \cup {"Data"}, kind = ReplyTo(u.kind),
              NEW books \in Ledgers, books = IF g = 0 THEN ledger ELSE Plus(ledger, c, g),
              g > 0 => kind = "CreditRequestReply",
              Answer(i, n, kind, result, g, revision, books)
       PROVE  \E q : /\ q \in Packets /\ PacketOK(q) /\ q.result = result
                     /\ q.kind = kind /\ q.on = Carrier(u) /\ q.chan = c /\ q.id = u.id
                     /\ Shorter(unanswered', unanswered, i) /\ Longer(Coming', Coming, q)
                     /\ \A d \in Channels : ledger'[d] = ledger[d] + Worth(q, d)
  <2>1. n \in Nat /\ n >= MinGrant /\ g \in Nat /\ kind # "InitReply" /\ kind \in Replies \cup {"Data"}
    BY <1>10 DEF CommandReplies
  <2>2. PICK q : /\ q \in Packets /\ PacketOK(q) /\ q.result = result /\ q.added = g
                 /\ q.kind = kind /\ q.on = Carrier(u) /\ q.credit = n
                 /\ q.chan = c /\ q.id = u.id
                 /\ Shorter(unanswered', unanswered, i) /\ Longer(Coming', Coming, q)
                 /\ ledger' = Plus(books, q.on, n)
    BY <1>9, <1>12, <2>1
  <2>3. q.on \in Channels
    BY <2>2 DEF Packets
  <2>4. ASSUME NEW d \in Channels
        PROVE  ledger'[d] = ledger[d] + Worth(q, d)
    <3>1. books[d] = ledger[d] + (IF d = c THEN g ELSE 0)
      BY <1>7, <1>12, <2>1
    <3>2. ledger'[d] = books[d] + (IF d = q.on THEN n ELSE 0)
      BY <1>7, <2>1, <2>2, <2>3
    <3>3. ledger[d] \in Int
      BY <1>7
    <3>4. Worth(q, d) = (IF d = q.on THEN n ELSE 0) + (IF d = c THEN g ELSE 0)
      <4>1. q.kind \notin {"Init", "InitReply", "Credit"} /\ (g > 0 => q.kind = "CreditRequestReply")
        BY <1>12, <2>2, <1>10 DEF CommandReplies
      <4> QED
        BY <2>1, <2>2, <4>1 DEF Worth, CreditFor, Opens
    <3> QED
      BY <2>1, <3>1, <3>2, <3>3, <3>4
  <2> QED
    BY <2>2, <2>4
<1>16. ASSUME NEW n \in Piggyback, NEW result \in Results,
              NEW kind \in CommandReplies \cup {"Data"}, kind = ReplyTo(u.kind),
              Answer(i, n, kind, result, 0, revision, ledger)
       PROVE  \E q : /\ q \in Packets /\ PacketOK(q) /\ q.result = result
                     /\ q.kind = kind /\ q.on = Carrier(u) /\ q.chan = c /\ q.id = u.id
                     /\ Shorter(unanswered', unanswered, i) /\ Longer(Coming', Coming, q)
                     /\ \A d \in Channels : ledger'[d] = ledger[d] + Worth(q, d)
  <2>1. 0 \in Grants /\ ~(0 > 0) /\ ledger = IF 0 = 0 THEN ledger ELSE Plus(ledger, c, 0)
    OBVIOUS
  <2> QED
    BY <1>12, <1>16, <2>1
<1>13. ASSUME NEW n \in Piggyback, AnswerExit(i, n)
       PROVE  \E q : /\ Shorter(unanswered', unanswered, i) /\ Longer(Coming', Coming, q)
                     /\ AnswersWith(u, q)
  <2>1. u.kind = "Exit" /\ ReplyTo(u.kind) = "ExitReply" /\ "ExitReply" \in CommandReplies
    BY <1>10, <1>13 DEF AnswerExit, ReplyTo, u, CommandReplies
  <2>2. Answer(i, n, "ExitReply", "ok", 0, revision, ledger)
    BY <1>13 DEF AnswerExit
  <2>3. PICK q : /\ q \in Packets /\ PacketOK(q)
                 /\ q.kind = "ExitReply" /\ q.on = Carrier(u) /\ q.chan = c /\ q.id = u.id
                 /\ Shorter(unanswered', unanswered, i) /\ Longer(Coming', Coming, q)
                 /\ \A d \in Channels : ledger'[d] = ledger[d] + Worth(q, d)
    BY <1>16, <2>1, <2>2
  <2> QED
    BY <1>13, <2>1, <2>3 DEF AnswersWith, AnswerExit, OpensChannel, c
<1>14. ASSUME peerActive \/ LateAnswers, UNCHANGED peerActive, NEW n \in Piggyback,
              AnswerCloseChannel(i, n) \/ AnswerCreditRequest(i, n) \/ AnswerLookup(i, n)
              \/ AnswerData(i, n)
       PROVE  \E q : /\ Shorter(unanswered', unanswered, i) /\ Longer(Coming', Coming, q)
                     /\ AnswersWith(u, q)
  <2>1. /\ "CloseChannelReply" \in CommandReplies /\ "CreditRequestReply" \in CommandReplies
        /\ "GetSocketIdReply" \in CommandReplies /\ "GetServiceNameReply" \in CommandReplies
    BY <1>10 DEF CommandReplies
  <2>2. /\ u.kind \in {"CloseChannel", "CreditRequest", "GetSocketId", "GetServiceName", "Data"}
        /\ \E result \in Results, g \in Grants, books \in Ledgers :
              /\ books = IF g = 0 THEN ledger ELSE Plus(ledger, c, g)
              /\ g > 0 => ReplyTo(u.kind) = "CreditRequestReply"
              /\ Answer(i, n, ReplyTo(u.kind), result, g, revision, books)
        /\ peerOpen' = IF u.kind = "CloseChannel" THEN peerOpen \ {c} ELSE peerOpen
    <3>0. ReplyTo("CloseChannel") = "CloseChannelReply" /\ ReplyTo("CreditRequest") = "CreditRequestReply"
          /\ ReplyTo("GetSocketId") = "GetSocketIdReply" /\ ReplyTo("Data") = "Data"
          /\ ReplyTo("GetServiceName") = "GetServiceNameReply"
      BY DEF ReplyTo
    <3>1. CASE AnswerCloseChannel(i, n)
      BY <3>0, <3>1 DEF AnswerCloseChannel, c, u
    <3>2. CASE AnswerCreditRequest(i, n)
      <4>1. CASE \E g \in Grants : Answer(i, n, "CreditRequestReply", "ok", g, revision, Plus(ledger, c, g))
        <5>1. PICK g \in Grants : Answer(i, n, "CreditRequestReply", "ok", g, revision, Plus(ledger, c, g))
          BY <4>1
        <5>2. Plus(ledger, c, g) \in Ledgers
          BY <1>6
        <5>3. g = 0 => Plus(ledger, c, g) = ledger
          <6>1. \A d \in Channels : ledger[d] + 0 = ledger[d]
            BY <1>7
          <6> QED
            BY <6>1 DEF Plus, Ledgers
        <5> QED
          BY <3>0, <3>2, <5>1, <5>2, <5>3 DEF AnswerCreditRequest, u
      <4>2. CASE Answer(i, n, "CreditRequestReply", "refused", 0, revision, ledger)
        <5>1. u.kind = "CreditRequest" /\ UNCHANGED peerOpen /\ 0 \in Grants /\ "refused" \in Results
          BY <3>2 DEF AnswerCreditRequest, u
        <5> QED
          BY <3>0, <4>2, <5>1
      <4> QED
        BY <3>2, <4>1, <4>2 DEF AnswerCreditRequest, c, u
    <3>3. CASE AnswerLookup(i, n)
      BY <3>0, <3>3 DEF AnswerLookup, u
    <3>4. CASE AnswerData(i, n)
      BY <3>0, <3>4 DEF AnswerData, u
    <3> QED
      BY <1>14, <3>1, <3>2, <3>3, <3>4
  <2>3. ReplyTo(u.kind) \in CommandReplies \cup {"Data"} /\ ReplyTo(u.kind) # "OpenChannelReply"
    BY <2>1, <2>2 DEF ReplyTo
  <2>4. PICK q : /\ q \in Packets /\ PacketOK(q)
                 /\ q.kind = ReplyTo(u.kind) /\ q.on = Carrier(u) /\ q.chan = c /\ q.id = u.id
                 /\ Shorter(unanswered', unanswered, i) /\ Longer(Coming', Coming, q)
                 /\ \A d \in Channels : ledger'[d] = ledger[d] + Worth(q, d)
    BY <1>12, <2>2, <2>3
  <2>5. ~OpensChannel(q)
    BY <2>3, <2>4 DEF OpensChannel
  <2> QED
    BY <1>14, <2>2, <2>4, <2>5 DEF AnswersWith, c
<1>15. ASSUME peerActive \/ LateAnswers, UNCHANGED peerActive, NEW n \in Piggyback,
              AnswerOpenChannel(i, n)
       PROVE  \E q : /\ Shorter(unanswered', unanswered, i) /\ Longer(Coming', Coming, q)
                     /\ AnswersWith(u, q)
  <2>1. /\ u.kind = "OpenChannel" /\ ReplyTo(u.kind) = "OpenChannelReply"
        /\ "OpenChannelReply" \in CommandReplies
    BY <1>10, <1>15 DEF AnswerOpenChannel, ReplyTo, u, CommandReplies
  <2>2. CASE Answer(i, n, "OpenChannelReply", "refused", 0, revision, ledger) /\ UNCHANGED peerOpen
    <3>1. PICK q : /\ q \in Packets /\ PacketOK(q) /\ q.result = "refused"
                   /\ q.kind = "OpenChannelReply" /\ q.on = Carrier(u) /\ q.chan = c /\ q.id = u.id
                   /\ Shorter(unanswered', unanswered, i) /\ Longer(Coming', Coming, q)
                   /\ \A d \in Channels : ledger'[d] = ledger[d] + Worth(q, d)
      BY <1>16, <2>1, <2>2
    <3> QED
      BY <1>15, <2>1, <2>2, <3>1 DEF AnswersWith, OpensChannel, c
  <2>3. CASE /\ c \notin peerOpen /\ peerOpen' = peerOpen \cup {c}
             /\ \E g \in Grants : Answer(i, n, "OpenChannelReply", "ok", g, revision, [ledger EXCEPT ![c] = g])
    <3>1. PICK g \in Grants : Answer(i, n, "OpenChannelReply", "ok", g, revision, [ledger EXCEPT ![c] = g])
      BY <2>3
    <3>2. PICK q : /\ q \in Packets /\ PacketOK(q) /\ q.result = "ok" /\ q.added = g
                   /\ q.kind = "OpenChannelReply" /\ q.on = Carrier(u) /\ q.credit = n
                   /\ q.chan = c /\ q.id = u.id
                   /\ Shorter(unanswered', unanswered, i) /\ Longer(Coming', Coming, q)
                   /\ ledger' = Plus([ledger EXCEPT ![c] = g], q.on, n)
      <4> DEFINE fresh == [ledger EXCEPT ![c] = g]
      <4>1. fresh \in Ledgers /\ Answer(i, n, "OpenChannelReply", "ok", g, revision, fresh)
        BY <1>6, <3>1
      <4>2. n \in Nat /\ n >= MinGrant /\ g \in Nat /\ "ok" \in Results
        BY <1>10
      <4>3. "OpenChannelReply" \in Replies \cup {"Data"} /\ "OpenChannelReply" # "InitReply"
        BY <2>1 DEF CommandReplies
      <4> HIDE DEF fresh
      <4>4. \E q : /\ q \in Packets /\ PacketOK(q) /\ q.result = "ok" /\ q.added = g
                  /\ q.kind = "OpenChannelReply" /\ q.on = Carrier(u) /\ q.credit = n
                  /\ q.chan = c /\ q.id = u.id
                  /\ Shorter(unanswered', unanswered, i) /\ Longer(Coming', Coming, q)
                  /\ ledger' = Plus(fresh, q.on, n)
        BY <1>9, <2>1, <4>1, <4>2, <4>3
      <4> QED
        BY <4>4 DEF fresh
    <3>3. q.on = Transaction /\ c # Transaction /\ n \in Nat /\ g \in Nat
      BY <1>10, <2>1, <3>2
    <3>4. ASSUME NEW d \in Channels
          PROVE  ledger'[d] = IF d = c THEN q.added ELSE ledger[d] + Worth(q, d)
      <4>1. ledger'[d] = [ledger EXCEPT ![c] = g][d] + (IF d = Transaction THEN n ELSE 0)
        <5> DEFINE fresh == [ledger EXCEPT ![c] = g]
        <5>1. fresh \in Ledgers /\ ledger' = Plus(fresh, Transaction, n)
          BY <1>6, <3>2, <3>3
        <5> HIDE DEF fresh
        <5>2. ledger'[d] = fresh[d] + (IF d = Transaction THEN n ELSE 0)
          BY <1>7, <3>3, <5>1
        <5> QED
          BY <5>2 DEF fresh
      <4>2. [ledger EXCEPT ![c] = g][d] = (IF d = c THEN g ELSE ledger[d]) /\ ledger[d] \in Int
        BY <1>7
      <4>3. d # c => Worth(q, d) = IF d = Transaction THEN n ELSE 0
        BY <3>2, <3>3 DEF Worth, CreditFor, Opens
      <4> QED
        BY <3>2, <3>3, <4>1, <4>2, <4>3
    <3> QED
      BY <1>15, <2>1, <2>3, <3>2, <3>4 DEF AnswersWith, OpensChannel, c
  <2> QED
    BY <1>15, <2>2, <2>3 DEF AnswerOpenChannel, c, u
<1> QED
  BY <1>1, <1>11, <1>13, <1>14, <1>15 DEF u

\* The printer sends q of its own accord.
Volunteers(q) ==
    /\ q \in Packets /\ PacketOK(q) /\ q.kind \notin Replies \cup {"Data"}
    /\ \A c \in Channels : ledger'[c] = ledger[c] + Worth(q, c)
    /\ \/ q.kind = "Init" /\ ~peerActive /\ UNCHANGED <<peerActive, peerOpen>>
       \/ /\ q.kind = "Exit" /\ peerActive /\ peerActive' = FALSE /\ peerOpen' = {}
          /\ \A i \in 1..Len(Coming) : Coming[i].kind # "Init"
          /\ \A u \in doubtful : u.kind # "InitReply"
       \/ /\ q.kind = "CloseChannel" /\ peerActive /\ UNCHANGED peerActive
          /\ peerOpen' = peerOpen \ {q.chan}
       \/ /\ q.kind \notin {"Init", "Exit", "CloseChannel"} /\ peerActive
          /\ UNCHANGED <<peerActive, peerOpen>>

\* PeerSends puts a well-formed packet on the wire.
LEMMA SendsShape ==
    ASSUME TypeOK, NEW n \in Nat, NEW c \in Channels,
           NEW kind \in PeerCommands \cup {"Malformed", "Oversize"},
           NEW added \in 0..CreditLimit, PeerSends(kind, c, n, added), UNCHANGED received,
           kind \in {"Oversize", "CloseChannel", "Credit"} => c \in Services,
           n \in IF kind = "Init" THEN {0} ELSE Piggyback,
           kind \in {"Init", "Exit"} => c = Transaction,
           added > 0 => kind = "Credit",
           LET on == IF kind = "Oversize" THEN c ELSE Transaction
               books == IF kind = "Init" THEN Plus(ledger, Transaction, 1)
                        ELSE Plus(ledger, on, n)
           IN  ledger' = IF kind = "Credit" THEN Plus(books, c, added) ELSE books
    PROVE  \E q : /\ q \in Packets /\ PacketOK(q) /\ q.kind = kind /\ q.chan = c
                  /\ UNCHANGED unanswered /\ Longer(Coming', Coming, q)
                  /\ \A d \in Channels : ledger'[d] = ledger[d] + Worth(q, d)
<1> DEFINE on == IF kind = "Oversize" THEN c ELSE Transaction
           q == Packet(on, n, kind, c, "ok", added, 0, revision)
<1>1. /\ received \in Seq(Packets) /\ wire \in Seq(Packets) /\ revision \in Revisions
      /\ ledger \in Ledgers
  BY DEF TypeOK, Ledgers
<1>2. Transaction \in Channels /\ on \in Channels /\ Services \subseteq Channels /\ Transaction \notin Services
  BY ChannelAssumption DEF Channels
<1>3. q \in Packets
  <2>1. "ok" \in Results /\ 0 \in Nat
    BY DEF Results
  <2> QED
    BY <1>1, <1>2, <2>1, PacketType
<1>4. q.on = on /\ q.chan = c /\ q.kind = kind /\ q.credit = n /\ q.added = added /\ q.result = "ok"
  BY DEF Packet
<1>5. wire' = Append(wire, q) /\ UNCHANGED unanswered
  BY DEF PeerSends
<1> HIDE DEF q
<1>6. Longer(Coming', Coming, q)
  BY <1>1, <1>5, PutOnWire
<1>7. PacketOK(q)
  BY <1>2, <1>4 DEF PacketOK, PeerCommands, Replies, CommandReplies
<1>8. ASSUME NEW d \in Channels
      PROVE  ledger'[d] = ledger[d] + Worth(q, d)
  <2>1. ledger[d] \in Int /\ added \in Nat
    BY <1>1 DEF Ledgers
  <2>2. CASE kind = "Init"
    <3>1. ledger'[d] = ledger[d] + (IF d = Transaction THEN 1 ELSE 0)
      BY <1>1, <1>2, <2>1, <2>2 DEF Plus, Ledgers
    <3>2. Worth(q, d) = IF d = Transaction THEN 1 ELSE 0
      BY <1>4, <2>2 DEF Worth, CreditFor, Opens
    <3> QED
      BY <3>1, <3>2
  <2>3. CASE kind = "Credit"
    <3>1. ledger' = Plus(Plus(ledger, Transaction, n), c, added)
      BY <2>3
    <3>2. Plus(ledger, Transaction, n) \in Ledgers
      BY <1>1, <1>2, LedgerArithmetic
    <3>3. Plus(ledger, Transaction, n)[d] = ledger[d] + (IF d = Transaction THEN n ELSE 0)
      BY <1>1, <1>2, <2>1 DEF Plus, Ledgers
    <3>4. ledger'[d] = Plus(ledger, Transaction, n)[d] + (IF d = c THEN added ELSE 0)
      <4> DEFINE f == Plus(ledger, Transaction, n)
      <4>1. f \in Ledgers /\ ledger' = Plus(f, c, added)
        BY <3>1, <3>2
      <4> HIDE DEF f
      <4>2. ledger'[d] = f[d] + (IF d = c THEN added ELSE 0)
        BY <2>1, <4>1 DEF Plus, Ledgers
      <4> QED
        BY <4>2 DEF f
    <3>5. Worth(q, d) = (IF d = Transaction THEN n ELSE 0) + (IF d = c THEN added ELSE 0)
      BY <1>2, <1>4, <2>1, <2>3 DEF Worth, CreditFor, Opens
    <3> QED
      BY <2>1, <3>3, <3>4, <3>5
  <2>4. CASE kind \notin {"Init", "Credit"}
    <3>1. ledger'[d] = ledger[d] + (IF d = on THEN n ELSE 0)
      <4>1. ledger' = Plus(ledger, on, n)
        BY <2>4
      <4> HIDE DEF on
      <4> QED
        BY <1>1, <1>2, <2>1, <4>1 DEF Plus, Ledgers
    <3>2. kind \notin Replies
      BY DEF Replies, PeerCommands
    <3>3. Worth(q, d) = IF d = on THEN n ELSE 0
      BY <1>2, <1>4, <2>4, <3>2 DEF Worth, CreditFor, Opens, Replies
    <3> QED
      BY <3>1, <3>3
  <2> QED
    BY <2>2, <2>3, <2>4
<1> QED
  BY <1>3, <1>4, <1>5, <1>6, <1>7, <1>8

\* What the printer sends of its own accord is worth to the host what the
\* printer enters in its ledger, and answers no request.
LEMMA PeerVolunteers ==
    ASSUME TypeOK, Wellformed, Peer, ~PeerAnswers
    PROVE  /\ UNCHANGED link /\ UNCHANGED unanswered
           /\ \E q : Longer(Coming', Coming, q) /\ Volunteers(q)
<1>1. UNCHANGED link /\ UNCHANGED received
  BY DEF Peer, PeerStep, link
<1>2. /\ Piggyback \subseteq Nat /\ Grants \subseteq 0..CreditLimit /\ 0 \in 0..CreditLimit /\ 0 \in Nat
      /\ Transaction \in Channels /\ ~(0 > 0) /\ Services \subseteq Channels /\ peerOpen \subseteq Services
  BY BoundAssumption DEF Piggyback, Grants, Channels, Wellformed
<1>3. /\ PeerCommands = {"Init", "Query", "CloseChannel", "Credit", "Exit", "Error"}
      /\ \A kind \in PeerCommands \cup {"Malformed", "Oversize"} : kind \notin Replies \cup {"Data"}
  BY DEF PeerCommands, Replies
<1> USE <1>1, <1>2, <1>3
<1>4. CASE ~peerActive /\ PeerInit
  <2>1. /\ PeerSends("Init", Transaction, 0, 0) /\ ledger' = Plus(ledger, Transaction, 1)
        /\ UNCHANGED <<peerOpen, peerActive>>
    BY <1>4 DEF PeerInit
  <2>2. PICK q : /\ q \in Packets /\ PacketOK(q) /\ q.kind = "Init"
                 /\ UNCHANGED unanswered /\ Longer(Coming', Coming, q)
                 /\ \A d \in Channels : ledger'[d] = ledger[d] + Worth(q, d)
    BY <2>1, SendsShape
  <2> QED
    BY <1>4, <2>1, <2>2 DEF Volunteers
<1>5. CASE peerActive /\ PeerExit
  <2>1. PICK n \in Piggyback : PeerSends("Exit", Transaction, n, 0) /\ ledger' = Plus(ledger, Transaction, n)
    BY <1>5 DEF PeerExit
  <2>2. PICK q : /\ q \in Packets /\ PacketOK(q) /\ q.kind = "Exit"
                 /\ UNCHANGED unanswered /\ Longer(Coming', Coming, q)
                 /\ \A d \in Channels : ledger'[d] = ledger[d] + Worth(q, d)
    <3>1. "Exit" \in PeerCommands \cup {"Malformed", "Oversize"} /\ n \in Nat
      OBVIOUS
    <3> QED
      BY <1>1, <1>2, <2>1, <3>1, SendsShape
  <2>3. ASSUME NEW i \in 1..Len(Coming)
        PROVE  Coming[i].kind # "Init"
    <3>1. Coming[i].kind = "Init" => Coming[i].chan = Transaction
      BY DEF Wellformed, PacketOK
    <3> QED
      BY <1>5, <3>1 DEF PeerExit, IsComing
  <2> QED
    BY <1>5, <2>2, <2>3 DEF Volunteers, PeerExit
<1>6. CASE peerActive /\ PeerCommand
  <2>1. PICK n \in Piggyback :
          \/ /\ \E kind \in {"Query", "Error", "Malformed"} :
                   PeerSends(kind, Transaction, n, 0)
             /\ ledger' = Plus(ledger, Transaction, n) /\ UNCHANGED peerOpen
          \/ \E c \in peerOpen :
                \/ /\ PeerSends("CloseChannel", c, n, 0)
                   /\ ledger' = Plus(ledger, Transaction, n)
                   /\ peerOpen' = peerOpen \ {c}
                \/ /\ \E g \in Grants :
                         /\ PeerSends("Credit", c, n, g)
                         /\ ledger' = Plus(Plus(ledger, Transaction, n), c, g)
                   /\ UNCHANGED peerOpen
                \/ /\ PeerSends("Oversize", c, n, 0)
                   /\ ledger' = Plus(ledger, c, n) /\ UNCHANGED peerOpen
    BY <1>6 DEF PeerCommand
  <2>2. UNCHANGED peerActive
    BY <1>6 DEF PeerCommand
  <2>3. CASE /\ \E kind \in {"Query", "Error", "Malformed"} : PeerSends(kind, Transaction, n, 0)
             /\ ledger' = Plus(ledger, Transaction, n) /\ UNCHANGED peerOpen
    <3>1. PICK kind \in {"Query", "Error", "Malformed"} : PeerSends(kind, Transaction, n, 0)
      BY <2>3
    <3>2. PICK q : /\ q \in Packets /\ PacketOK(q) /\ q.kind = kind
                   /\ UNCHANGED unanswered /\ Longer(Coming', Coming, q)
                   /\ \A d \in Channels : ledger'[d] = ledger[d] + Worth(q, d)
      <4>1. kind \in PeerCommands \cup {"Malformed"} /\ kind \notin {"Init", "Exit", "Credit", "Oversize"}
        OBVIOUS
      <4> QED
        BY <1>2, <2>3, <3>1, <4>1, SendsShape
    <3> QED
      BY <1>6, <2>2, <2>3, <3>2 DEF Volunteers
  <2>4. ASSUME NEW c \in peerOpen, PeerSends("CloseChannel", c, n, 0),
               ledger' = Plus(ledger, Transaction, n), peerOpen' = peerOpen \ {c}
        PROVE  UNCHANGED unanswered /\ \E q : Longer(Coming', Coming, q) /\ Volunteers(q)
    <3>1. PICK q : /\ q \in Packets /\ PacketOK(q) /\ q.kind = "CloseChannel" /\ q.chan = c
                   /\ UNCHANGED unanswered /\ Longer(Coming', Coming, q)
                   /\ \A d \in Channels : ledger'[d] = ledger[d] + Worth(q, d)
      <4>1. c \in Services /\ c \in Channels /\ "CloseChannel" \notin {"Init", "Exit", "Credit", "Oversize"}
        OBVIOUS
      <4> QED
        BY <1>2, <1>3, <2>4, <4>1, SendsShape
    <3> QED
      BY <1>6, <2>2, <2>4, <3>1 DEF Volunteers
  <2>5. ASSUME NEW c \in peerOpen, NEW g \in Grants, PeerSends("Credit", c, n, g),
               ledger' = Plus(Plus(ledger, Transaction, n), c, g), UNCHANGED peerOpen
        PROVE  UNCHANGED unanswered /\ \E q : Longer(Coming', Coming, q) /\ Volunteers(q)
    <3>1. PICK q : /\ q \in Packets /\ PacketOK(q) /\ q.kind = "Credit" /\ q.chan = c
                   /\ UNCHANGED unanswered /\ Longer(Coming', Coming, q)
                   /\ \A d \in Channels : ledger'[d] = ledger[d] + Worth(q, d)
      <4>1. c \in Services /\ c \in Channels /\ n \in Nat /\ g \in 0..CreditLimit
        OBVIOUS
      <4>2. "Credit" \notin {"Init", "Exit", "Oversize"} /\ "Credit" \in PeerCommands
        BY DEF PeerCommands
      <4>3. PeerSends("Credit", c, n, g) /\ ledger' = Plus(Plus(ledger, Transaction, n), c, g)
            /\ UNCHANGED received
        BY <2>5
      <4> QED
        BY <4>1, <4>2, <4>3, SendsShape
    <3> QED
      BY <1>6, <2>2, <2>5, <3>1 DEF Volunteers
  <2>6. ASSUME NEW c \in peerOpen, PeerSends("Oversize", c, n, 0),
               ledger' = Plus(ledger, c, n), UNCHANGED peerOpen
        PROVE  UNCHANGED unanswered /\ \E q : Longer(Coming', Coming, q) /\ Volunteers(q)
    <3>1. PICK q : /\ q \in Packets /\ PacketOK(q) /\ q.kind = "Oversize" /\ q.chan = c
                   /\ UNCHANGED unanswered /\ Longer(Coming', Coming, q)
                   /\ \A d \in Channels : ledger'[d] = ledger[d] + Worth(q, d)
      <4>1. c \in Services /\ c \in Channels /\ "Oversize" \notin {"Init", "Exit", "Credit"}
        OBVIOUS
      <4> QED
        BY <2>6, <4>1, SendsShape
    <3> QED
      BY <1>6, <2>2, <2>6, <3>1 DEF Volunteers
  <2> QED
    BY <2>1, <2>3, <2>4, <2>5, <2>6
<1> QED
  BY <1>4, <1>5, <1>6 DEF Peer

-----------------------------------------------------------------------------
(* Channels, headers and targets are what they should be.                  *)

\* A call never changes its channel, and moves on to its next wait only.
LEMMA IterationTarget ==
    ASSUME TargetOK, NEW p, NEW rest, NEW written, Iterates(p, rest, written)
    PROVE  TargetOK' /\ target' = target /\ pc' \in {pc, "idle", "InitReply10", "OpenChannelReply", "Data"}
<1> USE DEF TargetOK, Wait, Fail, Returns, End, Silent
<1>1. CASE Dropped(p, rest) \/ Rejected(p, rest) \/ DataArrived(p, rest)
  BY <1>1 DEF Dropped, Rejected, DataArrived
<1>2. CASE HandlePeerTransaction(p, Accrued(p), written)
  BY <1>2 DEF HandlePeerTransaction, HandleInit, HandleQuery, HandleCloseChannel,
              HandleCredit, HandleExit, HandleError, NotAnswered
<1>3. CASE HandleReply(p, Accrued(p), written)
  BY <1>3 DEF HandleReply, InitReplied, SocketResolved, ChannelOpened, NameResolved,
              ChannelClosed, ExitReplied, CreditRequested, Command, SendData, InitWaits
<1> QED
  BY <1>1, <1>2, <1>3 DEF Iterates, TransactionArrived

\* What a write that fails in an iteration may have carried: an answer, the
\* answer to the Init that begins the conversation, the other Init of a call
\* that initializes, or the next request of another call.
DoubtedBy(p, u) ==
    \/ u.kind = "Reply"
    \/ /\ u.kind = "InitReply" /\ p.kind = "Init"
       /\ conversation = "Inactive" /\ conversation' = "Active" /\ UNCHANGED chan
    \/ /\ u.kind = "Init" /\ u.chan = Transaction /\ pc \in InitWaits
       /\ UNCHANGED <<chan, conversation>>
    \/ /\ u.kind \in {"OpenChannel", "CreditRequest", "Data"} /\ u.chan \in Services
       /\ pc \notin InitWaits /\ UNCHANGED conversation

\* A write that fails in an iteration ends the call, and nothing is asked.
LEMMA IterationDoubts ==
    ASSUME TargetOK, pc # "idle", doubtful = {}, NEW p, NEW rest, NEW written \in BOOLEAN,
           Iterates(p, rest, written), NEW u \in doubtful'
    PROVE  pc' = "idle" /\ clean' = FALSE /\ UNCHANGED unanswered /\ DoubtedBy(p, u)
<1> USE DEF Doubt, Fail, End, Silent, NotAnswered, DoubtedBy
<1>1. CASE UNCHANGED doubtful
  BY <1>1
<1>2. CASE HandlePeerTransaction(p, Accrued(p), written)
  <2>1. CASE HandleInit(p, Accrued(p), written)
    <3>1. ~written /\ conversation = "Inactive" /\ u = Request("InitReply", Transaction, 0)
      BY <2>1 DEF HandleInit
    <3>2. u.kind = "InitReply"
      BY <3>1 DEF Request
    <3> QED
      BY <2>1, <3>1, <3>2 DEF HandleInit
  <2>2. CASE ~HandleInit(p, Accrued(p), written)
    <3>1. u.kind = "Reply"
      BY <1>2, <2>2 DEF HandlePeerTransaction, HandleQuery, HandleCloseChannel, HandleCredit,
                        HandleExit, HandleError, Reply, Request
    <3> QED
      BY <1>2, <2>2, <3>1 DEF HandlePeerTransaction, HandleQuery, HandleCloseChannel,
                        HandleCredit, HandleExit, HandleError
  <2> QED
    BY <2>1, <2>2
<1>3. CASE InitReplied(p, Accrued(p), written)
  <2>1. ~written /\ p.result # "ok" /\ pc \in InitWaits /\ u = Request("Init", Transaction, 0)
    BY <1>3 DEF InitReplied, InitWaits
  <2>2. u.kind = "Init" /\ u.chan = Transaction
    BY <2>1 DEF Request
  <2> QED
    BY <1>3, <2>1, <2>2 DEF InitReplied
<1>4. CASE SocketResolved(p, Accrued(p), written)
  <2>1. pc = "GetSocketIdReply" /\ target \in Services
    BY <1>4 DEF SocketResolved, TargetOK, InitWaits
  <2>2. u.kind = "OpenChannel" /\ u.chan = target
    BY <1>4 DEF SocketResolved, Request
  <2> QED
    BY <1>4, <2>1, <2>2 DEF SocketResolved, InitWaits
<1>5. CASE CreditRequested(p, Accrued(p), written)
  <2>1. pc = "CreditRequestReply" /\ target \in Services
    BY <1>5 DEF CreditRequested, TargetOK, InitWaits
  <2>2. u.kind \in {"CreditRequest", "Data"} /\ u.chan = target /\ ~written
    BY <1>5 DEF CreditRequested, Request
  <2> QED
    BY <1>5, <2>1, <2>2 DEF CreditRequested, InitWaits
<1> QED
  BY <1>1, <1>2, <1>3, <1>4, <1>5
     DEF Iterates, Dropped, Rejected, DataArrived, TransactionArrived, LinkUnchanged,
         HandleReply, ChannelOpened, NameResolved, ChannelClosed, ExitReplied

\* A well-formed request joins well-formed requests.
LEMMA LongerUnanswered ==
    ASSUME NEW u, Longer(unanswered', unanswered, u), RequestOK(u), Len(unanswered) \in Nat,
           \A i \in 1..Len(unanswered) : RequestOK(unanswered[i])
    PROVE  \A i \in 1..Len(unanswered') : RequestOK(unanswered'[i])
  BY DEF Longer

\* A well-formed packet joins well-formed packets.
LEMMA LongerComing ==
    ASSUME NEW q, Longer(Coming', Coming, q), PacketOK(q), Len(Coming) \in Nat,
           \A i \in 1..Len(Coming) : PacketOK(Coming[i])
    PROVE  \A i \in 1..Len(Coming') : PacketOK(Coming'[i])
  BY DEF Longer

\* Both queues are sequences of what they should hold.
LEMMA QueueLengths ==
    TypeOK => /\ Len(unanswered) \in Nat /\ Len(Coming) \in Nat /\ Coming \in Seq(Packets)
              /\ \A i \in 1..Len(Coming) : Coming[i] \in Packets
              /\ \A i \in 1..Len(unanswered) : /\ unanswered[i].kind \in Requests
                                              /\ unanswered[i].chan \in Channels
<1> SUFFICES ASSUME TypeOK
             PROVE  /\ Len(unanswered) \in Nat /\ Coming \in Seq(Packets)
                    /\ \A i \in 1..Len(unanswered) :
                          unanswered[i] \in [kind : Requests, chan : Channels, id : Nat]
  BY ElementOfSeq
<1>1. received \in Seq(Packets) /\ wire \in Seq(Packets)
      /\ unanswered \in Seq([kind : Requests, chan : Channels, id : Nat])
  BY DEF TypeOK
<1>2. Coming \in Seq(Packets)
  BY <1>1, ConcatProperties DEF Coming
<1>3. \A i \in 1..Len(unanswered) : unanswered[i] \in [kind : Requests, chan : Channels, id : Nat]
  BY <1>1, ElementOfSeq
<1>4. Len(unanswered) \in Nat
  BY <1>1, LenProperties
<1> QED
  BY <1>2, <1>3, <1>4

-----------------------------------------------------------------------------
(* The order of what is on its way.                                        *)

\* No Init of the host is unanswered, and no reply to one is on its way.
NoInitPending ==
    /\ \A i \in 1..Len(unanswered) : unanswered[i].kind # "Init"
    /\ \A i \in 1..Len(Coming) : Coming[i].kind # "InitReply"
\* Nothing but Inits is unanswered, and no other reply is on its way.
OnlyInitsPending ==
    /\ \A i \in 1..Len(unanswered) : unanswered[i].kind = "Init"
    /\ \A i \in 1..Len(Coming) : Coming[i].kind \notin CommandReplies

\* Inits are asked before anything else and answered before anything else.
InitsFirst ==
    /\ \A i, j \in 1..Len(unanswered) :
          unanswered[i].kind \notin {"Init", "Data"} /\ unanswered[j].kind = "Init" => j < i
    /\ \A i \in 1..Len(Coming) : Coming[i].kind \in CommandReplies =>
          /\ \A j \in 1..Len(unanswered) : unanswered[j].kind # "Init"
          /\ \A j \in 1..Len(Coming) : Coming[j].kind = "InitReply" => j < i

\* The printer does not leave behind an Init of its own; once it has left it
\* is in a conversation again only when it has answered a later Init of the
\* host; and it has left when it has answered the host's Exit.
Leaving ==
    /\ \A i, j \in 1..Len(Coming) :
          Coming[i].kind = "Init" /\ Coming[j].kind = "Exit" => j < i
    /\ peerActive => \A j \in 1..Len(Coming) : Coming[j].kind = "Exit" =>
          \E k \in 1..Len(Coming) : j < k /\ Coming[k].kind = "InitReply"
    /\ \A i \in 1..Len(Coming) : Coming[i].kind = "ExitReply" => ~peerActive

\* Before the host is in a conversation, nothing comes before what begins
\* one, and there is no credit to answer it with; while the host initializes,
\* there is no channel and nothing else is asked; a channel, or a request
\* about one, means that no Init is pending.
Beginning ==
    /\ conversation = "Inactive" =>
          /\ pc \in InitWaits \cup {"idle"}
          /\ credit[Transaction] = 0 /\ chan[Transaction] = "open"
          /\ \A i \in 1..Len(Coming) :
                Coming[i].on = Transaction /\ Coming[i].kind \notin {"Init", "InitReply"}
                => \E j \in 1..Len(Coming) : j < i /\ Opens(Coming[j])
          /\ peerActive => \E j \in 1..Len(Coming) : Opens(Coming[j])
    /\ conversation = "Inactive" \/ pc \in InitWaits =>
          OnlyInitsPending /\ \A c \in Services : chan[c] = "absent"
    /\ (\E c \in Services : chan[c] # "absent") \/ pc \in {"OpenChannelReply", "CreditRequestReply", "Data"}
          => NoInitPending

\* A packet of a failed write is doubtful only until the next call starts.  An
\* Init, or the answer to one, is doubtful only while nothing else is asked and
\* there is no channel; any other request only in a conversation; the answer to
\* an Init only while no Exit is on its way.
Lost ==
    /\ doubtful # {} => pc = "idle" /\ ~clean
    /\ \A u \in doubtful :
          /\ u.kind \in Requests => RequestOK(u)
          /\ u.kind \in {"Init", "InitReply"} =>
                OnlyInitsPending /\ \A c \in Services : chan[c] = "absent"
          /\ u.kind \notin {"Init", "Reply"} => conversation # "Inactive"
          /\ u.kind = "InitReply" => \A i \in 1..Len(Coming) : Coming[i].kind # "Exit"

\* How a packet arrives though its write failed.
LEMMA ArrivesShape ==
    ASSUME TypeOK, Lost, Arrives
    PROVE  /\ pc = "idle" /\ ~clean /\ doubtful' = {}
           /\ UNCHANGED <<conversation, chan, credit, Coming, pc, target, serial, clean,
                          outcome, answered, deferred, peerOpen>>
           /\ \E u \in doubtful :
                 /\ Charged(u)
                 /\ \/ u.kind \notin Requests /\ UNCHANGED unanswered
                    \/ /\ u.kind \in Requests /\ RequestOK(u) /\ u.kind # "InitReply"
                       /\ Longer(unanswered', unanswered, u)
                 /\ peerActive' = (peerActive \/ u.kind = "InitReply")
                 /\ abandoned' = (abandoned \/ u.kind = "OpenChannel")
<1>1. UNCHANGED <<conversation, chan, credit, Coming, pc, target, serial, clean,
                  outcome, answered, deferred, peerOpen>>
  BY DEF Arrives, Coming
<1>2. PICK u \in doubtful :
         /\ Charged(u)
         /\ unanswered' = IF u.kind \in Requests THEN Append(unanswered, u) ELSE unanswered
         /\ peerActive' = (peerActive \/ u.kind = "InitReply")
         /\ abandoned' = (abandoned \/ u.kind = "OpenChannel")
  BY DEF Arrives
<1>3. ~clean
  BY DEF Lost
<1>4. u.kind \in Requests => Longer(unanswered', unanswered, u) /\ RequestOK(u) /\ u.kind # "InitReply"
  BY <1>2, AppendLonger DEF TypeOK, Lost, Requests
<1> QED
  BY <1>1, <1>2, <1>3, <1>4 DEF Arrives

\* Every step keeps the channels, headers and targets as they should be.
LEMMA WellformedStep == TypeOK /\ Wellformed /\ Lost /\ Next => Wellformed'
<1> SUFFICES ASSUME TypeOK, Wellformed, Lost, Next
             PROVE  Wellformed'
  OBVIOUS
<1>0. Len(unanswered) \in Nat /\ Len(Coming) \in Nat
  BY QueueLengths
<1> USE DEF Wellformed
<1>1. CASE Start
  <2>1. Coming' = Coming /\ UNCHANGED peerOpen
    BY <1>1, StartAsks DEF Coming
  <2>2. CASE UNCHANGED <<unanswered, pc, target>>
    BY <2>1, <2>2 DEF TargetOK
  <2>3. CASE \E u : Asks(u)
    BY <1>0, <2>1, <2>3, LongerUnanswered DEF Asks
  <2> QED
    BY <1>1, <2>2, <2>3, StartAsks
<1>2. CASE Receive
  <2>1. PICK written, rest, m, w :
           /\ written \in BOOLEAN
           /\ Iterates(Coming[1], rest, written) /\ Moves(Coming', Coming, m, w)
    BY <1>2, Iteration
  <2>2. UNCHANGED peerOpen /\ Coming[1] \in Packets /\ pc # "idle"
    BY <1>2, Iteration DEF Receive
  <2>3. \A i \in 1..Len(Coming') : PacketOK(Coming'[i])
    BY <2>1 DEF Moves
  <2>4. TargetOK'
    BY <2>1, IterationTarget
  <2>5. UNCHANGED unanswered \/ \E u : Asks(u)
    BY <2>1, <2>2, IterationAsks DEF IterationAsksFor
  <2>6. \A i \in 1..Len(unanswered') : RequestOK(unanswered'[i])
    BY <1>0, <2>5, LongerUnanswered DEF Asks
  <2> QED
    BY <2>2, <2>3, <2>4, <2>6
<1>3. CASE ReadFails
  BY <1>3 DEF ReadFails, Fail, End, Silent, Coming, TargetOK
<1>4. CASE PeerAnswers
  <2>1. PICK i, q :
           /\ i \in Answerable /\ i \in 1..Len(unanswered)
           /\ Shorter(unanswered', unanswered, i) /\ Longer(Coming', Coming, q)
           /\ AnswersWith(unanswered[i], q)
    BY <1>4, PeerAnswersShape
  <2>2. \A j \in 1..Len(unanswered') : RequestOK(unanswered'[j])
    BY <1>0, <2>1 DEF Shorter
  <2>3. \A j \in 1..Len(Coming') : PacketOK(Coming'[j])
    BY <1>0, <2>1, LongerComing DEF AnswersWith
  <2>4. RequestOK(unanswered[i])
    BY <2>1
  <2>5. peerOpen' \subseteq Services
    <3>1. OpensChannel(q) => unanswered[i].chan \in Services
      BY <2>1 DEF AnswersWith, OpensChannel, PacketOK, CommandReplies, Replies
    <3> QED
      BY <2>1, <3>1 DEF AnswersWith
  <2>6. UNCHANGED <<pc, target>>
    BY <1>4, PeerAnswersShape DEF link
  <2> QED
    BY <2>2, <2>3, <2>5, <2>6 DEF TargetOK
<1>5. CASE Peer /\ ~PeerAnswers
  <2>1. PICK q : Longer(Coming', Coming, q) /\ Volunteers(q)
    BY <1>5, PeerVolunteers
  <2>2. UNCHANGED <<unanswered, pc, target>>
    BY <1>5, PeerVolunteers DEF link
  <2>3. \A j \in 1..Len(Coming') : PacketOK(Coming'[j])
    BY <1>0, <2>1, LongerComing DEF Volunteers
  <2>4. peerOpen' \subseteq Services
    BY <2>1 DEF Volunteers
  <2> QED
    BY <2>2, <2>3, <2>4 DEF TargetOK
<1>6. CASE Arrives
  <2>1. PICK u \in doubtful :
           \/ UNCHANGED unanswered
           \/ RequestOK(u) /\ Longer(unanswered', unanswered, u)
    BY <1>6, ArrivesShape
  <2>2. UNCHANGED <<Coming, peerOpen, pc, target>>
    BY <1>6, ArrivesShape
  <2>3. \A i \in 1..Len(unanswered') : RequestOK(unanswered'[i])
    BY <1>0, <2>1, LongerUnanswered
  <2> QED
    BY <2>2, <2>3 DEF TargetOK
<1> QED
  BY <1>1, <1>2, <1>3, <1>4, <1>5, <1>6 DEF Next, Host, Peer

\* Every step keeps what is known of a doubtful packet.
LEMMA LostStep ==
    TypeOK /\ Wellformed /\ Leaving /\ Beginning /\ Lost /\ Next => Lost'
<1> SUFFICES ASSUME TypeOK, Wellformed, Leaving, Beginning, Lost, Next
             PROVE  Lost'
  OBVIOUS
<1>0. Len(unanswered) \in Nat /\ Len(Coming) \in Nat
  BY QueueLengths
<1>1. CASE Start
  <2>1. /\ UNCHANGED <<Coming, chan, conversation>> /\ pc = "idle"
    BY <1>1, StartAsks DEF Coming
  <2>2. CASE doubtful' = {}
    BY <2>2 DEF Lost
  <2>3. CASE UNCHANGED <<unanswered, pc>> /\ clean' = FALSE /\ CouldBeAsked
    <3>1. \A u \in doubtful' : u.kind # "InitReply"
      BY <2>3 DEF CouldBeAsked, Requests
    <3>2. conversation = "Inactive" => OnlyInitsPending /\ \A c \in Services : chan[c] = "absent"
      BY DEF Beginning
    <3>3. conversation = "Inactive" => ~(credit[Transaction] > 0)
      BY DEF Beginning
    <3>4. OnlyInitsPending => OnlyInitsPending'
      BY <2>1, <2>3 DEF OnlyInitsPending
    <3> QED
      BY <2>1, <2>3, <3>1, <3>2, <3>3, <3>4 DEF Lost, CouldBeAsked
  <2> QED
    BY <1>1, <2>2, <2>3, StartAsks
<1>2. CASE Receive
  <2>1. PICK written, rest, m, w :
           /\ written \in BOOLEAN
           /\ Iterates(Coming[1], rest, written) /\ Moves(Coming', Coming, m, w)
    BY <1>2, Iteration
  <2>2. pc # "idle" /\ doubtful = {} /\ 1 \in 1..Len(Coming)
    BY <1>0, <1>2, Iteration DEF Receive, Lost
  <2>3. ASSUME NEW u \in doubtful'
        PROVE  pc' = "idle" /\ clean' = FALSE /\ UNCHANGED unanswered /\ DoubtedBy(Coming[1], u)
    BY <2>1, <2>2, IterationDoubts DEF Wellformed
  <2>4. \A i \in 1..Len(Coming') : m[i] \in 1..Len(Coming) /\ Coming'[i] = Coming[m[i]]
    BY <2>1 DEF Moves
  <2>5. ASSUME NEW u \in doubtful'
        PROVE  /\ u.kind \in Requests => RequestOK(u)
               /\ u.kind \in {"Init", "InitReply"} =>
                     OnlyInitsPending' /\ \A c \in Services : chan'[c] = "absent"
               /\ u.kind \notin {"Init", "Reply"} => conversation' # "Inactive"
               /\ u.kind = "InitReply" => \A i \in 1..Len(Coming') : Coming'[i].kind # "Exit"
    <3>1. UNCHANGED unanswered /\ DoubtedBy(Coming[1], u)
      BY <2>3, <2>5
    <3>2. OnlyInitsPending => OnlyInitsPending'
      BY <2>4, <3>1 DEF OnlyInitsPending
    <3>3. u.kind \in Requests => RequestOK(u)
      BY <3>1 DEF DoubtedBy, RequestOK, Requests
    <3>4. u.kind \in {"Init", "InitReply"} =>
             OnlyInitsPending /\ \A c \in Services : chan'[c] = "absent"
      BY <3>1 DEF DoubtedBy, Beginning
    <3>5. u.kind \notin {"Init", "Reply"} => conversation' # "Inactive"
      BY <2>2, <3>1 DEF DoubtedBy, Beginning
    <3>6. u.kind = "InitReply" => \A i \in 1..Len(Coming) : Coming[i].kind # "Exit"
      <4>1. u.kind = "InitReply" => Coming[1].kind = "Init"
        BY <3>1 DEF DoubtedBy
      <4> QED
        BY <2>2, <4>1 DEF Leaving
    <3> QED
      BY <2>4, <3>2, <3>3, <3>4, <3>5, <3>6
  <2> QED
    BY <2>3, <2>5 DEF Lost
<1>3. CASE ReadFails
  BY <1>3 DEF ReadFails, LinkUnchanged, Lost
<1>4. CASE Peer
  <2>1. UNCHANGED <<doubtful, pc, clean, chan, conversation>>
    BY <1>4 DEF Peer, PeerAnswers, PeerStep, link
  <2>2. CASE PeerAnswers
    <3>1. PICK i, q :
             /\ i \in Answerable /\ i \in 1..Len(unanswered)
             /\ Shorter(unanswered', unanswered, i) /\ Longer(Coming', Coming, q)
             /\ AnswersWith(unanswered[i], q)
      BY <2>2, PeerAnswersShape
    <3>2. q.kind \in Replies \cup {"Data"}
      BY <3>1, QueueLengths DEF AnswersWith, ReplyTo, Requests, Replies
    <3>3. q.kind # "Exit"
      BY <3>2 DEF Replies
    <3>4. OnlyInitsPending => OnlyInitsPending'
      <4> SUFFICES ASSUME OnlyInitsPending
                   PROVE  OnlyInitsPending'
        OBVIOUS
      <4>1. q.kind \notin CommandReplies
        BY <3>1 DEF OnlyInitsPending, AnswersWith, ReplyTo, CommandReplies
      <4> QED
        BY <1>0, <3>1, <4>1 DEF OnlyInitsPending, Shorter, Longer
    <3>5. (\A k \in 1..Len(Coming) : Coming[k].kind # "Exit")
          => \A k \in 1..Len(Coming') : Coming'[k].kind # "Exit"
      BY <1>0, <3>1, <3>3 DEF Longer
    <3> QED
      BY <2>1, <3>4, <3>5 DEF Lost
  <2>3. CASE ~PeerAnswers
    <3>1. PICK q : Longer(Coming', Coming, q) /\ Volunteers(q)
      BY <1>4, <2>3, PeerVolunteers
    <3>2. UNCHANGED unanswered
      BY <1>4, <2>3, PeerVolunteers
    <3>3. q.kind \notin CommandReplies
      BY <3>1 DEF Volunteers, CommandReplies
    <3>4. OnlyInitsPending => OnlyInitsPending'
      BY <1>0, <3>1, <3>2, <3>3 DEF OnlyInitsPending, Longer
    <3>5. ASSUME NEW u \in doubtful, u.kind = "InitReply"
          PROVE  \A k \in 1..Len(Coming') : Coming'[k].kind # "Exit"
      <4>1. q.kind # "Exit"
        BY <3>1, <3>5 DEF Volunteers
      <4> QED
        BY <1>0, <3>1, <3>5, <4>1 DEF Longer, Lost
    <3> QED
      BY <2>1, <3>4, <3>5 DEF Lost
  <2> QED
    BY <2>2, <2>3
<1>5. CASE Arrives
  BY <1>5 DEF Arrives, Lost
<1> QED
  BY <1>1, <1>2, <1>3, <1>4, <1>5 DEF Next, Host

\* No step puts anything but Inits before the first reply to an Init.
LEMMA InitsFirstStep ==
    TypeOK /\ Wellformed /\ InitsFirst /\ Beginning /\ Lost /\ Next => InitsFirst'
<1> SUFFICES ASSUME TypeOK, Wellformed, InitsFirst, Beginning, Lost, Next
             PROVE  InitsFirst'
  OBVIOUS
<1>0. Len(unanswered) \in Nat /\ Len(Coming) \in Nat
  BY QueueLengths
\* A request written behind the others keeps the order: an Init is written
\* only when nothing else is pending.
<1>1. ASSUME NEW u, Longer(unanswered', unanswered, u), u.kind = "Init" => OnlyInitsPending,
             \A i \in 1..Len(Coming') : Coming'[i].kind \in CommandReplies =>
                \E k \in 1..Len(Coming) : Coming[k].kind \in CommandReplies
      PROVE  /\ \A i, j \in 1..Len(unanswered') :
                   unanswered'[i].kind \notin {"Init", "Data"} /\ unanswered'[j].kind = "Init" => j < i
             /\ \A i \in 1..Len(Coming') : Coming'[i].kind \in CommandReplies =>
                   \A j \in 1..Len(unanswered') : unanswered'[j].kind # "Init"
  <2>1. \A i \in 1..Len(unanswered') : \/ i \in 1..Len(unanswered) /\ unanswered'[i] = unanswered[i]
                                       \/ i = Len(unanswered) + 1 /\ unanswered'[i] = u
    BY <1>0, <1>1, LongerOrder
  <2>2. ASSUME NEW i \in 1..Len(unanswered'), NEW j \in 1..Len(unanswered'),
               unanswered'[i].kind \notin {"Init", "Data"}, unanswered'[j].kind = "Init"
        PROVE  j < i
    <3>1. CASE j \in 1..Len(unanswered) /\ unanswered'[j] = unanswered[j]
      BY <1>0, <2>1, <2>2, <3>1 DEF InitsFirst
    <3>2. CASE j = Len(unanswered) + 1 /\ unanswered'[j] = u
      BY <1>0, <1>1, <2>1, <2>2, <3>2 DEF OnlyInitsPending
    <3> QED
      BY <2>1, <3>1, <3>2
  <2>3. ASSUME NEW i \in 1..Len(Coming'), Coming'[i].kind \in CommandReplies,
               NEW j \in 1..Len(unanswered'), unanswered'[j].kind = "Init"
        PROVE  FALSE
    <3>1. PICK k \in 1..Len(Coming) : Coming[k].kind \in CommandReplies
      BY <1>1, <2>3
    <3> QED
      BY <1>1, <2>1, <2>3, <3>1 DEF InitsFirst, OnlyInitsPending
  <2> QED
    BY <2>2, <2>3
<1>2. CASE Start
  <2>1. Coming' = Coming
    BY <1>2, StartAsks DEF Coming
  <2>2. CASE UNCHANGED unanswered
    BY <2>1, <2>2 DEF InitsFirst
  <2>3. ASSUME NEW u, Asks(u), u.kind = "Init" => conversation = "Inactive"
        PROVE  InitsFirst'
    <3>1. u.kind = "Init" => OnlyInitsPending
      BY <2>3 DEF Beginning
    <3> QED
      BY <1>1, <2>1, <2>3, <3>1 DEF InitsFirst, Asks
  <2> QED
    BY <1>2, <2>2, <2>3, StartAsks
<1>3. CASE Receive
  <2>1. PICK written, rest, m, w :
           /\ written \in BOOLEAN
           /\ Iterates(Coming[1], rest, written) /\ Moves(Coming', Coming, m, w)
    BY <1>3, Iteration
  <2>2. Coming[1] \in Packets /\ pc # "idle"
    BY <1>3, Iteration DEF Receive
  <2>3. \A i \in 1..Len(Coming) : Coming[i].kind \in CommandReplies \cup {"InitReply"} => i \in OnTransaction(Coming)
    BY DEF Wellformed, PacketOK, CommandReplies, Replies, OnTransaction
  <2>4. \A i \in 1..Len(Coming') : Coming'[i].kind \in CommandReplies \cup {"InitReply"} => i \in OnTransaction(Coming')
    BY <2>1, <2>3 DEF Moves, OnTransaction
  <2>5. ASSUME NEW i \in 1..Len(Coming'), NEW j \in 1..Len(Coming'),
               Coming'[i].kind \in CommandReplies, Coming'[j].kind = "InitReply"
        PROVE  j < i
    <3>1. i \in OnTransaction(Coming') /\ j \in OnTransaction(Coming')
      BY <2>4, <2>5
    <3>2. m[j] < m[i]
      BY <2>1, <2>5 DEF Moves, InitsFirst
    <3>3. i # j
      BY <2>5 DEF CommandReplies
    <3>4. m[i] \in Nat /\ m[j] \in Nat /\ i \in Nat /\ j \in Nat
      BY <2>1 DEF Moves
    <3> QED
      BY <2>1, <3>1, <3>2, <3>3, <3>4 DEF Moves
  <2>6. \A i \in 1..Len(Coming') : Coming'[i].kind \in CommandReplies =>
            \E k \in 1..Len(Coming) : Coming[k].kind \in CommandReplies
    BY <2>1 DEF Moves
  <2>7. CASE UNCHANGED unanswered
    <3>1. \A i \in 1..Len(Coming') : Coming'[i].kind \in CommandReplies =>
             \A j \in 1..Len(unanswered) : unanswered[j].kind # "Init"
      BY <2>6 DEF InitsFirst
    <3> QED
      BY <2>5, <2>7, <3>1 DEF InitsFirst
  <2>8. ASSUME NEW u, IterationAsksFor(Coming[1], u)
        PROVE  InitsFirst'
    <3>1. u.kind = "Init" => OnlyInitsPending
      BY <2>8 DEF Beginning, IterationAsksFor
    <3>2. Longer(unanswered', unanswered, u)
      BY <2>8 DEF IterationAsksFor, Asks
    <3> QED
      BY <1>1, <2>5, <2>6, <3>1, <3>2 DEF InitsFirst
  <2> QED
    BY <2>1, <2>2, <2>7, <2>8, IterationAsks DEF Wellformed
<1>4. CASE ReadFails
  BY <1>4 DEF ReadFails, Silent, Coming, InitsFirst
<1>5. CASE PeerAnswers
  <2>1. PICK i, q :
           /\ i \in Answerable /\ i \in 1..Len(unanswered)
           /\ Shorter(unanswered', unanswered, i) /\ Longer(Coming', Coming, q)
           /\ AnswersWith(unanswered[i], q)
    BY <1>5, PeerAnswersShape
  <2>0. PICK m :
           /\ \A j \in 1..Len(unanswered') : /\ m[j] \in 1..Len(unanswered) /\ m[j] # i
                                           /\ unanswered'[j] = unanswered[m[j]]
           /\ \A j, k \in 1..Len(unanswered') : m[j] < m[k] => j < k
    BY <1>0, <2>1, ShorterOrder
  <2>2. \A j, k \in 1..Len(unanswered') :
           unanswered'[j].kind \notin {"Init", "Data"} /\ unanswered'[k].kind = "Init" => k < j
    BY <2>0 DEF InitsFirst
  <2>3. \A j \in 1..Len(unanswered') : \E k \in 1..Len(unanswered) :
           k # i /\ unanswered'[j] = unanswered[k]
    BY <2>0
  <2>4. CASE unanswered[i].kind = "Init"
    <3>1. \A k \in 1..Len(Coming) : Coming[k].kind \notin CommandReplies
      BY <2>1, <2>4 DEF InitsFirst
    <3>2. q.kind = "InitReply"
      BY <2>1, <2>4 DEF AnswersWith, ReplyTo
    <3>3. \A k \in 1..Len(Coming') : Coming'[k].kind \notin CommandReplies
      <4>1. q.kind \notin CommandReplies
        BY <3>2 DEF CommandReplies
      <4> QED
        BY <1>0, <2>1, <3>1, <4>1, LongerOrder
    <3> QED
      BY <2>2, <3>3 DEF InitsFirst
  <2>5. CASE unanswered[i].kind # "Init"
    <3>1. q.kind # "InitReply"
      BY <1>0, <2>1, <2>5, QueueLengths DEF AnswersWith, ReplyTo, Requests
    <3>2. q.kind \in CommandReplies => \A k \in 1..Len(unanswered) : unanswered[k].kind # "Init"
      <4> SUFFICES ASSUME q.kind \in CommandReplies, NEW k \in 1..Len(unanswered),
                          unanswered[k].kind = "Init"
                   PROVE  FALSE
        OBVIOUS
      <4>1. unanswered[i].kind # "Data"
        BY <2>1 DEF AnswersWith, ReplyTo, CommandReplies, Replies
      <4>2. k < i
        BY <2>1, <2>5, <4>1 DEF InitsFirst
      <4>3. Carrier(unanswered[k]) = Carrier(unanswered[i])
        BY <4>1 DEF Carrier
      <4> QED
        BY <1>0, <2>1, <4>2, <4>3 DEF Answerable
    <3>3. ASSUME NEW k \in 1..Len(Coming'), Coming'[k].kind \in CommandReplies
          PROVE  /\ \A j \in 1..Len(unanswered') : unanswered'[j].kind # "Init"
                 /\ \A j \in 1..Len(Coming') : Coming'[j].kind = "InitReply" => j < k
      <4>1. CASE k <= Len(Coming)
        <5>1. k \in 1..Len(Coming) /\ Coming[k].kind \in CommandReplies
          BY <1>0, <2>1, <3>3, <4>1 DEF Longer
        <5>2. \A j \in 1..Len(unanswered) : unanswered[j].kind # "Init"
          BY <5>1 DEF InitsFirst
        <5>3. \A j \in 1..Len(Coming) : Coming[j].kind = "InitReply" => j < k
          BY <5>1 DEF InitsFirst
        <5>4. \A j \in 1..Len(unanswered') : unanswered'[j].kind # "Init"
          BY <2>3, <5>2
        <5>5. ASSUME NEW j \in 1..Len(Coming'), Coming'[j].kind = "InitReply"
              PROVE  j < k
          <6>1. j \in 1..Len(Coming) /\ Coming[j].kind = "InitReply"
            BY <1>0, <2>1, <3>1, <5>5 DEF Longer
          <6> QED
            BY <5>3, <6>1
        <5> QED
          BY <5>4, <5>5
      <4>2. CASE k = Len(Coming) + 1
        <5>1. Coming'[k] = q
          BY <2>1, <4>2 DEF Longer
        <5>2. \A j \in 1..Len(unanswered') : unanswered'[j].kind # "Init"
          BY <2>3, <3>2, <3>3, <5>1
        <5>3. ASSUME NEW j \in 1..Len(Coming'), Coming'[j].kind = "InitReply"
              PROVE  j < k
          <6>1. j \in 1..Len(Coming)
            BY <1>0, <2>1, <3>1, <5>3, LongerOrder
          <6> QED
            BY <1>0, <4>2, <6>1
        <5> QED
          BY <5>2, <5>3
      <4> QED
        BY <1>0, <2>1, <4>1, <4>2 DEF Longer
    <3> QED
      BY <2>2, <3>3 DEF InitsFirst
  <2> QED
    BY <2>4, <2>5
<1>6. CASE Peer /\ ~PeerAnswers
  <2>1. PICK q : Longer(Coming', Coming, q) /\ Volunteers(q)
    BY <1>6, PeerVolunteers
  <2>2. UNCHANGED unanswered
    BY <1>6, PeerVolunteers
  <2>3. q.kind \notin CommandReplies /\ q.kind # "InitReply"
    BY <2>1 DEF Volunteers, CommandReplies, Replies
  <2> QED
    BY <1>0, <2>1, <2>2, <2>3 DEF Longer, InitsFirst
<1>7. CASE Arrives
  <2>1. Coming' = Coming
    BY <1>7, ArrivesShape
  <2>2. CASE UNCHANGED unanswered
    BY <2>1, <2>2 DEF InitsFirst
  <2>3. ASSUME NEW u \in doubtful, Longer(unanswered', unanswered, u)
        PROVE  InitsFirst'
    <3>1. u.kind = "Init" => OnlyInitsPending
      BY DEF Lost
    <3> QED
      BY <1>1, <2>1, <2>3, <3>1 DEF InitsFirst
  <2> QED
    BY <1>7, <2>2, <2>3, ArrivesShape
<1> QED
  BY <1>2, <1>3, <1>4, <1>5, <1>6, <1>7 DEF Next, Host, Peer

\* Only an Init of the printer makes it a partner of the conversation.
LEMMA IterationPeer ==
    ASSUME NEW p, NEW rest, NEW written, Iterates(p, rest, written)
    PROVE  \/ UNCHANGED peerActive
           \/ p.kind = "Init" /\ conversation = "Inactive" /\ conversation' = "Active"
  BY DEF Iterates, Dropped, Rejected, DataArrived, TransactionArrived, LinkUnchanged,
         HandlePeerTransaction, HandleInit

\* Every step keeps what a printer that has left may still have on its way.
LEMMA LeavingStep ==
    TypeOK /\ Wellformed /\ InitsFirst /\ Beginning /\ Leaving /\ Lost /\ Next => Leaving'
<1> SUFFICES ASSUME TypeOK, Wellformed, InitsFirst, Beginning, Leaving, Lost, Next
             PROVE  Leaving'
  OBVIOUS
<1>0. Len(unanswered) \in Nat /\ Len(Coming) \in Nat
  BY QueueLengths
<1>1. CASE UNCHANGED <<received, wire, peerActive>>
  BY <1>1 DEF Coming, Leaving
<1>2. CASE Receive
  <2>1. PICK written, rest, m, w :
           /\ written \in BOOLEAN
           /\ Iterates(Coming[1], rest, written) /\ Moves(Coming', Coming, m, w)
    BY <1>2, Iteration
  <2>2. \A i \in 1..Len(Coming) : Coming[i].kind \in {"Init", "Exit", "InitReply"} => i \in OnTransaction(Coming)
    BY DEF Wellformed, PacketOK, PeerCommands, Replies, OnTransaction
  <2>3. \A i \in 1..Len(Coming') : Coming'[i].kind \in {"Init", "Exit", "InitReply"} =>
           i \in OnTransaction(Coming') /\ m[i] \in 1..Len(Coming) /\ Coming'[i] = Coming[m[i]]
    BY <2>1, <2>2 DEF Moves, OnTransaction
  <2>4. ASSUME NEW i \in 1..Len(Coming'), NEW j \in 1..Len(Coming'),
               Coming'[i].kind = "Init", Coming'[j].kind = "Exit"
        PROVE  j < i
    <3>1. m[j] < m[i]
      BY <2>3, <2>4 DEF Leaving
    <3>2. i # j
      BY <2>4
    <3>3. m[i] \in Nat /\ m[j] \in Nat
      BY <2>3, <2>4
    <3> QED
      BY <2>1, <2>3, <2>4, <3>1, <3>2, <3>3 DEF Moves
  <2>5. CASE UNCHANGED peerActive
    <3>1. ASSUME peerActive, NEW j \in 1..Len(Coming'), Coming'[j].kind = "Exit"
          PROVE  \E k \in 1..Len(Coming') : j < k /\ Coming'[k].kind = "InitReply"
      <4>1. PICK l \in 1..Len(Coming) : m[j] < l /\ Coming[l].kind = "InitReply"
        BY <2>3, <3>1 DEF Leaving
      <4>2. l \in OnTransaction(Coming) /\ m[j] \in OnTransaction(Coming) /\ m[j] > 1 /\ w[m[j]] = j
        BY <2>1, <2>2, <2>3, <3>1, <4>1 DEF Moves
      <4>3. l > 1 /\ w[l] \in OnTransaction(Coming') /\ m[w[l]] = l /\ j < w[l]
        BY <1>0, <2>1, <4>1, <4>2 DEF Moves
      <4> QED
        BY <2>1, <4>1, <4>3 DEF Moves, OnTransaction
    <3>2. \A i \in 1..Len(Coming') : Coming'[i].kind = "ExitReply" => ~peerActive
      BY <2>1 DEF Moves, Leaving
    <3> QED
      BY <2>4, <2>5, <3>1, <3>2 DEF Leaving
  <2>6. CASE Coming[1].kind = "Init" /\ conversation = "Inactive"
    <3>1. \A j \in 1..Len(Coming) : Coming[j].kind # "Exit"
      <4>1. 1 \in 1..Len(Coming)
        BY <1>0, <1>2, Iteration
      <4> QED
        BY <2>6, <4>1 DEF Leaving
    <3>2. \A j \in 1..Len(Coming) : Coming[j].kind # "ExitReply"
      BY <2>6 DEF Beginning, OnlyInitsPending, CommandReplies, Replies
    <3> QED
      BY <2>1, <2>4, <3>1, <3>2 DEF Moves, Leaving
  <2> QED
    BY <2>1, <2>5, <2>6, IterationPeer
<1>3. CASE PeerAnswers
  <2>1. PICK i, q :
           /\ i \in Answerable /\ i \in 1..Len(unanswered)
           /\ Shorter(unanswered', unanswered, i) /\ Longer(Coming', Coming, q)
           /\ AnswersWith(unanswered[i], q)
    BY <1>3, PeerAnswersShape
  <2>2. q.kind \in Replies \cup {"Data"}
    BY <2>1, QueueLengths DEF AnswersWith, ReplyTo, Requests, Replies
  <2>3. q.kind \notin {"Init", "Exit"}
    BY <2>2 DEF Replies
  <2>4. CASE unanswered[i].kind = "Init"
    <3>1. q.kind = "InitReply"
      BY <2>1, <2>4 DEF AnswersWith, ReplyTo
    <3>2. \A k \in 1..Len(Coming) : Coming[k].kind # "ExitReply"
      BY <2>1, <2>4 DEF InitsFirst, CommandReplies, Replies
    <3> QED
      BY <1>0, <2>1, <3>1, <3>2 DEF Longer, Leaving
  <2>5. CASE unanswered[i].kind = "Exit"
    BY <1>0, <2>1, <2>3, <2>5 DEF Longer, Leaving, AnswersWith
  <2>6. CASE unanswered[i].kind \notin {"Init", "Exit"}
    <3>1. q.kind # "ExitReply" /\ q.kind # "InitReply" /\ UNCHANGED peerActive
      <4>1. unanswered[i].kind \in Requests
        BY <2>1, QueueLengths
      <4>2. UNCHANGED peerActive /\ q.kind = ReplyTo(unanswered[i].kind)
        BY <2>1, <2>6 DEF AnswersWith
      <4> QED
        BY <2>6, <4>1, <4>2 DEF ReplyTo, Requests
    <3>2. \A k \in 1..Len(Coming') :
             \/ k \in 1..Len(Coming) /\ Coming'[k] = Coming[k]
             \/ k = Len(Coming) + 1 /\ Coming'[k] = q
      BY <1>0, <2>1, LongerOrder
    <3>3. \A k \in 1..Len(Coming) : k \in 1..Len(Coming') /\ Coming'[k] = Coming[k]
      BY <1>0, <2>1, LongerOrder
    <3>4. ASSUME NEW j \in 1..Len(Coming'), NEW k \in 1..Len(Coming'),
                 Coming'[j].kind = "Init", Coming'[k].kind = "Exit"
          PROVE  k < j
      <4>1. j \in 1..Len(Coming) /\ Coming'[j] = Coming[j] /\ k \in 1..Len(Coming) /\ Coming'[k] = Coming[k]
        BY <2>3, <3>2, <3>4
      <4> QED
        BY <3>4, <4>1 DEF Leaving
    <3>5. ASSUME peerActive', NEW j \in 1..Len(Coming'), Coming'[j].kind = "Exit"
          PROVE  \E k \in 1..Len(Coming') : j < k /\ Coming'[k].kind = "InitReply"
      <4>1. j \in 1..Len(Coming) /\ Coming[j].kind = "Exit" /\ peerActive
        BY <2>3, <3>1, <3>2, <3>5
      <4>2. PICK k \in 1..Len(Coming) : j < k /\ Coming[k].kind = "InitReply"
        BY <4>1 DEF Leaving
      <4> QED
        BY <3>3, <4>2
    <3>6. \A k \in 1..Len(Coming') : Coming'[k].kind = "ExitReply" => ~peerActive'
      BY <3>1, <3>2 DEF Leaving
    <3> QED
      BY <3>4, <3>5, <3>6 DEF Leaving
  <2> QED
    BY <2>4, <2>5, <2>6
<1>4. CASE Peer /\ ~PeerAnswers
  <2>1. PICK q : Longer(Coming', Coming, q) /\ Volunteers(q)
    BY <1>4, PeerVolunteers
  <2>2. q.kind # "ExitReply" /\ q.kind # "InitReply"
    BY <2>1 DEF Volunteers, Replies
  <2> QED
    BY <1>0, <2>1, <2>2 DEF Longer, Leaving, Volunteers
<1>5. CASE Arrives
  <2>1. Coming' = Coming
    BY <1>5, ArrivesShape
  <2>2. CASE UNCHANGED peerActive
    BY <2>1, <2>2 DEF Leaving
  <2>3. ASSUME NEW u \in doubtful, u.kind = "InitReply"
        PROVE  Leaving'
    <3>1. OnlyInitsPending /\ \A i \in 1..Len(Coming) : Coming[i].kind # "Exit"
      BY <2>3 DEF Lost
    <3>2. \A i \in 1..Len(Coming) : Coming[i].kind # "ExitReply"
      BY <3>1 DEF OnlyInitsPending, CommandReplies, Replies
    <3> QED
      BY <2>1, <3>1, <3>2 DEF Leaving
  <2>4. UNCHANGED peerActive \/ \E u \in doubtful : u.kind = "InitReply"
    BY <1>5, ArrivesShape DEF TypeOK
  <2> QED
    BY <2>2, <2>3, <2>4
<1> QED
  <2>1. Start \/ ReadFails => UNCHANGED <<received, wire, peerActive>>
    BY StartAsks DEF ReadFails, LinkUnchanged
  <2> QED
    BY <1>1, <1>2, <1>3, <1>4, <1>5, <2>1 DEF Next, Host, Peer

\* A service channel gets an entry only when its socket is resolved.
LEMMA IterationEntries ==
    ASSUME TypeOK, NEW p \in Packets, NEW rest, NEW written, Iterates(p, rest, written),
           NEW c \in Services, chan'[c] # "absent"
    PROVE  chan[c] # "absent" \/ (pc = "GetSocketIdReply" /\ p.kind = "GetSocketIdReply")
<1> SUFFICES ASSUME chan[c] = "absent"
             PROVE  pc = "GetSocketIdReply" /\ p.kind = "GetSocketIdReply"
  OBVIOUS
<1>0. c \in Channels /\ c # Transaction /\ chan \in [Channels -> Presence]
  BY ChannelAssumption DEF Channels, TypeOK
<1>1. CASE UNCHANGED chan
  BY <1>1
<1>2. CASE \E cr : Terminated(cr)
  BY <1>0, <1>2 DEF Terminated
<1>3. CASE HandlePeerTransaction(p, Accrued(p), written)
  <2>1. CASE Shut(p.chan)
    BY <1>0, <2>1 DEF Shut
  <2> QED
    BY <1>1, <1>2, <1>3, <2>1
       DEF HandlePeerTransaction, HandleInit, HandleQuery, HandleCloseChannel,
           HandleCredit, HandleExit, HandleError
<1>4. CASE HandleReply(p, Accrued(p), written) /\ p.kind = Expected
  <2>1. CASE ChannelOpened(p, Accrued(p))
    BY <1>0, <2>1 DEF ChannelOpened
  <2>2. CASE ChannelClosed(p, Accrued(p))
    BY <1>0, <2>2 DEF ChannelClosed
  <2>3. CASE SocketResolved(p, Accrued(p), written)
    BY <1>4, <2>3 DEF SocketResolved, Expected
  <2> QED
    BY <1>1, <1>2, <1>4, <2>1, <2>2, <2>3
       DEF HandleReply, InitReplied, NameResolved, ExitReplied, CreditRequested
<1> QED
  BY <1>1, <1>3, <1>4 DEF Iterates, Dropped, Rejected, DataArrived, TransactionArrived, LinkUnchanged

\* While the host is in no conversation yet, an iteration takes what begins
\* one, or leaves it without credit and without a conversation.
LEMMA IterationInactive ==
    ASSUME TypeOK, Wellformed, Beginning, conversation' = "Inactive", pc # "idle", Len(Coming) > 0,
           NEW rest, NEW written, Iterates(Coming[1], rest, written)
    PROVE  /\ conversation = "Inactive"
           /\ pc' \in InitWaits \cup {"idle"}
           /\ credit'[Transaction] = 0 /\ UNCHANGED <<chan, peerActive>>
           /\ ~Opens(Coming[1])
<1> DEFINE p == Coming[1]
<1>1. conversation = "Inactive"
  BY DEF Iterates, Dropped, Rejected, DataArrived, TransactionArrived, LinkUnchanged,
         HandlePeerTransaction, HandleInit, HandleQuery, HandleCloseChannel,
         HandleCredit, HandleExit, HandleError, HandleReply, InitReplied, SocketResolved,
         ChannelOpened, NameResolved, ChannelClosed, ExitReplied, CreditRequested, Terminated
<1>2. /\ pc \in InitWaits /\ credit[Transaction] = 0 /\ chan[Transaction] = "open"
      /\ \A c \in Services : chan[c] = "absent"
  BY <1>1 DEF Beginning
<1>3. p \in Packets /\ PacketOK(p) /\ 1 \in 1..Len(Coming)
  BY QueueLengths DEF Wellformed
<1>4. p.on \in Channels /\ p.credit \in Nat /\ credit \in [Channels -> 0..CreditLimit]
      /\ Transaction \in Channels
  BY <1>3 DEF Packets, TypeOK, Channels
<1>5. CASE p.on # Transaction
  <2>1. Rejects(p)
    BY <1>2, <1>4, <1>5 DEF Channels, Rejects
  <2> QED
    BY <1>1, <1>2, <1>3, <1>5, <2>1
       DEF Iterates, Dropped, Rejected, DataArrived, TransactionArrived, LinkUnchanged,
           Fail, End, Opens, PacketOK, PeerCommands, Replies
<1>6. CASE p.on = Transaction
  <2>1. p.kind \in {"Init", "InitReply"}
    <3>1. ~\E j \in 1..Len(Coming) : j < 1
      OBVIOUS
    <3> QED
      BY <1>1, <1>3, <1>6, <3>1 DEF Beginning
  <2>2. p.credit = 0 /\ p.kind # "Oversize"
    BY <1>3, <2>1 DEF PacketOK
  <2>3. ~Rejects(p)
    BY <1>2, <1>6, <2>2, BoundAssumption DEF Rejects
  <2>4. Accrued(p)[Transaction] = 0
    BY <1>2, <1>4, <1>6, <2>2 DEF Accrued, Plus
  <2>5. TransactionArrived(p, rest, written)
    BY <1>6, <2>3 DEF Iterates, Dropped, Rejected, DataArrived
  <2>6. p.kind # "Init"
    <3> SUFFICES ASSUME p.kind = "Init" PROVE FALSE
      OBVIOUS
    <3>1. HandleInit(p, Accrued(p), written)
      BY <2>5 DEF TransactionArrived, HandlePeerTransaction, HandleQuery, HandleCloseChannel,
                  HandleCredit, HandleExit, HandleError, PeerCommands
    <3> QED
      BY <1>1, <3>1 DEF HandleInit
  <2>7. InitReplied(p, Accrued(p), written) /\ UNCHANGED peerActive
    BY <1>2, <2>1, <2>5, <2>6
       DEF TransactionArrived, PeerCommands, Expected, InitWaits, HandleReply, SocketResolved,
           ChannelOpened, NameResolved, ChannelClosed, ExitReplied, CreditRequested
  <2>8. p.result # "ok" /\ credit' = Accrued(p) /\ pc' \in {"idle", "InitReply10"} /\ UNCHANGED chan
    BY <2>7 DEF InitReplied, Fail, End
  <2> QED
    BY <1>1, <2>4, <2>6, <2>7, <2>8 DEF Opens, InitWaits
<1> QED
  BY <1>5, <1>6

\* Every step keeps what a conversation that has not begun consists of.
LEMMA BeginningStep ==
    TypeOK /\ Wellformed /\ InitsFirst /\ Beginning /\ Lost /\ Next => Beginning'
<1> SUFFICES ASSUME TypeOK, Wellformed, InitsFirst, Beginning, Lost, Next
             PROVE  Beginning'
  OBVIOUS
<1>0. Len(unanswered) \in Nat /\ Len(Coming) \in Nat /\ Transaction \in Channels
  BY QueueLengths DEF Channels
<1>1. CASE Start
  <2>1. Coming' = Coming /\ UNCHANGED <<chan, conversation, peerActive>>
    BY <1>1, StartAsks DEF Coming
  <2>2. CASE UNCHANGED <<unanswered, pc, credit>>
    BY <2>1, <2>2 DEF Beginning, OnlyInitsPending, NoInitPending
  <2>3. ASSUME NEW u, Asks(u), u.kind = "Init", conversation = "Inactive", credit' = credit
        PROVE  Beginning'
    <3>1. pc' \in InitWaits
      BY <2>3 DEF Asks, ReplyTo, Awaited, Waiting, InitWaits
    <3>2. OnlyInitsPending' /\ \A c \in Services : chan[c] = "absent"
      BY <1>0, <2>1, <2>3 DEF Beginning, OnlyInitsPending, Asks, Longer
    <3> QED
      BY <2>1, <2>3, <3>1, <3>2 DEF Beginning, InitWaits
  <2>4. ASSUME NEW u, Asks(u), u.kind # "Init", credit[Carrier(u)] > 0, MaySend,
               u.kind # "OpenChannel", u.kind = "Data" => conversation = "Active",
               u.kind \in {"Data", "CreditRequest"} => chan[u.chan] # "absent"
        PROVE  Beginning'
    <3>1. conversation # "Inactive"
      BY <2>4 DEF Beginning, Carrier
    <3>2. pc' \notin InitWaits
      BY <2>4 DEF Asks, ReplyTo, Awaited, InitWaits, Requests
    <3>3. NoInitPending => NoInitPending'
      BY <1>0, <2>1, <2>4 DEF NoInitPending, Asks, Longer
    <3>4. pc' = "CreditRequestReply" => u.kind = "CreditRequest"
      BY <2>4 DEF Asks, ReplyTo, Awaited, InitWaits, Requests
    <3>5. pc' = "Data" => u.kind = "Data"
      BY <2>4 DEF Asks, ReplyTo, Awaited, InitWaits, Requests
    <3>6. pc' # "OpenChannelReply"
      BY <2>4 DEF Asks, ReplyTo, Awaited, InitWaits, Requests
    <3>7. u.kind \in {"Data", "CreditRequest"} => u.chan \in Services
      BY <2>4 DEF Asks, RequestOK
    <3> QED
      BY <2>1, <2>4, <3>1, <3>2, <3>3, <3>4, <3>5, <3>6, <3>7 DEF Beginning
  <2> QED
    BY <1>1, <2>2, <2>3, <2>4, StartAsks
<1>2. CASE Receive
  <2>1. PICK written, rest, m, w :
           /\ written \in BOOLEAN
           /\ Iterates(Coming[1], rest, written) /\ Moves(Coming', Coming, m, w)
    BY <1>2, Iteration
  <2>2. Coming[1] \in Packets /\ pc # "idle" /\ Len(Coming) > 0 /\ 1 \in 1..Len(Coming)
    BY <1>0, <1>2, Iteration DEF Receive
  <2>3. \A i \in 1..Len(Coming') : m[i] \in 1..Len(Coming) /\ Coming'[i] = Coming[m[i]]
    BY <2>1 DEF Moves
  <2>4. \/ UNCHANGED unanswered
        \/ \E u : IterationAsksFor(Coming[1], u)
    BY <2>1, <2>2, IterationAsks DEF Wellformed
  <2>5. pc' \in {pc, "idle", "InitReply10", "OpenChannelReply", "Data"}
    BY <2>1, IterationTarget DEF Wellformed
  <2>6. ASSUME pc \in InitWaits
        PROVE  OnlyInitsPending' /\ \A c \in Services : chan'[c] = "absent"
    <3>1. OnlyInitsPending /\ \A c \in Services : chan[c] = "absent"
      BY <2>6 DEF Beginning
    <3>2. \A c \in Services : chan'[c] = "absent"
      BY <2>1, <2>2, <2>6, <3>1, IterationEntries DEF InitWaits
    <3>3. \A u : IterationAsksFor(Coming[1], u) => Asks(u) /\ u.kind = "Init"
      BY <2>6 DEF IterationAsksFor, InitWaits
    <3> QED
      BY <1>0, <2>3, <2>4, <3>1, <3>2, <3>3 DEF OnlyInitsPending, Asks, Longer
  <2>7. pc' \in InitWaits => pc \in InitWaits
    <3>1. pc' = "InitReply10" /\ pc' # pc => pc \in InitWaits
      BY <2>1 DEF Iterates, Dropped, Rejected, DataArrived, TransactionArrived, Wait, Fail,
                  Returns, End, NotAnswered, HandlePeerTransaction, HandleInit, HandleQuery,
                  HandleCloseChannel, HandleCredit, HandleExit, HandleError, HandleReply,
                  InitReplied, SocketResolved, ChannelOpened, NameResolved, ChannelClosed,
                  ExitReplied, CreditRequested, Command, SendData, InitWaits
    <3> QED
      BY <2>5, <3>1 DEF InitWaits
  <2>8. ASSUME conversation' = "Inactive"
        PROVE  /\ pc' \in InitWaits \cup {"idle"}
               /\ credit'[Transaction] = 0 /\ chan'[Transaction] = "open"
               /\ \A i \in 1..Len(Coming') :
                     Coming'[i].on = Transaction /\ Coming'[i].kind \notin {"Init", "InitReply"}
                     => \E j \in 1..Len(Coming') : j < i /\ Opens(Coming'[j])
               /\ peerActive' => \E j \in 1..Len(Coming') : Opens(Coming'[j])
               /\ pc \in InitWaits
    <3>1. /\ conversation = "Inactive" /\ pc' \in InitWaits \cup {"idle"}
          /\ credit'[Transaction] = 0 /\ UNCHANGED <<chan, peerActive>> /\ ~Opens(Coming[1])
      BY <2>1, <2>2, <2>8, IterationInactive
    <3>2. \A k \in 1..Len(Coming) : Opens(Coming[k]) =>
             k > 1 /\ k \in OnTransaction(Coming)
      BY <3>1 DEF Wellformed, PacketOK, Opens, OnTransaction, PeerCommands, Replies
    <3>3. \A k \in 1..Len(Coming) : Opens(Coming[k]) =>
             w[k] \in 1..Len(Coming') /\ Opens(Coming'[w[k]])
      BY <2>1, <3>2 DEF Moves, OnTransaction
    <3>4. ASSUME NEW i \in 1..Len(Coming'), Coming'[i].on = Transaction,
                 Coming'[i].kind \notin {"Init", "InitReply"}
          PROVE  \E j \in 1..Len(Coming') : j < i /\ Opens(Coming'[j])
      <4>1. PICK k \in 1..Len(Coming) : k < m[i] /\ Opens(Coming[k])
        BY <2>3, <3>1, <3>4 DEF Beginning
      <4>2. i \in OnTransaction(Coming') /\ m[i] \in OnTransaction(Coming) /\ w[m[i]] = i
        BY <2>1, <3>4 DEF Moves, OnTransaction
      <4>3. k \in OnTransaction(Coming) /\ k > 1 /\ w[k] < w[m[i]]
        BY <2>1, <3>2, <4>1, <4>2 DEF Moves
      <4> QED
        BY <3>3, <4>1, <4>2, <4>3
    <3> QED
      BY <2>2, <3>1, <3>3, <3>4 DEF Beginning
  <2>9. ASSUME (\E c \in Services : chan'[c] # "absent")
               \/ pc' \in {"OpenChannelReply", "CreditRequestReply", "Data"}
        PROVE  NoInitPending'
    <3>1. pc \notin InitWaits \/ pc' = "OpenChannelReply" \/ pc' = "Data"
      BY <2>5, <2>6, <2>9 DEF InitWaits
    <3>2. ASSUME NEW u, IterationAsksFor(Coming[1], u), pc \notin InitWaits
          PROVE  Asks(u) /\ u.kind # "Init"
      BY <3>2 DEF IterationAsksFor
    <3>3. CASE NoInitPending
      <4>1. \A u : IterationAsksFor(Coming[1], u) => Asks(u) /\ u.kind # "Init"
        <5> SUFFICES ASSUME NEW u, IterationAsksFor(Coming[1], u)
                     PROVE  Asks(u) /\ u.kind # "Init"
          OBVIOUS
        <5>1. CASE pc \in InitWaits
          <6>1. Coming[1].kind = "InitReply"
            BY <5>1 DEF IterationAsksFor, Awaited
          <6> QED
            BY <2>2, <3>3, <6>1 DEF NoInitPending
        <5> QED
          BY <3>2, <5>1
      <4>2. \A k \in 1..Len(Coming') : Coming'[k].kind # "InitReply"
        BY <2>3, <3>3 DEF NoInitPending
      <4>3. ASSUME NEW u, Asks(u), u.kind # "Init"
            PROVE  \A j \in 1..Len(unanswered') : unanswered'[j].kind # "Init"
        <5>1. \A j \in 1..Len(unanswered') :
                 \/ j \in 1..Len(unanswered) /\ unanswered'[j] = unanswered[j]
                 \/ unanswered'[j] = u
          BY <1>0, <4>3, LongerOrder DEF Asks
        <5> QED
          BY <3>3, <4>3, <5>1 DEF NoInitPending
      <4>4. CASE UNCHANGED unanswered
        BY <3>3, <4>2, <4>4 DEF NoInitPending
      <4>5. CASE \E u : IterationAsksFor(Coming[1], u)
        BY <4>1, <4>2, <4>3, <4>5 DEF NoInitPending
      <4> QED
        BY <2>4, <4>4, <4>5
    <3>4. CASE ~NoInitPending
      <4>1. /\ \A c \in Services : chan[c] = "absent"
            /\ pc \notin {"OpenChannelReply", "CreditRequestReply", "Data"}
        BY <3>4 DEF Beginning
      <4>2. pc = "GetSocketIdReply" /\ Coming[1].kind = "GetSocketIdReply"
        <5>1. CASE \E c \in Services : chan'[c] # "absent"
          BY <2>1, <2>2, <4>1, <5>1, IterationEntries
        <5>2. CASE pc' \in {"OpenChannelReply", "CreditRequestReply", "Data"}
          <6>1. pc' # pc /\ pc' \in {"OpenChannelReply", "Data"}
            BY <2>5, <4>1, <5>2
          <6>2. SocketResolved(Coming[1], Accrued(Coming[1]), written) /\ Coming[1].kind = Expected
            BY <2>1, <4>1, <6>1
               DEF Iterates, Dropped, Rejected, DataArrived, TransactionArrived, Wait, Fail,
                  Returns, End, NotAnswered, HandlePeerTransaction, HandleInit, HandleQuery,
                  HandleCloseChannel, HandleCredit, HandleExit, HandleError, HandleReply,
                  InitReplied, ChannelOpened, NameResolved, ChannelClosed,
                  ExitReplied, CreditRequested, Silent
          <6> QED
            BY <6>2 DEF SocketResolved, Expected
        <5> QED
          BY <2>9, <5>1, <5>2
      <4>3. /\ \A j \in 1..Len(unanswered) : unanswered[j].kind # "Init"
            /\ \A j \in 1..Len(Coming) : Coming[j].kind = "InitReply" => j < 1
        BY <2>2, <4>2 DEF InitsFirst, CommandReplies, Replies
      <4>4. NoInitPending
        BY <4>3 DEF NoInitPending
      <4> QED
        BY <3>4, <4>4
    <3> QED
      BY <3>3, <3>4
  <2> QED
    BY <2>6, <2>7, <2>8, <2>9 DEF Beginning
<1>3. CASE ReadFails
  BY <1>3 DEF ReadFails, Fail, End, Silent, LinkUnchanged, Coming, Beginning, OnlyInitsPending,
              NoInitPending, InitWaits
<1>4. CASE PeerAnswers
  <2>1. PICK i, q :
           /\ i \in Answerable /\ i \in 1..Len(unanswered)
           /\ Shorter(unanswered', unanswered, i) /\ Longer(Coming', Coming, q)
           /\ AnswersWith(unanswered[i], q)
    BY <1>4, PeerAnswersShape
  <2>2. UNCHANGED <<conversation, pc, credit, chan>>
    BY <1>4, PeerAnswersShape DEF link
  <2>3. \A j \in 1..Len(unanswered') : \E k \in 1..Len(unanswered) : unanswered'[j] = unanswered[k]
    BY <1>0, <2>1, ShorterOrder
  <2>4. /\ unanswered[i].kind = "Init" => q.kind = "InitReply"
        /\ unanswered[i].kind # "Init" => q.kind # "InitReply"
    BY <2>1, QueueLengths DEF AnswersWith, ReplyTo, Requests
  <2>5. OnlyInitsPending => OnlyInitsPending'
    <3>1. OnlyInitsPending => unanswered[i].kind = "Init"
      BY <2>1 DEF OnlyInitsPending
    <3>2. OnlyInitsPending => q.kind \notin CommandReplies
      BY <2>4, <3>1 DEF CommandReplies
    <3>3. OnlyInitsPending => \A j \in 1..Len(unanswered') : unanswered'[j].kind = "Init"
      BY <2>3 DEF OnlyInitsPending
    <3>4. \A k \in 1..Len(Coming') : \/ k \in 1..Len(Coming) /\ Coming'[k] = Coming[k]
                                    \/ Coming'[k] = q
      BY <1>0, <2>1, LongerOrder
    <3>5. OnlyInitsPending => \A k \in 1..Len(Coming') : Coming'[k].kind \notin CommandReplies
      BY <3>2, <3>4 DEF OnlyInitsPending
    <3> QED
      BY <3>3, <3>5 DEF OnlyInitsPending
  <2>6. NoInitPending => NoInitPending'
    <3>1. NoInitPending => unanswered[i].kind # "Init"
      BY <2>1 DEF NoInitPending
    <3>2. NoInitPending => \A j \in 1..Len(unanswered') : unanswered'[j].kind # "Init"
      BY <2>3 DEF NoInitPending
    <3>3. \A k \in 1..Len(Coming') : \/ k \in 1..Len(Coming) /\ Coming'[k] = Coming[k]
                                    \/ Coming'[k] = q
      BY <1>0, <2>1, LongerOrder
    <3>4. NoInitPending => \A k \in 1..Len(Coming') : Coming'[k].kind # "InitReply"
      BY <2>4, <3>1, <3>3 DEF NoInitPending
    <3> QED
      BY <3>2, <3>4 DEF NoInitPending
  <2>7. ASSUME conversation = "Inactive"
        PROVE  /\ \A k \in 1..Len(Coming') :
                     Coming'[k].on = Transaction /\ Coming'[k].kind \notin {"Init", "InitReply"}
                     => \E j \in 1..Len(Coming') : j < k /\ Opens(Coming'[j])
               /\ peerActive' => \E j \in 1..Len(Coming') : Opens(Coming'[j])
    <3>1. unanswered[i].kind = "Init" /\ q.kind = "InitReply"
      BY <2>1, <2>4, <2>7 DEF Beginning, OnlyInitsPending
    <3>2. q.result = "ok" \/ UNCHANGED peerActive
      BY <2>1, <3>1 DEF AnswersWith
    <3>3. \A k \in 1..Len(Coming') :
                     Coming'[k].on = Transaction /\ Coming'[k].kind \notin {"Init", "InitReply"}
                     => \E j \in 1..Len(Coming') : j < k /\ Opens(Coming'[j])
      BY <1>0, <2>1, <2>7, <3>1 DEF Longer, Beginning
    <3>4. CASE q.result = "ok"
      <4>1. Len(Coming) + 1 \in 1..Len(Coming') /\ Opens(Coming'[Len(Coming) + 1])
        BY <1>0, <2>1, <3>1, <3>4 DEF Longer, Opens
      <4> QED
        BY <3>3, <4>1
    <3>5. CASE UNCHANGED peerActive
      BY <1>0, <2>1, <2>7, <3>3, <3>5 DEF Longer, Beginning
    <3> QED
      BY <3>2, <3>4, <3>5
  <2> QED
    BY <2>2, <2>5, <2>6, <2>7 DEF Beginning
<1>5. CASE Peer /\ ~PeerAnswers
  <2>1. PICK q : Longer(Coming', Coming, q) /\ Volunteers(q)
    BY <1>5, PeerVolunteers
  <2>2. UNCHANGED <<unanswered, conversation, pc, credit, chan>>
    BY <1>5, PeerVolunteers DEF link
  <2>3. q.kind # "InitReply" /\ q.kind \notin CommandReplies
    BY <2>1 DEF Volunteers, Replies, CommandReplies
  <2>4. (OnlyInitsPending => OnlyInitsPending') /\ (NoInitPending => NoInitPending')
    BY <1>0, <2>1, <2>2, <2>3 DEF OnlyInitsPending, NoInitPending, Longer
  <2>5. ASSUME conversation = "Inactive"
        PROVE  /\ \A k \in 1..Len(Coming') :
                     Coming'[k].on = Transaction /\ Coming'[k].kind \notin {"Init", "InitReply"}
                     => \E j \in 1..Len(Coming') : j < k /\ Opens(Coming'[j])
               /\ peerActive' => \E j \in 1..Len(Coming') : Opens(Coming'[j])
    <3>1. q.kind = "Init" \/ peerActive
      BY <2>1 DEF Volunteers
    <3>2. q.kind # "Init" => \E j \in 1..Len(Coming) : Opens(Coming[j])
      BY <2>5, <3>1 DEF Beginning
    <3>3. \A k \in 1..Len(Coming) :
             Coming[k].on = Transaction /\ Coming[k].kind \notin {"Init", "InitReply"}
             => \E j \in 1..Len(Coming) : j < k /\ Opens(Coming[j])
      BY <2>5 DEF Beginning
    <3>4. ASSUME NEW k \in 1..Len(Coming'), Coming'[k].on = Transaction,
                 Coming'[k].kind \notin {"Init", "InitReply"}
          PROVE  \E j \in 1..Len(Coming') : j < k /\ Opens(Coming'[j])
      <4>1. CASE k = Len(Coming) + 1
        BY <1>0, <2>1, <3>2, <3>4, <4>1 DEF Longer
      <4>2. CASE k # Len(Coming) + 1
        <5>1. k \in 1..Len(Coming) /\ Coming'[k] = Coming[k]
          BY <1>0, <2>1, <4>2 DEF Longer
        <5> QED
          BY <1>0, <2>1, <3>3, <3>4, <5>1 DEF Longer
      <4> QED
        BY <4>1, <4>2
    <3>5. peerActive' => \E j \in 1..Len(Coming') : Opens(Coming'[j])
      <4>1. CASE q.kind = "Init"
        <5>1. Len(Coming) + 1 \in 1..Len(Coming') /\ Opens(Coming'[Len(Coming) + 1])
          BY <1>0, <2>1, <4>1 DEF Longer, Opens
        <5> QED
          BY <5>1
      <4>2. CASE q.kind # "Init"
        BY <1>0, <2>1, <3>2, <4>2 DEF Longer
      <4> QED
        BY <4>1, <4>2
    <3> QED
      BY <3>4, <3>5
  <2> QED
    BY <2>2, <2>4, <2>5 DEF Beginning
<1>6. CASE Arrives
  <2>1. pc = "idle" /\ UNCHANGED <<Coming, chan, conversation, credit, pc>>
    BY <1>6, ArrivesShape
  <2>2. PICK u \in doubtful :
           /\ \/ UNCHANGED unanswered
              \/ u.kind \in Requests /\ Longer(unanswered', unanswered, u)
           /\ peerActive' = (peerActive \/ u.kind = "InitReply")
    BY <1>6, ArrivesShape
  <2>3. conversation = "Inactive" => peerActive' = peerActive
    BY <2>2 DEF Lost, TypeOK
  <2>4. conversation = "Inactive" => OnlyInitsPending'
    <3>1. CASE UNCHANGED unanswered
      BY <2>1, <3>1 DEF Beginning, OnlyInitsPending
    <3>2. CASE u.kind \in Requests /\ Longer(unanswered', unanswered, u)
      <4>1. conversation = "Inactive" => OnlyInitsPending /\ u.kind = "Init"
        BY <3>2 DEF Beginning, Lost, Requests
      <4> QED
        BY <1>0, <2>1, <3>2, <4>1 DEF OnlyInitsPending, Longer
    <3> QED
      BY <2>2, <3>1, <3>2
  <2>5. (\E c \in Services : chan[c] # "absent") => NoInitPending'
    <3> SUFFICES ASSUME \E c \in Services : chan[c] # "absent"
                 PROVE  NoInitPending'
      OBVIOUS
    <3>1. NoInitPending /\ u.kind # "Init"
      BY DEF Beginning, Lost
    <3> QED
      BY <1>0, <2>1, <2>2, <3>1 DEF NoInitPending, Longer
  <2> QED
    BY <2>1, <2>3, <2>4, <2>5 DEF Beginning, InitWaits
<1> QED
  BY <1>1, <1>2, <1>3, <1>4, <1>5, <1>6 DEF Next, Host, Peer

\* What is known of every reachable state of the link.
Consistent == Wellformed /\ InitsFirst /\ Leaving /\ Beginning /\ Lost

\* A new link is consistent.
LEMMA ConsistentInitially == Init => Consistent
<1> SUFFICES ASSUME Init
             PROVE  Consistent
  OBVIOUS
<1>1. Coming = <<>> /\ unanswered = <<>>
  BY ConcatProperties DEF Init, Coming
<1>2. Len(Coming) = 0 /\ Len(unanswered) = 0
  BY <1>1
<1>3. 1..0 = {}
  OBVIOUS
<1>4. Wellformed
  BY <1>2, <1>3 DEF Init, Wellformed, TargetOK
<1>5. InitsFirst /\ Leaving
  BY <1>2, <1>3 DEF Init, InitsFirst, Leaving
<1>6. /\ conversation = "Inactive" /\ pc = "idle" /\ peerActive = FALSE
      /\ credit[Transaction] = 0 /\ chan[Transaction] = "open"
      /\ \A c \in Services : chan[c] = "absent"
  BY ChannelAssumption DEF Init, Channels
<1>7. OnlyInitsPending /\ NoInitPending
  BY <1>2, <1>3 DEF OnlyInitsPending, NoInitPending
<1>8. Beginning
  BY <1>2, <1>3, <1>6, <1>7 DEF Beginning
<1>9. Lost
  BY DEF Init, Lost
<1> QED
  BY <1>4, <1>5, <1>8, <1>9 DEF Consistent

\* Stuttering keeps consistency.
LEMMA ConsistentStutter == Consistent /\ UNCHANGED vars => Consistent'
<1> SUFFICES ASSUME Consistent, UNCHANGED vars
             PROVE  Consistent'
  OBVIOUS
<1>1. /\ UNCHANGED <<Coming, unanswered, peerOpen, peerActive, pc, target, conversation>>
      /\ UNCHANGED <<credit, chan, doubtful, clean>>
  BY DEF vars, link, peer, Coming
<1>2. Wellformed'
  BY <1>1 DEF Consistent, Wellformed, TargetOK
<1>3. InitsFirst' /\ Leaving'
  BY <1>1 DEF Consistent, InitsFirst, Leaving
<1>4. Beginning'
  BY <1>1 DEF Consistent, Beginning, OnlyInitsPending, NoInitPending
<1>5. Lost'
  BY <1>1 DEF Consistent, Lost, OnlyInitsPending
<1> QED
  BY <1>2, <1>3, <1>4, <1>5 DEF Consistent

\* Every step keeps consistency.
LEMMA ConsistentStep == TypeOK /\ Consistent /\ [Next]_vars => Consistent'
  BY WellformedStep, InitsFirstStep, LeavingStep, BeginningStep, LostStep, ConsistentStutter
     DEF Consistent

\* The types and the consistency of the two queues hold always.
LEMMA LinkInvariant == Spec => [](TypeOK /\ Consistent)
  BY TypeCorrect, ConsistentInitially, ConsistentStep, PTL DEF Spec

-----------------------------------------------------------------------------
(* No panic.                                                               *)

\* The conversation ends with the Exit of the printer or with its reply to
\* the Exit of the host.
LEMMA IterationTerminates ==
    ASSUME NEW p, NEW rest, NEW written, Iterates(p, rest, written),
           conversation # "Terminated", conversation' = "Terminated"
    PROVE  \/ p.kind = "Exit" /\ pc' \in {pc, "idle"}
           \/ p.kind = "ExitReply" /\ pc = "ExitReply" /\ pc' = "idle"
  BY DEF Iterates, Dropped, Rejected, DataArrived, TransactionArrived, LinkUnchanged,
         HandlePeerTransaction, HandleInit, HandleQuery, HandleCloseChannel,
         HandleCredit, HandleExit, HandleError, HandleReply, InitReplied, SocketResolved,
         ChannelOpened, NameResolved, ChannelClosed, ExitReplied, CreditRequested,
         Wait, Fail, Returns, End, NotAnswered, Expected

\* It does not begin again while a call waits for something else than an
\* InitReply.
LEMMA IterationStaysTerminated ==
    ASSUME NEW p, NEW rest, NEW written, Iterates(p, rest, written),
           conversation = "Terminated", pc \notin InitWaits
    PROVE  conversation' = "Terminated"
<1>1. \A cr : ~CanCommand(cr)
  BY DEF CanCommand, MaySend
<1>2. CASE HandlePeerTransaction(p, Accrued(p), written)
  BY <1>1, <1>2 DEF HandlePeerTransaction, HandleInit, HandleQuery, HandleCloseChannel,
         HandleCredit, HandleExit, HandleError
<1>3. CASE HandleReply(p, Accrued(p), written)
  BY <1>3 DEF HandleReply, InitReplied, SocketResolved, ChannelOpened, NameResolved,
         ChannelClosed, ExitReplied, CreditRequested, Terminated, InitWaits
<1> QED
  BY <1>2, <1>3 DEF Iterates, Dropped, Rejected, DataArrived, TransactionArrived, LinkUnchanged

\* An entry is removed when the conversation ends or when the printer has
\* agreed to close its channel.
LEMMA IterationRemoves ==
    ASSUME TypeOK, NEW p, NEW rest, NEW written, Iterates(p, rest, written),
           NEW c \in Services, chan[c] # "absent", chan'[c] = "absent"
    PROVE  \/ conversation' = "Terminated"
           \/ /\ pc = "CloseChannelReply" /\ pc' = "idle" /\ p.kind = "CloseChannelReply"
              /\ p.result = "ok" /\ c = target
<1>0. c \in Channels /\ c # Transaction /\ chan \in [Channels -> Presence]
  BY ChannelAssumption DEF Channels, TypeOK
<1>1. CASE UNCHANGED chan
  BY <1>1
<1>2. CASE \E cr : Terminated(cr)
  BY <1>2 DEF Terminated
<1>3. CASE HandlePeerTransaction(p, Accrued(p), written)
  <2>1. CASE Shut(p.chan)
    BY <1>0, <2>1 DEF Shut
  <2> QED
    BY <1>1, <1>2, <1>3, <2>1
       DEF HandlePeerTransaction, HandleInit, HandleQuery, HandleCloseChannel,
           HandleCredit, HandleExit, HandleError
<1>4. CASE HandleReply(p, Accrued(p), written) /\ p.kind = Expected
  <2>1. CASE ChannelOpened(p, Accrued(p))
    BY <1>0, <2>1 DEF ChannelOpened
  <2>2. CASE ChannelClosed(p, Accrued(p))
    BY <1>0, <1>4, <2>2 DEF ChannelClosed, Expected, Returns, End
  <2>3. CASE SocketResolved(p, Accrued(p), written)
    BY <1>0, <2>3 DEF SocketResolved, Insert
  <2> QED
    BY <1>1, <1>2, <1>4, <2>1, <2>2, <2>3
       DEF HandleReply, InitReplied, NameResolved, ExitReplied, CreditRequested
<1> QED
  BY <1>1, <1>3, <1>4 DEF Iterates, Dropped, Rejected, DataArrived, TransactionArrived, LinkUnchanged

\* The calls whose reply handler takes the entry of target for granted.
Assuming == {"OpenChannelReply", "CreditRequestReply"}

\* A printer that is silent after its Exit has nothing but the ExitReply to
\* send behind it, unless the host has begun a new conversation; a call that
\* takes its entry for granted finds it, or never gets its reply.
Farewell ==
    \A j, k \in 1..Len(Coming) :
       Coming[j].kind = "Exit" /\ j < k /\ Coming[k].kind \in CommandReplies \ {"ExitReply"} =>
          \E i \in 1..Len(Coming) : j < i /\ i < k /\ Coming[i].kind = "InitReply"
Assured ==
    /\ pc \in Assuming /\ conversation = "Terminated" =>
          ~peerActive /\ \A i \in 1..Len(Coming) : Coming[i].kind \notin Assuming
    /\ pc \in Assuming /\ chan[target] = "absent" => conversation = "Terminated"

\* Every step keeps the end of a conversation in order.
LEMMA FarewellStep ==
    ASSUME ~LateAnswers, TypeOK, Consistent, Farewell, Next
    PROVE  Farewell'
<1>0. Len(unanswered) \in Nat /\ Len(Coming) \in Nat
  BY QueueLengths
<1>1. CASE UNCHANGED <<received, wire>>
  <2>1. Coming' = Coming
    BY <1>1 DEF Coming
  <2> QED
    BY <2>1 DEF Farewell
<1>2. CASE Receive
  <2>1. PICK written, rest, m, w :
           /\ written \in BOOLEAN
           /\ Iterates(Coming[1], rest, written) /\ Moves(Coming', Coming, m, w)
    BY <1>2, Iteration
  <2>2. \A i \in 1..Len(Coming) : Coming[i].kind \in {"Exit"} \cup Replies => i \in OnTransaction(Coming)
    BY DEF Consistent, Wellformed, PacketOK, PeerCommands, OnTransaction
  <2>3. \A i \in 1..Len(Coming') : Coming'[i].kind \in {"Exit"} \cup Replies =>
           i \in OnTransaction(Coming') /\ m[i] \in 1..Len(Coming) /\ Coming'[i] = Coming[m[i]]
    BY <2>1, <2>2 DEF Moves, OnTransaction
  <2>4. ASSUME NEW j \in 1..Len(Coming'), NEW k \in 1..Len(Coming'),
               Coming'[j].kind = "Exit", j < k, Coming'[k].kind \in CommandReplies \ {"ExitReply"}
        PROVE  \E i \in 1..Len(Coming') : j < i /\ i < k /\ Coming'[i].kind = "InitReply"
    <3>1. /\ j \in OnTransaction(Coming') /\ k \in OnTransaction(Coming')
          /\ m[j] \in 1..Len(Coming) /\ Coming'[j] = Coming[m[j]]
          /\ m[k] \in 1..Len(Coming) /\ Coming'[k] = Coming[m[k]]
      BY <2>3, <2>4 DEF CommandReplies
    <3>2. /\ m[j] < m[k] /\ 1 < m[j] /\ w[m[j]] = j /\ w[m[k]] = k
          /\ m[j] \in OnTransaction(Coming) /\ m[k] \in OnTransaction(Coming)
      BY <2>1, <2>4, <3>1 DEF Moves
    <3>3. PICK l \in 1..Len(Coming) : m[j] < l /\ l < m[k] /\ Coming[l].kind = "InitReply"
      <4>1. /\ Coming[m[j]].kind = "Exit" /\ m[j] < m[k]
            /\ Coming[m[k]].kind \in CommandReplies \ {"ExitReply"}
        BY <2>4, <3>1, <3>2
      <4> QED
        BY <3>1, <4>1 DEF Farewell
    <3>4. l \in OnTransaction(Coming) /\ 1 < l
      BY <1>0, <2>2, <3>1, <3>2, <3>3 DEF Replies
    <3>5. w[l] \in OnTransaction(Coming') /\ m[w[l]] = l /\ j < w[l] /\ w[l] < k
      BY <2>1, <3>2, <3>3, <3>4 DEF Moves
    <3> QED
      BY <2>1, <3>3, <3>5 DEF Moves, OnTransaction
  <2> QED
    BY <2>4 DEF Farewell
<1>3. CASE PeerAnswers
  <2>1. PICK i, q :
           /\ i \in Answerable /\ i \in 1..Len(unanswered)
           /\ Shorter(unanswered', unanswered, i) /\ Longer(Coming', Coming, q)
           /\ AnswersWith(unanswered[i], q)
    BY <1>3, PeerAnswersShape DEF Consistent
  <2>2. q.kind # "Exit"
    BY <2>1, QueueLengths DEF AnswersWith, ReplyTo, Requests
  <2>3. q.kind \in CommandReplies \ {"ExitReply"} => unanswered[i].kind \notin {"Init", "Exit"}
    BY <2>1 DEF AnswersWith, ReplyTo, CommandReplies
  <2>4. ASSUME q.kind \in CommandReplies \ {"ExitReply"},
               NEW j \in 1..Len(Coming), Coming[j].kind = "Exit"
        PROVE  \E k \in 1..Len(Coming) : j < k /\ Coming[k].kind = "InitReply"
    <3>1. peerActive
      BY <2>1, <2>3, <2>4 DEF AnswersWith
    <3> QED
      BY <2>4, <3>1 DEF Consistent, Leaving
  <2>5. ASSUME NEW j \in 1..Len(Coming'), NEW k \in 1..Len(Coming'),
               Coming'[j].kind = "Exit", j < k, Coming'[k].kind \in CommandReplies \ {"ExitReply"}
        PROVE  \E l \in 1..Len(Coming') : j < l /\ l < k /\ Coming'[l].kind = "InitReply"
    <3>1. j \in 1..Len(Coming) /\ Coming'[j] = Coming[j]
      BY <1>0, <2>1, <2>5 DEF Longer
    <3>2. CASE k = Len(Coming) + 1
      <4>1. Coming'[k] = q
        BY <2>1, <3>2 DEF Longer
      <4>2. PICK l \in 1..Len(Coming) : j < l /\ Coming[l].kind = "InitReply"
        BY <2>4, <2>5, <3>1, <4>1
      <4> QED
        BY <1>0, <2>1, <3>2, <4>2 DEF Longer
    <3>3. CASE k # Len(Coming) + 1
      <4>1. k \in 1..Len(Coming) /\ Coming'[k] = Coming[k]
        BY <1>0, <2>1, <3>3 DEF Longer
      <4> QED
        BY <1>0, <2>1, <2>5, <3>1, <4>1 DEF Longer, Farewell
    <3> QED
      BY <3>2, <3>3
  <2> QED
    BY <2>5 DEF Farewell
<1>4. CASE Peer /\ ~PeerAnswers
  <2>1. PICK q : Longer(Coming', Coming, q) /\ Volunteers(q)
    BY <1>4, PeerVolunteers DEF Consistent
  <2>2. q.kind \notin CommandReplies
    BY <2>1 DEF Volunteers, CommandReplies
  <2>3. ASSUME NEW j \in 1..Len(Coming'), NEW k \in 1..Len(Coming'),
               Coming'[j].kind = "Exit", j < k, Coming'[k].kind \in CommandReplies \ {"ExitReply"}
        PROVE  \E l \in 1..Len(Coming') : j < l /\ l < k /\ Coming'[l].kind = "InitReply"
    <3>1. k \in 1..Len(Coming) /\ j \in 1..Len(Coming) /\ Coming'[k] = Coming[k] /\ Coming'[j] = Coming[j]
      BY <1>0, <2>1, <2>2, <2>3 DEF Longer
    <3>2. PICK l \in 1..Len(Coming) : j < l /\ l < k /\ Coming[l].kind = "InitReply"
      BY <2>3, <3>1 DEF Farewell
    <3> QED
      BY <1>0, <2>1, <3>2 DEF Longer
  <2> QED
    BY <2>3 DEF Farewell
<1> QED
  <2>1. Start \/ ReadFails \/ Arrives => UNCHANGED <<received, wire>>
    BY StartAsks DEF ReadFails, Arrives
  <2> QED
    BY <1>1, <1>2, <1>3, <1>4, <2>1 DEF Next, Host, Peer

\* Every step keeps the entry a running call relies on.
LEMMA AssuredStep ==
    ASSUME ~LateAnswers, TypeOK, Consistent, Farewell, Assured, Next
    PROVE  Assured'
<1>0. Len(unanswered) \in Nat /\ Len(Coming) \in Nat
  BY QueueLengths
<1> USE DEF Consistent
<1>1. CASE Start
  <2>1. Coming' = Coming /\ UNCHANGED <<chan, conversation, peerActive>> /\ pc = "idle"
    BY <1>1, StartAsks DEF Coming
  <2>2. CASE UNCHANGED <<pc, target>>
    BY <2>1, <2>2 DEF Assured
  <2>3. ASSUME NEW u, Asks(u), u.kind # "OpenChannel",
               u.kind = "CreditRequest" =>
                   conversation = "Active" /\ chan[u.chan] \in {"open", "shut"}
        PROVE  Assured'
    <3>1. pc' \in Assuming => u.kind = "CreditRequest"
      BY <2>3 DEF Asks, ReplyTo, Awaited, InitWaits, Requests, Assuming
    <3>2. pc' \in Assuming => conversation' = "Active" /\ chan'[target'] # "absent"
      BY <2>1, <2>3, <3>1 DEF Asks
    <3> QED
      BY <3>2 DEF Assured
  <2> QED
    BY <1>1, <2>2, <2>3, StartAsks
<1>2. CASE Receive
  <2>1. PICK written, rest, m, w :
           /\ written \in BOOLEAN
           /\ Iterates(Coming[1], rest, written) /\ Moves(Coming', Coming, m, w)
    BY <1>2, Iteration
  <2>2. Coming[1] \in Packets /\ pc # "idle" /\ 1 \in 1..Len(Coming)
    BY <1>0, <1>2, Iteration DEF Receive
  <2>3. \A i \in 1..Len(Coming') : \E k \in 1..Len(Coming) : Coming'[i] = Coming[k]
    BY <2>1 DEF Moves
  <2>4. target' = target /\ pc' \in {pc, "idle", "InitReply10", "OpenChannelReply", "Data"}
    BY <2>1, IterationTarget DEF Wellformed
  <2>5. CASE pc' # pc /\ pc' \in Assuming
    <3>1. pc' = "OpenChannelReply" /\ pc # "OpenChannelReply"
      BY <2>4, <2>5 DEF Assuming
    <3>2. SocketResolved(Coming[1], Accrued(Coming[1]), written)
      BY <2>1, <2>2, <3>1
         DEF Iterates, Dropped, Rejected, DataArrived, TransactionArrived, Wait, Fail,
             Returns, End, NotAnswered, HandlePeerTransaction, HandleInit, HandleQuery,
             HandleCloseChannel, HandleCredit, HandleExit, HandleError, HandleReply,
             InitReplied, ChannelOpened, NameResolved, ChannelClosed,
             ExitReplied, CreditRequested, Command, SendData
    <3>3. \E cr : /\ CanCommand(cr) /\ target' = Coming[1].chan /\ UNCHANGED conversation
                  /\ chan' = [chan EXCEPT ![Coming[1].chan] = "pending"]
      BY <3>1, <3>2 DEF SocketResolved, Insert, Command, Fail, End
    <3>4. conversation' # "Terminated"
      BY <3>3 DEF CanCommand, MaySend
    <3>5. Coming[1].chan \in Channels /\ chan \in [Channels -> Presence]
      BY <2>2 DEF Packets, TypeOK
    <3> QED
      BY <3>3, <3>4, <3>5 DEF Assured
  <2>6. CASE pc' = pc /\ pc \in Assuming
    <3>1. NoInitPending
      BY <2>6 DEF Beginning, Assuming
    <3>2. peerActive' = peerActive \/ conversation' = "Active"
      BY <2>1, IterationPeer
    <3>3. ASSUME conversation' = "Terminated"
          PROVE  ~peerActive' /\ \A i \in 1..Len(Coming') : Coming'[i].kind \notin Assuming
      <4>1. CASE conversation = "Terminated"
        BY <2>3, <2>6, <3>2, <3>3, <4>1 DEF Assured
      <4>2. CASE conversation # "Terminated"
        <5>1. Coming[1].kind = "Exit"
          BY <2>1, <2>6, <3>3, <4>2, IterationTerminates DEF Assuming
        <5>2. ~peerActive
          BY <2>2, <3>1, <5>1 DEF Leaving, NoInitPending
        <5>3. \A k \in 1..Len(Coming) : Coming[k].kind \notin Assuming
          <6> SUFFICES ASSUME NEW k \in 1..Len(Coming), Coming[k].kind \in Assuming
                       PROVE  FALSE
            OBVIOUS
          <6>1. 1 < k /\ Coming[k].kind \in CommandReplies \ {"ExitReply"}
            BY <1>0, <5>1 DEF Assuming, CommandReplies, Replies
          <6> QED
            BY <2>2, <3>1, <5>1, <6>1 DEF Farewell, NoInitPending
        <5> QED
          BY <2>3, <3>2, <3>3, <5>2, <5>3
      <4> QED
        BY <4>1, <4>2
    <3>4. ASSUME chan'[target'] = "absent"
          PROVE  conversation' = "Terminated"
      <4>1. CASE chan[target] = "absent"
        BY <2>1, <2>6, <4>1, IterationStaysTerminated DEF Assured, Assuming, InitWaits
      <4>2. CASE chan[target] # "absent"
        <5>1. target \in Services
          BY <2>6 DEF Assuming, Consistent, Wellformed, TargetOK, InitWaits
        <5> QED
          BY <2>1, <2>4, <2>6, <3>4, <4>2, <5>1, IterationRemoves DEF Assuming
      <4> QED
        BY <4>1, <4>2
    <3> QED
      BY <3>3, <3>4 DEF Assured
  <2>7. CASE pc' \notin Assuming
    BY <2>7 DEF Assured
  <2> QED
    BY <2>5, <2>6, <2>7
<1>3. CASE ReadFails
  BY <1>3 DEF ReadFails, Fail, End, Assured, Assuming
<1>4. CASE PeerAnswers
  <2>1. PICK i, q :
           /\ i \in Answerable /\ i \in 1..Len(unanswered)
           /\ Shorter(unanswered', unanswered, i) /\ Longer(Coming', Coming, q)
           /\ AnswersWith(unanswered[i], q)
    BY <1>4, PeerAnswersShape
  <2>2. UNCHANGED <<conversation, pc, chan, target>>
    BY <1>4, PeerAnswersShape DEF link
  <2>3. ASSUME pc \in Assuming, conversation = "Terminated"
        PROVE  ~peerActive' /\ q.kind \notin Assuming
    <3>1. unanswered[i].kind # "Init"
      BY <2>1, <2>3 DEF Beginning, NoInitPending, Assuming
    <3>2. unanswered[i].kind = "Exit"
      BY <2>1, <2>3, <3>1 DEF AnswersWith, Assured
    <3> QED
      BY <2>1, <3>2 DEF AnswersWith, ReplyTo, Assuming
  <2> QED
    BY <1>0, <2>1, <2>2, <2>3 DEF Assured, Longer
<1>5. CASE Peer /\ ~PeerAnswers
  <2>1. PICK q : Longer(Coming', Coming, q) /\ Volunteers(q)
    BY <1>5, PeerVolunteers
  <2>2. UNCHANGED <<conversation, pc, chan, target>>
    BY <1>5, PeerVolunteers DEF link
  <2>3. q.kind \notin Assuming
    BY <2>1 DEF Volunteers, Assuming, Replies
  <2>4. ~peerActive => ~peerActive'
    BY <2>1 DEF Volunteers
  <2> QED
    BY <1>0, <2>1, <2>2, <2>3, <2>4 DEF Assured, Longer
<1>6. CASE Arrives
  BY <1>6 DEF Arrives, Assured, Assuming
<1> QED
  BY <1>1, <1>2, <1>3, <1>4, <1>5, <1>6 DEF Next, Host, Peer

\* A call whose entry is there when its reply arrives does not panic.
LEMMA NoPanicStep ==
    ASSUME TypeOK, Consistent, Assured, NoPanic, Next
    PROVE  NoPanic'
<1>1. CASE Start
  BY <1>1, StartAsks DEF NoPanic
<1>2. CASE Receive
  <2>1. PICK written, rest, m, w :
           /\ written \in BOOLEAN
           /\ Iterates(Coming[1], rest, written) /\ Moves(Coming', Coming, m, w)
    BY <1>2, Iteration
  <2>2. 1 \in 1..Len(Coming)
    BY <1>2, Iteration
  <2>3. ASSUME pc \in Assuming, Coming[1].kind = pc
        PROVE  chan[target] # "absent"
    BY <2>2, <2>3 DEF Assured
  <2>4. outcome' = "panic" => pc \in Assuming /\ Coming[1].kind = pc /\ chan[target] = "absent"
    BY <2>1 DEF NoPanic, Iterates, Dropped, Rejected, DataArrived, TransactionArrived, Wait, Fail,
             Returns, End, NotAnswered, HandlePeerTransaction, HandleInit, HandleQuery,
             HandleCloseChannel, HandleCredit, HandleExit, HandleError, HandleReply,
             InitReplied, ChannelOpened, NameResolved, ChannelClosed,
             ExitReplied, CreditRequested, SocketResolved, Expected, Assuming
  <2> QED
    BY <2>3, <2>4 DEF NoPanic
<1>3. CASE ReadFails
  BY <1>3 DEF ReadFails, Fail, End, NoPanic
<1>4. CASE Peer
  BY <1>4, PeerAnswersShape, PeerVolunteers DEF link, NoPanic, Consistent
<1>5. CASE Arrives
  BY <1>5 DEF Arrives, NoPanic
<1> QED
  BY <1>1, <1>2, <1>3, <1>4, <1>5 DEF Next, Host

\* When the printer is silent after its Exit, neither assertion of
\* open_service and ensure_channel_credit ever fails: the reply they handle
\* was sent in a conversation that still has the entry they assert.
THEOREM NeverPanics ==
    ASSUME ~LateAnswers
    PROVE  Spec => []NoPanic
<1> DEFINE Inv == Farewell /\ Assured /\ NoPanic
<1>1. Init => Inv
  <2> SUFFICES ASSUME Init PROVE Inv
    OBVIOUS
  <2>1. Len(Coming) = 0
    BY ConcatProperties DEF Init, Coming
  <2>2. pc \notin Assuming
    BY DEF Init, Assuming
  <2>3. Farewell /\ Assured
    BY <2>1, <2>2 DEF Farewell, Assured
  <2> QED
    BY <2>3 DEF Init, NoPanic
<1>2. TypeOK /\ Consistent /\ Inv /\ [Next]_vars => Inv'
  <2>1. Inv /\ UNCHANGED vars => Inv'
    BY DEF vars, link, peer, Farewell, Assured, NoPanic, Coming
  <2> QED
    BY <2>1, FarewellStep, AssuredStep, NoPanicStep
<1>3. Inv => NoPanic
  OBVIOUS
<1> HIDE DEF Inv
<1> QED
  BY <1>1, <1>2, <1>3, LinkInvariant, PTL DEF Spec

-----------------------------------------------------------------------------
(* Requests and replies keep step.                                         *)

Answers(p) == p.kind \in Replies \cup {"Data"}

\* x, a request or an answer of this kind of reply, belongs to the running call.
OfCall(kind, x) ==
    /\ kind = Awaited
    /\ pc \notin InitWaits => x.chan = target
    /\ pc = "Data" => x.id = serial

\* Until a call fails, one request or one answer at most is on its way, and
\* it is what the running call asked for.
InStep ==
    /\ pc # "idle" => outcome = "none"
    /\ clean =>
          /\ ~deferred /\ ~abandoned /\ Len(unanswered) <= 1
          /\ \A i \in 1..Len(unanswered) :
                /\ OfCall(ReplyTo(unanswered[i].kind), unanswered[i])
                /\ \A j \in 1..Len(Coming) : ~Answers(Coming[j])
          /\ \A i \in 1..Len(Coming) : Answers(Coming[i]) =>
                /\ OfCall(Coming[i].kind, Coming[i])
                /\ \A j \in 1..Len(Coming) : Answers(Coming[j]) => i = j
          /\ pc = "Data" => conversation # "Terminated"
    /\ RepliesMatch

\* A reply ends the call, or the call writes another request.
LEMMA IterationReply ==
    ASSUME NEW p, NEW cr, NEW written, HandleReply(p, cr, written), unanswered \in Asked
    PROVE  pc' = "idle" \/ unanswered' # unanswered
<1>1. \A u : Append(unanswered, u) # unanswered
  <2> SUFFICES ASSUME NEW u PROVE Len(Append(unanswered, u)) # Len(unanswered)
    OBVIOUS
  <2>1. Longer(Append(unanswered, u), unanswered, u) /\ Len(unanswered) \in Nat
    BY AppendLonger, LenProperties DEF Asked
  <2> QED
    BY <2>1 DEF Longer
<1>2. CASE InitReplied(p, cr, written) \/ SocketResolved(p, cr, written)
  BY <1>1, <1>2 DEF InitReplied, SocketResolved, Fail, Returns, End, Command
<1>3. CASE CreditRequested(p, cr, written)
  BY <1>1, <1>3 DEF CreditRequested, Fail, Returns, End, Command, SendData, Written
<1>4. CASE ChannelOpened(p, cr) \/ NameResolved(p, cr) \/ ChannelClosed(p, cr) \/ ExitReplied(p, cr)
  BY <1>4 DEF ChannelOpened, NameResolved, ChannelClosed, ExitReplied, Fail, Returns, End
<1> QED
  BY <1>2, <1>3, <1>4 DEF HandleReply

\* An iteration that does not fail goes on waiting when its packet is no
\* answer, and else ends the call or asks on.
LEMMA IterationClean ==
    ASSUME TypeOK, TargetOK, pc # "idle", NEW p \in Packets, PacketOK(p),
           NEW rest, NEW written \in BOOLEAN, Iterates(p, rest, written), clean',
           Answers(p) => p.kind = Awaited /\ (pc \notin InitWaits => p.chan = target),
           pc = "Data" => conversation # "Terminated"
    PROVE  /\ clean /\ UNCHANGED <<deferred, abandoned>>
           /\ \/ /\ ~Answers(p) /\ UNCHANGED <<pc, target, serial, unanswered, outcome, answered>>
                 /\ pc = "Data" => conversation' # "Terminated"
              \/ /\ Answers(p) /\ pc' = "idle" /\ UNCHANGED <<serial, unanswered>>
                 /\ outcome' = "reply" => pc = "Data" /\ answered' = p.id
              \/ Answers(p) /\ UNCHANGED answered /\ \E u : IterationAsksFor(p, u)
<1>1. ~Fail
  BY DEF Fail, End
<1>2. pc \in Waiting /\ Transaction \notin Services /\ unanswered \in Asked
  BY ChannelAssumption DEF TypeOK, Asked
<1>3. CASE p.on # Transaction
  <2>1. p.kind \in {"Data", "Oversize"}
    BY <1>3 DEF Packets, PacketOK
  <2>2. CASE p.kind = "Oversize"
    <3>1. ~Answers(p) /\ Rejects(p)
      BY <2>2 DEF Answers, Replies, Rejects
    <3> QED
      BY <1>1, <1>3, <3>1 DEF Iterates, Dropped, Rejected, DataArrived, TransactionArrived, Wait, Silent
  <2>3. CASE p.kind = "Data"
    <3>1. Answers(p) /\ pc = "Data" /\ p.on = target
      BY <1>2, <2>3 DEF Answers, Awaited, InitWaits, PacketOK
    <3> QED
      BY <1>1, <1>3, <3>1
         DEF Iterates, Dropped, Rejected, DataArrived, TransactionArrived, Returns, End, Silent
  <2> QED
    BY <2>1, <2>2, <2>3
<1>4. CASE p.on = Transaction /\ p.kind \in PeerCommands
  <2>1. ~Answers(p)
    BY <1>4 DEF Answers, PeerCommands, Replies
  <2>2. TransactionArrived(p, rest, written) /\ HandlePeerTransaction(p, Accrued(p), written)
    BY <1>1, <1>4 DEF Iterates, Dropped, Rejected, DataArrived, TransactionArrived
  <2>3. UNCHANGED <<pc, target, tries, outcome, clean, abandoned>>
    BY <1>1, <2>2 DEF HandlePeerTransaction, HandleInit, HandleQuery, HandleCloseChannel,
                      HandleCredit, HandleExit, HandleError, NotAnswered, Wait
  <2>4. UNCHANGED <<serial, unanswered>>
    BY <1>1, <2>2 DEF HandlePeerTransaction, HandleInit, HandleQuery, HandleCloseChannel,
                      HandleCredit, HandleExit, HandleError, NotAnswered, Answered, Silent
  <2>5. pc = "Data" => conversation' # "Terminated"
    BY <1>1, <2>2 DEF HandlePeerTransaction, HandleInit, HandleQuery, HandleCloseChannel,
                      HandleCredit, HandleExit, HandleError, NotAnswered
  <2> QED
    BY <2>1, <2>2, <2>3, <2>4, <2>5 DEF TransactionArrived
<1>5. CASE p.on = Transaction /\ p.kind \notin PeerCommands
  <2>1. p.kind = Expected /\ HandleReply(p, Accrued(p), written) /\ UNCHANGED <<answered, deferred>>
    BY <1>1, <1>5 DEF Iterates, Dropped, Rejected, DataArrived, TransactionArrived
  <2>2. Answers(p)
    BY <1>2, <1>5, <2>1 DEF PacketOK, Packets, Answers, Expected, Waiting
  <2>3. clean /\ UNCHANGED abandoned
    BY <1>1, <2>1 DEF HandleReply, InitReplied, SocketResolved, ChannelOpened, NameResolved,
                      ChannelClosed, ExitReplied, CreditRequested, Returns, End
  <2>4. pc' = "idle" => outcome' # "reply"
    BY <1>1, <2>1 DEF HandleReply, InitReplied, SocketResolved, ChannelOpened, NameResolved,
                      ChannelClosed, ExitReplied, CreditRequested, Returns, End, Command, SendData
  <2>5. pc' = "idle" \/ unanswered' # unanswered
    BY <1>2, <2>1, IterationReply
  <2> QED
    BY <2>1, <2>2, <2>3, <2>4, <2>5, IterationAsks
<1> QED
  BY <1>3, <1>4, <1>5

\* While a call runs, no outcome is recorded.
LEMMA IterationOutcome ==
    ASSUME NEW p, NEW rest, NEW written, Iterates(p, rest, written)
    PROVE  pc' # "idle" => UNCHANGED outcome
<1> USE DEF Wait, Fail, Returns, End
<1>1. CASE HandlePeerTransaction(p, Accrued(p), written)
  BY <1>1 DEF HandlePeerTransaction, HandleInit, HandleQuery, HandleCloseChannel,
              HandleCredit, HandleExit, HandleError, NotAnswered
<1>2. CASE HandleReply(p, Accrued(p), written)
  BY <1>2 DEF HandleReply, InitReplied, SocketResolved, ChannelOpened, NameResolved,
              ChannelClosed, ExitReplied, CreditRequested
<1> QED
  BY <1>1, <1>2 DEF Iterates, Dropped, Rejected, DataArrived, TransactionArrived

\* Every step keeps request and answer in step.
LEMMA InStepStep ==
    ASSUME TypeOK, Consistent, InStep, Next
    PROVE  InStep'
<1>0. Len(unanswered) \in Nat /\ Len(Coming) \in Nat
  BY QueueLengths
<1>1. pc = "idle" /\ clean => Len(unanswered) = 0 /\ \A i \in 1..Len(Coming) : ~Answers(Coming[i])
  <2> SUFFICES ASSUME pc = "idle", clean
               PROVE  Len(unanswered) = 0 /\ \A i \in 1..Len(Coming) : ~Answers(Coming[i])
    OBVIOUS
  <2>1. \A kind \in Requests : ReplyTo(kind) # "idle"
    BY DEF ReplyTo, Requests
  <2>2. \A i \in 1..Len(unanswered) : FALSE
    BY <2>1, QueueLengths DEF InStep, OfCall, Awaited, InitWaits
  <2>3. \A i \in 1..Len(Coming) : ~Answers(Coming[i])
    BY DEF InStep, OfCall, Awaited, InitWaits, Answers, Replies
  <2> QED
    BY <1>0, <2>2, <2>3
\* A request written when nothing is pending is the only thing pending.
<1>2. ASSUME NEW u, Asks(u), clean', clean, UNCHANGED <<deferred, abandoned>>, Len(unanswered) = 0,
             \A j \in 1..Len(Coming') : ~Answers(Coming'[j]),
             u.kind = "Data" => conversation' = "Active",
             outcome' = "none"
      PROVE  InStep'
  <2>1. Len(unanswered') = 1 /\ unanswered'[1] = u
    BY <1>2 DEF Asks, Longer
  <2>2. OfCall(ReplyTo(u.kind), u)'
    <3>1. ReplyTo(u.kind)' = ReplyTo(u.kind) /\ u' = u
      BY DEF ReplyTo
    <3>2. pc' = "Data" => u.kind = "Data"
      BY <1>2 DEF Asks, Awaited, InitWaits, ReplyTo, Requests
    <3>3. pc' \notin InitWaits => u.kind # "Init"
      BY <1>2 DEF Asks, Awaited, InitWaits, ReplyTo, Waiting
    <3> QED
      BY <1>2, <3>2, <3>3 DEF Asks, OfCall, InitWaits
  <2>3. pc' = "Data" => conversation' # "Terminated"
    BY <1>2 DEF Asks, Awaited, InitWaits, ReplyTo, Requests
  <2>4. \A i \in 1..Len(unanswered') : unanswered'[i] = u
    BY <2>1
  <2> QED
    BY <1>2, <2>1, <2>2, <2>3, <2>4 DEF InStep, RepliesMatch
<1>3. CASE Start
  <2>1. /\ Coming' = Coming /\ pc = "idle"
        /\ UNCHANGED <<conversation, deferred, abandoned, answered>>
    BY <1>3, StartAsks DEF Coming
  <2>2. CASE UNCHANGED <<unanswered, pc, target, serial>> /\ clean' = FALSE /\ outcome' = "error"
    BY <2>1, <2>2 DEF InStep, RepliesMatch
  <2>3. CASE clean' = clean /\ outcome' = "none"
    <3>1. PICK u : Asks(u) /\ (u.kind = "Data" => conversation = "Active")
      BY <1>3, <2>3, StartAsks
    <3>2. CASE clean
      BY <1>1, <1>2, <2>1, <2>3, <3>1, <3>2
    <3>3. CASE ~clean
      BY <2>3, <3>3 DEF InStep, RepliesMatch
    <3> QED
      BY <3>2, <3>3
  <2> QED
    BY <1>3, <2>2, <2>3, StartAsks
<1>4. CASE Receive
  <2>1. PICK written, rest, m, w :
           /\ written \in BOOLEAN
           /\ Iterates(Coming[1], rest, written) /\ Moves(Coming', Coming, m, w)
           /\ ~deferred' => Advanced(Coming', Coming)
    BY <1>4, Iteration
  <2>2. Coming[1] \in Packets /\ PacketOK(Coming[1]) /\ pc # "idle" /\ 1 \in 1..Len(Coming) /\ TargetOK
    BY <1>0, <1>4, Iteration DEF Receive, Consistent, Wellformed
  <2>3. pc' # "idle" => outcome' = "none"
    BY <2>1, <2>2, IterationOutcome DEF InStep
  <2>4. CASE ~clean'
    BY <2>3, <2>4 DEF InStep, RepliesMatch
  <2>5. CASE clean'
    <3> DEFINE p == Coming[1]
    <3>0. clean
      BY <2>1, <2>5 DEF Iterates, Dropped, Rejected, DataArrived, TransactionArrived, Wait, Fail,
             Returns, End, NotAnswered, HandlePeerTransaction, HandleInit, HandleQuery,
             HandleCloseChannel, HandleCredit, HandleExit, HandleError, HandleReply,
             InitReplied, ChannelOpened, NameResolved, ChannelClosed,
             ExitReplied, CreditRequested, SocketResolved
    <3>1. /\ Answers(p) => OfCall(p.kind, p)
          /\ Answers(p) => Len(unanswered) = 0 /\ \A j \in 1..Len(Coming) : j > 1 => ~Answers(Coming[j])
          /\ pc = "Data" => conversation # "Terminated"
          /\ ~deferred /\ ~abandoned
      <4>1. Answers(p) => \A j \in 1..Len(unanswered) : FALSE
        BY <2>2, <3>0 DEF InStep
      <4> QED
        BY <1>0, <2>2, <3>0, <4>1 DEF InStep
    <3>2. /\ UNCHANGED <<deferred, abandoned>>
          /\ \/ /\ ~Answers(p) /\ UNCHANGED <<pc, target, serial, unanswered, outcome, answered>>
                /\ pc = "Data" => conversation' # "Terminated"
             \/ /\ Answers(p) /\ pc' = "idle" /\ UNCHANGED <<serial, unanswered>>
                /\ outcome' = "reply" => pc = "Data" /\ answered' = p.id
             \/ Answers(p) /\ UNCHANGED answered /\ \E u : IterationAsksFor(p, u)
      BY <2>1, <2>2, <2>5, <3>1, IterationClean DEF OfCall
    <3>3. Len(Coming') = Len(Coming) - 1 /\ \A i \in 1..Len(Coming') : Coming'[i] = Coming[i + 1]
      BY <2>1, <3>1, <3>2 DEF Advanced
    <3>4. \A i \in 1..Len(Coming') : i + 1 \in 1..Len(Coming) /\ i + 1 > 1
      BY <1>0, <3>3
    <3>5. Answers(p) => \A i \in 1..Len(Coming') : ~Answers(Coming'[i])
      BY <3>1, <3>3, <3>4
    <3>6. CASE ~Answers(p) /\ UNCHANGED <<pc, target, serial, unanswered, outcome, answered>>
               /\ (pc = "Data" => conversation' # "Terminated")
      <4>1. UNCHANGED Awaited
        BY <3>6 DEF Awaited, InitWaits
      <4>2. \A i \in 1..Len(unanswered) :
                /\ OfCall(ReplyTo(unanswered[i].kind), unanswered[i])
                /\ \A j \in 1..Len(Coming') : ~Answers(Coming'[j])
        BY <3>0, <3>3, <3>4 DEF InStep
      <4>3. \A i \in 1..Len(Coming') : Answers(Coming'[i]) =>
                /\ OfCall(Coming'[i].kind, Coming'[i])
                /\ \A j \in 1..Len(Coming') : Answers(Coming'[j]) => i = j
        <5> SUFFICES ASSUME NEW i \in 1..Len(Coming'), Answers(Coming'[i]),
                            NEW j \in 1..Len(Coming'), Answers(Coming'[j])
                     PROVE  OfCall(Coming'[i].kind, Coming'[i]) /\ i = j
          OBVIOUS
        <5>1. i + 1 \in 1..Len(Coming) /\ j + 1 \in 1..Len(Coming)
              /\ Coming'[i] = Coming[i + 1] /\ Coming'[j] = Coming[j + 1]
          BY <3>3, <3>4
        <5>2. OfCall(Coming[i + 1].kind, Coming[i + 1]) /\ i + 1 = j + 1
          BY <3>0, <5>1 DEF InStep
        <5> QED
          BY <5>1, <5>2
      <4>4. RepliesMatch'
        BY <3>0, <3>6 DEF InStep, RepliesMatch
      <4> QED
        BY <2>3, <3>0, <3>1, <3>2, <3>6, <4>1, <4>2, <4>3, <4>4 DEF InStep, OfCall, InitWaits
    <3>7. CASE /\ Answers(p) /\ pc' = "idle" /\ UNCHANGED <<serial, unanswered>>
               /\ outcome' = "reply" => pc = "Data" /\ answered' = p.id
      <4>1. RepliesMatch'
        BY <3>1, <3>7 DEF RepliesMatch, OfCall
      <4>2. Len(unanswered') = 0
        BY <3>1, <3>7
      <4> QED
        BY <3>1, <3>2, <3>5, <3>7, <4>1, <4>2 DEF InStep
    <3>8. CASE Answers(p) /\ \E u : IterationAsksFor(p, u)
      <4>1. PICK u : IterationAsksFor(p, u)
        BY <3>8
      <4>2. Asks(u) /\ UNCHANGED outcome /\ (u.kind = "Data" => conversation' = "Active")
        BY <4>1 DEF IterationAsksFor
      <4>3. outcome' = "none"
        BY <2>2, <4>2 DEF InStep
      <4> QED
        BY <1>2, <2>5, <3>0, <3>1, <3>2, <3>5, <3>8, <4>2, <4>3
    <3> QED
      BY <3>2, <3>6, <3>7, <3>8
  <2> QED
    BY <2>4, <2>5
<1>5. CASE ReadFails
  BY <1>5 DEF ReadFails, Fail, End, InStep, RepliesMatch
<1>6. CASE Peer
  <2>1. /\ UNCHANGED <<conversation, pc, target, serial, outcome, answered>>
        /\ UNCHANGED <<clean, deferred, abandoned>>
    BY <1>6, PeerAnswersShape, PeerVolunteers DEF link, Consistent
  <2>2. \A kind, x : OfCall(kind, x) => kind = Awaited' /\ (pc' \notin InitWaits => x.chan = target')
                                        /\ (pc' = "Data" => x.id = serial')
    BY <2>1 DEF OfCall, Awaited, InitWaits
  <2>3. CASE ~clean
    BY <2>1, <2>3 DEF InStep, RepliesMatch
  <2>4. CASE clean /\ PeerAnswers
    <3>1. PICK i, q :
             /\ i \in 1..Len(unanswered)
             /\ Shorter(unanswered', unanswered, i) /\ Longer(Coming', Coming, q)
             /\ AnswersWith(unanswered[i], q)
      BY <2>4, PeerAnswersShape DEF Consistent
    <3>2. Len(unanswered') = 0
      BY <1>0, <2>4, <3>1 DEF InStep, Shorter
    <3>3. OfCall(ReplyTo(unanswered[i].kind), unanswered[i]) /\ \A j \in 1..Len(Coming) : ~Answers(Coming[j])
      BY <2>4, <3>1 DEF InStep
    <3>4. /\ q.kind = Awaited' /\ (pc' \notin InitWaits => q.chan = target')
          /\ (pc' = "Data" => q.id = serial')
      BY <2>2, <3>1, <3>3 DEF AnswersWith
    <3>5. \A j \in 1..Len(Coming') : Answers(Coming'[j]) => j = Len(Coming) + 1 /\ Coming'[j] = q
      BY <1>0, <3>1, <3>3 DEF Longer
    <3> QED
      BY <2>1, <2>4, <3>2, <3>4, <3>5 DEF InStep, OfCall, RepliesMatch, InitWaits
  <2>5. CASE clean /\ ~PeerAnswers
    <3>1. PICK q : Longer(Coming', Coming, q) /\ Volunteers(q)
      BY <1>6, <2>5, PeerVolunteers DEF Consistent
    <3>2. UNCHANGED unanswered /\ ~Answers(q)
      BY <1>6, <2>5, <3>1, PeerVolunteers DEF Consistent, Volunteers, Answers
    <3>3. \A j \in 1..Len(Coming') : Answers(Coming'[j]) => j \in 1..Len(Coming) /\ Coming'[j] = Coming[j]
      BY <1>0, <3>1, <3>2 DEF Longer
    <3>4. UNCHANGED Awaited
      BY <2>1 DEF Awaited, InitWaits
    <3> QED
      BY <2>1, <2>5, <3>2, <3>3, <3>4 DEF InStep, OfCall, RepliesMatch, InitWaits
  <2> QED
    BY <2>3, <2>4, <2>5
<1>7. CASE Arrives
  BY <1>7, ArrivesShape DEF Consistent, InStep, RepliesMatch
<1> QED
  BY <1>3, <1>4, <1>5, <1>6, <1>7 DEF Next, Host

\* Request and answer are always in step, until a call fails.
LEMMA InStepInvariant == Spec => [](TypeOK /\ Consistent /\ InStep)
<1>1. Init => InStep
  <2> SUFFICES ASSUME Init PROVE InStep
    OBVIOUS
  <2>1. Len(Coming) = 0 /\ Len(unanswered) = 0 /\ 1..0 = {}
    BY ConcatProperties DEF Init, Coming
  <2> QED
    BY <2>1 DEF Init, InStep, RepliesMatch
<1>2. TypeOK /\ Consistent /\ InStep /\ [Next]_vars => InStep'
  <2>1. InStep /\ UNCHANGED vars => InStep'
    BY DEF vars, link, peer, InStep, OfCall, Awaited, InitWaits, RepliesMatch, Coming
  <2> QED
    BY <2>1, InStepStep
<1> QED
  BY <1>1, <1>2, LinkInvariant, PTL DEF Spec

\* As long as no call has failed, the payload request returns answers its own
\* data packet: nothing else that could be taken for it is on its way.
THEOREM RepliesInStep == Spec => []RepliesMatch
<1>1. InStep => RepliesMatch
  BY DEF InStep
<1> QED
  BY <1>1, InStepInvariant, PTL

-----------------------------------------------------------------------------
(* Host and printer agree.                                                 *)

\* A channel opens only with the printer's reply.
LEMMA IterationOpens ==
    ASSUME TypeOK, NEW p, NEW rest, NEW written, Iterates(p, rest, written),
           NEW c \in Services, chan'[c] = "open"
    PROVE  \/ chan[c] = "open"
           \/ /\ pc = "OpenChannelReply" /\ pc' = "idle" /\ OpensChannel(p) /\ c = target
              /\ chan[target] # "absent"
              /\ credit' = [Accrued(p) EXCEPT ![c] = p.added] /\ p.on = Transaction /\ Silent
<1>0. c \in Channels /\ c # Transaction /\ chan \in [Channels -> Presence]
  BY ChannelAssumption DEF Channels, TypeOK
<1>1. CASE UNCHANGED chan
  BY <1>1
<1>2. CASE \E cr : Terminated(cr)
  BY <1>0, <1>2 DEF Terminated
<1>3. CASE HandlePeerTransaction(p, Accrued(p), written)
  <2>1. CASE Shut(p.chan)
    BY <1>0, <2>1 DEF Shut
  <2> QED
    BY <1>1, <1>2, <1>3, <2>1
       DEF HandlePeerTransaction, HandleInit, HandleQuery, HandleCloseChannel,
           HandleCredit, HandleExit, HandleError
<1>4. CASE HandleReply(p, Accrued(p), written) /\ p.kind = Expected /\ p.on = Transaction
  <2>1. CASE ChannelOpened(p, Accrued(p))
    BY <1>0, <1>4, <2>1 DEF ChannelOpened, Expected, OpensChannel, Returns, End
  <2>2. CASE ChannelClosed(p, Accrued(p))
    BY <1>0, <2>2 DEF ChannelClosed
  <2>3. CASE SocketResolved(p, Accrued(p), written)
    BY <1>0, <2>3 DEF SocketResolved, Insert
  <2> QED
    BY <1>1, <1>2, <1>4, <2>1, <2>2, <2>3
       DEF HandleReply, InitReplied, NameResolved, ExitReplied, CreditRequested
<1> QED
  BY <1>1, <1>3, <1>4 DEF Iterates, Dropped, Rejected, DataArrived, TransactionArrived, LinkUnchanged

\* What ends a channel or the conversation at the printer ends it at the
\* host, or fails the call.
LEMMA IterationCloses ==
    ASSUME TypeOK, NEW p \in Packets, PacketOK(p), NEW rest, NEW written,
           Iterates(p, rest, written), clean', pc # "idle"
    PROVE  /\ p.kind \in {"Exit", "ExitReply"} => conversation' \in {"Exiting", "Terminated"}
           /\ p.kind \in {"CloseChannel", "CloseChannelReply"} => chan'[p.chan] # "open"
           /\ p.kind = "InitReply" => conversation' # "Terminated"
<1> SUFFICES ASSUME p.kind \in {"Exit", "ExitReply", "CloseChannel", "CloseChannelReply", "InitReply"}
             PROVE  /\ p.kind \in {"Exit", "ExitReply"} => conversation' \in {"Exiting", "Terminated"}
                    /\ p.kind \in {"CloseChannel", "CloseChannelReply"} => chan'[p.chan] # "open"
                    /\ p.kind = "InitReply" => conversation' # "Terminated"
  OBVIOUS
<1>1. ~Fail
  BY DEF Fail, End
<1>2. p.on = Transaction
  BY DEF PacketOK, PeerCommands, Replies
<1>3. TransactionArrived(p, rest, written)
  BY <1>1, <1>2 DEF Iterates, Dropped, Rejected, DataArrived
<1>4. p.chan \in Channels /\ chan \in [Channels -> Presence]
  BY DEF Packets, TypeOK
<1>5. CASE p.kind = "Exit"
  <2>1. HandleExit(p, Accrued(p), written)
    BY <1>3, <1>5 DEF TransactionArrived, HandlePeerTransaction, HandleInit, HandleQuery,
           HandleCloseChannel, HandleCredit, HandleError, PeerCommands
  <2> QED
    BY <1>1, <1>5, <2>1 DEF HandleExit, NotAnswered, Terminated
<1>6. CASE p.kind = "CloseChannel"
  <2>1. HandleCloseChannel(p, Accrued(p), written)
    BY <1>3, <1>6 DEF TransactionArrived, HandlePeerTransaction, HandleInit, HandleQuery,
           HandleExit, HandleCredit, HandleError, PeerCommands
  <2>2. Shut(p.chan)
    BY <1>1, <2>1 DEF HandleCloseChannel, NotAnswered
  <2> QED
    BY <1>4, <1>6, <2>2 DEF Shut
<1>7. CASE p.kind \in {"ExitReply", "CloseChannelReply", "InitReply"}
  <2>1. HandleReply(p, Accrued(p), written) /\ p.kind = Expected
    BY <1>1, <1>3, <1>7 DEF TransactionArrived, PeerCommands
  <2>2. CASE p.kind = "ExitReply"
    <3>1. ExitReplied(p, Accrued(p))
      BY <2>1, <2>2 DEF HandleReply, Expected, InitReplied, SocketResolved, ChannelOpened,
             NameResolved, ChannelClosed, CreditRequested
    <3> QED
      BY <1>1, <2>2, <3>1 DEF ExitReplied, Terminated
  <2>3. CASE p.kind = "CloseChannelReply"
    <3>1. ChannelClosed(p, Accrued(p))
      BY <2>1, <2>3 DEF HandleReply, Expected, InitReplied, SocketResolved, ChannelOpened,
             NameResolved, ExitReplied, CreditRequested
    <3> QED
      BY <1>1, <1>4, <2>3, <3>1 DEF ChannelClosed
  <2>4. CASE p.kind = "InitReply"
    <3>1. pc # "InitReply"
      BY DEF TypeOK, Waiting
    <3>2. InitReplied(p, Accrued(p), written)
      BY <2>1, <2>4, <3>1 DEF HandleReply, Expected, ExitReplied, SocketResolved, ChannelOpened,
             NameResolved, ChannelClosed, CreditRequested
    <3> QED
      BY <1>1, <2>4, <3>2 DEF InitReplied, MaySend
  <2> QED
    BY <1>7, <2>2, <2>3, <2>4
<1> QED
  BY <1>5, <1>6, <1>7

\* Only an accepted Init makes a conversation active.
LEMMA IterationActive ==
    ASSUME NEW p, NEW rest, NEW written, Iterates(p, rest, written),
           conversation # "Active", conversation' = "Active"
    PROVE  conversation = "Inactive" \/ pc \in InitWaits
  BY DEF Iterates, Dropped, Rejected, DataArrived, TransactionArrived, LinkUnchanged,
         HandlePeerTransaction, HandleInit, HandleQuery, HandleCloseChannel,
         HandleCredit, HandleExit, HandleError, HandleReply, InitReplied, SocketResolved,
         ChannelOpened, NameResolved, ChannelClosed, ExitReplied, CreditRequested,
         Terminated, InitWaits

\* A failure is never forgotten.
LEMMA IterationWasClean ==
    ASSUME NEW p, NEW rest, NEW written, Iterates(p, rest, written), clean'
    PROVE  clean
  BY DEF Iterates, Dropped, Rejected, DataArrived, TransactionArrived, Wait, Fail,
         Returns, End, NotAnswered, HandlePeerTransaction, HandleInit, HandleQuery,
         HandleCloseChannel, HandleCredit, HandleExit, HandleError, HandleReply,
         InitReplied, ChannelOpened, NameResolved, ChannelClosed,
         ExitReplied, CreditRequested, SocketResolved

\* The printer's end of c, or of the conversation, is on its way behind i.
EndsBehind(i, c) ==
    \E j \in 1..Len(Coming) : i < j
       /\ \/ Coming[j].kind \in {"CloseChannel", "CloseChannelReply"} /\ Coming[j].chan = c
          \/ Coming[j].kind \in {"Exit", "ExitReply"}

\* The same holds, behind the reply that opens it, for a channel the host is
\* about to hold open.
Agreed ==
    clean /\ conversation = "Active" => \A c \in Services : c \notin peerOpen =>
        /\ chan[c] = "open" => EndsBehind(0, c)
        /\ \A i \in 1..Len(Coming) :
              OpensChannel(Coming[i]) /\ Coming[i].chan = c => EndsBehind(i, c)

\* Every step keeps the agreement on the end of the conversation.
LEMMA TerminationAgreedStep ==
    ASSUME TypeOK, Consistent, InStep, TerminationAgreed, Next
    PROVE  TerminationAgreed'
<1>0. Len(unanswered) \in Nat /\ Len(Coming) \in Nat
  BY QueueLengths
<1> USE DEF Consistent
<1>1. CASE Start
  <2>1. Coming' = Coming /\ UNCHANGED <<conversation, peerActive>>
    BY <1>1, StartAsks DEF Coming
  <2>2. clean' => clean
    <3>1. clean' = FALSE \/ clean' = clean
      BY <1>1, StartAsks
    <3> QED
      BY <3>1
  <2> QED
    BY <2>1, <2>2 DEF TerminationAgreed, IsComing
<1>2. CASE Receive
  <2>1. PICK written, rest, m, w :
           /\ written \in BOOLEAN
           /\ Iterates(Coming[1], rest, written) /\ Moves(Coming', Coming, m, w)
    BY <1>2, Iteration
  <2>2. Coming[1] \in Packets /\ PacketOK(Coming[1]) /\ pc # "idle" /\ 1 \in 1..Len(Coming)
    BY <1>0, <1>2, Iteration DEF Receive, Wellformed
  <2>3. ASSUME clean', conversation' = "Terminated"
        PROVE  ~peerActive' \/ IsComing({"InitReply"}, Transaction)'
    <3>1. UNCHANGED peerActive
      BY <2>1, <2>3, IterationPeer
    <3>2. ASSUME NEW k \in 1..Len(Coming), k > 1, Coming[k].kind = "InitReply"
          PROVE  IsComing({"InitReply"}, Transaction)'
      <4>1. k \in OnTransaction(Coming) /\ Coming[k].chan = Transaction
        BY <3>2 DEF Wellformed, PacketOK, Replies, OnTransaction
      <4>2. w[k] \in OnTransaction(Coming') /\ m[w[k]] = k
        BY <2>1, <3>2, <4>1 DEF Moves
      <4>3. w[k] \in 1..Len(Coming') /\ Coming'[w[k]] = Coming[k]
        BY <2>1, <4>2 DEF Moves, OnTransaction
      <4> QED
        BY <3>2, <4>1, <4>3 DEF IsComing
    <3>3. CASE conversation # "Terminated"
      <4>1. CASE Coming[1].kind = "Exit"
        <5>1. peerActive => \E k \in 1..Len(Coming) : 1 < k /\ Coming[k].kind = "InitReply"
          BY <2>2, <4>1 DEF Leaving
        <5> QED
          BY <1>0, <3>1, <3>2, <5>1
      <4>2. CASE Coming[1].kind = "ExitReply"
        BY <2>2, <3>1, <4>2 DEF Leaving
      <4> QED
        BY <2>1, <2>3, <3>3, <4>1, <4>2, IterationTerminates
    <3>4. CASE conversation = "Terminated" /\ peerActive
      <4>1. clean
        BY <2>1, <2>3, IterationWasClean
      <4>2. PICK k \in 1..Len(Coming) : Coming[k].kind = "InitReply"
        BY <3>4, <4>1 DEF TerminationAgreed, IsComing
      <4>3. Coming[1].kind # "InitReply"
        BY <2>1, <2>2, <2>3, IterationCloses
      <4>4. k > 1
        BY <1>0, <4>2, <4>3
      <4> QED
        BY <3>2, <4>2, <4>4
    <3> QED
      BY <3>1, <3>3, <3>4
  <2> QED
    BY <2>3 DEF TerminationAgreed
<1>3. CASE ReadFails
  BY <1>3 DEF ReadFails, Fail, End, TerminationAgreed
<1>4. CASE Peer
  <2>1. UNCHANGED <<clean, conversation>>
    BY <1>4, PeerAnswersShape, PeerVolunteers DEF link
  <2>2. PICK q : /\ Longer(Coming', Coming, q) /\ PacketOK(q)
                 /\ peerActive' => peerActive \/ q.kind = "InitReply"
    <3>1. CASE PeerAnswers
      <4>1. PICK i, q :
               /\ i \in 1..Len(unanswered)
               /\ Longer(Coming', Coming, q) /\ AnswersWith(unanswered[i], q)
        BY <3>1, PeerAnswersShape
      <4> QED
        BY <4>1 DEF AnswersWith, ReplyTo
    <3>2. CASE ~PeerAnswers
      <4>1. PICK q : Longer(Coming', Coming, q) /\ Volunteers(q)
        BY <1>4, <3>2, PeerVolunteers
      <4> QED
        BY <4>1 DEF Volunteers
    <3> QED
      BY <3>1, <3>2
  <2>3. \A j \in 1..Len(Coming) : j \in 1..Len(Coming') /\ Coming'[j] = Coming[j]
    BY <1>0, <2>2 DEF Longer
  <2>4. CASE q.kind = "InitReply"
    <3>1. Len(Coming) + 1 \in 1..Len(Coming') /\ Coming'[Len(Coming) + 1] = q
      BY <1>0, <2>2 DEF Longer
    <3>2. q.chan = Transaction
      BY <2>2, <2>4 DEF PacketOK
    <3> QED
      BY <2>4, <3>1, <3>2 DEF TerminationAgreed, IsComing
  <2>5. CASE q.kind # "InitReply"
    BY <2>1, <2>2, <2>3, <2>5 DEF TerminationAgreed, IsComing
  <2> QED
    BY <2>4, <2>5
<1>5. CASE Arrives
  BY <1>5, ArrivesShape DEF TerminationAgreed
<1> QED
  BY <1>1, <1>2, <1>3, <1>4, <1>5 DEF Next, Host

\* Every step keeps the agreement on the open channels.
LEMMA AgreedStep ==
    ASSUME TypeOK, Consistent, InStep, Agreed, Next
    PROVE  Agreed'
<1>0. Len(unanswered) \in Nat /\ Len(Coming) \in Nat
  BY QueueLengths
<1> USE DEF Consistent
<1>1. CASE Start
  <2>1. Coming' = Coming /\ UNCHANGED <<conversation, chan, peerOpen>>
    BY <1>1, StartAsks DEF Coming
  <2>2. clean' => clean
    <3>1. clean' = FALSE \/ clean' = clean
      BY <1>1, StartAsks
    <3> QED
      BY <3>1
  <2> QED
    BY <2>1, <2>2 DEF Agreed, EndsBehind
<1>2. CASE Receive
  <2> SUFFICES ASSUME clean', conversation' = "Active", NEW c \in Services, c \notin peerOpen'
               PROVE  /\ chan'[c] = "open" => EndsBehind(0, c)'
                      /\ \A i \in 1..Len(Coming') :
                            OpensChannel(Coming'[i]) /\ Coming'[i].chan = c => EndsBehind(i, c)'
    BY DEF Agreed
  <2> DEFINE p == Coming[1]
  <2>1. PICK written, rest, m, w :
           /\ written \in BOOLEAN
           /\ Iterates(p, rest, written)
           /\ ~deferred' => Advanced(Coming', Coming)
    BY <1>2, Iteration
  <2>2. /\ p \in Packets /\ PacketOK(p) /\ pc # "idle" /\ 1 \in 1..Len(Coming) /\ TargetOK
        /\ UNCHANGED peerOpen
    BY <1>0, <1>2, Iteration DEF Receive, Wellformed
  <2>3. clean
    BY <2>1, IterationWasClean
  <2>4. (Answers(p) => OfCall(p.kind, p)) /\ (pc = "Data" => conversation # "Terminated")
    BY <2>2, <2>3 DEF InStep
  <2>5. UNCHANGED deferred
    BY <2>1, <2>2, <2>4, IterationClean DEF OfCall
  <2>6. Len(Coming') = Len(Coming) - 1 /\ \A i \in 1..Len(Coming') : Coming'[i] = Coming[i + 1]
    BY <2>1, <2>3, <2>5 DEF Advanced, InStep
  <2>7. CASE conversation = "Active"
    \* What ends c stays on its way, as it would fail the call or end c here.
    <3>1. ASSUME NEW i \in 0..Len(Coming'), EndsBehind(i + 1, c)
          PROVE  EndsBehind(i, c)'
      <4>1. PICK j \in 1..Len(Coming) : i + 1 < j
               /\ \/ Coming[j].kind \in {"CloseChannel", "CloseChannelReply"} /\ Coming[j].chan = c
                  \/ Coming[j].kind \in {"Exit", "ExitReply"}
        BY <3>1 DEF EndsBehind
      <4>2. j - 1 \in 1..Len(Coming') /\ i < j - 1 /\ Coming'[j - 1] = Coming[j]
        <5>1. j - 1 \in 1..Len(Coming') /\ i < j - 1 /\ (j - 1) + 1 = j
          BY <1>0, <2>6, <4>1
        <5> QED
          BY <2>6, <5>1
      <4> QED
        BY <4>1, <4>2 DEF EndsBehind
    <3>2. ASSUME chan[c] = "open", chan'[c] = "open"
          PROVE  EndsBehind(0, c)'
      <4>1. PICK j \in 1..Len(Coming) : 0 < j
               /\ \/ Coming[j].kind \in {"CloseChannel", "CloseChannelReply"} /\ Coming[j].chan = c
                  \/ Coming[j].kind \in {"Exit", "ExitReply"}
        BY <2>2, <2>3, <2>7, <3>2 DEF Agreed, EndsBehind
      <4>2. j # 1
        BY <2>1, <2>2, <3>2, <4>1, IterationCloses
      <4>3. EndsBehind(1, c)
        BY <1>0, <4>1, <4>2 DEF EndsBehind
      <4> QED
        BY <1>0, <2>6, <3>1, <4>3
    <3>3. ASSUME chan[c] # "open", chan'[c] = "open"
          PROVE  EndsBehind(0, c)'
      <4>1. OpensChannel(p) /\ c = target /\ pc = "OpenChannelReply"
        BY <2>1, <3>3, IterationOpens
      <4>2. p.chan = c
        BY <2>4, <4>1 DEF OpensChannel, Answers, Replies, OfCall, InitWaits
      <4>3. EndsBehind(1, c)
        BY <2>2, <2>3, <2>7, <4>1, <4>2 DEF Agreed
      <4> QED
        BY <1>0, <2>6, <3>1, <4>3
    <3>4. ASSUME NEW i \in 1..Len(Coming'), OpensChannel(Coming'[i]), Coming'[i].chan = c
          PROVE  EndsBehind(i, c)'
      <4>1. i + 1 \in 1..Len(Coming) /\ Coming'[i] = Coming[i + 1] /\ i \in 0..Len(Coming')
        BY <1>0, <2>6
      <4>2. EndsBehind(i + 1, c)
        BY <2>2, <2>3, <2>7, <3>4, <4>1 DEF Agreed
      <4> QED
        BY <3>1, <4>1, <4>2
    <3> QED
      BY <3>2, <3>3, <3>4
  <2>8. CASE conversation # "Active"
    <3>1. conversation = "Inactive" \/ pc \in InitWaits
      BY <2>1, <2>8, IterationActive
    <3>2. OnlyInitsPending /\ chan[c] = "absent" /\ pc \in InitWaits
      BY <2>2, <3>1 DEF Beginning
    <3>3. chan'[c] # "open"
      BY <2>1, <3>2, IterationOpens DEF InitWaits
    <3>4. ASSUME NEW i \in 1..Len(Coming')
          PROVE  ~OpensChannel(Coming'[i])
      <4>1. i + 1 \in 1..Len(Coming) /\ Coming'[i] = Coming[i + 1]
        BY <1>0, <2>6
      <4> QED
        BY <3>2, <4>1 DEF OnlyInitsPending, OpensChannel, CommandReplies, Replies
    <3> QED
      BY <3>3, <3>4
  <2> QED
    BY <2>7, <2>8
<1>3. CASE ReadFails
  BY <1>3 DEF ReadFails, Fail, End, Agreed
<1>4. CASE Peer
  <2>1. UNCHANGED <<clean, conversation, chan, pc>>
    BY <1>4, PeerAnswersShape, PeerVolunteers DEF link
  <2> SUFFICES ASSUME clean, conversation = "Active", NEW c \in Services, c \notin peerOpen'
               PROVE  /\ chan[c] = "open" => EndsBehind(0, c)'
                      /\ \A i \in 1..Len(Coming') :
                            OpensChannel(Coming'[i]) /\ Coming'[i].chan = c => EndsBehind(i, c)'
    BY <2>1 DEF Agreed
  \* Either the packet changes nothing for c, or it is what ends c, or an
  \* answer to an Init, while there is no channel.
  <2>2. PICK q : /\ Longer(Coming', Coming, q)
                 /\ OpensChannel(q) => q.chan # c
                 /\ \/ c \notin peerOpen
                    \/ q.kind \in {"CloseChannel", "CloseChannelReply"} /\ q.chan = c
                    \/ q.kind \in {"Exit", "ExitReply"}
                    \/ pc \in InitWaits
    <3>1. CASE PeerAnswers
      <4>1. PICK i, q :
               /\ i \in 1..Len(unanswered)
               /\ Longer(Coming', Coming, q) /\ AnswersWith(unanswered[i], q)
        BY <3>1, PeerAnswersShape
      <4>2. unanswered[i].kind = "Init" => pc \in InitWaits
        <5>1. pc # "InitReply"
          BY DEF TypeOK, Waiting
        <5> QED
          BY <4>1, <5>1 DEF InStep, OfCall, ReplyTo, Awaited, InitWaits
      <4>3. unanswered[i].kind = "CloseChannel" => q.kind = "CloseChannelReply"
        BY <4>1 DEF AnswersWith, ReplyTo
      <4>4. unanswered[i].kind = "Exit" => q.kind = "ExitReply"
        BY <4>1 DEF AnswersWith, ReplyTo
      <4>5. OpensChannel(q) => unanswered[i].kind \notin {"Init", "Exit", "CloseChannel"}
        BY <4>1 DEF AnswersWith, ReplyTo, OpensChannel
      <4> QED
        BY <4>1, <4>2, <4>3, <4>4, <4>5 DEF AnswersWith
    <3>2. CASE ~PeerAnswers
      <4>1. PICK q : Longer(Coming', Coming, q) /\ Volunteers(q)
        BY <1>4, <3>2, PeerVolunteers
      <4>2. ~OpensChannel(q)
        BY <4>1 DEF Volunteers, OpensChannel, Replies
      <4> QED
        BY <4>1, <4>2 DEF Volunteers
    <3> QED
      BY <3>1, <3>2
  <2>3. /\ Len(Coming) + 1 \in 1..Len(Coming') /\ Coming'[Len(Coming) + 1] = q
        /\ \A j \in 1..Len(Coming) : j \in 1..Len(Coming') /\ Coming'[j] = Coming[j]
        /\ \A j \in 1..Len(Coming') : j \in 1..Len(Coming) \/ j = Len(Coming) + 1
    BY <1>0, <2>2 DEF Longer
  <2>4. \A i \in 0..Len(Coming) : EndsBehind(i, c) => EndsBehind(i, c)'
    BY <2>3 DEF EndsBehind
  <2>5. \A i \in 1..Len(Coming') : OpensChannel(Coming'[i]) /\ Coming'[i].chan = c =>
           /\ i \in 1..Len(Coming) /\ i \in 0..Len(Coming)
           /\ OpensChannel(Coming[i]) /\ Coming[i].chan = c
    BY <1>0, <2>2, <2>3
  <2>6. CASE c \notin peerOpen
    BY <1>0, <2>4, <2>5, <2>6 DEF Agreed
  <2>7. CASE \/ q.kind \in {"CloseChannel", "CloseChannelReply"} /\ q.chan = c
             \/ q.kind \in {"Exit", "ExitReply"}
    <3>1. \A i \in 0..Len(Coming) : EndsBehind(i, c)'
      BY <1>0, <2>3, <2>7 DEF EndsBehind
    <3> QED
      BY <1>0, <2>5, <3>1
  <2>8. CASE pc \in InitWaits
    BY <2>5, <2>8 DEF Beginning, OnlyInitsPending, OpensChannel, CommandReplies, Replies
  <2> QED
    BY <2>2, <2>6, <2>7, <2>8
<1>5. CASE Arrives
  BY <1>5, ArrivesShape DEF Agreed
<1> QED
  BY <1>1, <1>2, <1>3, <1>4, <1>5 DEF Next, Host

\* As long as no call has failed, what the host holds of conversation and
\* channels is what the printer holds, or the news of it is on its way.
THEOREM AgreeInStep == Spec => []PeersAgree
<1>1. Init => TerminationAgreed /\ Agreed
  BY DEF Init, TerminationAgreed, Agreed
<1>2. TypeOK /\ Consistent /\ InStep /\ TerminationAgreed /\ Agreed /\ [Next]_vars
      => TerminationAgreed' /\ Agreed'
  <2>1. TerminationAgreed /\ Agreed /\ UNCHANGED vars => TerminationAgreed' /\ Agreed'
    BY DEF vars, link, peer, TerminationAgreed, Agreed, EndsBehind, IsComing, Coming
  <2> QED
    BY <2>1, TerminationAgreedStep, AgreedStep
<1>3. TypeOK /\ Consistent /\ TerminationAgreed /\ Agreed => PeersAgree
  <2> SUFFICES ASSUME Consistent, Agreed, clean, conversation = "Active",
                      NEW c \in Services, chan[c] = "open", c \notin peerOpen
               PROVE  \/ IsComing({"CloseChannel", "CloseChannelReply"}, c)
                      \/ IsComing({"Exit", "ExitReply"}, Transaction)
    BY DEF PeersAgree, OpenChannelsAgree
  <2>1. PICK j \in 1..Len(Coming) :
           \/ Coming[j].kind \in {"CloseChannel", "CloseChannelReply"} /\ Coming[j].chan = c
           \/ Coming[j].kind \in {"Exit", "ExitReply"}
    BY DEF Agreed, EndsBehind
  <2>2. Coming[j].kind \in {"Exit", "ExitReply"} => Coming[j].chan = Transaction
    BY DEF Consistent, Wellformed, PacketOK
  <2> QED
    BY <2>1, <2>2 DEF IsComing
<1> QED
  BY <1>1, <1>2, <1>3, InStepInvariant, PTL DEF Spec
=============================================================================

------------------------------- MODULE D4Link -------------------------------
(***************************************************************************)
(* The IEEE 1284.4 link of reink-d4 (link.rs): one blocking host, the      *)
(* D4Link, and the printer it talks to.                                    *)
(*                                                                         *)
(* The host runs one local call at a time (initialize, open_service,       *)
(* service_name, request, close_channel, exit).  A call writes a packet    *)
(* and then loops over next_packet until its reply, an error or a panic    *)
(* ends it; pc says which reply the loop is waiting for.  Every iteration  *)
(* of the loop is one Receive step, so that packets of the peer interleave *)
(* with the call in every order the wire allows.                           *)
(*                                                                         *)
(* The peer (module D4Conversation) keeps its own books: ledger[c] is the  *)
(* credit it granted on channel c minus the packets it was sent.           *)
(*                                                                         *)
(* A write that the transport reports as failed may have put the packet on *)
(* its way all the same.  The host takes it for not sent; the packet is    *)
(* doubtful, and D4Conversation decides whether the peer gets it.          *)
(***************************************************************************)
EXTENDS Integers, Sequences, FiniteSets

CONSTANTS
    Services,      \* service channels, a (socket, socket) pair each
    Transaction,   \* ChannelId::TRANSACTION, the pair (0, 0)
    CreditLimit,   \* the largest credit a channel can hold: u16::MAX
    MinGrant,      \* credit every packet of the peer grants at least
    MaxGrant,      \* bound: credit one packet or message grants
    MaxCalls,      \* bound: local calls of one link
    MaxPeer,       \* bound: packets the peer sends of its own accord
    MaxWire,       \* bound: packets on their way to the host
    WriteMayFail,  \* can the transport reject a write?
    ReadMayFail,   \* can the transport time out?
    LateAnswers    \* may the peer answer commands after its own Exit?

ASSUME ChannelAssumption == Transaction \notin Services
ASSUME BoundAssumption ==
    /\ CreditLimit \in Nat \ {0}
    /\ MinGrant \in Nat /\ MaxGrant \in 0..CreditLimit
    /\ MaxCalls \in Nat /\ MaxPeer \in Nat /\ MaxWire \in Nat
    /\ {WriteMayFail, ReadMayFail, LateAnswers} \subseteq BOOLEAN

Channels == Services \cup {Transaction}
Revisions == {"V10", "V20"}
Conversations == {"Inactive", "Active", "Exiting", "Terminated"}

\* absent: no entry in `channels`.  pending and shut are both an entry with
\* open = false: never opened, or closed by the peer.
Presence == {"absent", "pending", "open", "shut"}

\* What the running call waits for; "idle" when no call is running.
Waiting == {"InitReply20", "InitReply10", "GetSocketIdReply",
            "OpenChannelReply", "GetServiceNameReply", "CloseChannelReply",
            "ExitReply", "CreditRequestReply", "Data"}

\* OpenChannel, CreditRequest, GetSocketId and GetServiceName of the peer
\* change no state: the host only writes a reply.
PeerCommands == {"Init", "Query", "CloseChannel", "Credit", "Exit", "Error"}
Replies == {"InitReply", "GetSocketIdReply", "OpenChannelReply",
            "GetServiceNameReply", "CloseChannelReply", "CreditRequestReply",
            "ExitReply"}
Requests == {"Init", "GetSocketId", "OpenChannel", "GetServiceName",
             "CloseChannel", "CreditRequest", "Exit", "Data"}

\* What a write can carry: a request, or an answer to a command of the peer,
\* of which only an accepted InitReply matters by itself.
Sent == [kind : Requests \cup {"Reply", "InitReply"}, chan : Channels, id : Nat]

\* result 2 of an InitReply is "unsupported"; every other failure "refused".
Results == {"ok", "unsupported", "refused"}

\* A packet to the host: the channel it travels on, the credit of its
\* header, and the message; added is the credit a message grants, id (for
\* Data) names the request answered.
Packets == [on : Channels, credit : Nat, kind : PeerCommands \cup Replies
                \cup {"Data", "Malformed", "Oversize"},
            chan : Channels, result : Results, added : 0..CreditLimit, id : Nat,
            revision : Revisions]

VARIABLES
    conversation, revision, exitRequested,  \* fields of D4Link
    chan,           \* presence of each channel's entry in `channels`
    credit,         \* ChannelState.credit
    received,       \* packets decoded and not yet handled
    pc, target,     \* the running call and the channel it works on
    tries,          \* CreditRequests the running request has sent
    serial,         \* number of the latest data request
    answered,       \* which request the latest Ok payload answers
    outcome,        \* how the latest call ended
    deferred,       \* history: was a packet ever put back on `received`?
    clean,          \* history: has no call failed so far?
    abandoned,      \* history: has a call given up its OpenChannel?
    calls,          \* local calls started
    doubtful,       \* history: the packet of the latest write, if that failed
    wire,           \* packets of the peer the host has not read
    unanswered,     \* packets of the host the peer has not answered
    ledger,         \* the peer's account of the host's credit
    peerOpen,       \* channels the peer holds open
    peerActive,     \* is the peer in the conversation?
    peerSent,       \* packets the peer sent of its own accord
    unpaid          \* history: packets of failed writes in a ledger

link == <<conversation, revision, exitRequested, chan, credit, received, pc,
          target, tries, serial, answered, outcome, deferred, clean, abandoned, calls,
          doubtful>>
peer == <<wire, unanswered, ledger, peerOpen, peerActive, peerSent, unpaid>>
vars == <<link, peer>>

Init ==
    /\ conversation = "Inactive" /\ revision = "V20" /\ exitRequested = FALSE
    /\ chan = [c \in Channels |-> IF c = Transaction THEN "open" ELSE "absent"]
    /\ credit = [c \in Channels |-> 0]
    /\ received = <<>>
    /\ pc = "idle" /\ target = Transaction /\ tries = 0
    /\ serial = 0 /\ answered = 0 /\ outcome = "none"
    /\ deferred = FALSE /\ clean = TRUE /\ abandoned = FALSE /\ calls = 0
    /\ doubtful = {}
    /\ wire = <<>> /\ unanswered = <<>>
    /\ ledger = [c \in Channels |-> 0]
    /\ peerOpen = {} /\ peerActive = FALSE /\ peerSent = 0
    /\ unpaid = [c \in Channels |-> 0]

-----------------------------------------------------------------------------
(* Writing.  Every packet costs the writer one credit of its channel,      *)
(* except Init and InitReply; the peer's ledger is charged alike.          *)

Minus(f, c) == [f EXCEPT ![c] = @ - 1]
Plus(f, c, n) == [f EXCEPT ![c] = @ + n]

\* Does target.write_all succeed?
Writes == IF WriteMayFail THEN BOOLEAN ELSE {TRUE}

\* May send write in this conversation?
MaySend == conversation \in {"Inactive", "Active"}

\* The credit a new conversation begins with, whatever came before.
FirstCreditMutant(cr) == cr   \* Mutant: the assignment is missing.
FirstCredit(cr) == [cr EXCEPT ![Transaction] = 1]

Request(kind, c, id) == [kind |-> kind, chan |-> c, id |-> id]
Reply == Request("Reply", Transaction, 0)

\* A write of u, tried if it can be: the packet of a failed write is doubtful.
\* A data packet whose write failed has no number: no call waits for its reply.
Doubt(written, can, u) == doubtful' = IF can /\ ~written THEN {u} ELSE {}

\* send_transaction of a command by a call whose credits are cr by now.
CanCommand(cr) == MaySend /\ cr[Transaction] > 0

Command(kind, c, cr, waiting) ==
    /\ credit' = Minus(cr, Transaction)
    /\ ledger' = Minus(ledger, Transaction)
    /\ unanswered' = Append(unanswered, Request(kind, c, 0))
    /\ pc' = waiting /\ target' = c

\* send of a data request.
CanSendData(c, cr) ==
    conversation = "Active" /\ chan[c] = "open" /\ cr[c] > 0

WrittenMutant(u) == unanswered \o <<u, u>>   \* Mutant: the write is repeated.
Written(u) == Append(unanswered, u)

SendData(c, cr) ==
    /\ serial' = serial + 1
    /\ credit' = Minus(cr, c)
    /\ ledger' = Minus(ledger, c)
    /\ unanswered' = Written(Request("Data", c, serial + 1))
    /\ pc' = "Data" /\ target' = c

-----------------------------------------------------------------------------
(* The start of a local call, up to its first read.  A call that an early  *)
(* return ends before it changes anything is no step.                      *)

StartCall ==
    /\ pc = "idle" /\ outcome # "panic" /\ calls < MaxCalls
    /\ calls' = calls + 1
    /\ UNCHANGED <<revision, chan, received, answered, deferred, abandoned, wire,
                   peerOpen, peerActive, peerSent, unpaid>>
Runs == outcome' = "none" /\ doubtful' = {} /\ UNCHANGED clean

\* The first write of the call fails, or is refused, and the call with it.
NotStarted(lost) ==
    /\ outcome' = "error" /\ clean' = FALSE /\ doubtful' = lost
    /\ UNCHANGED <<credit, ledger, unanswered, pc, target, tries, serial>>

StartInitialize(written) ==
    LET u == Request("Init", Transaction, 0) IN
    /\ StartCall
    /\ conversation = "Inactive"
    /\ IF written
       THEN /\ unanswered' = Append(unanswered, u)
            /\ pc' = "InitReply20" /\ Runs
            /\ UNCHANGED <<credit, target, tries, serial, ledger>>
       ELSE NotStarted({u})
    /\ UNCHANGED <<conversation, exitRequested>>

StartCommand(kind, c, waiting, written) ==
    /\ StartCall
    /\ CanCommand(credit)
    /\ IF written
       THEN Command(kind, c, credit, waiting) /\ Runs /\ UNCHANGED <<tries, serial>>
       ELSE NotStarted({Request(kind, c, 0)})
    /\ UNCHANGED <<conversation, exitRequested>>

StartOpenService(c, written) ==
    StartCommand("GetSocketId", c, "GetSocketIdReply", written)

StartServiceName(c, written) ==
    StartCommand("GetServiceName", c, "GetServiceNameReply", written)

StartCloseChannel(c, written) ==
    /\ chan[c] = "open"
    /\ StartCommand("CloseChannel", c, "CloseChannelReply", written)

\* exit_requested stays set when the command cannot be written.
StartExit(written) ==
    LET u == Request("Exit", Transaction, 0) IN
    /\ StartCall
    /\ conversation = "Active"
    /\ exitRequested' = TRUE
    /\ IF written /\ CanCommand(credit)
       THEN /\ Command("Exit", Transaction, credit, "ExitReply") /\ Runs
            /\ UNCHANGED <<tries, serial>>
       ELSE NotStarted(IF CanCommand(credit) THEN {u} ELSE {})
    /\ UNCHANGED conversation

\* A D4ControlChannel is handed out for an open channel and may outlive the
\* peer's CloseChannel.
StartRequest(c, written) ==
    /\ StartCall
    /\ conversation = "Active" /\ chan[c] \in {"open", "shut"}
    /\ IF credit[c] > 0
       THEN /\ CanSendData(c, credit)
            /\ IF written THEN SendData(c, credit) /\ tries' = 0 /\ Runs
                          ELSE NotStarted({Request("Data", c, 0)})
       ELSE /\ CanCommand(credit)
            /\ IF written
               THEN /\ Command("CreditRequest", c, credit, "CreditRequestReply")
                    /\ tries' = 1 /\ Runs /\ UNCHANGED serial
               ELSE NotStarted({Request("CreditRequest", c, 0)})
    /\ UNCHANGED <<conversation, exitRequested>>

Start ==
    \E written \in Writes :
       \/ StartInitialize(written) \/ StartExit(written)
       \/ \E c \in Services :
             \/ StartOpenService(c, written) \/ StartServiceName(c, written)
             \/ StartCloseChannel(c, written) \/ StartRequest(c, written)

-----------------------------------------------------------------------------
(* One iteration of the loop in transaction or request.                    *)

\* Ends of an iteration: go on waiting, or end the call.
Wait == UNCHANGED <<pc, target, tries, outcome, clean, abandoned>>
End(how) ==
    /\ pc' = "idle" /\ outcome' = how /\ UNCHANGED <<target, tries>>
    /\ clean' = (clean /\ how # "error")
Returns(how) == End(how) /\ UNCHANGED abandoned
\* A failure before the reply to OpenChannel leaves that reply to later calls.
Fail == End("error") /\ abandoned' = (abandoned \/ pc = "OpenChannelReply")

\* The host gave up: nothing is written, the peer hears nothing.
Silent == UNCHANGED <<unanswered, ledger, serial>>

\* next_packet takes the first packet of `received`; only when that is empty
\* does it read, and one read can bring several packets.
Batches == IF received # <<>> THEN {received}
           ELSE {SubSeq(wire, 1, n) : n \in 1..Len(wire)}
TakeFrom(batch) ==
    wire' = IF received # <<>> THEN wire
            ELSE SubSeq(wire, Len(batch) + 1, Len(wire))

\* apply_credit: an unknown channel, an oversize packet or an overflow is an
\* error of the call; otherwise the header's credit is added.
RejectsMutant(p) ==   \* Mutant: an unchecked addition.
    chan[p.on] = "absent" \/ p.kind = "Oversize"
Rejects(p) == \/ chan[p.on] = "absent"
              \/ p.kind = "Oversize"
              \/ credit[p.on] + p.credit > CreditLimit
AccruedTwice(p) == Plus(credit, p.on, 2 * p.credit)   \* Mutant: added twice.
AccruedOnCommands(p) ==   \* Mutant: a data packet's credit is ignored.
    IF p.on = Transaction THEN Plus(credit, p.on, p.credit) ELSE credit
Accrued(p) == Plus(credit, p.on, p.credit)

\* terminate_conversation.
Terminated(cr) ==
    /\ chan' = [c \in Channels |-> IF c = Transaction THEN chan[c] ELSE "absent"]
    /\ credit' = [c \in Channels |-> 0]
    /\ conversation' = "Terminated"

\* send_transaction of a reply, from the credits cr, which it spends.
Answered(cr) ==
    /\ credit' = Minus(cr, Transaction)
    /\ ledger' = Minus(ledger, Transaction)
    /\ UNCHANGED <<unanswered, serial>>
NotAnswered(cr) == credit' = cr /\ Silent /\ Fail

HandleInit(p, cr, written) ==
    /\ p.kind = "Init"
    /\ IF conversation = "Inactive"
       THEN /\ revision' = p.revision /\ conversation' = "Active"
            /\ credit' = FirstCredit(cr)
            /\ IF written THEN Wait /\ peerActive' = TRUE
                          ELSE Fail /\ UNCHANGED peerActive
       ELSE /\ credit' = cr
            /\ IF written /\ MaySend THEN Wait ELSE Fail
            /\ UNCHANGED <<revision, conversation, peerActive>>
    /\ Doubt(written, conversation = "Inactive", Request("InitReply", Transaction, 0))
    /\ Silent /\ UNCHANGED <<exitRequested, chan>>

HandleQuery(p, cr, written) ==
    /\ p.kind = "Query"
    /\ IF written /\ CanCommand(cr) THEN Answered(cr) /\ Wait
                                    ELSE NotAnswered(cr)
    /\ Doubt(written, CanCommand(cr), Reply)
    /\ UNCHANGED <<conversation, revision, exitRequested, chan>>

\* The entry is kept, shut; its credit stays.
ShutMutant(c) == UNCHANGED chan   \* Mutant: open stays set.
Shut(c) == chan' = IF chan[c] = "open" THEN [chan EXCEPT ![c] = "shut"] ELSE chan

HandleCloseChannel(p, cr, written) ==
    /\ p.kind = "CloseChannel"
    /\ IF written /\ CanCommand(cr)
       THEN Answered(cr) /\ Wait /\ Shut(p.chan)
       ELSE NotAnswered(cr) /\ UNCHANGED chan
    /\ Doubt(written, CanCommand(cr), Reply)
    /\ UNCHANGED <<conversation, revision, exitRequested>>

\* The credit is added before the reply is written.
HandleCredit(p, cr, written) ==
    LET granted == Plus(cr, p.chan, p.added)
        refused == chan[p.chan] = "absent" \/ granted[p.chan] > CreditLimit
    IN
    /\ p.kind = "Credit"
    /\ IF refused
       THEN NotAnswered(cr)
       ELSE IF written /\ CanCommand(granted)
            THEN Answered(granted) /\ Wait ELSE NotAnswered(granted)
    /\ Doubt(written, ~refused /\ CanCommand(granted), Reply)
    /\ UNCHANGED <<conversation, revision, exitRequested, chan>>

HandleExit(p, cr, written) ==
    /\ p.kind = "Exit"
    /\ IF written /\ CanCommand(cr)
       THEN /\ ledger' = Minus(ledger, Transaction)
            /\ UNCHANGED <<unanswered, serial>>
            /\ IF exitRequested
               THEN /\ conversation' = "Exiting" /\ Wait
                    /\ credit' = Minus(cr, Transaction) /\ UNCHANGED chan
               ELSE /\ Terminated(cr)
                    /\ IF pc = "Data" THEN Fail ELSE Wait
       ELSE NotAnswered(cr) /\ UNCHANGED <<conversation, chan>>
    /\ Doubt(written, CanCommand(cr), Reply)
    /\ UNCHANGED <<revision, exitRequested>>

HandleError(p, cr) ==
    /\ p.kind = "Error"
    /\ credit' = cr /\ Wait /\ Silent
    /\ UNCHANGED <<conversation, revision, exitRequested, chan, doubtful>>

HandlePeerTransaction(p, cr, written) ==
    \/ HandleInit(p, cr, written)
    \/ /\ \/ HandleQuery(p, cr, written) \/ HandleCloseChannel(p, cr, written)
          \/ HandleCredit(p, cr, written) \/ HandleExit(p, cr, written)
          \/ HandleError(p, cr)
       /\ UNCHANGED peerActive

-----------------------------------------------------------------------------
(* The reply a call waits for.                                             *)

Expected == CASE pc \in {"InitReply20", "InitReply10"} -> "InitReply"
              [] pc = "Data" -> "none"
              [] OTHER -> pc

\* Revision 1.0 is the last one tried.
MayFallBackMutant(p) == p.result = "unsupported"   \* Mutant: tries forever.
MayFallBack(p) == p.result = "unsupported" /\ pc = "InitReply20"

InitReplied(p, cr, written) ==
    /\ pc \in {"InitReply20", "InitReply10"}
    /\ IF p.result = "ok"
       THEN /\ revision' = p.revision /\ conversation' = "Active"
            /\ credit' = FirstCredit(cr)
            /\ Returns("ok") /\ Silent
       ELSE /\ credit' = cr
            /\ IF MayFallBack(p) /\ written /\ MaySend
               THEN /\ pc' = "InitReply10"
                    /\ unanswered' = Append(unanswered, Request("Init", Transaction, 0))
                    /\ UNCHANGED <<target, tries, outcome, clean, abandoned, ledger, serial>>
               ELSE Fail /\ Silent
            /\ UNCHANGED <<revision, conversation>>
    /\ Doubt(written, p.result # "ok" /\ MayFallBack(p) /\ MaySend,
             Request("Init", Transaction, 0))
    /\ UNCHANGED <<exitRequested, chan>>

\* open_service: the pending entry is inserted, over an old one if there is
\* one, and then OpenChannel is written.
InsertMutant(c) == UNCHANGED chan   \* Mutant: the entry is left for the reply.
Insert(c) == chan' = [chan EXCEPT ![c] = "pending"]

SocketResolved(p, cr, written) ==
    LET resolved == p.result = "ok" /\ p.chan = target
        fresh == [cr EXCEPT ![p.chan] = 0]
    IN
    /\ pc = "GetSocketIdReply"
    /\ IF resolved
       THEN /\ Insert(p.chan)
            /\ IF written /\ CanCommand(fresh)
               THEN /\ Command("OpenChannel", p.chan, fresh, "OpenChannelReply")
                    /\ UNCHANGED <<tries, outcome, clean, abandoned, serial>>
               ELSE credit' = fresh /\ Fail /\ Silent
       ELSE credit' = cr /\ Fail /\ Silent /\ UNCHANGED chan
    /\ Doubt(written, resolved /\ CanCommand(fresh), Request("OpenChannel", p.chan, 0))
    /\ UNCHANGED <<conversation, revision, exitRequested>>

\* The reply's own channel is not compared; a missing entry panics
\* ("pending channel is inserted before OpenChannel").
ChannelOpened(p, cr) ==
    /\ pc = "OpenChannelReply"
    /\ IF p.result = "ok" /\ chan[target] # "absent"
       THEN /\ chan' = [chan EXCEPT ![target] = "open"]
            /\ credit' = [cr EXCEPT ![target] = p.added]
            /\ Returns("ok")
       ELSE /\ credit' = cr /\ UNCHANGED chan
            /\ Returns(IF p.result = "ok" THEN "panic" ELSE "error")
    /\ Silent
    /\ UNCHANGED <<conversation, revision, exitRequested, doubtful>>

NameResolved(p, cr) ==
    /\ pc = "GetServiceNameReply"
    /\ credit' = cr
    /\ Returns(IF p.result = "ok" /\ p.chan = target THEN "ok" ELSE "error")
    /\ Silent
    /\ UNCHANGED <<conversation, revision, exitRequested, chan, doubtful>>

ChannelClosed(p, cr) ==
    /\ pc = "CloseChannelReply"
    /\ IF p.result = "ok" /\ p.chan = target
       THEN /\ chan' = [chan EXCEPT ![target] = "absent"]
            /\ credit' = [cr EXCEPT ![target] = 0]
            /\ Returns("ok")
       ELSE credit' = cr /\ Fail /\ UNCHANGED chan
    /\ Silent
    /\ UNCHANGED <<conversation, revision, exitRequested, doubtful>>

ExitReplied(p, cr) ==
    /\ pc = "ExitReply"
    /\ IF p.result = "ok"
       THEN Terminated(cr) /\ Returns("ok")
       ELSE credit' = cr /\ Fail /\ UNCHANGED <<conversation, chan>>
    /\ Silent
    /\ UNCHANGED <<revision, exitRequested, doubtful>>

\* ensure_channel_credit, up to three times, and then the data packet; a
\* missing entry panics ("channel existence was checked before requesting
\* credit").
CreditRequested(p, cr, written) ==
    LET granted == Plus(cr, target, p.added)
        accepted == /\ p.result = "ok" /\ p.chan = target
                    /\ chan[target] # "absent" /\ granted[target] <= CreditLimit
    IN
    /\ pc = "CreditRequestReply"
    /\ IF p.result # "ok" \/ p.chan # target
       THEN credit' = cr /\ Fail /\ Silent
       ELSE IF chan[target] = "absent"
       THEN credit' = cr /\ Returns("panic") /\ Silent
       ELSE IF granted[target] > CreditLimit
       THEN credit' = cr /\ Fail /\ Silent
       ELSE IF granted[target] > 0 /\ written /\ CanSendData(target, granted)
       THEN SendData(target, granted) /\ UNCHANGED <<tries, outcome, clean, abandoned>>
       ELSE IF granted[target] = 0 /\ tries < 3 /\ written /\ CanCommand(granted)
       THEN /\ Command("CreditRequest", target, granted, "CreditRequestReply")
            /\ tries' = tries + 1 /\ UNCHANGED <<outcome, clean, abandoned, serial>>
       ELSE credit' = granted /\ Fail /\ Silent
    /\ IF granted[target] > 0
       THEN Doubt(written, accepted /\ CanSendData(target, granted),
                  Request("Data", target, 0))
       ELSE Doubt(written, accepted /\ tries < 3 /\ CanCommand(granted),
                  Request("CreditRequest", target, 0))
    /\ UNCHANGED <<conversation, revision, exitRequested, chan>>

HandleReply(p, cr, written) ==
    \/ InitReplied(p, cr, written) \/ SocketResolved(p, cr, written)
    \/ ChannelOpened(p, cr) \/ NameResolved(p, cr) \/ ChannelClosed(p, cr)
    \/ ExitReplied(p, cr) \/ CreditRequested(p, cr, written)

-----------------------------------------------------------------------------
(* The iteration as a whole.                                               *)

LinkUnchanged ==
    UNCHANGED <<conversation, revision, exitRequested, chan, peerActive, doubtful>>

\* A packet of a service channel, in a conversation that is over, is dropped.
Dropped(p, rest) ==
    /\ p.on # Transaction /\ conversation = "Terminated"
    /\ received' = rest
    /\ Wait /\ Silent /\ LinkUnchanged
    /\ UNCHANGED <<credit, answered, deferred>>

\* On overflow the host also writes an Error packet, which costs no credit.
Rejected(p, rest) ==
    /\ ~(p.on # Transaction /\ conversation = "Terminated")
    /\ Rejects(p)
    /\ received' = rest
    /\ Fail /\ Silent /\ LinkUnchanged
    /\ UNCHANGED <<credit, answered, deferred>>

DataArrived(p, rest) ==
    /\ p.on # Transaction /\ conversation # "Terminated" /\ ~Rejects(p)
    /\ credit' = Accrued(p)
    /\ IF pc = "Data" /\ p.on = target
       THEN /\ Returns("reply") /\ answered' = p.id
            /\ received' = rest /\ UNCHANGED deferred
       ELSE /\ received' = Append(rest, p) /\ deferred' = TRUE
            /\ Wait /\ UNCHANGED answered
    /\ Silent /\ LinkUnchanged

TransactionArrived(p, rest, written) ==
    /\ p.on = Transaction /\ ~Rejects(p)
    /\ received' = rest
    /\ IF p.kind \in PeerCommands
       THEN HandlePeerTransaction(p, Accrued(p), written)
       ELSE IF p.kind = Expected
       THEN HandleReply(p, Accrued(p), written) /\ UNCHANGED peerActive
       ELSE credit' = Accrued(p) /\ Fail /\ Silent /\ LinkUnchanged
    /\ UNCHANGED <<answered, deferred>>

Receive ==
    /\ pc # "idle"
    /\ \E batch \in Batches, written \in Writes :
          /\ TakeFrom(batch)
          /\ \/ Dropped(Head(batch), Tail(batch))
             \/ Rejected(Head(batch), Tail(batch))
             \/ DataArrived(Head(batch), Tail(batch))
             \/ TransactionArrived(Head(batch), Tail(batch), written)
    /\ UNCHANGED <<calls, peerOpen, peerSent, unpaid>>

\* The transport reports a timeout, or seven empty reads in a row: the call
\* fails, and an answer still on its way stays on its way.
ReadFails ==
    /\ ReadMayFail
    /\ pc # "idle" /\ received = <<>>
    /\ Fail /\ Silent /\ LinkUnchanged
    /\ UNCHANGED <<credit, received, answered, deferred, calls, wire,
                   peerOpen, peerSent, unpaid>>

=============================================================================

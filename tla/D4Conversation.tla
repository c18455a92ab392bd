--------------------------- MODULE D4Conversation ---------------------------
(***************************************************************************)
(* The link of D4Link.tla with a printer at the other end.                 *)
(*                                                                         *)
(* The printer is not code of the repository: it is modelled from what     *)
(* link.rs sends it and accepts from it.  It keeps the rules of the        *)
(* protocol as far as they bind it: it answers the packets of a channel in *)
(* their order, grants only credit it enters in its ledger, and sends data *)
(* only in answer to data on a channel it holds open.  It may be slow, it  *)
(* may refuse, and it may send commands of its own at any moment.          *)
(***************************************************************************)
EXTENDS D4Link

Packet(on, n, kind, c, result, added, id, rev) ==
    [on |-> on, credit |-> n, kind |-> kind, chan |-> c, result |-> result,
     added |-> added, id |-> id, revision |-> rev]

\* What a header grants; Credit, OpenChannelReply and CreditRequestReply
\* messages may grant nothing.
Piggyback == MinGrant..MaxGrant
Grants == 0..MaxGrant

PeerStep == UNCHANGED link

\* Packets of the peer that no iteration has handled.
Coming == received \o wire
IsComing(kinds, c) ==
    \E i \in 1..Len(Coming) : Coming[i].kind \in kinds /\ Coming[i].chan = c

\* The channel a packet of the host travels on, and the packets of the host
\* the peer may answer next: the first of each channel.
Carrier(u) == IF u.kind = "Data" THEN u.chan ELSE Transaction
Answerable == {i \in 1..Len(unanswered) :
                  \A j \in 1..(i - 1) : Carrier(unanswered[j]) # Carrier(unanswered[i])}

Without(s, i) == SubSeq(s, 1, i - 1) \o SubSeq(s, i + 1, Len(s))

\* Puts an answer on the wire; the credit of its header goes to the ledger
\* on top of books, what the message itself changes in it.
Answer(i, n, kind, result, added, rev, books) ==
    LET u == unanswered[i] IN
    /\ Len(wire) < MaxWire
    /\ unanswered' = Without(unanswered, i)
    /\ wire' = Append(wire, Packet(Carrier(u), n, kind, u.chan, result, added, u.id, rev))
    /\ ledger' = Plus(books, Carrier(u), n)

\* An accepted Init grants one credit by itself.
AnswerInit(i) ==
    /\ unanswered[i].kind = "Init"
    /\ \/ /\ \E rev \in Revisions :
                Answer(i, 0, "InitReply", "ok", 0, rev, Plus(ledger, Transaction, 1))
          /\ peerOpen' = {} /\ peerActive' = TRUE
       \/ /\ \E result \in {"unsupported", "refused"} :
                Answer(i, 0, "InitReply", result, 0, "V20", ledger)
          /\ UNCHANGED <<peerOpen, peerActive>>

\* A revision 1.0 OpenChannel reply has no field for granted credit.  The books
\* of the channel begin anew.
AnswerOpenChannel(i, n) ==
    LET c == unanswered[i].chan IN
    /\ unanswered[i].kind = "OpenChannel"
    /\ \/ /\ c \notin peerOpen
          /\ \E g \in Grants :
                /\ revision = "V10" => g = 0
                /\ Answer(i, n, "OpenChannelReply", "ok", g, revision, [ledger EXCEPT ![c] = g])
          /\ peerOpen' = peerOpen \cup {c}
          /\ unpaid' = [unpaid EXCEPT ![c] = 0]
       \/ /\ Answer(i, n, "OpenChannelReply", "refused", 0, revision, ledger)
          /\ UNCHANGED <<peerOpen, unpaid>>

AnswerCloseChannel(i, n) ==
    LET c == unanswered[i].chan IN
    /\ unanswered[i].kind = "CloseChannel"
    /\ Answer(i, n, "CloseChannelReply", IF c \in peerOpen THEN "ok" ELSE "refused",
              0, revision, ledger)
    /\ peerOpen' = peerOpen \ {c}

AnswerCreditRequest(i, n) ==
    LET c == unanswered[i].chan IN
    /\ unanswered[i].kind = "CreditRequest"
    /\ \/ /\ c \in peerOpen
          /\ \E g \in Grants :
                Answer(i, n, "CreditRequestReply", "ok", g, revision, Plus(ledger, c, g))
       \/ Answer(i, n, "CreditRequestReply", "refused", 0, revision, ledger)
    /\ UNCHANGED peerOpen

\* GetSocketId and GetServiceName: services and sockets correspond.
AnswerLookup(i, n) ==
    /\ unanswered[i].kind \in {"GetSocketId", "GetServiceName"}
    /\ \E result \in {"ok", "refused"} :
          Answer(i, n, IF unanswered[i].kind = "GetSocketId"
                       THEN "GetSocketIdReply" ELSE "GetServiceNameReply",
                 result, 0, revision, ledger)
    /\ UNCHANGED peerOpen

AnswerExit(i, n) ==
    /\ unanswered[i].kind = "Exit"
    /\ Answer(i, n, "ExitReply", "ok", 0, revision, ledger)
    /\ peerOpen' = {} /\ peerActive' = FALSE

AnswerData(i, n) ==
    /\ unanswered[i].kind = "Data" /\ unanswered[i].chan \in peerOpen
    /\ Answer(i, n, "Data", "ok", 0, revision, ledger)
    /\ UNCHANGED peerOpen

PeerAnswers ==
    /\ \E i \in Answerable :
          \/ AnswerInit(i) /\ UNCHANGED unpaid
          \/ (\E n \in Piggyback : AnswerExit(i, n)) /\ UNCHANGED unpaid
          \/ /\ peerActive \/ LateAnswers
             /\ \E n \in Piggyback :
                   \/ AnswerOpenChannel(i, n)
                   \/ /\ \/ AnswerCloseChannel(i, n) \/ AnswerCreditRequest(i, n)
                         \/ AnswerLookup(i, n) \/ AnswerData(i, n)
                      /\ UNCHANGED unpaid
             /\ UNCHANGED peerActive
    /\ PeerStep /\ UNCHANGED peerSent

\* A packet nobody asked for.
PeerSends(kind, c, n, added) ==
    /\ peerSent < MaxPeer /\ Len(wire) < MaxWire
    /\ peerSent' = peerSent + 1
    /\ wire' = Append(wire, Packet(IF kind = "Oversize" THEN c ELSE Transaction, n,
                                   kind, c, "ok", added, 0, revision))
    /\ UNCHANGED <<unanswered, unpaid>>

PeerInit ==
    /\ PeerSends("Init", Transaction, 0, 0)
    /\ ledger' = Plus(ledger, Transaction, 1)
    /\ UNCHANGED <<peerOpen, peerActive>>

\* The peer does not leave while an Init of its own is unanswered, or the answer
\* on its way.
PeerExit ==
    /\ ~IsComing({"Init"}, Transaction)
    /\ \A u \in doubtful : u.kind # "InitReply"
    /\ \E n \in Piggyback :
          /\ PeerSends("Exit", Transaction, n, 0)
          /\ ledger' = Plus(ledger, Transaction, n)
    /\ peerOpen' = {} /\ peerActive' = FALSE

PeerCommand ==
    /\ \E n \in Piggyback :
          \/ /\ \E kind \in {"Query", "Error", "Malformed"} :
                   PeerSends(kind, Transaction, n, 0)
             /\ ledger' = Plus(ledger, Transaction, n) /\ UNCHANGED peerOpen
          \/ \E c \in peerOpen :
                \/ /\ PeerSends("CloseChannel", c, n, 0)
                   /\ ledger' = Plus(ledger, Transaction, n)
                   /\ peerOpen' = peerOpen \ {c}
                \/ /\ \E g \in Grants :
                         /\ PeerSends("Credit", c, n, g)
                         /\ ledger' = Plus(Plus(ledger, Transaction, n), c, g)
                   /\ UNCHANGED peerOpen
                \/ /\ PeerSends("Oversize", c, n, 0)
                   /\ ledger' = Plus(ledger, c, n) /\ UNCHANGED peerOpen
    /\ UNCHANGED peerActive

Peer ==
    \/ PeerAnswers
    \/ /\ (~peerActive /\ PeerInit) \/ (peerActive /\ (PeerCommand \/ PeerExit))
       /\ PeerStep
Host == Start \/ Receive \/ ReadFails

-----------------------------------------------------------------------------
(* A packet that the host takes for not sent reaches the peer, before      *)
(* anything the host writes after it.  The host has not paid for it, the   *)
(* peer charges it.                                                        *)

\* Init and InitReply cost no credit; an answer asks for none.
Charged(u) ==
    IF u.kind \in {"Init", "InitReply"} THEN UNCHANGED <<ledger, unpaid>>
    ELSE /\ ledger' = Minus(ledger, Carrier(u))
         /\ unpaid' = Plus(unpaid, Carrier(u), 1)

Arrives ==
    /\ pc = "idle"
    /\ \E u \in doubtful :
          /\ Charged(u)
          /\ unanswered' = IF u.kind \in Requests THEN Append(unanswered, u) ELSE unanswered
          /\ peerActive' = (peerActive \/ u.kind = "InitReply")
          /\ abandoned' = (abandoned \/ u.kind = "OpenChannel")
    /\ doubtful' = {}
    /\ UNCHANGED <<conversation, revision, exitRequested, chan, credit, received, pc,
                   target, tries, serial, answered, outcome, deferred, clean, calls,
                   wire, peerOpen, peerSent>>

Next == Host \/ Arrives \/ Peer

Spec == Init /\ [][Next]_vars

\* A call in progress is a running thread, and the transport ends every read,
\* with a packet or with a failure.
FairSpec == Spec /\ WF_vars(Receive \/ ReadFails)

-----------------------------------------------------------------------------
\* What a packet to the host will add to its credit on c.
CreditFor(p, c) ==
    (IF p.on = c THEN p.credit ELSE 0)
  + (IF p.kind \in {"Credit", "OpenChannelReply", "CreditRequestReply"} /\ p.chan = c
     THEN p.added ELSE 0)
Promised(s, c) ==
    LET sum[n \in 0..Len(s)] == IF n = 0 THEN 0 ELSE sum[n - 1] + CreditFor(s[n], c)
    IN  sum[Len(s)]

\* No channel ever holds more credit than its u16, nothing is entered for a
\* channel nobody knows, and every counter stays in its bound.
TypeOK ==
    /\ conversation \in Conversations /\ revision \in Revisions
    /\ exitRequested \in BOOLEAN /\ deferred \in BOOLEAN
    /\ clean \in BOOLEAN /\ abandoned \in BOOLEAN
    /\ chan \in [Channels -> Presence]
    /\ credit \in [Channels -> 0..CreditLimit]
    /\ received \in Seq(Packets) /\ wire \in Seq(Packets)
    /\ pc \in Waiting \cup {"idle"} /\ target \in Channels
    /\ tries \in 0..3 /\ serial \in Nat /\ answered \in Nat
    /\ outcome \in {"none", "ok", "reply", "error", "panic"}
    /\ calls \in 0..MaxCalls /\ doubtful \subseteq Sent
    /\ unanswered \in Seq([kind : Requests, chan : Channels, id : Nat])
    /\ ledger \in [Channels -> Int]
    /\ peerOpen \subseteq Channels /\ peerActive \in BOOLEAN /\ peerSent \in 0..MaxPeer
    /\ unpaid \in [Channels -> Nat]

\* The host never holds more credit than the peer granted it and it has not
\* spent, but for the packets that reached the peer although their write failed,
\* one credit each: send charges a packet only once write_all has returned
\* (apply_credit, send and ensure_channel_credit against the peer's own books).
\* So it is on the transaction channel always, on an open service channel until
\* a packet has been put back on `received` or a call has given up its
\* OpenChannel.
CreditBacked ==
    /\ credit[Transaction] <= ledger[Transaction] + unpaid[Transaction]
    /\ ~deferred /\ ~abandoned =>
          \A c \in Services :
             chan[c] = "open" => credit[c] <= ledger[c] + unpaid[c]

\* As long as no call has failed, no credit is lost either: on an open
\* service channel what the host holds and what is on its way to it make up
\* the peer's ledger.
CreditExact ==
    clean => \A c \in Services : chan[c] = "open" =>
                 ledger[c] = credit[c] + Promised(Coming, c)

\* No peer that stops answering once it has sent Exit can make the two
\* assertions of open_service and ensure_channel_credit panic, whatever is
\* in flight when it leaves.
NoPanic == outcome # "panic"

\* Once the conversation is terminated, the host writes no packet that costs
\* credit and no command, and tries to write none, whatever the running call
\* still receives.
HostSilentAfterTermination ==
    [][Host /\ conversation = "Terminated" =>
         UNCHANGED <<unanswered, ledger>> /\ doubtful' \subseteq doubtful]_vars

\* As long as no call has failed, the host takes the conversation for
\* terminated only when the peer has left it too, or has begun another one
\* that the host has yet to hear of.
TerminationAgreed ==
    clean /\ conversation = "Terminated" => ~peerActive \/ IsComing({"InitReply"}, Transaction)

\* As long as no call has failed, a channel the host holds open in an active
\* conversation is open at the peer, or the peer's close or exit is on its way.
OpenChannelsAgree ==
    clean /\ conversation = "Active" => \A c \in Services : chan[c] = "open" =>
        \/ c \in peerOpen
        \/ IsComing({"CloseChannel", "CloseChannelReply"}, c)
        \/ IsComing({"Exit", "ExitReply"}, Transaction)

\* Host and peer agree on their conversation and on its channels, as long as
\* no call has failed.
PeersAgree == TerminationAgreed /\ OpenChannelsAgree

\* As long as no call has failed, the payload request returns answers the
\* request it sent.
RepliesMatch == clean /\ outcome = "reply" => answered = serial

\* The same after failures too, which is what ControlChannel::request
\* promises: it "Sends one complete request and returns its complete reply".
RepliesAlwaysMatch == outcome = "reply" => answered = serial

\* A peer that returns a credit with every packet can always be left: when
\* no call runs and no command is unanswered, exit can write its command.
ExitPossible ==
    pc = "idle" /\ conversation = "Active" /\ Coming = <<>>
        /\ (\A i \in 1..Len(unanswered) : Carrier(unanswered[i]) # Transaction)
    => credit[Transaction] > 0

\* Every local call returns, unless a packet has been put back on `received`:
\* initialize tries two revisions, ensure_channel_credit asks three times, and
\* no exchange of commands keeps a loop going by itself.  The loops have no
\* deadline of their own: this is so because a printer sends finitely many
\* packets nobody asked for (MaxPeer); one that goes on sending them keeps a
\* call going.
CallsReturn == pc # "idle" ~> pc = "idle" \/ deferred

\* The same without the exception: an operation that ends can be followed by
\* "close D4 and restore any driver ReInk handed off".
CallsAlwaysReturn == pc # "idle" ~> pc = "idle"
=============================================================================

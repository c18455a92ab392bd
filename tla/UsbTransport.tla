---------------------------- MODULE UsbTransport ----------------------------
(***************************************************************************)
(* ReadOnlyUsbTransport of reink-usb (adapter.rs) on Linux, in any number  *)
(* of processes that select the same printer interface.                    *)
(*                                                                         *)
(* open asks whether a kernel driver holds the interface, detaches it and  *)
(* claims the interface; close releases the interface and reattaches the   *)
(* driver; Drop runs close once more and then gives up the device handle.  *)
(* Each of these is a separate call to the operating system, and a step of *)
(* its own: step[p] is the call that process p makes next.  Who holds the  *)
(* interface (owner) is the kernel's knowledge, and common to all.         *)
(***************************************************************************)
EXTENDS Naturals

CONSTANTS
    Processes,   \* processes that select the interface
    Policies,    \* UsbDriverHandoff values their opens may ask for
    MaxOpens     \* bound: opens, of all processes together

ASSUME ProcessAssumption ==
    {"driver", "nobody"} \cap Processes = {} /\ Processes # {}
ASSUME PolicyAssumption == Policies \subseteq {"Refuse", "TemporarilyDetach"}
ASSUME OpensAssumption == MaxOpens \in Nat

\* none: no transport.  failed: open has returned an error.  open and closed:
\* no call is running, before and after close.  handle: Drop of the fields.
Steps == {"none", "query", "detach", "claim", "undo", "failed", "open",
          "release", "reattach", "closed", "handle"}
Owners == Processes \cup {"driver", "nobody"}
Failures == {"open", "claim", "release", "reattach"}

VARIABLES
    home,       \* who held the interface before any process touched it
    owner,      \* who holds it now
    step,       \* the call each process makes next
    policy,     \* the handoff policy of the process's open
    claimed,    \* field of the transport
    detached,   \* field detached_kernel_driver, and the local that becomes it
    failures,   \* what the errors of its open and close name so far
    dropping,   \* is the running close the one of Drop?
    detacher,   \* history: the process that detached the driver last
    opens       \* opens so far

usb == <<home, owner, step, policy, claimed, detached, failures, dropping,
         detacher, opens>>

UsbInit ==
    /\ home \in {"driver", "nobody"} /\ owner = home
    /\ step = [p \in Processes |-> "none"]
    /\ policy = [p \in Processes |-> "TemporarilyDetach"]
    /\ claimed = [p \in Processes |-> FALSE]
    /\ detached = [p \in Processes |-> FALSE]
    /\ failures = [p \in Processes |-> {}]
    /\ dropping = [p \in Processes |-> FALSE]
    /\ detacher \in Processes
    /\ opens = 0

Goes(p, s) == step' = [step EXCEPT ![p] = s]
Tells(p, what) == failures' = [failures EXCEPT ![p] = @ \cup what]

-----------------------------------------------------------------------------
(* Opening.                                                                *)

Open(p, handoff) ==
    /\ step[p] = "none" /\ opens < MaxOpens
    /\ opens' = opens + 1
    /\ policy' = [policy EXCEPT ![p] = handoff]
    /\ Goes(p, "query")
    /\ UNCHANGED <<home, owner, claimed, detached, failures, dropping, detacher>>

\* The device is found and opened, or not, and the driver is asked for; a
\* driver that may not be detached is an error.  A system that does not support
\* the question counts as one without a driver, whatever it has.
Query(p) ==
    /\ step[p] = "query"
    /\ \/ /\ owner = "driver" /\ policy[p] # "Refuse"
          /\ Goes(p, "detach") /\ UNCHANGED failures
       \/ Goes(p, "claim") /\ UNCHANGED failures
       \/ Goes(p, "failed") /\ Tells(p, {"open"})
    /\ UNCHANGED <<home, owner, policy, claimed, detached, dropping, detacher, opens>>

\* Another process may have detached the driver since the query.
Detach(p) ==
    /\ step[p] = "detach"
    /\ \/ /\ owner = "driver" /\ owner' = "nobody"
          /\ detached' = [detached EXCEPT ![p] = TRUE] /\ detacher' = p
          /\ Goes(p, "claim") /\ UNCHANGED failures
       \/ /\ Goes(p, "failed") /\ Tells(p, {"open"})
          /\ UNCHANGED <<owner, detached, detacher>>
    /\ UNCHANGED <<home, policy, claimed, dropping, opens>>

\* The call after a failed claim.
AfterClaimErrorIgnored(p) == "open"   \* Mutant: the error is dropped.
AfterClaimErrorAlways(p) == "undo"    \* Mutant: attaches, detached or not.
AfterClaimError(p) == IF detached[p] THEN "undo" ELSE "failed"

Claim(p) ==
    /\ step[p] = "claim"
    /\ \/ /\ owner = "nobody" /\ owner' = p
          /\ claimed' = [claimed EXCEPT ![p] = TRUE]
          /\ Goes(p, "open") /\ UNCHANGED failures
       \/ /\ Goes(p, AfterClaimError(p)) /\ Tells(p, {"claim"})
          /\ UNCHANGED <<owner, claimed>>
    /\ UNCHANGED <<home, policy, detached, dropping, detacher, opens>>

\* attach_kernel_driver succeeds only while nobody holds the interface.
Attach(p) ==
    \/ owner = "nobody" /\ owner' = "driver" /\ UNCHANGED failures
    \/ Tells(p, {"reattach"}) /\ UNCHANGED owner

\* Either way open returns an error and the local is gone.
Undo(p) ==
    /\ step[p] = "undo"
    /\ Attach(p) /\ Goes(p, "failed")
    /\ detached' = [detached EXCEPT ![p] = FALSE]
    /\ UNCHANGED <<home, policy, claimed, dropping, detacher, opens>>

Opening(p) == Query(p) \/ Detach(p) \/ Claim(p) \/ Undo(p)

-----------------------------------------------------------------------------
(* Closing.  close is called by the owner of the transport, and by Drop.   *)

\* The first call of a close, and the one after Release.
FirstCallMutant(p, last) == "release"   \* Mutant: claimed is not asked.
FirstCall(p, last) ==
    IF claimed[p] THEN "release" ELSE IF detached[p] THEN "reattach" ELSE last
AfterReleaseMutant(p, ok, last) ==   \* Mutant: an error ends the close.
    IF ok /\ detached[p] THEN "reattach" ELSE last
AfterRelease(p, ok, last) == IF detached[p] THEN "reattach" ELSE last

Last(p) == IF dropping[p] THEN "handle" ELSE "closed"

\* The start of close, on its own or in Drop.
StartClose(p) ==
    /\ Goes(p, FirstCall(p, "closed"))
    /\ UNCHANGED <<home, owner, policy, claimed, detached, failures, dropping,
                   detacher, opens>>
StartDrop(p) ==
    /\ Goes(p, FirstCall(p, "handle"))
    /\ dropping' = [dropping EXCEPT ![p] = TRUE]
    /\ UNCHANGED <<home, owner, policy, claimed, detached, failures, detacher, opens>>

\* The claim is forgotten before the interface is released: a failed release
\* is not tried again.
Release(p) ==
    /\ step[p] = "release"
    /\ claimed' = [claimed EXCEPT ![p] = FALSE]
    /\ \/ /\ owner = p /\ owner' = "nobody" /\ UNCHANGED failures
          /\ Goes(p, AfterRelease(p, TRUE, Last(p)))
       \/ /\ Tells(p, {"release"}) /\ UNCHANGED owner
          /\ Goes(p, AfterRelease(p, FALSE, Last(p)))
    /\ UNCHANGED <<home, policy, detached, dropping, detacher, opens>>

\* A failed reattachment is tried again by Drop.
Reattach(p) ==
    /\ step[p] = "reattach"
    /\ Attach(p) /\ Goes(p, Last(p))
    /\ detached' = [detached EXCEPT ![p] = owner' # "driver"]
    /\ UNCHANGED <<home, policy, claimed, dropping, detacher, opens>>

Closing(p) == Release(p) \/ Reattach(p)

\* The kernel releases what a closed handle still claims; it reattaches
\* nothing.  So does the end of the process, at any moment.
Released(p) == owner' = IF owner = p THEN "nobody" ELSE owner
Vanish(p) ==
    /\ Released(p) /\ Goes(p, "none")
    /\ claimed' = [claimed EXCEPT ![p] = FALSE]
    /\ detached' = [detached EXCEPT ![p] = FALSE]
    /\ dropping' = [dropping EXCEPT ![p] = FALSE]
    /\ failures' = [failures EXCEPT ![p] = {}]
    /\ policy' = [policy EXCEPT ![p] = "TemporarilyDetach"]
    /\ UNCHANGED <<home, detacher, opens>>

UsbTypeOK ==
    /\ home \in {"driver", "nobody"} /\ owner \in Owners
    /\ step \in [Processes -> Steps]
    /\ policy \in [Processes -> Policies \cup {"TemporarilyDetach"}]
    /\ claimed \in [Processes -> BOOLEAN] /\ detached \in [Processes -> BOOLEAN]
    /\ failures \in [Processes -> SUBSET Failures]
    /\ dropping \in [Processes -> BOOLEAN]
    /\ detacher \in Processes /\ opens \in 0..MaxOpens
=============================================================================

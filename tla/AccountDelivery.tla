--------------------------- MODULE AccountDelivery ---------------------------
(***************************************************************************)
(* Messages sent through a role's account (agent/account_delivery): the    *)
(* account_send tool of a turn and the parts of a proactive reply's batch, *)
(* each recorded in the delivery ledger before the plugin is called and    *)
(* settled by what the platform answers, while the accounts are deleted,   *)
(* added, disconnected and reloaded and the process may die at any step.   *)
(*                                                                         *)
(* The platform is external: it takes a message it was handed, or a part of *)
(* it, or refuses it, at any later time, whether or not anyone still waits. *)
(***************************************************************************)
EXTENDS Accounts

CONSTANTS
    Tools,       \* account_send calls of the turn
    Parts,       \* number of messages of the batch
    Sender       \* the role whose turn and batch these are

ASSUME SendsAssumption ==
    /\ IsFiniteSet(Tools) /\ Parts \in Nat \ {0} /\ Tools \cap (1 .. Parts) = {}

Sends == Tools \cup (1 .. Parts)

VARIABLES
    ledger,    \* ledger[s]: the attempt's durable status, or "none"
    wire,      \* wire[s]: what the platform was handed, and made of it
    via,       \* via[s]: the reference it was handed over through
    flying,    \* calls whose answer is awaited
    errors,    \* calls the plugin answered with an error of its own
    row,       \* row[p]: the delivery status of a batch message's stored row
    batch,     \* the proactive sequence
    turn       \* the turn: whether its implicit reply went out

calls == <<ledger, wire, via, flying, errors>>
sends == <<calls, row, batch, turn>>
vars == <<accounts, sends>>

NoBatch(pc) == [pc |-> pc, next |-> 1, access |-> None, result |-> None]

InitSends ==
    /\ ledger = [s \in Sends |-> "none"]
    /\ wire = [s \in Sends |-> "none"]
    /\ via = [s \in Sends |-> None]
    /\ flying = {} /\ errors = {}
    /\ row = [p \in 1 .. Parts |-> "none"]
    /\ batch = NoBatch("idle")
    /\ turn = [pc |-> "idle", sent |-> FALSE]

-----------------------------------------------------------------------------
(* Looking the account up                                                  *)

\* channel_account(): the role's listed account; there is at most one.
Listed == {x \in index[published] : RoleOf[x] = Sender}

\* What authorize() captures and validate_access() compares: the account, its
\* owner and the token of the instance.
Access(x) == [account |-> AccountOf[x], token |-> published]

Authorized(x) == x \in online[published]

\* The instance still serves the account over an open connection.
Served(x) == x \in ids[published] \cap sockets[published]

\* Fault: a batch sends through whichever account the role has by then.
PinIgnored(s, x) == Authorized(x)

\* A batch is pinned to the access it resolved; a tool is not.
Allowed(s, x) ==
    Authorized(x) /\ (s \notin Tools => Access(x) = batch.access)

-----------------------------------------------------------------------------
(* One send                                                                *)

\* Begin, check and call without an await between: the attempt is pending
\* when the plugin writes to the platform.
HandOver(s) ==
    /\ \E x \in Listed : Allowed(s, x) /\ Served(x) /\ via' = [via EXCEPT ![s] = x]
    /\ ledger' = [ledger EXCEPT ![s] = "pending"]
    /\ wire' = [wire EXCEPT ![s] = "open"] /\ flying' = flying \cup {s}
    /\ UNCHANGED errors

\* No account, no access, or an instance that no longer serves it: the attempt
\* is recorded as failed and nothing leaves the process.
Rejected(s) ==
    /\ \A x \in Listed : ~(Allowed(s, x) /\ Served(x))
    /\ ledger' = [ledger EXCEPT ![s] = "failed"]
    /\ UNCHANGED <<wire, via, flying, errors>>

Platform(s) ==
    /\ wire[s] = "open"
    /\ wire' \in {[wire EXCEPT ![s] = o] : o \in {"accepted", "refused"}}
    /\ UNCHANGED <<accounts, ledger, via, flying, errors, row, batch, turn>>

Lands(s, status) ==
    /\ s \in flying /\ flying' = flying \ {s}
    /\ ledger' = [ledger EXCEPT ![s] = status]
    /\ UNCHANGED <<accounts, wire, via>>

\* Fault: a broken connection counts as a failure.
UncertainFails(s) == Lands(s, "failed") /\ UNCHANGED errors

\* A timeout, a broken connection, a cancelled call or a missing receipt: the
\* platform may have taken the message.
Uncertain(s) == Lands(s, "pending") /\ UNCHANGED errors

Receipt(s) == wire[s] = "accepted" /\ Lands(s, "sent") /\ UNCHANGED errors

\* Any other exception of the plugin: the attempt is marked failed, whatever the
\* platform made of it.
Error(s) == Lands(s, "failed") /\ errors' = errors \cup {s}

-----------------------------------------------------------------------------
(* The turn and its tool                                                   *)

\* A turn of the role takes its gate.
BeginTurn ==
    /\ turn.pc = "idle" /\ batch.pc \notin {"stored", "sending", "marking"}
    /\ turn' = [turn EXCEPT !.pc = "running"]
    /\ UNCHANGED <<accounts, calls, row, batch>>

CallTool(t) ==
    /\ turn.pc = "running" /\ flying \cap Tools = {} /\ ledger[t] = "none"
    /\ HandOver(t) \/ Rejected(t)
    /\ UNCHANGED <<accounts, row, batch, turn>>

\* Fault: only a receipt suppresses the implicit reply.
ToolUncertainQuiet(t) ==
    Uncertain(t) /\ UNCHANGED <<row, batch, turn>>

\* mark_account_delivery_sent(): also when the outcome is not known, a
\* cancellation of the tool included.
ToolUncertain(t) ==
    /\ Uncertain(t)
    /\ turn' = [turn EXCEPT !.sent = TRUE]
    /\ UNCHANGED <<row, batch>>

ToolAnswered(t) ==
    /\ \/ Receipt(t) /\ turn' = [turn EXCEPT !.sent = TRUE]
       \/ Error(t) /\ UNCHANGED turn
    /\ UNCHANGED <<row, batch>>

\* A cancelled turn takes its call with it.
CancelTurn(t) ==
    /\ turn.pc = "running"
    /\ Uncertain(t)
    /\ turn' = [turn EXCEPT !.pc = "ended", !.sent = TRUE]
    /\ UNCHANGED <<row, batch>>

\* The turn's own reply goes out unless an explicit send may have arrived
\* (will_dispatch_outbound()); it ends without one when cancelled.  The
\* notice of a model stream that timed out is not a reply.
EndTurn ==
    /\ turn.pc = "running" /\ flying \cap Tools = {}
    /\ turn' \in {[turn EXCEPT !.pc = IF turn.sent THEN "silent" ELSE "replied"],
                  [turn EXCEPT !.pc = "ended"]}
    /\ UNCHANGED <<accounts, calls, row, batch>>

-----------------------------------------------------------------------------
(* The batch of a proactive reply                                          *)

\* resolve_target() with the bound user's known address: no await.
Resolve ==
    /\ batch.pc = "idle"
    /\ \E x \in Listed :
        /\ Authorized(x)
        /\ batch' = [batch EXCEPT !.pc = "pause", !.access = Access(x)]
    /\ UNCHANGED <<accounts, calls, row, turn>>

\* A part's row is stored before it is sent, under the role gate that a turn
\* of the role takes in the pauses only.
StoreRow ==
    /\ batch.pc = "pause" /\ turn.pc # "running"
    /\ row' = [row EXCEPT ![batch.next] = "pending"]
    /\ batch' = [batch EXCEPT !.pc = "stored"]
    /\ UNCHANGED <<accounts, calls, turn>>

SendPart ==
    /\ batch.pc = "stored"
    /\ \/ HandOver(batch.next) /\ batch' = [batch EXCEPT !.pc = "sending"]
       \/ /\ Rejected(batch.next)
          /\ batch' = [batch EXCEPT !.pc = "marking", !.result = "failed"]
    /\ UNCHANGED <<accounts, row, turn>>

PartAnswered ==
    /\ batch.pc = "sending"
    /\ \E r \in {"sent", "failed", "uncertain"} :
        /\ CASE r = "sent" -> Receipt(batch.next)
             [] r = "failed" -> Error(batch.next)
             [] r = "uncertain" -> Uncertain(batch.next)
        /\ batch' = [batch EXCEPT !.pc = "marking", !.result = r]
    /\ UNCHANGED <<row, turn>>

\* A plugin's handler raises CancelledError: nobody marks the row.
PartCancelled ==
    /\ batch.pc = "sending"
    /\ Uncertain(batch.next)
    /\ batch' = NoBatch("ended")
    /\ UNCHANGED <<row, turn>>

\* Fault: an unsuccessful part does not stop the batch.
MarkAndGoOn ==
    /\ batch.pc = "marking"
    /\ row' = [row EXCEPT ![batch.next] = batch.result]
    /\ batch' = [batch EXCEPT !.pc = IF batch.next < Parts THEN "pause" ELSE "ended",
                              !.next = @ + 1]
    /\ UNCHANGED <<accounts, calls, turn>>

\* The row follows the ledger, in a second commit; only a confirmed part is
\* followed by the next.
MarkRow ==
    /\ batch.pc = "marking"
    /\ row' = [row EXCEPT ![batch.next] = batch.result]
    /\ batch' = IF batch.result = "sent" /\ batch.next < Parts
                THEN [batch EXCEPT !.pc = "pause", !.next = @ + 1, !.result = None]
                ELSE NoBatch("ended")
    /\ UNCHANGED <<accounts, calls, turn>>

\* The reply is invalidated between two parts.
Invalidate ==
    /\ batch.pc = "pause"
    /\ batch' = NoBatch("ended")
    /\ UNCHANGED <<accounts, calls, row, turn>>

-----------------------------------------------------------------------------
(* The composed system                                                     *)

\* A publication waits for the turn and the batch, which hold leases.
Quiet == batch.pc \in {"idle", "ended"} /\ turn.pc # "running"

PublishQuiet(g) == Quiet /\ Publish(g) /\ UNCHANGED sends

\* What was awaited is lost, what was handed over is not.
Die ==
    /\ \E g \in Generation : Restart(g)
    /\ flying' = {}
    /\ batch' = NoBatch(IF batch.pc = "idle" THEN "idle" ELSE "ended")
    /\ turn' = [turn EXCEPT !.pc = IF @ = "running" THEN "ended" ELSE @]
    /\ UNCHANGED <<ledger, wire, via, errors, row>>

AccountStep ==
    /\ \/ \E g \in Generation :
            \/ Setup(g) \/ RegisterSaved(g) \/ Discard(g)
            \/ \E x \in Refs : Activate(g, x) \/ Disconnected(g, x)
       \/ \E x \in Refs : BeginLogin(x) \/ CancelLogin(x) \/ BeginDelete(x)
       \/ Disconnect \/ Purge \/ DeleteFails \/ Forget
    /\ UNCHANGED sends

Next ==
    \/ AccountStep
    \/ \E g \in Generation : PublishQuiet(g)
    \/ Die
    \/ \E s \in Sends : Platform(s)
    \/ BeginTurn \/ EndTurn
    \/ \E t \in Tools :
        CallTool(t) \/ ToolUncertain(t) \/ ToolAnswered(t) \/ CancelTurn(t)
    \/ Resolve \/ StoreRow \/ SendPart \/ PartAnswered \/ PartCancelled
    \/ MarkRow \/ Invalidate

Init == InitAccounts /\ InitSends

Spec == Init /\ [][Next]_vars

-----------------------------------------------------------------------------
(* Properties                                                              *)

\* Every variable of the deliveries holds a value of its kind.
SendsTypeOK ==
    /\ ledger \in [Sends -> {"none", "pending", "sent", "failed"}]
    /\ wire \in [Sends -> {"none", "open", "accepted", "refused"}]
    /\ via \in [Sends -> Refs \cup {None}]
    /\ flying \subseteq Sends /\ errors \subseteq Sends
    /\ row \in [1 .. Parts -> {"none", "pending", "sent", "failed", "uncertain"}]
    /\ batch \in [pc : {"idle", "pause", "stored", "sending", "marking", "ended"},
                  next : Nat,
                  access : [account : {AccountOf[x] : x \in Refs},
                            token : Generation] \cup {None},
                  result : {"sent", "failed", "uncertain", None}]
    /\ turn \in [pc : {"idle", "running", "replied", "silent", "ended"},
                 sent : BOOLEAN]

\* The kinds of values of the accounts and of their deliveries.
TypeOK == AccountsTypeOK /\ SendsTypeOK

\* AccountDeliveryLedger: "Commits each attempt before transport side effects";
\* "sent" is a message that arrived, and "failed" one that was never handed
\* over or that the plugin itself called failed.  An attempt whose answer was
\* lost stays pending, whatever died or was cancelled since.
LedgerTruthful ==
    \A s \in Sends :
        /\ ledger[s] = "sent" => wire[s] = "accepted"
        /\ ledger[s] = "failed" => wire[s] = "none" \/ s \in errors
        /\ wire[s] # "none" => ledger[s] # "none"

\* commit_proactive_sequence(): "Only confirmed rows enter conversation
\* history"; a row says no more than was answered, and no part is handed over
\* before the one in front of it is confirmed and marked.
RowsTruthful ==
    \A p \in 1 .. Parts :
        /\ row[p] = "sent" => ledger[p] = "sent" /\ wire[p] = "accepted"
        /\ row[p] = "failed" => wire[p] = "none" \/ p \in errors
        /\ p > 1 /\ wire[p] # "none" => row[p - 1] = "sent"

\* send(): "expected_access pins a natural batch to its resolved connection":
\* its messages never part over two accounts, though the role's account is
\* deleted and another one added between them.
BatchThroughOne ==
    \A p, q \in 1 .. Parts :
        wire[p] # "none" /\ wire[q] # "none" => AccountOf[via[p]] = AccountOf[via[q]]

\* turn_state.py: "preventing a second implicit send after explicit delivery":
\* a turn replies only if the plugin called every explicit send that was handed
\* over failed; none arrived with a receipt or may still arrive unanswered.
NoSecondReply ==
    turn.pc = "replied" =>
        \A t \in Tools : wire[t] # "none" => t \in errors /\ ledger[t] = "failed"

\* registry.py: "A concurrent generation must not revive an account mid-delete."
\* Nothing an instance does lists an account again, or moves its reported
\* state, while its deletion awaits the plugin.
DeletionFreezes ==
    [][\A x \in Refs :
        Deleting(x) /\ deletion' # None /\ published' = published =>
            /\ \A g \in Generation : index'[g] \cap Same(x) \subseteq index[g]
            /\ online'[published] \cap Same(x) = online[published] \cap Same(x)]_vars

\* AccountRuntimeState.forget(): "Drops a deleted account from every
\* generation's index." An account whose deletion has returned is neither
\* listed by any generation nor saved, until the user adds it again.
DeletedStaysGone ==
    /\ \A g \in Generation : index[g] \cap deleted = {}
    /\ store \cap deleted = {}

=============================================================================

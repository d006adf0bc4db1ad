----------------------- MODULE AccountDeliveryProofs -----------------------
(***************************************************************************)
(* What is recorded of a message sent through an account never says more   *)
(* than was answered, for every number of messages, tools, accounts and    *)
(* restarts; and a deletion freezes its account.                           *)
(***************************************************************************)
EXTENDS AccountDelivery, TLAPS

Active == batch.pc \in {"pause", "stored", "sending", "marking"}

\* Whose answer is awaited was recorded and handed over.
Flights == \A s \in flying : ledger[s] = "pending" /\ wire[s] # "none"

\* The batch has recorded nothing ahead of it, confirmed everything behind
\* it, and handed everything to the account it is pinned to.
BatchInv ==
    /\ Active => batch.next \in 1 .. Parts
    /\ \A p \in 1 .. Parts :
        /\ batch.pc = "idle" => ledger[p] = "none"
        /\ Active /\ p > batch.next => ledger[p] = "none"
        /\ Active /\ p < batch.next => row[p] = "sent"
        /\ p \in flying => batch.pc = "sending" /\ p = batch.next
        /\ Active /\ wire[p] # "none" => AccountOf[via[p]] = batch.access.account
    /\ batch.pc = "idle" => batch.next = 1
    /\ batch.pc \in {"pause", "stored"} => ledger[batch.next] = "none"
    /\ batch.pc \in {"stored", "sending", "marking"} => row[batch.next] = "pending"
    /\ batch.pc = "marking" =>
        /\ batch.result \in {"sent", "failed", "uncertain"}
        /\ ledger[batch.next] # "none"
        /\ batch.result = "sent" =>
            ledger[batch.next] = "sent" /\ wire[batch.next] = "accepted"
        /\ batch.result = "failed" => wire[batch.next] = "none" \/ batch.next \in errors

\* A turn that has not been told of a send that may have arrived has made none.
TurnInv ==
    \A t \in Tools :
        /\ t \in flying => turn.pc = "running" /\ flying \cap Tools = {t}
        /\ turn.pc = "idle" => ledger[t] = "none"
        /\ \/ turn.pc = "replied"
           \/ turn.pc = "running" /\ ~turn.sent /\ t \notin flying
           => (wire[t] # "none" => t \in errors /\ ledger[t] = "failed")

Inv ==
    /\ SendsTypeOK /\ Flights /\ LedgerTruthful /\ RowsTruthful
    /\ BatchThroughOne /\ BatchInv /\ TurnInv

-----------------------------------------------------------------------------
(* The kinds of values                                                     *)

\* What the operations on accounts do keeps the accounts' variables typed.
THEOREM AccountsTyped == Spec => []AccountsTypeOK
<1> USE RefsAssumption DEF AccountsTypeOK, SubsetsOfRefs, Generation
<1>1. Init => AccountsTypeOK
  BY DEF Init, InitAccounts, Accepted
<1>2. AccountsTypeOK /\ [Next]_vars => AccountsTypeOK'
  <2> SUFFICES ASSUME AccountsTypeOK, [Next]_vars PROVE AccountsTypeOK'
    OBVIOUS
  <2>1. ASSUME NEW g \in Generation, Setup(g) PROVE AccountsTypeOK'
    BY <2>1 DEF Setup
  <2>2. ASSUME NEW g \in Generation, RegisterSaved(g) PROVE AccountsTypeOK'
    <3>1. PICK s \in Accepted(configs[g]) :
            \/ phase' = [phase EXCEPT ![g] = "failed"] /\ UNCHANGED <<ids, index>>
            \/ /\ phase' = [phase EXCEPT ![g] = "ready"]
               /\ ids' = [ids EXCEPT ![g] = s] /\ index' = [index EXCEPT ![g] = s]
      BY <2>2, Zenon DEF RegisterSaved
    <3>2. s \subseteq Refs
      BY <3>1 DEF Accepted
    <3>3. UNCHANGED <<store, made, deleted, configs, logins, sockets, online, published,
                      deletion>>
      BY <2>2, Zenon DEF RegisterSaved
    <3>4. CASE phase' = [phase EXCEPT ![g] = "failed"] /\ UNCHANGED <<ids, index>>
      BY <3>3, <3>4
    <3>5. CASE /\ phase' = [phase EXCEPT ![g] = "ready"]
               /\ ids' = [ids EXCEPT ![g] = s] /\ index' = [index EXCEPT ![g] = s]
      BY <3>2, <3>3, <3>5
    <3> QED BY <3>1, <3>4, <3>5
  <2>3. ASSUME NEW g \in Generation, Discard(g) PROVE AccountsTypeOK'
    BY <2>3 DEF Discard, Gone
  <2>4. ASSUME NEW g \in Generation, Publish(g) PROVE AccountsTypeOK'
    BY <2>4 DEF Publish, Gone
  <2>5. ASSUME NEW g \in Generation, Restart(g) PROVE AccountsTypeOK'
    BY <2>5 DEF Restart, Accepted
  <2>6. ASSUME NEW g \in Generation, NEW x \in Refs, Activate(g, x) PROVE AccountsTypeOK'
    BY <2>6 DEF Activate, Report, Verified
  <2>7. ASSUME NEW g \in Generation, NEW x \in Refs, Disconnected(g, x) PROVE AccountsTypeOK'
    BY <2>7 DEF Disconnected, Report
  <2>8. ASSUME NEW x \in Refs, BeginLogin(x) \/ CancelLogin(x) PROVE AccountsTypeOK'
    <3>1. CASE BeginLogin(x)
      BY <3>1 DEF BeginLogin
    <3>2. CASE CancelLogin(x)
      <4>1. logins' \subseteq Refs /\ configs' \in [Generation -> SUBSET Refs]
        BY <3>2 DEF CancelLogin
      <4>2. store' \subseteq Refs
        BY <3>2, <4>1 DEF CancelLogin, Verified
      <4> QED BY <3>2, <4>1, <4>2 DEF CancelLogin
    <3> QED BY <2>8, <3>1, <3>2
  <2>9. ASSUME NEW x \in Refs, BeginDelete(x) PROVE AccountsTypeOK'
    BY <2>9 DEF BeginDelete, instance
  <2>10. ASSUME Disconnect PROVE AccountsTypeOK'
    BY <2>10 DEF Disconnect
  <2>11. ASSUME Purge PROVE AccountsTypeOK'
    BY <2>11 DEF Purge, Verified
  <2>12. ASSUME DeleteFails PROVE AccountsTypeOK'
    <3>1. PICK g : g = deletion.generation
      OBVIOUS
    <3>2. PICK r : r = deletion.ref
      OBVIOUS
    <3>3. deletion' = None /\ UNCHANGED <<store, made, deleted, phase, configs, logins,
                                         index, online, published>>
      BY <2>12, Zenon DEF DeleteFails
    <3>4. ids' = ids \/ ids' = [ids EXCEPT ![g] = @ \ {r}]
      BY <2>12, <3>1, <3>2, Zenon DEF DeleteFails
    <3>5. sockets' = sockets \/ sockets' = [sockets EXCEPT ![g] = @ \ {r}]
      BY <2>12, <3>1, <3>2 DEF DeleteFails
    <3>6. g \in Generation
      BY <2>12, <3>1 DEF DeleteFails
    <3>7. ids' \in [Generation -> SUBSET Refs]
      <4>1. CASE ids' = ids
        BY <4>1
      <4>2. CASE ids' = [ids EXCEPT ![g] = @ \ {r}]
        BY <3>6, <4>2
      <4> QED BY <3>4, <4>1, <4>2
    <3>8. sockets' \in [Generation -> SUBSET Refs]
      <4>1. CASE sockets' = sockets
        BY <4>1
      <4>2. CASE sockets' = [sockets EXCEPT ![g] = @ \ {r}]
        BY <3>6, <4>2
      <4> QED BY <3>5, <4>1, <4>2
    <3> QED BY <3>3, <3>7, <3>8
  <2>13. ASSUME Forget PROVE AccountsTypeOK'
    BY <2>13 DEF Forget, Dropped, Same, instance
  <2>14. CASE UNCHANGED accounts
    BY <2>14 DEF accounts, instance
  <2>15. CASE Next
    BY <2>1, <2>2, <2>3, <2>4, <2>5, <2>6, <2>7, <2>8, <2>9, <2>10, <2>11, <2>12,
       <2>13, <2>14, <2>15
    DEF Next, AccountStep, PublishQuiet, Die, Platform, BeginTurn, EndTurn, CallTool,
        ToolUncertain, ToolAnswered, CancelTurn, Uncertain, Receipt, Error, Lands,
        Resolve, StoreRow, SendPart, PartAnswered, PartCancelled, MarkRow, Invalidate
  <2> QED BY <2>14, <2>15 DEF vars
<1> QED BY <1>1, <1>2, PTL DEF Spec

-----------------------------------------------------------------------------
(* What is recorded                                                        *)

\* Nothing is recorded, handed over or stored at first.
LEMMA InvInit == Init => Inv
  BY SendsAssumption DEF Init, InitSends, Inv, SendsTypeOK, Flights, LedgerTruthful,
     RowsTruthful,
     BatchThroughOne, BatchInv, Active, TurnInv, NoBatch, Sends

\* No operation, answer or death records more than what happened.
LEMMA InvStep == Inv /\ AccountsTypeOK /\ [Next]_vars => Inv'
<1> USE SendsAssumption
<1> SUFFICES ASSUME Inv, AccountsTypeOK, [Next]_vars PROVE Inv'
  OBVIOUS
<1> USE DEF Inv, calls
<1>1. ASSUME NEW s \in Sends, Platform(s) PROVE Inv'
  <2>1. SendsTypeOK'
    BY <1>1 DEF SendsTypeOK, Sends, Platform
  <2>2. Flights'
    BY <1>1 DEF SendsTypeOK, Sends, Flights, Platform
  <2>3. LedgerTruthful'
    BY <1>1 DEF SendsTypeOK, Sends, Flights, LedgerTruthful, Platform
  <2>4. RowsTruthful'
    <3>1. \A q \in Sends : /\ wire'[q] = "none" <=> wire[q] = "none"
                           /\ wire[q] # "open" => wire'[q] = wire[q]
      BY <1>1 DEF SendsTypeOK, Platform
    <3>2. UNCHANGED <<ledger, errors, row>>
      BY <1>1 DEF Platform
    <3> QED BY <3>1, <3>2 DEF RowsTruthful, Sends
  <2>5. BatchThroughOne'
    BY <1>1 DEF SendsTypeOK, Sends, Flights, BatchThroughOne, BatchInv, Active, Platform
  <2>6. BatchInv'
    <3>1. \A q \in Sends : /\ wire'[q] = "none" <=> wire[q] = "none"
                           /\ wire[q] # "open" => wire'[q] = wire[q]
      BY <1>1 DEF SendsTypeOK, Platform
    <3>2. UNCHANGED <<ledger, via, flying, errors, row, batch>>
      BY <1>1 DEF Platform
    <3>3. \A p \in 1 .. Parts : p \in Sends
      BY DEF Sends
    <3>4. batch.pc = "marking" => batch.next \in Sends
      BY <3>3 DEF BatchInv, Active
    <3> DEFINE P(p) ==
          /\ batch.pc = "idle" => ledger[p] = "none"
          /\ Active /\ p > batch.next => ledger[p] = "none"
          /\ Active /\ p < batch.next => row[p] = "sent"
          /\ p \in flying => batch.pc = "sending" /\ p = batch.next
          /\ Active /\ wire[p] # "none" => AccountOf[via[p]] = batch.access.account
    <3>5. \A p \in 1 .. Parts : P(p)'
      BY <3>1, <3>2, <3>3 DEF BatchInv, Active
    <3>6. \/ batch.pc # "marking"
          \/ batch.result # "sent" \/ wire'[batch.next] = "accepted"
      BY <3>1, <3>4 DEF BatchInv
    <3>7. \/ batch.pc # "marking"
          \/ batch.result # "failed" \/ wire'[batch.next] = "none" \/ batch.next \in errors
      BY <3>1, <3>4 DEF BatchInv
    <3> QED BY <3>2, <3>5, <3>6, <3>7 DEF BatchInv, Active
  <2>7. TurnInv'
    BY <1>1 DEF SendsTypeOK, Sends, Flights, LedgerTruthful, TurnInv, Platform
  <2> QED BY <2>1, <2>2, <2>3, <2>4, <2>5, <2>6, <2>7
<1>2. ASSUME BeginTurn PROVE Inv'
  <2>1. SendsTypeOK'
    BY <1>2 DEF SendsTypeOK, Sends, BeginTurn
  <2>2. Flights'
    BY <1>2 DEF SendsTypeOK, Sends, Flights, BeginTurn
  <2>3. LedgerTruthful'
    BY <1>2 DEF SendsTypeOK, Sends, Flights, LedgerTruthful, BeginTurn
  <2>4. RowsTruthful'
    BY <1>2 DEF SendsTypeOK, Sends, Flights, LedgerTruthful, RowsTruthful, BatchInv,
       Active, BeginTurn
  <2>5. BatchThroughOne'
    BY <1>2 DEF SendsTypeOK, Sends, Flights, BatchThroughOne, BatchInv, Active,
       BeginTurn
  <2>6. BatchInv'
    BY <1>2 DEF SendsTypeOK, Sends, Flights, LedgerTruthful, RowsTruthful, BatchInv,
       Active, BeginTurn
  <2>7. TurnInv'
    BY <1>2 DEF SendsTypeOK, Sends, Flights, LedgerTruthful, TurnInv, BeginTurn
  <2> QED BY <2>1, <2>2, <2>3, <2>4, <2>5, <2>6, <2>7
<1>3. ASSUME NEW t \in Tools, CallTool(t) PROVE Inv'
  <2>1. SendsTypeOK'
    <3>1. Listed \subseteq Refs
      BY DEF Listed, AccountsTypeOK, SubsetsOfRefs
    <3>2. published \in Generation
      BY DEF AccountsTypeOK
    <3>3. CASE HandOver(t)
      <4>1. PICK x \in Listed : via' = [via EXCEPT ![t] = x]
        BY <3>3 DEF HandOver
      <4> QED BY <1>3, <3>1, <3>3, <4>1 DEF HandOver, CallTool, SendsTypeOK, Sends
    <3>4. CASE Rejected(t)
      BY <1>3, <3>4 DEF Rejected, CallTool, SendsTypeOK, Sends
    <3> QED BY <1>3, <3>3, <3>4 DEF CallTool
  <2>2. Flights'
    BY <1>3 DEF SendsTypeOK, Sends, Flights, CallTool, HandOver, Rejected, Allowed,
       Listed
  <2>3. LedgerTruthful'
    BY <1>3 DEF SendsTypeOK, Sends, Flights, LedgerTruthful, CallTool, HandOver,
       Rejected, Allowed, Listed
  <2>4. RowsTruthful'
    <3>1. \A p \in 1 .. Parts : /\ ledger'[p] = ledger[p] /\ wire'[p] = wire[p]
                                /\ via'[p] = via[p] /\ (p \in flying' <=> p \in flying)
                                /\ (p \in errors' <=> p \in errors)
      BY <1>3 DEF CallTool, HandOver, Rejected, SendsTypeOK, Sends
    <3>2. UNCHANGED <<row, batch>>
      BY <1>3 DEF CallTool
    <3> QED BY <3>1, <3>2 DEF RowsTruthful
  <2>5. BatchThroughOne'
    <3>1. \A p \in 1 .. Parts : /\ ledger'[p] = ledger[p] /\ wire'[p] = wire[p]
                                /\ via'[p] = via[p] /\ (p \in flying' <=> p \in flying)
                                /\ (p \in errors' <=> p \in errors)
      BY <1>3 DEF CallTool, HandOver, Rejected, SendsTypeOK, Sends
    <3>2. UNCHANGED <<row, batch>>
      BY <1>3 DEF CallTool
    <3> QED BY <3>1, <3>2 DEF BatchThroughOne
  <2>6. BatchInv'
    <3>1. \A p \in 1 .. Parts : /\ ledger'[p] = ledger[p] /\ wire'[p] = wire[p]
                                /\ via'[p] = via[p] /\ (p \in flying' <=> p \in flying)
                                /\ (p \in errors' <=> p \in errors)
      BY <1>3 DEF CallTool, HandOver, Rejected, SendsTypeOK, Sends
    <3>2. UNCHANGED <<row, batch>>
      BY <1>3 DEF CallTool
    <3>3. batch.pc \in {"pause", "stored", "sending", "marking"} => batch.next \in 1 .. Parts
      BY DEF BatchInv, Active
    <3> QED BY <3>1, <3>2, <3>3 DEF BatchInv, Active
  <2>7. TurnInv'
    BY <1>3 DEF SendsTypeOK, Sends, Flights, LedgerTruthful, TurnInv, CallTool,
       HandOver, Rejected, Allowed, Listed
  <2> QED BY <2>1, <2>2, <2>3, <2>4, <2>5, <2>6, <2>7
<1>4. ASSUME NEW t \in Tools, ToolUncertain(t) PROVE Inv'
  <2>1. SendsTypeOK'
    BY <1>4 DEF SendsTypeOK, Sends, ToolUncertain, Uncertain, Lands
  <2>2. Flights'
    BY <1>4 DEF SendsTypeOK, Sends, Flights, ToolUncertain, Uncertain, Lands
  <2>3. LedgerTruthful'
    BY <1>4 DEF SendsTypeOK, Sends, Flights, LedgerTruthful, ToolUncertain,
       Uncertain, Lands
  <2>4. RowsTruthful'
    BY <1>4 DEF SendsTypeOK, Sends, Flights, LedgerTruthful, RowsTruthful, BatchInv,
       Active, ToolUncertain, Uncertain, Lands
  <2>5. BatchThroughOne'
    BY <1>4 DEF SendsTypeOK, Sends, Flights, BatchThroughOne, BatchInv, Active,
       ToolUncertain, Uncertain, Lands
  <2>6. BatchInv'
    BY <1>4 DEF SendsTypeOK, Sends, Flights, LedgerTruthful, RowsTruthful, BatchInv,
       Active, ToolUncertain, Uncertain, Lands
  <2>7. TurnInv'
    BY <1>4 DEF SendsTypeOK, Sends, Flights, LedgerTruthful, TurnInv, ToolUncertain,
       Uncertain, Lands
  <2> QED BY <2>1, <2>2, <2>3, <2>4, <2>5, <2>6, <2>7
<1>5. ASSUME NEW t \in Tools, ToolAnswered(t) PROVE Inv'
  <2>1. SendsTypeOK'
    BY <1>5 DEF SendsTypeOK, Sends, ToolAnswered, Receipt, Error, Lands
  <2>2. Flights'
    BY <1>5 DEF SendsTypeOK, Sends, Flights, ToolAnswered, Receipt, Error, Lands
  <2>3. LedgerTruthful'
    BY <1>5 DEF SendsTypeOK, Sends, Flights, LedgerTruthful, ToolAnswered, Receipt,
       Error, Lands
  <2>4. RowsTruthful'
    BY <1>5 DEF SendsTypeOK, Sends, Flights, LedgerTruthful, RowsTruthful, BatchInv,
       Active, ToolAnswered, Receipt, Error, Lands
  <2>5. BatchThroughOne'
    BY <1>5 DEF SendsTypeOK, Sends, Flights, BatchThroughOne, BatchInv, Active,
       ToolAnswered, Receipt, Error, Lands
  <2>6. BatchInv'
    BY <1>5 DEF SendsTypeOK, Sends, Flights, LedgerTruthful, RowsTruthful, BatchInv,
       Active, ToolAnswered, Receipt, Error, Lands
  <2>7. TurnInv'
    BY <1>5 DEF SendsTypeOK, Sends, Flights, LedgerTruthful, TurnInv, ToolAnswered,
       Receipt, Error, Lands
  <2> QED BY <2>1, <2>2, <2>3, <2>4, <2>5, <2>6, <2>7
<1>6. ASSUME NEW t \in Tools, CancelTurn(t) PROVE Inv'
  <2>1. SendsTypeOK'
    BY <1>6 DEF SendsTypeOK, Sends, CancelTurn, Uncertain, Lands
  <2>2. Flights'
    BY <1>6 DEF SendsTypeOK, Sends, Flights, CancelTurn, Uncertain, Lands
  <2>3. LedgerTruthful'
    BY <1>6 DEF SendsTypeOK, Sends, Flights, LedgerTruthful, CancelTurn, Uncertain,
       Lands
  <2>4. RowsTruthful'
    BY <1>6 DEF SendsTypeOK, Sends, Flights, LedgerTruthful, RowsTruthful, BatchInv,
       Active, CancelTurn, Uncertain, Lands
  <2>5. BatchThroughOne'
    BY <1>6 DEF SendsTypeOK, Sends, Flights, BatchThroughOne, BatchInv, Active,
       CancelTurn, Uncertain, Lands
  <2>6. BatchInv'
    BY <1>6 DEF SendsTypeOK, Sends, Flights, LedgerTruthful, RowsTruthful, BatchInv,
       Active, CancelTurn, Uncertain, Lands
  <2>7. TurnInv'
    BY <1>6 DEF SendsTypeOK, Sends, Flights, LedgerTruthful, TurnInv, CancelTurn,
       Uncertain, Lands
  <2> QED BY <2>1, <2>2, <2>3, <2>4, <2>5, <2>6, <2>7
<1>7. ASSUME EndTurn PROVE Inv'
  <2>1. SendsTypeOK'
    BY <1>7 DEF SendsTypeOK, Sends, EndTurn
  <2>2. Flights'
    BY <1>7 DEF SendsTypeOK, Sends, Flights, EndTurn
  <2>3. LedgerTruthful'
    BY <1>7 DEF SendsTypeOK, Sends, Flights, LedgerTruthful, EndTurn
  <2>4. RowsTruthful'
    BY <1>7 DEF SendsTypeOK, Sends, Flights, LedgerTruthful, RowsTruthful, BatchInv,
       Active, EndTurn
  <2>5. BatchThroughOne'
    BY <1>7 DEF SendsTypeOK, Sends, Flights, BatchThroughOne, BatchInv, Active, EndTurn
  <2>6. BatchInv'
    BY <1>7 DEF SendsTypeOK, Sends, Flights, LedgerTruthful, RowsTruthful, BatchInv,
       Active, EndTurn
  <2>7. TurnInv'
    BY <1>7 DEF SendsTypeOK, Sends, Flights, LedgerTruthful, TurnInv, EndTurn
  <2> QED BY <2>1, <2>2, <2>3, <2>4, <2>5, <2>6, <2>7
<1>8. ASSUME Resolve PROVE Inv'
  <2>1. SendsTypeOK'
    <3>1. Listed \subseteq Refs
      BY DEF Listed, AccountsTypeOK, SubsetsOfRefs
    <3>2. published \in Generation
      BY DEF AccountsTypeOK
    <3>3. PICK x \in Listed : batch' = [batch EXCEPT !.pc = "pause", !.access = Access(x)]
      BY <1>8 DEF Resolve
    <3>4. Access(x) \in [account : {AccountOf[y] : y \in Refs}, token : Generation]
      BY <3>1, <3>2 DEF Access
    <3>5. UNCHANGED <<ledger, wire, via, flying, errors, row, turn>>
      BY <1>8 DEF Resolve
    <3> HIDE DEF Access
    <3> QED BY <3>3, <3>4, <3>5 DEF SendsTypeOK
  <2>2. Flights'
    BY <1>8 DEF SendsTypeOK, Sends, Flights, Resolve, Access
  <2>3. LedgerTruthful'
    BY <1>8 DEF SendsTypeOK, Sends, Flights, LedgerTruthful, Resolve, Access
  <2>4. RowsTruthful'
    BY <1>8 DEF SendsTypeOK, Sends, Flights, LedgerTruthful, RowsTruthful, BatchInv,
       Active, Resolve, Access
  <2>5. BatchThroughOne'
    BY <1>8 DEF SendsTypeOK, Sends, Flights, BatchThroughOne, BatchInv, Active,
       Resolve, Access
  <2>6. BatchInv'
    <3>1. PICK c : batch' = [batch EXCEPT !.pc = "pause", !.access = c]
      BY <1>8 DEF Resolve
    <3>2. UNCHANGED <<ledger, wire, via, flying, errors, row>> /\ batch.pc = "idle"
      BY <1>8 DEF Resolve
    <3>3. batch'.pc = "pause" /\ batch'.next = batch.next
      BY <3>1 DEF SendsTypeOK
    <3>4. \A p \in 1 .. Parts : ledger[p] = "none" /\ wire[p] = "none" /\ p \notin flying
      BY <3>2 DEF BatchInv, LedgerTruthful, Sends
    <3>5. batch.next = 1
      BY <3>2 DEF BatchInv
    <3> QED BY <3>2, <3>3, <3>4, <3>5 DEF BatchInv, Active
  <2>7. TurnInv'
    BY <1>8 DEF SendsTypeOK, Sends, Flights, LedgerTruthful, TurnInv, Resolve, Access
  <2> QED BY <2>1, <2>2, <2>3, <2>4, <2>5, <2>6, <2>7
<1>9. ASSUME StoreRow PROVE Inv'
  <2>1. SendsTypeOK'
    BY <1>9 DEF SendsTypeOK, Sends, BatchInv, Active, StoreRow
  <2>2. Flights'
    BY <1>9 DEF SendsTypeOK, Sends, Flights, BatchInv, Active, StoreRow
  <2>3. LedgerTruthful'
    BY <1>9 DEF SendsTypeOK, Sends, Flights, LedgerTruthful, BatchInv, Active, StoreRow
  <2>4. RowsTruthful'
    BY <1>9 DEF SendsTypeOK, Sends, Flights, LedgerTruthful, RowsTruthful, BatchInv,
       Active, StoreRow
  <2>5. BatchThroughOne'
    BY <1>9 DEF SendsTypeOK, Sends, Flights, BatchThroughOne, BatchInv, Active, StoreRow
  <2>6. BatchInv'
    BY <1>9 DEF SendsTypeOK, Sends, Flights, LedgerTruthful, RowsTruthful, BatchInv,
       Active, StoreRow
  <2>7. TurnInv'
    BY <1>9 DEF SendsTypeOK, Sends, Flights, LedgerTruthful, TurnInv, BatchInv,
       Active, StoreRow
  <2> QED BY <2>1, <2>2, <2>3, <2>4, <2>5, <2>6, <2>7
<1>10. ASSUME SendPart PROVE Inv'
  <2>1. PICK p \in 1 .. Parts : p = batch.next
    BY <1>10 DEF SendPart, BatchInv, Active
  <2>2. /\ p \in Sends /\ p \notin Tools /\ p \notin flying
        /\ ledger[p] = "none" /\ wire[p] = "none" /\ row[p] = "pending"
    BY <1>10, <2>1 DEF SendPart, BatchInv, LedgerTruthful, Sends
  <2>3. batch.pc = "stored" /\ UNCHANGED <<row, turn>>
    BY <1>10 DEF SendPart
  <2>4. ASSUME HandOver(p), batch' = [batch EXCEPT !.pc = "sending"] PROVE Inv'
    <3>1. PICK x \in Listed : Allowed(p, x) /\ via' = [via EXCEPT ![p] = x]
      BY <2>4 DEF HandOver
    <3>2. x \in Refs /\ AccountOf[x] = batch.access.account
      BY <2>2, <3>1 DEF Allowed, Access, Listed, AccountsTypeOK, SubsetsOfRefs
    <3>3. /\ ledger' = [ledger EXCEPT ![p] = "pending"]
          /\ wire' = [wire EXCEPT ![p] = "open"] /\ flying' = flying \cup {p}
          /\ errors' = errors
      BY <2>4 DEF HandOver
    <3>4. /\ batch'.pc = "sending" /\ batch'.next = p
          /\ batch'.access = batch.access
      BY <2>1, <2>4 DEF SendsTypeOK
    <3>5. SendsTypeOK'
      BY <2>1, <2>2, <2>3, <2>4, <3>1, <3>2, <3>3, <3>4 DEF SendsTypeOK
    <3>6. Flights'
      BY <2>1, <2>2, <2>3, <2>4, <3>1, <3>2, <3>3, <3>4 DEF SendsTypeOK, Flights
    <3>7. LedgerTruthful'
      BY <2>1, <2>2, <2>3, <2>4, <3>1, <3>2, <3>3, <3>4 DEF SendsTypeOK, LedgerTruthful
    <3>8. RowsTruthful'
      BY <2>1, <2>2, <2>3, <2>4, <3>1, <3>2, <3>3, <3>4 DEF SendsTypeOK,
         RowsTruthful, BatchInv, Active, LedgerTruthful
    <3>9. BatchThroughOne'
      BY <2>1, <2>2, <2>3, <2>4, <3>1, <3>2, <3>3, <3>4 DEF SendsTypeOK,
         BatchThroughOne, BatchInv, Active, Sends
    <3>10. BatchInv'
      BY <2>1, <2>2, <2>3, <2>4, <3>1, <3>2, <3>3, <3>4 DEF SendsTypeOK, BatchInv,
         Active, Sends
    <3>11. TurnInv'
      BY <2>1, <2>2, <2>3, <2>4, <3>1, <3>2, <3>3, <3>4 DEF SendsTypeOK, Sends, TurnInv
    <3> QED BY <3>5, <3>6, <3>7, <3>8, <3>9, <3>10, <3>11 DEF Inv
  <2>5. ASSUME Rejected(p), batch' = [batch EXCEPT !.pc = "marking", !.result = "failed"]
        PROVE Inv'
    <3>1. ledger' = [ledger EXCEPT ![p] = "failed"] /\ UNCHANGED <<wire, via, flying, errors>>
      BY <2>5 DEF Rejected
    <3>2. /\ batch'.pc = "marking" /\ batch'.next = p
          /\ batch'.access = batch.access /\ batch'.result = "failed"
      BY <2>1, <2>5 DEF SendsTypeOK
    <3>3. SendsTypeOK'
      BY <2>1, <2>2, <2>3, <2>5, <3>1, <3>2 DEF SendsTypeOK
    <3>4. Flights'
      BY <2>1, <2>2, <2>3, <2>5, <3>1, <3>2 DEF SendsTypeOK, Flights
    <3>5. LedgerTruthful'
      BY <2>1, <2>2, <2>3, <2>5, <3>1, <3>2 DEF SendsTypeOK, LedgerTruthful
    <3>6. RowsTruthful'
      BY <2>1, <2>2, <2>3, <2>5, <3>1, <3>2 DEF SendsTypeOK, RowsTruthful,
         BatchInv, Active, LedgerTruthful
    <3>7. BatchThroughOne'
      BY <2>1, <2>2, <2>3, <2>5, <3>1, <3>2 DEF SendsTypeOK, BatchThroughOne,
         BatchInv, Active, Sends
    <3>8. BatchInv'
      BY <2>1, <2>2, <2>3, <2>5, <3>1, <3>2 DEF SendsTypeOK, BatchInv, Active, Sends
    <3>9. TurnInv'
      BY <2>1, <2>2, <2>3, <2>5, <3>1, <3>2 DEF SendsTypeOK, Sends, TurnInv
    <3> QED BY <3>3, <3>4, <3>5, <3>6, <3>7, <3>8, <3>9 DEF Inv
  <2> QED BY <1>10, <2>1, <2>4, <2>5 DEF SendPart
<1>11. ASSUME PartAnswered PROVE Inv'
  <2>1. PICK p \in 1 .. Parts : p = batch.next
    BY <1>11 DEF PartAnswered, BatchInv, Active
  <2>2. PICK r \in {"sent", "failed", "uncertain"}, st \in {"pending", "sent", "failed"} :
          /\ Lands(p, st) /\ batch' = [batch EXCEPT !.pc = "marking", !.result = r]
          /\ r = "sent" => st = "sent" /\ wire[p] = "accepted"
          /\ r = "failed" => st = "failed"
          /\ r = "uncertain" => st = "pending"
          /\ errors' = IF r = "failed" THEN errors \cup {p} ELSE errors
    <3>1. PICK r \in {"sent", "failed", "uncertain"} :
            /\ r = "sent" => Receipt(p)
            /\ r = "failed" => Error(p)
            /\ r = "uncertain" => Uncertain(p)
            /\ batch' = [batch EXCEPT !.pc = "marking", !.result = r]
      BY <1>11, <2>1 DEF PartAnswered
    <3>2. CASE r = "sent"
      BY <3>1, <3>2 DEF Receipt
    <3>3. CASE r = "failed"
      BY <3>1, <3>3 DEF Error
    <3>4. CASE r = "uncertain"
      BY <3>1, <3>4 DEF Uncertain
    <3> QED BY <3>1, <3>2, <3>3, <3>4
  <2>3. /\ p \in flying /\ flying' = flying \ {p}
        /\ ledger' = [ledger EXCEPT ![p] = st] /\ UNCHANGED <<wire, via>>
    BY <2>2 DEF Lands
  <2>4. batch.pc = "sending" /\ UNCHANGED <<row, turn>>
    BY <1>11 DEF PartAnswered
  <2>5. /\ p \in Sends /\ p \notin Tools /\ wire[p] # "none"
        /\ ledger[p] = "pending" /\ row[p] = "pending"
    BY <2>1, <2>3, <2>4 DEF Sends, Flights, BatchInv
  <2>6. /\ batch'.pc = "marking" /\ batch'.next = p
        /\ batch'.access = batch.access /\ batch'.result = r
    BY <2>1, <2>2 DEF SendsTypeOK
  <2>7. SendsTypeOK'
    BY <2>1, <2>2, <2>3, <2>4, <2>5, <2>6 DEF SendsTypeOK
  <2>8. Flights'
    BY <2>1, <2>2, <2>3, <2>4, <2>5, <2>6 DEF SendsTypeOK, Flights
  <2>9. LedgerTruthful'
    BY <2>1, <2>2, <2>3, <2>4, <2>5, <2>6 DEF SendsTypeOK, LedgerTruthful
  <2>10. RowsTruthful'
    BY <2>1, <2>2, <2>3, <2>4, <2>5, <2>6 DEF SendsTypeOK, RowsTruthful, BatchInv,
       Active, LedgerTruthful
  <2>11. BatchThroughOne'
    BY <2>1, <2>2, <2>3, <2>4, <2>5, <2>6 DEF SendsTypeOK, BatchThroughOne,
       BatchInv, Active, Sends
  <2>12. BatchInv'
    BY <2>1, <2>2, <2>3, <2>4, <2>5, <2>6 DEF SendsTypeOK, BatchInv, Active, Sends
  <2>13. TurnInv'
    BY <2>1, <2>2, <2>3, <2>4, <2>5, <2>6 DEF SendsTypeOK, Sends, TurnInv
  <2> QED BY <2>7, <2>8, <2>9, <2>10, <2>11, <2>12, <2>13 DEF Inv
<1>12. ASSUME PartCancelled PROVE Inv'
  <2>1. SendsTypeOK'
    BY <1>12 DEF SendsTypeOK, Sends, BatchInv, Active, PartCancelled, Uncertain,
       Lands, NoBatch
  <2>2. Flights'
    BY <1>12 DEF SendsTypeOK, Sends, Flights, BatchInv, Active, PartCancelled,
       Uncertain, Lands, NoBatch
  <2>3. LedgerTruthful'
    BY <1>12 DEF SendsTypeOK, Sends, Flights, LedgerTruthful, BatchInv, Active,
       PartCancelled, Uncertain, Lands, NoBatch
  <2>4. RowsTruthful'
    BY <1>12 DEF SendsTypeOK, Sends, Flights, LedgerTruthful, RowsTruthful,
       BatchInv, Active, PartCancelled, Uncertain, Lands, NoBatch
  <2>5. BatchThroughOne'
    BY <1>12 DEF SendsTypeOK, Sends, Flights, BatchThroughOne, BatchInv, Active,
       PartCancelled, Uncertain, Lands, NoBatch
  <2>6. BatchInv'
    BY <1>12 DEF SendsTypeOK, Sends, Flights, LedgerTruthful, RowsTruthful,
       BatchInv, Active, PartCancelled, Uncertain, Lands, NoBatch
  <2>7. TurnInv'
    BY <1>12 DEF SendsTypeOK, Sends, Flights, LedgerTruthful, TurnInv, BatchInv,
       Active, PartCancelled, Uncertain, Lands, NoBatch
  <2> QED BY <2>1, <2>2, <2>3, <2>4, <2>5, <2>6, <2>7
<1>13. ASSUME MarkRow PROVE Inv'
  <2>1. SendsTypeOK'
    <3>1. batch.next \in 1 .. Parts /\ batch.result \in {"sent", "failed", "uncertain"}
      BY <1>13 DEF MarkRow, BatchInv, Active
    <3>2. row' \in [1 .. Parts -> {"none", "pending", "sent", "failed", "uncertain"}]
      BY <1>13, <3>1 DEF MarkRow, SendsTypeOK
    <3>3. CASE batch' = NoBatch("ended")
      BY <1>13, <3>2, <3>3 DEF MarkRow, NoBatch, SendsTypeOK
    <3>4. CASE batch' = [batch EXCEPT !.pc = "pause", !.next = @ + 1, !.result = None]
      <4>1. batch' = [pc |-> "pause", next |-> batch.next + 1,
                      access |-> batch.access, result |-> None]
        BY <3>4 DEF SendsTypeOK
      <4>2. batch.next + 1 \in Nat
        BY <3>1
      <4> QED BY <1>13, <3>2, <4>1, <4>2 DEF MarkRow, SendsTypeOK
    <3> QED BY <1>13, <3>3, <3>4 DEF MarkRow
  <2>2. Flights'
    BY <1>13 DEF SendsTypeOK, Sends, Flights, BatchInv, Active, MarkRow, NoBatch
  <2>3. LedgerTruthful'
    BY <1>13 DEF SendsTypeOK, Sends, Flights, LedgerTruthful, BatchInv, Active,
       MarkRow, NoBatch
  <2>4. RowsTruthful'
    BY <1>13 DEF SendsTypeOK, Sends, Flights, LedgerTruthful, RowsTruthful,
       BatchInv, Active, MarkRow, NoBatch
  <2>5. BatchThroughOne'
    BY <1>13 DEF SendsTypeOK, Sends, Flights, BatchThroughOne, BatchInv, Active,
       MarkRow, NoBatch
  <2>6. BatchInv'
    BY <1>13 DEF SendsTypeOK, Sends, Flights, LedgerTruthful, RowsTruthful,
       BatchInv, Active, MarkRow, NoBatch
  <2>7. TurnInv'
    BY <1>13 DEF SendsTypeOK, Sends, Flights, LedgerTruthful, TurnInv, BatchInv,
       Active, MarkRow, NoBatch
  <2> QED BY <2>1, <2>2, <2>3, <2>4, <2>5, <2>6, <2>7
<1>14. ASSUME Invalidate PROVE Inv'
  <2>1. SendsTypeOK'
    BY <1>14 DEF SendsTypeOK, Sends, Invalidate, NoBatch
  <2>2. Flights'
    BY <1>14 DEF SendsTypeOK, Sends, Flights, Invalidate, NoBatch
  <2>3. LedgerTruthful'
    BY <1>14 DEF SendsTypeOK, Sends, Flights, LedgerTruthful, Invalidate, NoBatch
  <2>4. RowsTruthful'
    BY <1>14 DEF SendsTypeOK, Sends, Flights, LedgerTruthful, RowsTruthful,
       BatchInv, Active, Invalidate, NoBatch
  <2>5. BatchThroughOne'
    BY <1>14 DEF SendsTypeOK, Sends, Flights, BatchThroughOne, BatchInv, Active,
       Invalidate, NoBatch
  <2>6. BatchInv'
    BY <1>14 DEF SendsTypeOK, Sends, Flights, LedgerTruthful, RowsTruthful,
       BatchInv, Active, Invalidate, NoBatch
  <2>7. TurnInv'
    BY <1>14 DEF SendsTypeOK, Sends, Flights, LedgerTruthful, TurnInv, Invalidate,
       NoBatch
  <2> QED BY <2>1, <2>2, <2>3, <2>4, <2>5, <2>6, <2>7
<1>15. ASSUME Die PROVE Inv'
  <2>1. SendsTypeOK'
    BY <1>15 DEF SendsTypeOK, Sends, Die, NoBatch
  <2>2. Flights'
    BY <1>15 DEF SendsTypeOK, Sends, Flights, Die, NoBatch
  <2>3. LedgerTruthful'
    BY <1>15 DEF SendsTypeOK, Sends, Flights, LedgerTruthful, Die, NoBatch
  <2>4. RowsTruthful'
    BY <1>15 DEF SendsTypeOK, Sends, Flights, LedgerTruthful, RowsTruthful,
       BatchInv, Active, Die, NoBatch
  <2>5. BatchThroughOne'
    BY <1>15 DEF SendsTypeOK, Sends, Flights, BatchThroughOne, BatchInv, Active,
       Die, NoBatch
  <2>6. BatchInv'
    BY <1>15 DEF SendsTypeOK, Sends, Flights, LedgerTruthful, RowsTruthful,
       BatchInv, Active, Die, NoBatch
  <2>7. TurnInv'
    BY <1>15 DEF SendsTypeOK, Sends, Flights, LedgerTruthful, TurnInv, Die, NoBatch
  <2> QED BY <2>1, <2>2, <2>3, <2>4, <2>5, <2>6, <2>7
<1>16. CASE UNCHANGED sends
  <2>1. UNCHANGED <<ledger, wire, via, flying, errors, row, batch, turn>>
    BY <1>16 DEF sends
  <2> QED BY <2>1 DEF SendsTypeOK, Flights, LedgerTruthful, RowsTruthful,
                      BatchThroughOne, BatchInv, Active, TurnInv
<1>17. CASE AccountStep \/ \E g \in Generation : PublishQuiet(g)
  BY <1>16, <1>17, Zenon DEF AccountStep, PublishQuiet
<1>18. CASE UNCHANGED vars
  BY <1>16, <1>18 DEF vars
<1>19. CASE Next
  BY <1>1, <1>2, <1>3, <1>4, <1>5, <1>6, <1>7, <1>8, <1>9, <1>10, <1>11, <1>12, <1>13,
     <1>14, <1>15, <1>17, <1>19, Zenon DEF Next
<1> QED BY <1>18, <1>19

\* The inductive invariant of the deliveries, over the accounts' typing.
THEOREM Recorded == Spec => [](AccountsTypeOK /\ Inv)
<1> QED BY AccountsTyped, InvInit, InvStep, PTL DEF Spec

\* Every variable holds a value of its kind.
THEOREM Types == Spec => []TypeOK
<1>1. AccountsTypeOK /\ Inv => TypeOK
  BY DEF Inv, TypeOK
<1> QED BY Recorded, <1>1, PTL

\* The delivery ledger: what it says of a message was answered, by a receipt of
\* one that arrived or by an error of the plugin's own.
THEOREM LedgerIsTruthful == Spec => []LedgerTruthful
<1>1. Inv => LedgerTruthful
  BY DEF Inv
<1> QED BY Recorded, <1>1, PTL

\* The rows of a batch: only confirmed messages are followed or shown.
THEOREM RowsAreTruthful == Spec => []RowsTruthful
<1>1. Inv => RowsTruthful
  BY DEF Inv
<1> QED BY Recorded, <1>1, PTL

\* A batch never parts over two accounts.
THEOREM BatchesKeepTheirAccount == Spec => []BatchThroughOne
<1>1. Inv => BatchThroughOne
  BY DEF Inv
<1> QED BY Recorded, <1>1, PTL

\* A turn that may have sent explicitly does not reply implicitly.
THEOREM RepliesOnce == Spec => []NoSecondReply
<1>1. Inv => NoSecondReply
  BY DEF Inv, TurnInv, NoSecondReply
<1> QED BY Recorded, <1>1, PTL

-----------------------------------------------------------------------------
(* Deletions                                                               *)

\* What DeletionFreezes says of a step, for one account.
Frozen(x) ==
    Deleting(x) /\ deletion' # None /\ published' = published =>
        /\ \A g \in Generation : index'[g] \cap Same(x) \subseteq index[g]
        /\ online'[published] \cap Same(x) = online[published] \cap Same(x)

\* All references of the platform account are deleted together.
LEMMA SameDeleted ==
  ASSUME NEW x \in Refs, Deleting(x), NEW y \in Same(x)
  PROVE  Deleting(y)
  BY DEF Deleting, Same

\* register() refuses the account, from a setup and from a login's own task,
\* report() ignores it, and disconnect and purge touch neither index nor reports.
LEMMA FreezeStep ==
  ASSUME AccountsTypeOK, [Next]_vars, NEW x \in Refs
  PROVE  Frozen(x)
<1> SUFFICES ASSUME Deleting(x), deletion' # None, published' = published
             PROVE  /\ \A g \in Generation : index'[g] \cap Same(x) \subseteq index[g]
                    /\ online'[published] \cap Same(x) = online[published] \cap Same(x)
  BY DEF Frozen
<1> DEFINE Frozen1 == /\ \A g \in Generation : index'[g] \cap Same(x) \subseteq index[g]
                      /\ online'[published] \cap Same(x) = online[published] \cap Same(x)
<1>0. deletion # None
  BY DEF Deleting
<1>1. ASSUME NEW g \in Generation, Setup(g) PROVE Frozen1
  BY <1>1 DEF Setup
<1>2. ASSUME NEW g \in Generation, RegisterSaved(g) PROVE Frozen1
  <2>1. online' = online
    BY <1>2, Zenon DEF RegisterSaved
  <2>2. PICK s \in Accepted(configs[g]) :
          \/ index' = index
          \/ (\A y \in s : ~Deleting(y)) /\ index' = [index EXCEPT ![g] = s]
    BY <1>2, Zenon DEF RegisterSaved
  <2>3. CASE index' = index
    BY <2>1, <2>3
  <2>4. CASE (\A y \in s : ~Deleting(y)) /\ index' = [index EXCEPT ![g] = s]
    <3>1. s \cap Same(x) = {}
      BY <2>4, SameDeleted
    <3> QED BY <2>1, <2>4, <3>1 DEF AccountsTypeOK, SubsetsOfRefs
  <2> QED BY <2>2, <2>3, <2>4
<1>3. ASSUME NEW g \in Generation, Discard(g) PROVE Frozen1
  BY <1>3 DEF Discard, Gone
<1>4. ASSUME NEW g \in Generation, NEW y \in Refs, Activate(g, y) PROVE Frozen1
  <2>1. /\ y \notin Same(x) /\ index' = [index EXCEPT ![g] = @ \cup {y}]
        /\ online' = [online EXCEPT ![g] = @ \cup {y}]
    BY <1>4, SameDeleted DEF Activate, Report
  <2> QED BY <2>1 DEF AccountsTypeOK, SubsetsOfRefs
<1>5. ASSUME NEW g \in Generation, NEW y \in Refs, Disconnected(g, y) PROVE Frozen1
  <2>1. index' = index
    BY <1>5 DEF Disconnected
  <2>2. \/ online' = online
        \/ y \notin Same(x) /\ online' = [online EXCEPT ![g] = @ \ {y}]
    BY <1>5, SameDeleted DEF Disconnected, Report
  <2> QED BY <2>1, <2>2 DEF AccountsTypeOK, SubsetsOfRefs
<1>6. ASSUME NEW y \in Refs, BeginLogin(y) \/ CancelLogin(y) \/ BeginDelete(y) PROVE Frozen1
  BY <1>0, <1>6 DEF BeginLogin, CancelLogin, BeginDelete
<1>7. ASSUME Disconnect \/ Purge PROVE Frozen1
  BY <1>7 DEF Disconnect, Purge
<1>8. ASSUME DeleteFails \/ Forget PROVE Frozen1
  BY <1>8 DEF DeleteFails, Forget
<1>9. CASE AccountStep
  BY <1>1, <1>2, <1>3, <1>4, <1>5, <1>6, <1>7, <1>8, <1>9, Zenon DEF AccountStep
<1>10. CASE \E g \in Generation : PublishQuiet(g)
  BY <1>0, <1>10 DEF PublishQuiet, Publish
<1>11. CASE Die
  BY <1>11 DEF Die, Restart
<1>12. CASE UNCHANGED accounts
  BY <1>12 DEF accounts
<1>13. CASE Next
  <2>1. Next => \/ AccountStep \/ (\E g \in Generation : PublishQuiet(g)) \/ Die
                \/ UNCHANGED accounts
    BY Zenon DEF Next, Platform, BeginTurn, EndTurn, CallTool, ToolUncertain, ToolAnswered,
       CancelTurn, Uncertain, Receipt, Error, Lands, Resolve, StoreRow, SendPart,
       PartAnswered, PartCancelled, MarkRow, Invalidate
  <2> QED BY <1>9, <1>10, <1>11, <1>12, <1>13, <2>1
<1> QED BY <1>12, <1>13 DEF vars

\* While a deletion awaits the plugin nothing lists the account again or moves
\* its reported state.
THEOREM DeletionsFreeze == Spec => DeletionFreezes
<1>1. AccountsTypeOK /\ [Next]_vars => [\A x \in Refs : Frozen(x)]_vars
  BY FreezeStep
<1>2. [\A x \in Refs : Frozen(x)]_vars =>
        [\A x \in Refs :
            Deleting(x) /\ deletion' # None /\ published' = published =>
                /\ \A g \in Generation : index'[g] \cap Same(x) \subseteq index[g]
                /\ online'[published] \cap Same(x) = online[published] \cap Same(x)]_vars
  BY DEF Frozen
<1> QED BY AccountsTyped, <1>1, <1>2, PTL DEF Spec, DeletionFreezes

=============================================================================

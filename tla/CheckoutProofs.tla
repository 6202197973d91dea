--------------------------- MODULE CheckoutProofs ---------------------------
(***************************************************************************)
(* What Checkout guarantees for any number of learners, courses, orders,   *)
(* concurrent calls and faults.                                            *)
(***************************************************************************)
EXTENDS Checkout, TLAPS

USE CheckoutAssumption

LEMMA TypeInit == Init => TypeOK
  BY DEF Init, TypeOK, Idle, Call, Step, Event, Orders, NoOrder, NoPair,
         Status, Charge, Access, ReceiptCap

(* The call record keeps its type whichever way a call moves. *)
LEMMA CallMoves ==
  ASSUME call \in [Handlers -> Call], NEW h \in Handlers
  PROVE  /\ \A s \in Step : Goto(h, s) => call' \in [Handlers -> Call]
         /\ Return(h) => call' \in [Handlers -> Call]
         /\ \A s \in Step, o \in Orders, e \in Event :
              Begin(h, s, o, e) => call' \in [Handlers -> Call]
<1>1. Idle \in Call
  BY DEF Idle, Call, Step, Event
<1>2. ASSUME NEW s \in Step, Goto(h, s) PROVE call' \in [Handlers -> Call]
  <2>1. [call[h] EXCEPT !.pc = s] \in Call
    BY DEF Call
  <2> QED BY <1>2, <2>1 DEF Goto
<1>3. Return(h) => call' \in [Handlers -> Call]
  BY <1>1 DEF Return
<1>4. ASSUME NEW s \in Step, NEW o \in Orders, NEW e \in Event, Begin(h, s, o, e)
      PROVE  call' \in [Handlers -> Call]
  <2>1. [Idle EXCEPT !.pc = s, !.order = o, !.event = e] \in Call
    BY <1>1 DEF Call
  <2> QED BY <1>4, <2>1 DEF Begin
<1> QED BY <1>2, <1>3, <1>4

LEMMA TypeStep == TypeOK /\ [Next]_vars => TypeOK'
<1> SUFFICES ASSUME TypeOK, [Next]_vars PROVE TypeOK'
  OBVIOUS
<1>0. Step = {"idle", "dup", "intent", "insert", "poll", "load", "ask",
              "markPaid", "markFailed", "enrol", "mail"}
  BY DEF Step
<1> USE DEF TypeOK, rows
<1>1. ASSUME NEW h \in Handlers, CreateStep(h) PROVE TypeOK'
  <2>0. /\ \A s \in Step : Goto(h, s) => call' \in [Handlers -> Call]
        /\ Return(h) => call' \in [Handlers -> Call]
        /\ \A s \in Step, o \in Orders, e \in Event :
             Begin(h, s, o, e) => call' \in [Handlers -> Call]
    BY CallMoves
  <2>1. CASE LookForPending(h)
    BY <1>0, <2>0, <2>1 DEF LookForPending
  <2>2. CASE OpenIntent(h)
    <3>1. PICK o \in Orders :
            /\ charge' = [charge EXCEPT ![o] = "open"]
            /\ buyer' = [buyer EXCEPT ![o] = call[h].pair]
            /\ via' = [via EXCEPT ![o] = call[h].via]
            /\ call' = [call EXCEPT ![h].pc = "insert", ![h].order = o]
      BY <2>2 DEF OpenIntent
    <3>2. call[h] \in Call
      OBVIOUS
    <3>3. [call[h] EXCEPT !.pc = "insert", !.order = o] \in Call
      BY <3>2, <1>0 DEF Call
    <3>4. call' \in [Handlers -> Call]
      BY <3>1, <3>3
    <3>5. buyer' \in [Orders -> Pairs \union {NoPair}] /\ via' \in [Orders -> Providers \union {"none"}]
      BY <3>1, <3>2 DEF Call
    <3> QED BY <2>2, <3>1, <3>4, <3>5 DEF OpenIntent, Charge
  <2>3. CASE IntentFails(h)
    BY <1>0, <2>0, <2>3 DEF IntentFails
  <2>4. CASE InsertOrder(h)
    BY <1>0, <2>0, <2>4 DEF InsertOrder, Status
  <2> QED BY <1>1, <2>1, <2>2, <2>3, <2>4 DEF CreateStep
<1>2. ASSUME NEW h \in Handlers, ConfirmStep(h) PROVE TypeOK'
  <2>0. /\ \A s \in Step : Goto(h, s) => call' \in [Handlers -> Call]
        /\ Return(h) => call' \in [Handlers -> Call]
        /\ \A s \in Step, o \in Orders, e \in Event :
             Begin(h, s, o, e) => call' \in [Handlers -> Call]
    BY CallMoves
  <2>1. CASE AskConfirmed(h)
    BY <1>0, <2>0, <2>1 DEF AskConfirmed, Charge
  <2>2. CASE AskDeclined(h)
    BY <1>0, <2>0, <2>2 DEF AskDeclined
  <2>3. CASE AskLost(h)
    BY <1>0, <2>0, <2>3 DEF AskLost, Charge
  <2>4. CASE MarkFailed(h)
    BY <1>0, <2>0, <2>4 DEF MarkFailed, Status
  <2>5. CASE MarkPaid(h)
    BY <1>0, <2>0, <2>5 DEF MarkPaid, Status
  <2>6. CASE Enrol(h)
    BY <1>0, <2>0, <2>6 DEF Enrol, Access
  <2>7. CASE SendReceipt(h)
    BY <1>0, <2>0, <2>7 DEF SendReceipt, ReceiptCap
  <2> QED BY <1>2, <2>1, <2>2, <2>3, <2>4, <2>5, <2>6, <2>7 DEF ConfirmStep
<1>3. ASSUME NEW h \in Handlers, PollStep(h) PROVE TypeOK'
  <2>0. /\ \A s \in Step : Goto(h, s) => call' \in [Handlers -> Call]
        /\ Return(h) => call' \in [Handlers -> Call]
        /\ \A s \in Step, o \in Orders, e \in Event :
             Begin(h, s, o, e) => call' \in [Handlers -> Call]
    BY CallMoves
  <2>1. CASE PollAnswer(h)
    BY <1>0, <2>0, <2>1 DEF PollAnswer
  <2>2. CASE LoadForced(h)
    BY <1>0, <2>0, <2>2 DEF LoadForced
  <2>3. CASE PollLost(h)
    BY <1>0, <2>0, <2>3 DEF PollLost
  <2> QED BY <1>3, <2>1, <2>2, <2>3 DEF PollStep
<1>4. ASSUME NEW h \in Handlers, Request(h) PROVE TypeOK'
  <2>0. /\ \A s \in Step : Goto(h, s) => call' \in [Handlers -> Call]
        /\ Return(h) => call' \in [Handlers -> Call]
        /\ \A s \in Step, o \in Orders, e \in Event :
             Begin(h, s, o, e) => call' \in [Handlers -> Call]
    BY CallMoves
  <2>1. ASSUME NEW p \in Pairs, NEW v \in Providers, StartCreate(h, p, v) PROVE TypeOK'
    <3>1. [Idle EXCEPT !.pc = "dup", !.pair = p, !.via = v] \in Call
      BY DEF Idle, Call, Step, Event
    <3> QED BY <2>1, <3>1 DEF StartCreate
  <2>2. ASSUME NEW o \in Orders, NEW e \in Event, Webhook(h, o, e) PROVE TypeOK'
    BY <1>0, <2>0, <2>2 DEF Webhook
  <2>3. ASSUME NEW o \in Orders, MockComplete(h, o) PROVE TypeOK'
    BY <1>0, <2>0, <2>3 DEF MockComplete, Charge, Event
  <2>4. ASSUME NEW o \in Orders, StartPoll(h, o) PROVE TypeOK'
    BY <1>0, <2>0, <2>4 DEF StartPoll, Event
  <2> QED BY <1>4, <2>1, <2>2, <2>3, <2>4 DEF Request
<1>5. ASSUME World PROVE TypeOK'
  <2>1. ASSUME NEW o \in Orders, LearnerPays(o) PROVE TypeOK'
    BY <2>1 DEF LearnerPays, Charge
  <2>2. ASSUME NEW o \in Orders, LearnerCancels(o) PROVE TypeOK'
    BY <2>2 DEF LearnerCancels, Charge
  <2>3. ASSUME NEW p \in Pairs, EnrolledElsewhere(p) PROVE TypeOK'
    BY <2>3 DEF EnrolledElsewhere, Access
  <2>4. CASE Crash
    <3>1. Idle \in Call
      BY DEF Idle, Call, Step, Event
    <3> QED BY <2>4, <3>1 DEF Crash
  <2> QED BY <1>5, <2>1, <2>2, <2>3, <2>4 DEF World
<1>6. CASE UNCHANGED vars
  BY <1>6 DEF vars
<1> QED BY <1>1, <1>2, <1>3, <1>4, <1>5, <1>6 DEF Next, HandlerStep

(* Every variable keeps its type in every behaviour. *)
THEOREM TypeCorrect == Spec => []TypeOK
  BY TypeInit, TypeStep, PTL DEF Spec

-----------------------------------------------------------------------------
(* The part of the invariant that is about rows. *)
RowsOK == RowsHaveIntents /\ IntentsHaveBuyers /\ HeardAreTrusted
          /\ PaidIsVouched /\ AccessIsVouched /\ ReceiptIsTrue

(* A payment once vouched for stays vouched for. *)
LEMMA VouchedStays ==
  ASSUME Stable, NEW o \in Orders, Vouched(o)
  PROVE  Vouched(o)'
BY DEF Stable, Vouched

(* A call that a step does not move still knows what it knew. *)
LEMMA CallFrame ==
  ASSUME IInv, Stable, NEW k \in Handlers, call'[k] = call[k]
  PROVE  CallOK(k)'
<1>1. CallOK(k)
  BY DEF IInv
<1>2. call[k].order \in Orders /\ status[call[k].order] # "none" =>
        /\ buyer[call[k].order] \in Pairs
        /\ buyer'[call[k].order] = buyer[call[k].order]
        /\ via'[call[k].order] = via[call[k].order]
  BY DEF IInv, RowsHaveIntents, IntentsHaveBuyers, Stable
<1> QED BY <1>1, <1>2, VouchedStays DEF CallOK, Stable, Simulated

(* A step that opens no intent, inserts no row and sends no receipt keeps  *)
(* the rows' part of the invariant as far as the two named conditions go.  *)
LEMMA RowsFrame ==
  ASSUME IInv, Stable, heard' = heard,
         \A o \in Orders : charge[o] = "none" => charge'[o] = "none",
         \A o \in Orders : status'[o] # "none" => charge[o] # "none",
         \A o \in Orders : status'[o] = "paid" => Vouched(o),
         \A p \in Pairs : access'[p] = "bought" =>
           access[p] = "bought" \/ \E o \in Orders : buyer[o] = p /\ Vouched(o),
         \A o \in Orders : receipts'[o] > 0 => Vouched(o) /\ access[buyer[o]] # "none"
  PROVE  RowsOK'
<1>0. RowsOK /\ heard \subseteq Orders
  BY DEF IInv, RowsOK, TypeOK
<1>1. RowsHaveIntents'
  BY DEF RowsHaveIntents, Stable
<1>2. IntentsHaveBuyers'
  BY DEF IntentsHaveBuyers, Stable, IInv
<1>3. PaidIsVouched'
  BY VouchedStays DEF PaidIsVouched
<1>4. AccessIsVouched'
  <2> SUFFICES ASSUME NEW p \in Pairs, access'[p] = "bought"
               PROVE  \E o \in Orders : buyer'[o] = p /\ Vouched(o)'
    BY DEF AccessIsVouched
  <2>1. PICK o \in Orders : buyer[o] = p /\ Vouched(o)
    BY DEF IInv, AccessIsVouched
  <2>2. charge[o] # "none"
    BY <1>0, <2>1 DEF Vouched, RowsOK, HeardAreTrusted, RowsHaveIntents
  <2> QED BY <2>1, <2>2, VouchedStays DEF Stable
<1>5. ReceiptIsTrue'
  <2> SUFFICES ASSUME NEW o \in Orders, receipts'[o] > 0
               PROVE  Vouched(o)' /\ access'[buyer'[o]] # "none"
    BY DEF ReceiptIsTrue
  <2>1. charge[o] # "none"
    BY <1>0 DEF Vouched, RowsOK, HeardAreTrusted, RowsHaveIntents
  <2> QED BY <1>0, <2>1, VouchedStays DEF RowsOK, IntentsHaveBuyers, Stable
<1>6. HeardAreTrusted'
  BY <1>0 DEF HeardAreTrusted, RowsOK, RowsHaveIntents, Stable
<1> QED BY <1>1, <1>2, <1>3, <1>4, <1>5, <1>6 DEF RowsOK

(* A step of one call: what is left to show once the rows are dealt with. *)
LEMMA CallStep ==
  ASSUME IInv, TypeOK', Stable, NEW h \in Handlers, CallOK(h)',
         \A k \in Handlers \ {h} : call'[k] = call[k],
         RowsOK'
  PROVE  IInv'
<1>1. ASSUME NEW k \in Handlers PROVE CallOK(k)'
  <2>1. CASE k = h
    BY <2>1
  <2>2. CASE k # h
    <3>1. call'[k] = call[k]
      BY <2>2
    <3> QED BY <3>1, CallFrame
  <2> QED BY <2>1, <2>2
<1> QED BY <1>1 DEF IInv, RowsOK

(* Steps that only read: calls begin and move, nothing else changes. *)
LEMMA ReadStep ==
  ASSUME IInv, TypeOK', NEW h \in Handlers, CallOK(h)',
         \A k \in Handlers \ {h} : call'[k] = call[k],
         UNCHANGED <<mode, heard, status, buyer, via, charge, access, receipts>>
  PROVE  IInv'
<1>1. Stable
  BY DEF Stable
<1>2. RowsOK'
  BY DEF IInv, RowsOK, RowsHaveIntents, IntentsHaveBuyers, HeardAreTrusted, PaidIsVouched,
         AccessIsVouched, ReceiptIsTrue, Vouched
<1> QED BY <1>1, <1>2, CallStep

LEMMA CreateInv ==
  ASSUME IInv, TypeOK', NEW h \in Handlers, CreateStep(h)
  PROVE  IInv'
<1>0. TypeOK /\ CallOK(h) /\ call \in [Handlers -> Call]
  BY DEF IInv, TypeOK
<1>1. CASE LookForPending(h)
  <2>1. CallOK(h)' /\ \A k \in Handlers \ {h} : call'[k] = call[k]
    BY <1>0, <1>1 DEF LookForPending, Goto, Return, Idle, CallOK, At, Call
  <2> QED BY <1>1, <2>1, ReadStep DEF LookForPending, rows
<1>2. CASE OpenIntent(h)
  <2>1. PICK o \in Orders :
          /\ charge[o] = "none"
          /\ charge' = [charge EXCEPT ![o] = "open"]
          /\ buyer' = [buyer EXCEPT ![o] = call[h].pair]
          /\ via' = [via EXCEPT ![o] = call[h].via]
          /\ call' = [call EXCEPT ![h].pc = "insert", ![h].order = o]
    BY <1>2 DEF OpenIntent
  <2>2. call[h].pair \in Pairs /\ call[h].via \in Providers
    BY <1>0, <1>2 DEF OpenIntent, At, CallOK
  <2>3. Stable
    BY <1>0, <1>2, <2>1 DEF OpenIntent, Stable, TypeOK
  <2>4. call'[h].pc = "insert" /\ call'[h].order = o /\ charge'[o] = "open"
    BY <1>0, <2>1 DEF TypeOK, Call
  <2>5. CallOK(h)'
    BY <2>4 DEF CallOK
  <2>6. \A k \in Handlers \ {h} : call'[k] = call[k]
    BY <1>0, <2>1
  <2>7. RowsOK'
    <3>0. RowsOK /\ heard' = heard /\ UNCHANGED <<status, access, receipts>>
      BY <1>2 DEF OpenIntent, IInv, RowsOK
    <3>1. RowsHaveIntents' /\ IntentsHaveBuyers'
      BY <1>0, <2>1, <2>2, <3>0 DEF TypeOK, RowsOK, RowsHaveIntents, IntentsHaveBuyers
    <3>2. HeardAreTrusted'
      BY <1>0, <2>3, <3>0 DEF TypeOK, RowsOK, HeardAreTrusted, RowsHaveIntents, Stable
    <3>3. PaidIsVouched'
      BY <2>3, <3>0, VouchedStays DEF RowsOK, PaidIsVouched
    <3>4. AccessIsVouched'
      <4> SUFFICES ASSUME NEW p \in Pairs, access[p] = "bought"
                   PROVE  \E q \in Orders : buyer'[q] = p /\ Vouched(q)'
        BY <3>0 DEF AccessIsVouched
      <4>1. PICK q \in Orders : buyer[q] = p /\ Vouched(q)
        BY <3>0 DEF RowsOK, AccessIsVouched
      <4>2. charge[q] # "none"
        BY <3>0, <4>1 DEF Vouched, RowsOK, HeardAreTrusted, RowsHaveIntents
      <4> QED BY <4>1, <4>2, <2>3, VouchedStays DEF Stable
    <3>5. ReceiptIsTrue'
      <4> SUFFICES ASSUME NEW q \in Orders, receipts[q] > 0
                   PROVE  Vouched(q)' /\ access[buyer'[q]] # "none"
        BY <3>0 DEF ReceiptIsTrue
      <4>1. Vouched(q) /\ access[buyer[q]] # "none"
        BY <3>0 DEF RowsOK, ReceiptIsTrue
      <4>2. charge[q] # "none"
        BY <3>0, <4>1 DEF Vouched, RowsOK, HeardAreTrusted, RowsHaveIntents
      <4> QED BY <4>1, <4>2, <2>3, VouchedStays DEF Stable
    <3> QED BY <3>1, <3>2, <3>3, <3>4, <3>5 DEF RowsOK
  <2> QED BY <2>3, <2>5, <2>6, <2>7, CallStep
<1>3. CASE IntentFails(h)
  <2>1. CallOK(h)' /\ \A k \in Handlers \ {h} : call'[k] = call[k]
    BY <1>0, <1>3 DEF IntentFails, Return, Idle, CallOK
  <2> QED BY <1>3, <2>1, ReadStep DEF IntentFails, rows
<1>4. CASE InsertOrder(h)
  <2>1. CallOK(h)' /\ \A k \in Handlers \ {h} : call'[k] = call[k]
    BY <1>0, <1>4 DEF InsertOrder, Return, Idle, CallOK
  <2>2. call[h].order \in Orders /\ charge[call[h].order] # "none"
    BY <1>0, <1>4 DEF InsertOrder, At, CallOK
  <2>3. Stable
    BY <1>0, <1>4, <2>2 DEF InsertOrder, Stable, TypeOK
  <2>4. RowsOK'
    BY <1>0, <1>4, <2>2, <2>3, RowsFrame
       DEF InsertOrder, TypeOK, IInv, RowsHaveIntents, PaidIsVouched, ReceiptIsTrue
  <2> QED BY <2>1, <2>3, <2>4, CallStep
<1> QED BY <1>1, <1>2, <1>3, <1>4 DEF CreateStep

LEMMA ConfirmInv ==
  ASSUME IInv, TypeOK', NEW h \in Handlers, ConfirmStep(h)
  PROVE  IInv'
<1>0. TypeOK /\ CallOK(h) /\ call \in [Handlers -> Call]
  BY DEF IInv, TypeOK
<1> DEFINE o == call[h].order
<1>1. CASE AskConfirmed(h)
  <2>1. o \in Orders /\ status[o] # "none" /\ charge[o] # "none" /\ via[o] \in Providers
    BY <1>0, <1>1 DEF AskConfirmed, At, CallOK, IInv, RowsHaveIntents, IntentsHaveBuyers
  <2>2. /\ \A q \in Orders \ {o} : charge'[q] = charge[q]
        /\ charge'[o] = "paid" \/ (charge'[o] = charge[o] /\ Vouched(o))
    BY <1>0, <1>1, <2>1 DEF AskConfirmed, At, CallOK, Confirms, TypeOK
  <2>3. Stable
    BY <1>1, <2>1, <2>2 DEF AskConfirmed, rows, Stable
  <2>4. CallOK(h)' /\ \A k \in Handlers \ {h} : call'[k] = call[k]
    BY <1>0, <1>1, <2>1, <2>2 DEF AskConfirmed, Goto, CallOK, Call, rows, Vouched
  <2>5. RowsOK'
    BY <1>0, <1>1, <2>1, <2>2, <2>3, RowsFrame
       DEF AskConfirmed, rows, IInv, RowsHaveIntents, PaidIsVouched, ReceiptIsTrue
  <2> QED BY <2>3, <2>4, <2>5, CallStep
<1>2. CASE AskDeclined(h)
  <2>1. CallOK(h)' /\ \A k \in Handlers \ {h} : call'[k] = call[k]
    BY <1>0, <1>2 DEF AskDeclined, At, Goto, CallOK, Call, rows
  <2> QED BY <1>2, <2>1, ReadStep DEF AskDeclined, rows
<1>3. CASE AskLost(h)
  <2>1. o \in Orders /\ status[o] # "none" /\ charge[o] # "none"
    BY <1>0, <1>3 DEF AskLost, At, CallOK, IInv, RowsHaveIntents
  <2>2. /\ charge'[o] = charge[o] \/ charge'[o] = "paid"
        /\ \A q \in Orders \ {o} : charge'[q] = charge[q]
    BY <1>0, <1>3, <2>1 DEF AskLost, TypeOK
  <2>3. Stable
    BY <1>3, <2>1, <2>2 DEF AskLost, rows, Stable
  <2>4. CallOK(h)' /\ \A k \in Handlers \ {h} : call'[k] = call[k]
    BY <1>0, <1>3 DEF AskLost, Return, Idle, CallOK
  <2>5. RowsOK'
    BY <1>0, <1>3, <2>1, <2>2, <2>3, RowsFrame
       DEF AskLost, rows, IInv, RowsHaveIntents, PaidIsVouched, ReceiptIsTrue
  <2> QED BY <2>3, <2>4, <2>5, CallStep
<1>4. CASE MarkFailed(h)
  <2>1. o \in Orders /\ status[o] # "none"
    BY <1>0, <1>4 DEF MarkFailed, At, CallOK
  <2>2. Stable
    BY <1>0, <1>4, <2>1 DEF MarkFailed, Stable, TypeOK
  <2>3. CallOK(h)' /\ \A k \in Handlers \ {h} : call'[k] = call[k]
    BY <1>0, <1>4 DEF MarkFailed, Return, Idle, CallOK
  <2>4. RowsOK'
    BY <1>0, <1>4, <2>1, <2>2, RowsFrame
       DEF MarkFailed, TypeOK, IInv, RowsHaveIntents, PaidIsVouched, ReceiptIsTrue
  <2> QED BY <2>2, <2>3, <2>4, CallStep
<1>5. CASE MarkPaid(h)
  <2>1. o \in Orders /\ status[o] # "none" /\ Vouched(o)
    BY <1>0, <1>5 DEF MarkPaid, At, CallOK
  <2>2. Stable
    BY <1>0, <1>5, <2>1 DEF MarkPaid, Stable, TypeOK
  <2>3. CallOK(h)' /\ \A k \in Handlers \ {h} : call'[k] = call[k]
    BY <1>0, <1>5, <2>1 DEF MarkPaid, Goto, CallOK, Call, TypeOK, Vouched
  <2>4. RowsOK'
    BY <1>0, <1>5, <2>1, <2>2, RowsFrame
       DEF MarkPaid, TypeOK, IInv, RowsHaveIntents, PaidIsVouched, ReceiptIsTrue
  <2> QED BY <2>2, <2>3, <2>4, CallStep
<1>6. CASE Enrol(h)
  <2>1. o \in Orders /\ status[o] # "none" /\ Vouched(o) /\ buyer[o] \in Pairs
    BY <1>0, <1>6 DEF Enrol, At, CallOK, IInv, RowsHaveIntents, IntentsHaveBuyers
  <2>2. /\ access'[buyer[o]] = IF access[buyer[o]] = "none" THEN "bought" ELSE access[buyer[o]]
        /\ \A p \in Pairs \ {buyer[o]} : access'[p] = access[p]
    BY <1>0, <1>6, <2>1 DEF Enrol, TypeOK
  <2>3. Stable
    BY <1>6, <2>1, <2>2 DEF Enrol, rows, Stable
  <2>4. CallOK(h)' /\ \A k \in Handlers \ {h} : call'[k] = call[k]
    BY <1>0, <1>6, <2>1, <2>2 DEF Enrol, Goto, CallOK, Call, rows, Vouched
  <2>5. \A p \in Pairs : access'[p] = "bought" =>
          access[p] = "bought" \/ \E q \in Orders : buyer[q] = p /\ Vouched(q)
    BY <2>1, <2>2
  <2>6. RowsOK'
    BY <1>0, <1>6, <2>3, <2>5, RowsFrame
       DEF Enrol, rows, IInv, RowsHaveIntents, PaidIsVouched, ReceiptIsTrue
  <2> QED BY <2>3, <2>4, <2>6, CallStep
<1>7. CASE SendReceipt(h)
  <2>1. /\ o \in Orders /\ Vouched(o) /\ access[buyer[o]] # "none"
        /\ call[h].pc = "mail"
    BY <1>0, <1>7 DEF SendReceipt, At, CallOK
  <2>2. Stable
    BY <1>7 DEF SendReceipt, rows, Stable
  <2>3. CallOK(h)' /\ \A k \in Handlers \ {h} : call'[k] = call[k]
    BY <1>0, <1>7 DEF SendReceipt, Return, Idle, CallOK
  <2>4. \A q \in Orders : receipts'[q] = receipts[q] \/ q = o
    BY <1>0, <1>7, <2>1 DEF SendReceipt, TypeOK
  <2>5. RowsOK'
    BY <1>0, <1>7, <2>1, <2>2, <2>4, RowsFrame
       DEF SendReceipt, rows, IInv, RowsHaveIntents, PaidIsVouched, ReceiptIsTrue
  <2> QED BY <2>2, <2>3, <2>5, CallStep
<1> QED BY <1>1, <1>2, <1>3, <1>4, <1>5, <1>6, <1>7 DEF ConfirmStep

LEMMA PollInv ==
  ASSUME IInv, TypeOK', NEW h \in Handlers, PollStep(h)
  PROVE  IInv'
<1>0. TypeOK /\ CallOK(h) /\ call \in [Handlers -> Call]
  BY DEF IInv, TypeOK
<1>1. CASE PollAnswer(h)
  <2>1. CallOK(h)' /\ \A k \in Handlers \ {h} : call'[k] = call[k]
    BY <1>0, <1>1 DEF PollAnswer, At, Goto, Return, Idle, CallOK, Call, rows, Vouched
  <2> QED BY <1>1, <2>1, ReadStep DEF PollAnswer, rows
<1>2. CASE LoadForced(h)
  <2>1. CallOK(h)' /\ \A k \in Handlers \ {h} : call'[k] = call[k]
    BY <1>0, <1>2 DEF LoadForced, At, Goto, Return, Idle, CallOK, Call, rows, Vouched
  <2> QED BY <1>2, <2>1, ReadStep DEF LoadForced, rows
<1>3. CASE PollLost(h)
  <2>1. CallOK(h)' /\ \A k \in Handlers \ {h} : call'[k] = call[k]
    BY <1>0, <1>3 DEF PollLost, Return, Idle, CallOK
  <2> QED BY <1>3, <2>1, ReadStep DEF PollLost, rows
<1> QED BY <1>1, <1>2, <1>3 DEF PollStep

LEMMA RequestInv ==
  ASSUME IInv, TypeOK', NEW h \in Handlers, Request(h)
  PROVE  IInv'
<1>0. TypeOK /\ call \in [Handlers -> Call]
  BY DEF IInv, TypeOK
<1>1. ASSUME NEW p \in Pairs, NEW v \in Providers, StartCreate(h, p, v) PROVE IInv'
  <2>1. CallOK(h)' /\ \A k \in Handlers \ {h} : call'[k] = call[k]
    BY <1>0, <1>1 DEF StartCreate, Idle, CallOK
  <2> QED BY <1>1, <2>1, ReadStep DEF StartCreate, rows
<1>2. ASSUME NEW o \in Orders, NEW e \in Event, Webhook(h, o, e) PROVE IInv'
  <2>0. IInv /\ UNCHANGED <<mode, status, buyer, via, charge, access, receipts>>
    BY <1>2 DEF Webhook, rows
  <2>1. status[o] # "none" /\ heard' = IF Trusts(o, e) THEN heard \union {o} ELSE heard
    BY <1>2 DEF Webhook
  <2>2. Stable
    BY <2>0, <2>1 DEF Stable
  <2>3. CallOK(h)'
    BY <1>0, <1>2, <2>0, <2>1 DEF Webhook, Begin, Idle, CallOK, Sends, Trusts, Simulated, Vouched
  <2>4. \A k \in Handlers \ {h} : call'[k] = call[k]
    BY <1>0, <1>2 DEF Webhook, Begin
  <2>5. RowsHaveIntents' /\ IntentsHaveBuyers'
    BY <2>0 DEF IInv, RowsHaveIntents, IntentsHaveBuyers
  <2>6. HeardAreTrusted'
    BY <2>0, <2>1 DEF IInv, HeardAreTrusted, Trusts
  <2>7. PaidIsVouched' /\ ReceiptIsTrue'
    BY <2>0, <2>2, VouchedStays DEF IInv, PaidIsVouched, ReceiptIsTrue
  <2>8. AccessIsVouched'
    BY <2>0, <2>2, VouchedStays DEF IInv, AccessIsVouched
  <2> QED BY <2>2, <2>3, <2>4, <2>5, <2>6, <2>7, <2>8, CallStep DEF RowsOK
<1>3. ASSUME NEW o \in Orders, MockComplete(h, o) PROVE IInv'
  <2>1. status[o] # "none" /\ charge[o] # "none" /\ charge' = [charge EXCEPT ![o] = "paid"]
    BY <1>3 DEF MockComplete, IInv, RowsHaveIntents
  <2>2. Stable
    BY <1>0, <1>3, <2>1 DEF MockComplete, rows, Stable, TypeOK
  <2>3. CallOK(h)' /\ \A k \in Handlers \ {h} : call'[k] = call[k]
    BY <1>0, <1>3, <2>1 DEF MockComplete, Begin, Idle, CallOK, TypeOK, rows, Vouched
  <2>4. RowsOK'
    BY <1>0, <1>3, <2>1, <2>2, RowsFrame
       DEF MockComplete, rows, TypeOK, IInv, RowsHaveIntents, PaidIsVouched, ReceiptIsTrue
  <2> QED BY <2>2, <2>3, <2>4, CallStep
<1>4. ASSUME NEW o \in Orders, StartPoll(h, o) PROVE IInv'
  <2>1. CallOK(h)' /\ \A k \in Handlers \ {h} : call'[k] = call[k]
    BY <1>0, <1>4 DEF StartPoll, Begin, Idle, CallOK, rows
  <2> QED BY <1>4, <2>1, ReadStep DEF StartPoll, rows
<1> QED BY Request(h), <1>1, <1>2, <1>3, <1>4 DEF Request

LEMMA WorldInv ==
  ASSUME IInv, TypeOK', World
  PROVE  IInv'
<1>0. TypeOK
  BY DEF IInv
<1>1. ASSUME NEW o \in Orders, LearnerPays(o) \/ LearnerCancels(o) PROVE IInv'
  <2>1. charge[o] = "open" /\ charge'[o] # "none" /\ \A q \in Orders \ {o} : charge'[q] = charge[q]
    BY <1>0, <1>1 DEF LearnerPays, LearnerCancels, TypeOK
  <2>2. Stable
    BY <1>1, <2>1 DEF LearnerPays, LearnerCancels, rows, Stable
  <2>3. \A k \in Handlers : CallOK(k)'
    BY <1>1, <2>2, CallFrame DEF LearnerPays, LearnerCancels
  <2>4. RowsOK'
    BY <1>1, <2>1, <2>2, RowsFrame
       DEF LearnerPays, LearnerCancels, rows, IInv, RowsHaveIntents, PaidIsVouched, ReceiptIsTrue
  <2> QED BY <2>3, <2>4 DEF IInv, RowsOK
<1>2. ASSUME NEW p \in Pairs, EnrolledElsewhere(p) PROVE IInv'
  <2>1. access'[p] = "given" /\ \A q \in Pairs \ {p} : access'[q] = access[q]
    BY <1>0, <1>2 DEF EnrolledElsewhere, TypeOK
  <2>2. Stable
    BY <1>2, <2>1 DEF EnrolledElsewhere, rows, Stable
  <2>3. \A k \in Handlers : CallOK(k)'
    BY <1>2, <2>2, CallFrame DEF EnrolledElsewhere
  <2>4. RowsOK'
    BY <1>2, <2>1, <2>2, RowsFrame
       DEF EnrolledElsewhere, rows, IInv, RowsHaveIntents, PaidIsVouched, ReceiptIsTrue
  <2> QED BY <2>3, <2>4 DEF IInv, RowsOK
<1>3. CASE Crash
  <2>1. \A k \in Handlers : CallOK(k)'
    BY <1>3 DEF Crash, Idle, CallOK
  <2>2. RowsOK'
    BY <1>3 DEF Crash, rows, IInv, RowsOK, RowsHaveIntents, IntentsHaveBuyers, HeardAreTrusted,
         PaidIsVouched, AccessIsVouched, ReceiptIsTrue, Vouched
  <2> QED BY <1>0, <2>1, <2>2 DEF IInv, RowsOK
<1> QED BY World, <1>1, <1>2, <1>3 DEF World

LEMMA InitInv == Init => IInv
<1> SUFFICES ASSUME Init PROVE IInv
  OBVIOUS
<1>1. TypeOK
  BY TypeInit
<1>2. \A h \in Handlers : CallOK(h)
  BY DEF Init, Idle, CallOK
<1>3. RowsOK
  BY DEF Init, RowsOK, RowsHaveIntents, IntentsHaveBuyers, HeardAreTrusted, PaidIsVouched,
         AccessIsVouched, ReceiptIsTrue
<1> QED BY <1>1, <1>2, <1>3 DEF IInv, RowsOK

LEMMA StepInv == IInv /\ [Next]_vars => IInv'
<1> SUFFICES ASSUME IInv, [Next]_vars PROVE IInv'
  OBVIOUS
<1>1. TypeOK'
  BY TypeStep DEF IInv
<1>2. CASE Next
  BY <1>1, <1>2, CreateInv, ConfirmInv, PollInv, RequestInv, WorldInv DEF Next, HandlerStep
<1>3. CASE UNCHANGED vars
  <2>1. \A k \in Handlers : CallOK(k)'
    BY <1>3 DEF vars, IInv, CallOK, Simulated, Vouched
  <2>2. RowsOK'
    BY <1>3 DEF vars, IInv, RowsOK, RowsHaveIntents, IntentsHaveBuyers, HeardAreTrusted,
         PaidIsVouched, AccessIsVouched, ReceiptIsTrue, Vouched
  <2> QED BY <1>1, <2>1, <2>2 DEF IInv, RowsOK
<1> QED BY <1>2, <1>3

(* The inductive invariant holds in every behaviour. *)
THEOREM Invariant == Spec => []IInv
  BY InitInv, StepInv, PTL DEF Spec

(* An order is paid, an enrolment bought and a receipt sent only when a    *)
(* provider took the money or an M-Pesa callback, which nobody verifies,   *)
(* said so: for every interleaving of confirmOrderPayment, pollOrderStatus *)
(* and createOrder, and across crashes.  A PayPal order is never paid      *)
(* without money.                                                          *)
THEOREM VouchedFirst ==
  Spec => [](/\ PaidIsVouched /\ AccessIsVouched /\ ReceiptIsTrue
             /\ \A o \in Orders : status[o] = "paid" /\ via[o] = "paypal" => charge[o] = "paid")
<1>1. IInv => /\ PaidIsVouched /\ AccessIsVouched /\ ReceiptIsTrue
              /\ \A o \in Orders : status[o] = "paid" /\ via[o] = "paypal" => charge[o] = "paid"
  BY DEF IInv, HeardAreTrusted, PaidIsVouched, Vouched
<1> QED BY <1>1, Invariant, PTL

-----------------------------------------------------------------------------
LEMMA StepStable == IInv /\ [Next]_vars => Stable
<1> SUFFICES ASSUME IInv, [Next]_vars PROVE Stable
  OBVIOUS
<1>0. TypeOK /\ RowsHaveIntents /\ \A h \in Handlers : CallOK(h)
  BY DEF IInv
<1>1. ASSUME NEW h \in Handlers, CreateStep(h) PROVE Stable
  <2>1. CASE LookForPending(h) \/ IntentFails(h)
    BY <2>1 DEF LookForPending, IntentFails, rows, Stable
  <2>2. CASE OpenIntent(h)
    BY <1>0, <2>2 DEF OpenIntent, TypeOK, Stable
  <2>3. CASE InsertOrder(h)
    BY <1>0, <2>3 DEF InsertOrder, TypeOK, Stable
  <2> QED BY <1>1, <2>1, <2>2, <2>3 DEF CreateStep
<1>2. ASSUME NEW h \in Handlers, ConfirmStep(h) PROVE Stable
  <2>1. CASE AskConfirmed(h)
    BY <1>0, <2>1 DEF AskConfirmed, rows, TypeOK, Stable
  <2>2. CASE AskLost(h)
    BY <1>0, <2>2 DEF AskLost, rows, TypeOK, Stable
  <2>3. CASE AskDeclined(h) \/ SendReceipt(h)
    BY <2>3 DEF AskDeclined, SendReceipt, rows, Stable
  <2>4. CASE MarkFailed(h) \/ MarkPaid(h)
    BY <1>0, <2>4 DEF MarkFailed, MarkPaid, TypeOK, Stable
  <2>5. CASE Enrol(h)
    BY <1>0, <2>5 DEF Enrol, rows, TypeOK, Stable
  <2> QED BY <1>2, <2>1, <2>2, <2>3, <2>4, <2>5 DEF ConfirmStep
<1>3. ASSUME NEW h \in Handlers, PollStep(h) PROVE Stable
  BY <1>3 DEF PollStep, PollAnswer, PollLost, LoadForced, rows, Stable
<1>4. ASSUME NEW h \in Handlers, Request(h) PROVE Stable
  <2>1. ASSUME NEW o \in Orders, MockComplete(h, o) PROVE Stable
    BY <1>0, <2>1 DEF MockComplete, rows, TypeOK, RowsHaveIntents, Stable
  <2>2. ASSUME heard \subseteq heard', UNCHANGED <<mode, rows, charge, access>> PROVE Stable
    BY <2>2 DEF rows, Stable
  <2> QED BY <1>4, <2>1, <2>2 DEF Request, StartCreate, Webhook, StartPoll
<1>5. ASSUME World PROVE Stable
  <2>1. ASSUME NEW o \in Orders, LearnerPays(o) \/ LearnerCancels(o) PROVE Stable
    BY <1>0, <2>1 DEF LearnerPays, LearnerCancels, rows, TypeOK, Stable
  <2>2. ASSUME NEW p \in Pairs, EnrolledElsewhere(p) PROVE Stable
    BY <1>0, <2>2 DEF EnrolledElsewhere, rows, TypeOK, Stable
  <2>3. CASE Crash
    BY <2>3 DEF Crash, rows, Stable
  <2> QED BY <1>5, <2>1, <2>2, <2>3 DEF World
<1>6. CASE UNCHANGED vars
  BY <1>6 DEF vars, Stable
<1> QED BY <1>1, <1>2, <1>3, <1>4, <1>5, <1>6 DEF Next, HandlerStep

(* No step takes back an order row, a payment or an enrolment. *)
THEOREM TakesNothingBack == Spec => NothingTakenBack
<1>1. IInv /\ [Next]_vars => [Stable]_vars
  BY StepStable
<1> QED BY <1>1, Invariant, PTL DEF Spec, NothingTakenBack

-----------------------------------------------------------------------------
(* How a call stands after a step that is not a crash, for the two facts   *)
(* PaidHasAccess needs: a call at "enrol" leaves it by enrolling, and an   *)
(* order becomes paid only by a call that is then at "enrol".              *)
LEMMA EnrolStep ==
  ASSUME IInv, [Next]_vars, faults' = 0, NEW k \in Handlers, At(k, "enrol")
  PROVE  \/ call'[k] = call[k]
         \/ access'[buyer[call[k].order]] # "none"
<1>0. /\ call \in [Handlers -> Call] /\ access \in [Pairs -> Access] /\ faults \in Nat
      /\ buyer[call[k].order] \in Pairs
  BY DEF IInv, TypeOK, CallOK, At, RowsHaveIntents, IntentsHaveBuyers
<1>1. ASSUME NEW h \in Handlers, HandlerStep(h)
      PROVE  call'[k] = call[k] \/ access'[buyer[call[k].order]] # "none"
  <2>1. CASE h = k
    <3>1. Enrol(k)
      BY <1>1, <2>1 DEF HandlerStep, CreateStep, ConfirmStep, PollStep, At,
           LookForPending, OpenIntent, IntentFails, InsertOrder, AskConfirmed, AskDeclined,
           AskLost, MarkFailed, MarkPaid, SendReceipt, PollAnswer, PollLost, LoadForced
    <3> QED BY <1>0, <3>1 DEF Enrol
  <2>2. CASE h # k
    BY <1>0, <1>1, <2>2 DEF HandlerStep, CreateStep, ConfirmStep, PollStep, Goto, Return,
         LookForPending, OpenIntent, IntentFails, InsertOrder, AskConfirmed, AskDeclined,
         AskLost, MarkFailed, MarkPaid, Enrol, SendReceipt, PollAnswer, PollLost, LoadForced
  <2> QED BY <2>1, <2>2
<1>2. ASSUME NEW h \in Handlers, Request(h)
      PROVE  call'[k] = call[k]
  <2>1. h # k
    BY <1>2 DEF Request, StartCreate, Webhook, MockComplete, StartPoll, IsIdle, At
  <2> QED BY <1>0, <1>2, <2>1 DEF Request, StartCreate, Webhook, MockComplete, StartPoll, Begin
<1>3. ASSUME World PROVE call'[k] = call[k]
  BY <1>0, <1>3 DEF World, LearnerPays, LearnerCancels, EnrolledElsewhere, Crash
<1>4. CASE UNCHANGED vars
  BY <1>4 DEF vars
<1> QED BY <1>1, <1>2, <1>3, <1>4 DEF Next

LEMMA BecomesPaid ==
  ASSUME IInv, [Next]_vars, NEW o \in Orders, status[o] # "paid", status'[o] = "paid"
  PROVE  \E h \in Handlers : (At(h, "enrol") /\ call[h].order = o)'
<1>0. TypeOK
  BY DEF IInv
<1>1. ASSUME NEW h \in Handlers, HandlerStep(h)
      PROVE  (At(h, "enrol") /\ call[h].order = o)'
  <2>1. MarkPaid(h)
    BY <1>0, <1>1 DEF HandlerStep, CreateStep, ConfirmStep, PollStep, rows, TypeOK,
         LookForPending, OpenIntent, IntentFails, InsertOrder, AskConfirmed, AskDeclined,
         AskLost, MarkFailed, Enrol, SendReceipt, PollAnswer, PollLost, LoadForced
  <2>2. call[h].order = o
    BY <1>0, <2>1 DEF MarkPaid, TypeOK
  <2> QED BY <1>0, <2>1, <2>2 DEF MarkPaid, Goto, At, TypeOK, Call
<1>2. ASSUME NEW h \in Handlers, Request(h) PROVE FALSE
  BY <1>2 DEF Request, StartCreate, Webhook, MockComplete, StartPoll, rows
<1>3. ASSUME World PROVE FALSE
  BY <1>3 DEF World, LearnerPays, LearnerCancels, EnrolledElsewhere, Crash, rows
<1>4. ~UNCHANGED vars
  BY DEF vars
<1> QED BY <1>1, <1>2, <1>3, <1>4 DEF Next

LEMMA FaultsGrow ==
  ASSUME [Next]_vars
  PROVE  faults' = faults \/ faults' = faults + 1
<1>1. ASSUME NEW h \in Handlers, CreateStep(h) PROVE faults' = faults
  BY <1>1 DEF CreateStep, LookForPending, OpenIntent, IntentFails, InsertOrder
<1>2. ASSUME NEW h \in Handlers, ConfirmStep(h) PROVE faults' = faults \/ faults' = faults + 1
  BY <1>2 DEF ConfirmStep, AskConfirmed, AskDeclined, AskLost, MarkFailed, MarkPaid, Enrol, SendReceipt
<1>3. ASSUME NEW h \in Handlers, PollStep(h) PROVE faults' = faults \/ faults' = faults + 1
  BY <1>3 DEF PollStep, PollAnswer, PollLost, LoadForced
<1>4. ASSUME NEW h \in Handlers, Request(h) PROVE faults' = faults
  BY <1>4 DEF Request, StartCreate, Webhook, MockComplete, StartPoll
<1>5. ASSUME World PROVE faults' = faults \/ faults' = faults + 1
  BY <1>5 DEF World, LearnerPays, LearnerCancels, EnrolledElsewhere, Crash
<1>6. CASE UNCHANGED vars
  BY <1>6 DEF vars
<1> QED BY <1>1, <1>2, <1>3, <1>4, <1>5, <1>6 DEF Next, HandlerStep

LEMMA AccessStep == IInv /\ PaidHasAccess /\ [Next]_vars => PaidHasAccess'
<1> SUFFICES ASSUME IInv, PaidHasAccess, [Next]_vars, faults' = 0,
                    NEW o \in Orders, status'[o] = "paid"
             PROVE  \/ access'[buyer'[o]] # "none"
                    \/ \E h \in Handlers : (At(h, "enrol") /\ call[h].order = o)'
  BY DEF PaidHasAccess, At
<1>1. CASE status[o] # "paid"
  BY <1>1, BecomesPaid
<1>2. CASE status[o] = "paid"
  <2>1. faults = 0
    <3>1. faults \in Nat
      BY DEF IInv, TypeOK
    <3> QED BY <3>1, FaultsGrow
  <2>2. Stable
    BY StepStable
  <2>3. buyer[o] \in Pairs /\ buyer'[o] = buyer[o]
    BY <1>2, <2>2 DEF Stable, IInv, RowsHaveIntents, IntentsHaveBuyers
  <2>4. CASE access[buyer[o]] # "none"
    BY <2>2, <2>3, <2>4 DEF Stable
  <2>5. ASSUME NEW h \in Handlers, At(h, "enrol"), call[h].order = o
        PROVE  access'[buyer'[o]] # "none" \/ (At(h, "enrol") /\ call[h].order = o)'
    BY <2>3, <2>5, EnrolStep DEF At
  <2> QED BY <1>2, <2>1, <2>4, <2>5 DEF PaidHasAccess
<1> QED BY <1>1, <1>2

(* Without a crash a paid order never lacks both its enrolment and the     *)
(* call that is about to insert it.                                        *)
THEOREM PaidMeansAccess == Spec => []PaidHasAccess
<1>1. Init => PaidHasAccess
  BY DEF Init, PaidHasAccess
<1>2. IInv /\ PaidHasAccess /\ [Next]_vars => PaidHasAccess'
  BY AccessStep
<1> QED BY <1>1, <1>2, Invariant, PTL DEF Spec

-----------------------------------------------------------------------------
(* Refinement: how the two mapped variables move. *)
LEMMA SameTold ==
  ASSUME IInv, Stable, receipts' = receipts
  PROVE  Told' = Told
<1>1. \A o \in Orders : receipts[o] > 0 => buyer'[o] = buyer[o]
  BY DEF IInv, ReceiptIsTrue, Stable, Vouched, HeardAreTrusted, RowsHaveIntents
<1> QED BY <1>1 DEF Told

(* An order vouched for has its buyer, and keeps both. *)
LEMMA VouchedBuyer ==
  ASSUME IInv, Stable, NEW o \in Orders, Vouched(o)
  PROVE  buyer[o] \in Pairs /\ buyer'[o] = buyer[o] /\ Vouched(o)'
<1>1. charge[o] # "none"
  BY DEF IInv, Vouched, HeardAreTrusted, RowsHaveIntents
<1> QED BY <1>1, VouchedStays DEF IInv, IntentsHaveBuyers, Stable

LEMMA SameVouched ==
  ASSUME IInv, Stable, \A o \in Orders : Vouched(o)' => Vouched(o)
  PROVE  VouchedFor' = VouchedFor
BY VouchedBuyer DEF VouchedFor

LEMMA MoreVouched ==
  ASSUME IInv, Stable, NEW o \in Orders, charge[o] # "none", Vouched(o)',
         \A q \in Orders \ {o} : Vouched(q)' => Vouched(q)
  PROVE  buyer[o] \in Pairs /\ VouchedFor' = VouchedFor \union {buyer[o]}
<1>1. buyer[o] \in Pairs /\ buyer'[o] = buyer[o]
  BY DEF IInv, IntentsHaveBuyers, Stable
<1>2. VouchedFor' \subseteq VouchedFor \union {buyer[o]}
  <2> SUFFICES ASSUME NEW p \in VouchedFor', p # buyer[o] PROVE p \in VouchedFor
    OBVIOUS
  <2>1. PICK q \in Orders : p \in Pairs /\ buyer'[q] = p /\ Vouched(q)'
    BY DEF VouchedFor
  <2>2. q # o /\ Vouched(q)
    BY <1>1, <2>1
  <2> QED BY <2>1, <2>2, VouchedBuyer DEF VouchedFor
<1>3. VouchedFor \union {buyer[o]} \subseteq VouchedFor'
  BY <1>1, VouchedBuyer DEF VouchedFor
<1> QED BY <1>1, <1>2, <1>3

LEMMA MapVouch ==
  ASSUME IInv, Stable, NEW o \in Orders, charge[o] # "none", Vouched(o)',
         \A q \in Orders \ {o} : Vouched(q)' => Vouched(q),
         UNCHANGED <<access, receipts>>
  PROVE  P!Next
BY MoreVouched, SameTold DEF P!Next, P!Vouch

(* The same, for a step by which a provider takes the money of an order. *)
LEMMA MapCharge ==
  ASSUME IInv, Stable, NEW o \in Orders, charge[o] # "none", charge'[o] = "paid",
         \A q \in Orders \ {o} : charge'[q] = charge[q],
         UNCHANGED <<heard, access, receipts>>
  PROVE  P!Next
<1>1. Vouched(o)' /\ \A q \in Orders \ {o} : Vouched(q)' => Vouched(q)
  BY DEF Vouched
<1> QED BY <1>1, MapVouch

LEMMA MapStutter ==
  ASSUME IInv, Stable, \A o \in Orders : charge'[o] = "paid" => charge[o] = "paid",
         UNCHANGED <<heard, access, receipts>>
  PROVE  UNCHANGED P!vars
<1>1. \A o \in Orders : Vouched(o)' => Vouched(o)
  BY DEF Vouched
<1> QED BY <1>1, SameVouched, SameTold DEF P!vars

LEMMA MapStep == IInv /\ [Next]_vars => [P!Next]_(P!vars)
<1> SUFFICES ASSUME IInv, [Next]_vars PROVE P!Next \/ UNCHANGED P!vars
  OBVIOUS
<1>0. TypeOK /\ Stable /\ \A h \in Handlers : CallOK(h)
  BY StepStable DEF IInv
<1>1. ASSUME NEW h \in Handlers, CreateStep(h) PROVE UNCHANGED P!vars
  BY <1>0, <1>1, MapStutter DEF CreateStep, LookForPending, OpenIntent, IntentFails, InsertOrder, TypeOK
<1>2. ASSUME NEW h \in Handlers, ConfirmStep(h) PROVE P!Next \/ UNCHANGED P!vars
  <2> DEFINE o == call[h].order
  <2>1. CASE AskConfirmed(h)
    <3>1. o \in Orders /\ charge[o] # "none"
      BY <1>0, <2>1 DEF AskConfirmed, At, CallOK, TypeOK, IInv, RowsHaveIntents
    <3>2. CASE charge' = charge
      BY <1>0, <2>1, <3>2, MapStutter DEF AskConfirmed
    <3>3. CASE charge' = [charge EXCEPT ![o] = "paid"]
      BY <1>0, <2>1, <3>1, <3>3, MapCharge DEF AskConfirmed, TypeOK
    <3> QED BY <2>1, <3>2, <3>3 DEF AskConfirmed
  <2>2. CASE AskLost(h)
    <3>1. o \in Orders
      BY <1>0, <2>2 DEF AskLost, At, CallOK
    <3>2. CASE charge' = charge
      BY <1>0, <2>2, <3>2, MapStutter DEF AskLost
    <3>3. CASE charge[o] = "approved" /\ charge' = [charge EXCEPT ![o] = "paid"]
      BY <1>0, <2>2, <3>1, <3>3, MapCharge DEF AskLost, TypeOK
    <3> QED BY <2>2, <3>2, <3>3 DEF AskLost
  <2>3. CASE AskDeclined(h) \/ MarkFailed(h) \/ MarkPaid(h)
    BY <1>0, <2>3, MapStutter DEF AskDeclined, MarkFailed, MarkPaid
  <2>4. CASE Enrol(h)
    <3>1. o \in Orders /\ Vouched(o) /\ buyer[o] \in Pairs
      BY <1>0, <2>4, VouchedBuyer DEF Enrol, At, CallOK
    <3>2. VouchedFor' = VouchedFor /\ Told' = Told /\ buyer[o] \in VouchedFor
      BY <1>0, <2>4, <3>1, SameVouched, SameTold DEF Enrol, VouchedFor, Vouched
    <3>3. CASE access[buyer[o]] = "none"
      BY <1>0, <2>4, <3>1, <3>2, <3>3 DEF Enrol, TypeOK, P!Next, P!Buy
    <3>4. CASE access[buyer[o]] # "none"
      <4>1. access' = access
        BY <1>0, <2>4, <3>1, <3>4 DEF Enrol, TypeOK
      <4> QED BY <3>2, <4>1 DEF P!vars
    <3> QED BY <3>3, <3>4
  <2>5. CASE SendReceipt(h)
    <3>1. o \in Orders /\ Vouched(o) /\ access[buyer[o]] # "none" /\ buyer[o] \in Pairs
      BY <1>0, <2>5, VouchedBuyer DEF SendReceipt, At, CallOK
    <3>2. /\ VouchedFor' = VouchedFor /\ access' = access /\ buyer' = buyer
          /\ buyer[o] \in VouchedFor
      BY <1>0, <2>5, <3>1, SameVouched DEF SendReceipt, VouchedFor, Vouched, rows
    <3>3. CASE receipts' = receipts
      BY <1>0, <3>2, <3>3, SameTold DEF P!vars
    <3>4. CASE receipts' = [receipts EXCEPT ![o] = IF @ < ReceiptCap THEN @ + 1 ELSE @]
      <4>1. receipts'[o] > 0 /\ \A q \in Orders \ {o} : receipts'[q] = receipts[q]
        BY <1>0, <3>1, <3>4 DEF TypeOK, ReceiptCap
      <4>2. Told' = Told \union {buyer[o]}
        BY <3>1, <3>2, <4>1 DEF Told
      <4> QED BY <3>1, <3>2, <4>2 DEF P!Next, P!Tell
    <3> QED BY <2>5, <3>3, <3>4 DEF SendReceipt
  <2> QED BY <1>2, <2>1, <2>2, <2>3, <2>4, <2>5 DEF ConfirmStep
<1>3. ASSUME NEW h \in Handlers, PollStep(h) PROVE UNCHANGED P!vars
  BY <1>0, <1>3, MapStutter DEF PollStep, PollAnswer, PollLost, LoadForced
<1>4. ASSUME NEW h \in Handlers, Request(h) PROVE P!Next \/ UNCHANGED P!vars
  <2>1. ASSUME NEW o \in Orders, MockComplete(h, o) PROVE P!Next
    <3>1. charge[o] # "none"
      BY <2>1 DEF MockComplete, IInv, RowsHaveIntents
    <3> QED BY <1>0, <2>1, <3>1, MapCharge DEF MockComplete, TypeOK
  <2>2. ASSUME NEW o \in Orders, NEW e \in Event, Webhook(h, o, e)
        PROVE  P!Next \/ UNCHANGED P!vars
    <3>1. charge[o] # "none" /\ UNCHANGED <<rows, charge, access, receipts>>
      BY <2>2 DEF Webhook, IInv, RowsHaveIntents
    <3>2. CASE heard' = heard
      BY <1>0, <3>1, <3>2, MapStutter
    <3>3. CASE heard' = heard \union {o}
      BY <1>0, <3>1, <3>3, MapVouch DEF Vouched
    <3> QED BY <2>2, <3>2, <3>3 DEF Webhook
  <2>3. ASSUME UNCHANGED <<heard, charge, access, receipts>> PROVE UNCHANGED P!vars
    BY <1>0, <2>3, MapStutter
  <2> QED BY <1>4, <2>1, <2>2, <2>3 DEF Request, StartCreate, StartPoll
<1>5. ASSUME World PROVE P!Next \/ UNCHANGED P!vars
  <2>1. ASSUME NEW o \in Orders, LearnerPays(o) PROVE P!Next \/ UNCHANGED P!vars
    <3>1. CASE via[o] = "paypal"
      BY <1>0, <2>1, <3>1, MapStutter DEF LearnerPays, TypeOK
    <3>2. CASE via[o] # "paypal"
      BY <1>0, <2>1, <3>2, MapCharge DEF LearnerPays, TypeOK
    <3> QED BY <3>1, <3>2
  <2>2. ASSUME NEW o \in Orders, LearnerCancels(o) PROVE UNCHANGED P!vars
    BY <1>0, <2>2, MapStutter DEF LearnerCancels, TypeOK
  <2>3. ASSUME NEW p \in Pairs, EnrolledElsewhere(p) PROVE P!Next
    BY <1>0, <2>3, SameVouched, SameTold DEF EnrolledElsewhere, Vouched, P!Next, P!Give
  <2>4. CASE Crash
    BY <1>0, <2>4, MapStutter DEF Crash
  <2> QED BY <1>5, <2>1, <2>2, <2>3, <2>4 DEF World
<1>6. CASE UNCHANGED vars
  BY <1>0, <1>6, MapStutter DEF vars
<1> QED BY <1>1, <1>2, <1>3, <1>4, <1>5, <1>6 DEF Next, HandlerStep

(* The checkout implements Purchase: every step vouches, buys, gives or    *)
(* tells as Purchase allows, or does nothing Purchase can see.             *)
THEOREM ImplementsPurchase == Spec => PurchaseSpec
<1>1. Init => P!Init
  BY DEF Init, P!Init, VouchedFor, Told, Vouched
<1>2. IInv /\ [Next]_vars => [P!Next]_(P!vars)
  BY MapStep
<1> QED BY <1>1, <1>2, Invariant, PTL DEF Spec, PurchaseSpec, P!Spec
=============================================================================

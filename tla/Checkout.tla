------------------------------ MODULE Checkout ------------------------------
(***************************************************************************)
(* The paid checkout of apps/api/src/modules/checkout: orders, the payment *)
(* provider's side of them, and the enrolment a confirmed payment grants.  *)
(*                                                                         *)
(* Every handler is an async function whose SQL statements and provider    *)
(* calls are awaited one by one with no transaction around them.  A call   *)
(* in flight is a record in `call`; each action below is one such step, so *)
(* any two calls interleave between any two statements.  Order rows are    *)
(* never deleted, and nothing writes the status "refunded".                *)
(***************************************************************************)
EXTENDS Naturals, FiniteSets

CONSTANTS
  Learners, Courses,   \* users, and published courses with a price
  Providers,           \* the payment methods in use
  Handlers,            \* calls that may be in flight at once
  MaxOrders,           \* bound: checkouts opened with a provider
  MaxFaults            \* bound: process crashes and lost provider answers

ASSUME CheckoutAssumption ==
  /\ Providers \subseteq {"stripe", "mpesa", "paypal", "mock"}
  /\ MaxOrders \in Nat
  /\ MaxFaults \in Nat

Pairs    == Learners \X Courses
Orders   == 1..MaxOrders
NoOrder  == 0
NoPair   == <<>>
ReceiptCap == 2        \* bound: a count of 2 receipts stands for 2 or more

VARIABLES
  mode,      \* PAYMENTS_MODE, read from the environment at boot
  status,    \* orders.status of each row; "none" before the row is inserted
  buyer,     \* the pair an order is for
  via,       \* orders.provider
  charge,    \* the provider's side: the payment intent of the order
  heard,     \* history: orders an M-Pesa callback said were paid
  access,    \* enrolments: how the pair's row came to be, or "none"
  receipts,  \* receipts sent for an order
  call,      \* the calls in flight
  faults     \* crashes and lost answers so far

rows == <<status, buyer, via>>
vars == <<mode, heard, status, buyer, via, charge, access, receipts, call, faults>>

Status == {"none", "pending", "paid", "failed"}
Charge == {"none", "open", "approved", "paid", "cancelled"}
Access == {"none", "bought", "given"}
Event  == {"none", "paid", "other", "approved", "callback"}
Step   == {"idle", "dup", "intent", "insert",            \* createOrder
           "poll", "load",                               \* pollOrderStatus
           "ask", "markPaid", "markFailed", "enrol", "mail"}

Call == [pc : Step, order : Orders \union {NoOrder}, pair : Pairs \union {NoPair},
         via : Providers \union {"none"}, event : Event]
Idle == [pc |-> "idle", order |-> NoOrder, pair |-> NoPair,
         via |-> "none", event |-> "none"]

(* Every row, intent, enrolment and call in flight has its type; in        *)
(* particular no statement writes a status the column's check refuses.     *)
TypeOK ==
  /\ mode \in {"live", "mock"}
  /\ status \in [Orders -> Status]
  /\ buyer \in [Orders -> Pairs \union {NoPair}]
  /\ via \in [Orders -> Providers \union {"none"}]
  /\ charge \in [Orders -> Charge]
  /\ heard \in SUBSET Orders
  /\ access \in [Pairs -> Access]
  /\ receipts \in [Orders -> 0..ReceiptCap]
  /\ call \in [Handlers -> Call]
  /\ faults \in 0..MaxFaults

Init ==
  /\ mode \in {"live", "mock"}
  /\ status = [o \in Orders |-> "none"]
  /\ buyer = [o \in Orders |-> NoPair]
  /\ via = [o \in Orders |-> "none"]
  /\ charge = [o \in Orders |-> "none"]
  /\ heard = {}
  /\ access = [p \in Pairs |-> "none"]
  /\ receipts = [o \in Orders |-> 0]
  /\ call = [h \in Handlers |-> Idle]
  /\ faults = 0

-----------------------------------------------------------------------------
(* Helpers *)

(* getPaymentProvider answers with the in-process MockProvider. *)
Simulated(o) == mode = "mock" \/ via[o] = "mock"

IsIdle(h) == call[h].pc = "idle"
At(h, step) == call[h].pc = step
Goto(h, step) == call' = [call EXCEPT ![h].pc = step]
Return(h) == call' = [call EXCEPT ![h] = Idle]
Begin(h, step, o, e) ==
  call' = [call EXCEPT ![h] = [Idle EXCEPT !.pc = step, !.order = o, !.event = e]]

-----------------------------------------------------------------------------
(* createOrder.  The checks that only reject (course published and priced, *)
(* provider enabled, user exists) leave no trace, as a rejection on an     *)
(* existing enrolment does: a rejected call is a call that never begins.   *)

StartCreate(h, p, v) ==
  /\ IsIdle(h)
  /\ access[p] = "none"
  /\ call' = [call EXCEPT ![h] = [Idle EXCEPT !.pc = "dup", !.pair = p, !.via = v]]
  /\ UNCHANGED <<mode, heard, rows, charge, access, receipts, faults>>

PendingOrders(p) == {o \in Orders : buyer[o] = p /\ status[o] = "pending"}

Mutant_LookForPending_NoReuse(h) ==
  /\ At(h, "dup")
  /\ Goto(h, "intent")
  /\ UNCHANGED <<mode, heard, rows, charge, access, receipts, faults>>

(* An existing pending order is answered instead of a new one. *)
LookForPending(h) ==
  /\ At(h, "dup")
  /\ IF PendingOrders(call[h].pair) # {} THEN Return(h) ELSE Goto(h, "intent")
  /\ UNCHANGED <<mode, heard, rows, charge, access, receipts, faults>>

(* createPaymentIntent: the provider opens a payment for a fresh order     *)
(* number, before any row exists, or the call throws.                      *)
OpenIntent(h) ==
  /\ At(h, "intent")
  /\ \E o \in Orders :
       /\ charge[o] = "none"
       /\ charge' = [charge EXCEPT ![o] = "open"]
       /\ buyer' = [buyer EXCEPT ![o] = call[h].pair]
       /\ via' = [via EXCEPT ![o] = call[h].via]
       /\ call' = [call EXCEPT ![h].pc = "insert", ![h].order = o]
  /\ UNCHANGED <<mode, heard, status, access, receipts, faults>>

IntentFails(h) ==
  /\ At(h, "intent")
  /\ Return(h)
  /\ UNCHANGED <<mode, heard, rows, charge, access, receipts, faults>>

InsertOrder(h) ==
  /\ At(h, "insert")
  /\ status' = [status EXCEPT ![call[h].order] = "pending"]
  /\ Return(h)
  /\ UNCHANGED <<mode, heard, buyer, via, charge, access, receipts, faults>>

-----------------------------------------------------------------------------
(* confirmOrderPayment, reached from a webhook, from a poll, or from the   *)
(* mock-mode completion route.                                             *)

(* What the webhook routes hear of an order.  Live, a Stripe event carries *)
(* a signature the route verifies: "paid" is sent only once the money is   *)
(* taken, and the events that are not a success ("other": created,         *)
(* payment_failed, ...) come at any time and are handed to confirm too.    *)
(* Nobody verifies who sends a PayPal event ("approved") or an M-Pesa      *)
(* callback with ResultCode 0 ("callback"; any other code is ignored):     *)
(* either may come at any time, whatever the provider did, and a callback  *)
(* for an order of any provider, the row being looked up by its session    *)
(* alone.  In mock mode a developer posts any of them.                     *)
Sends(o, e) ==
  \/ via[o] = "stripe" /\ e = "paid" /\ (mode = "mock" \/ charge[o] = "paid")
  \/ via[o] = "stripe" /\ e = "other"
  \/ via[o] = "paypal" /\ e = "approved"
  \/ e = "callback"

(* An adapter that asks nobody will take the callback at its word. *)
Trusts(o, e) == e = "callback" /\ via[o] # "paypal" /\ ~Simulated(o)

Mutant_Webhook_PendingOnly(h, o, e) ==
  /\ IsIdle(h)
  /\ status[o] = "pending"
  /\ Sends(o, e)
  /\ Begin(h, "ask", o, e)
  /\ heard' = IF Trusts(o, e) THEN heard \union {o} ELSE heard
  /\ UNCHANGED <<mode, rows, charge, access, receipts, faults>>

(* The webhook route finds the row; loadOrderRow reads its status.  A paid *)
(* order is answered as already paid, without a write.  `heard' records    *)
(* that a success was reported by a callback nothing vouches for.          *)
Webhook(h, o, e) ==
  /\ IsIdle(h)
  /\ status[o] \in {"pending", "failed"}
  /\ Sends(o, e)
  /\ Begin(h, "ask", o, e)
  /\ heard' = IF Trusts(o, e) THEN heard \union {o} ELSE heard
  /\ UNCHANGED <<mode, rows, charge, access, receipts, faults>>

(* MockCompleteOrder: `force` skips the provider and counts as a capture. *)
MockComplete(h, o) ==
  /\ IsIdle(h)
  /\ mode = "mock"
  /\ status[o] \in {"pending", "failed"}
  /\ charge' = [charge EXCEPT ![o] = "paid"]
  /\ Begin(h, "markPaid", o, "none")
  /\ UNCHANGED <<mode, heard, rows, access, receipts, faults>>

Mutant_Confirms_AnyEvent(o, e) ==
  \/ Simulated(o)
  \/ via[o] \in {"stripe", "mpesa"}
  \/ via[o] = "paypal" /\ charge[o] = "approved"

(* The adapter confirms: the mock always, Stripe and M-Pesa by what the    *)
(* posted body says (a callback's may have Stripe's fields too), PayPal by *)
(* capturing an approved order, which takes the money.                     *)
Confirms(o, e) ==
  \/ Simulated(o)
  \/ via[o] \in {"stripe", "mpesa"} /\ e \in {"paid", "callback"}
  \/ via[o] = "paypal" /\ charge[o] = "approved"

(* It does not: any other Stripe event, a callback that says nothing of    *)
(* Stripe, and a PayPal capture that is refused, as the capture of an      *)
(* order already captured is.                                              *)
Declines(o, e) ==
  /\ ~Simulated(o)
  /\ via[o] = "paypal" \/ (via[o] = "stripe" /\ e # "paid")

AskConfirmed(h) ==
  /\ At(h, "ask")
  /\ LET o == call[h].order IN
       /\ Confirms(o, call[h].event)
       /\ charge' = IF Simulated(o) \/ via[o] = "paypal"
                    THEN [charge EXCEPT ![o] = "paid"] ELSE charge
  /\ Goto(h, "markPaid")
  /\ UNCHANGED <<mode, heard, rows, access, receipts, faults>>

AskDeclined(h) ==
  /\ At(h, "ask")
  /\ Declines(call[h].order, call[h].event)
  /\ Goto(h, "markFailed")
  /\ UNCHANGED <<mode, heard, rows, charge, access, receipts, faults>>

(* The capture request gets no answer and the call throws: the money may   *)
(* have been taken or not.                                                 *)
AskLost(h) ==
  /\ At(h, "ask")
  /\ faults < MaxFaults
  /\ LET o == call[h].order IN
       /\ via[o] = "paypal" /\ ~Simulated(o)
       /\ \/ UNCHANGED charge
          \/ charge[o] = "approved" /\ charge' = [charge EXCEPT ![o] = "paid"]
  /\ Return(h)
  /\ faults' = faults + 1
  /\ UNCHANGED <<mode, heard, rows, access, receipts>>

(* The two updates name the row by its id only: whatever its status has    *)
(* become since it was read, it is overwritten.                            *)
MarkFailed(h) ==
  /\ At(h, "markFailed")
  /\ status' = [status EXCEPT ![call[h].order] = "failed"]
  /\ Return(h)
  /\ UNCHANGED <<mode, heard, buyer, via, charge, access, receipts, faults>>

Mutant_MarkPaid_ReceiptFirst(h) ==
  /\ At(h, "markPaid")
  /\ status' = [status EXCEPT ![call[h].order] = "paid"]
  /\ Goto(h, "mail")
  /\ UNCHANGED <<mode, heard, buyer, via, charge, access, receipts, faults>>

MarkPaid(h) ==
  /\ At(h, "markPaid")
  /\ status' = [status EXCEPT ![call[h].order] = "paid"]
  /\ Goto(h, "enrol")
  /\ UNCHANGED <<mode, heard, buyer, via, charge, access, receipts, faults>>

(* INSERT ... ON CONFLICT (user, course) DO NOTHING. *)
Enrol(h) ==
  /\ At(h, "enrol")
  /\ LET p == buyer[call[h].order] IN
       access' = [access EXCEPT ![p] = IF @ = "none" THEN "bought" ELSE @]
  /\ Goto(h, "mail")
  /\ UNCHANGED <<mode, heard, rows, charge, receipts, faults>>

(* The receipt email and notification; a mail error is caught and logged. *)
SendReceipt(h) ==
  /\ At(h, "mail")
  /\ \/ UNCHANGED receipts
     \/ receipts' = [receipts EXCEPT ![call[h].order] =
                       IF @ < ReceiptCap THEN @ + 1 ELSE @]
  /\ Return(h)
  /\ UNCHANGED <<mode, heard, rows, charge, access, faults>>

-----------------------------------------------------------------------------
(* pollOrderStatus: only a pending order of the live M-Pesa adapter is     *)
(* refreshed; any other poll only reads.                                   *)

StartPoll(h, o) ==
  /\ IsIdle(h)
  /\ status[o] = "pending"
  /\ via[o] = "mpesa" /\ ~Simulated(o)
  /\ Begin(h, "poll", o, "none")
  /\ UNCHANGED <<mode, heard, rows, charge, access, receipts, faults>>

(* The Daraja query: paid, cancelled (its text says so, or says nothing    *)
(* the code recognises), or not settled yet.                               *)
PollAnswer(h) ==
  /\ At(h, "poll")
  /\ LET c == charge[call[h].order] IN
       \/ c = "paid" /\ Goto(h, "load")
       \/ c = "cancelled" /\ Goto(h, "markFailed")
       \/ c # "paid" /\ Return(h)
  /\ UNCHANGED <<mode, heard, rows, charge, access, receipts, faults>>

(* The query gets no answer (or no access token) and the poll throws. *)
PollLost(h) ==
  /\ At(h, "poll")
  /\ faults < MaxFaults
  /\ Return(h)
  /\ faults' = faults + 1
  /\ UNCHANGED <<mode, heard, rows, charge, access, receipts>>

(* confirmOrderPayment(force) reads the row again. *)
LoadForced(h) ==
  /\ At(h, "load")
  /\ IF status[call[h].order] = "paid" THEN Return(h) ELSE Goto(h, "markPaid")
  /\ UNCHANGED <<mode, heard, rows, charge, access, receipts, faults>>

-----------------------------------------------------------------------------
(* The world around the module *)

(* The learner pays.  Stripe and PayPal need what the checkout answered,   *)
(* so the row is there; an M-Pesa prompt may be accepted before it is.     *)
LearnerPays(o) ==
  /\ mode = "live" /\ via[o] # "mock"
  /\ charge[o] = "open"
  /\ via[o] = "mpesa" \/ status[o] # "none"
  /\ charge' = [charge EXCEPT ![o] = IF via[o] = "paypal" THEN "approved" ELSE "paid"]
  /\ UNCHANGED <<mode, heard, rows, access, receipts, call, faults>>

LearnerCancels(o) ==
  /\ mode = "live" /\ via[o] = "mpesa"
  /\ charge[o] = "open"
  /\ charge' = [charge EXCEPT ![o] = "cancelled"]
  /\ UNCHANGED <<mode, heard, rows, access, receipts, call, faults>>

(* A bulk enrolment row or an LTI launch enrols the learner. *)
EnrolledElsewhere(p) ==
  /\ access[p] = "none"
  /\ access' = [access EXCEPT ![p] = "given"]
  /\ UNCHANGED <<mode, heard, rows, charge, receipts, call, faults>>

(* The API process dies and comes back: every call in flight is gone, the  *)
(* rows and the provider stay.                                             *)
Crash ==
  /\ faults < MaxFaults
  /\ \E h \in Handlers : ~IsIdle(h)
  /\ call' = [h \in Handlers |-> Idle]
  /\ faults' = faults + 1
  /\ UNCHANGED <<mode, heard, rows, charge, access, receipts>>

-----------------------------------------------------------------------------
CreateStep(h) == LookForPending(h) \/ OpenIntent(h) \/ IntentFails(h) \/ InsertOrder(h)
ConfirmStep(h) ==
  \/ AskConfirmed(h) \/ AskDeclined(h) \/ AskLost(h)
  \/ MarkFailed(h) \/ MarkPaid(h) \/ Enrol(h) \/ SendReceipt(h)
PollStep(h) == PollAnswer(h) \/ PollLost(h) \/ LoadForced(h)
HandlerStep(h) == CreateStep(h) \/ ConfirmStep(h) \/ PollStep(h)

Request(h) ==
  \/ \E p \in Pairs, v \in Providers : StartCreate(h, p, v)
  \/ \E o \in Orders, e \in Event : Webhook(h, o, e)
  \/ \E o \in Orders : MockComplete(h, o) \/ StartPoll(h, o)

World ==
  \/ \E o \in Orders : LearnerPays(o) \/ LearnerCancels(o)
  \/ \E p \in Pairs : EnrolledElsewhere(p)
  \/ Crash

Next == (\E h \in Handlers : Request(h) \/ HandlerStep(h)) \/ World

Spec == Init /\ [][Next]_vars

(* A call in flight runs on.  Stripe and PayPal send a webhook again until *)
(* it is answered, and the checkout page polls every five seconds: a       *)
(* notification or a poll that can begin again and again begins.           *)
Fairness ==
  /\ \A h \in Handlers : WF_vars(HandlerStep(h))
  /\ \A o \in Orders :
       /\ SF_vars(\E h \in Handlers : Webhook(h, o, "paid") /\ via[o] = "stripe")
       /\ SF_vars(\E h \in Handlers : StartPoll(h, o))

FairSpec == Spec /\ Fairness

-----------------------------------------------------------------------------
(* Properties *)

(* What the code goes by: the provider took the money (or the mock stands  *)
(* in for it), or an M-Pesa callback, whose sender is not verified, said   *)
(* so and the order's adapter asked nobody.                                *)
Vouched(o) == charge[o] = "paid" \/ o \in heard

(* Safety: an order is "paid" only if its provider took the money or an    *)
(* M-Pesa callback said so, however webhooks, polls and captures overlap;  *)
(* a PayPal order never without money.                                     *)
PaidIsVouched == \A o \in Orders : status[o] = "paid" => Vouched(o)

(* Safety: the enrolment the checkout inserts comes of an order of that    *)
(* learner for that course whose payment is vouched for in that sense.     *)
AccessIsVouched ==
  \A p \in Pairs : access[p] = "bought" =>
    \E o \in Orders : buyer[o] = p /\ Vouched(o)

(* Safety: a receipt ("Thank you for purchasing ... Access has been        *)
(* granted") goes to a learner who has access, for an order vouched for,   *)
(* and both stay so.                                                       *)
ReceiptIsTrue ==
  \A o \in Orders : receipts[o] > 0 =>
    Vouched(o) /\ access[buyer[o]] # "none"

(* Safety: without a crash, a paid order's learner is enrolled or a call   *)
(* is about to do it.  (After a crash between the two statements nobody    *)
(* does: the next confirmation returns at "already paid".)                 *)
PaidHasAccess ==
  faults = 0 =>
    \A o \in Orders : status[o] = "paid" =>
      \/ access[buyer[o]] # "none"
      \/ \E h \in Handlers : At(h, "enrol") /\ call[h].order = o

(* What every call in flight relies on: the part of the world it has       *)
(* already seen and that nobody may take back.                             *)
CallOK(h) ==
  LET c == call[h]
      o == call[h].order IN
  /\ c.pc \in {"dup", "intent"} => c.pair \in Pairs /\ c.via \in Providers
  /\ c.pc = "insert" => o \in Orders /\ charge[o] # "none"
  /\ c.pc \in {"poll", "load", "ask", "markPaid", "markFailed", "enrol", "mail"} =>
       o \in Orders /\ status[o] # "none"
  /\ c.pc \in {"load", "markPaid", "enrol", "mail"} => Vouched(o)
  /\ c.pc = "ask" /\ c.event \in {"paid", "callback"} =>
       Vouched(o) \/ Simulated(o) \/ via[o] = "paypal"
  /\ c.pc = "mail" => access[buyer[o]] # "none"

RowsHaveIntents == \A o \in Orders : status[o] # "none" => charge[o] # "none"
HeardAreTrusted == \A o \in heard : via[o] # "paypal" /\ status[o] # "none"
IntentsHaveBuyers ==
  \A o \in Orders : charge[o] # "none" => buyer[o] \in Pairs /\ via[o] \in Providers

(* The inductive invariant: the three safety properties above, that a row  *)
(* has its intent and an intent its buyer, that no PayPal order goes by a  *)
(* callback's word, and what calls in flight know.                         *)
IInv ==
  /\ TypeOK
  /\ RowsHaveIntents
  /\ IntentsHaveBuyers
  /\ HeardAreTrusted
  /\ \A h \in Handlers : CallOK(h)
  /\ PaidIsVouched
  /\ AccessIsVouched
  /\ ReceiptIsTrue

(* Action property: no step, a crash included, takes back a row, an intent *)
(* with its buyer and provider, money taken, or an enrolment; a purchase   *)
(* does not overwrite an enrolment given elsewhere.                        *)
Stable ==
  /\ mode' = mode
  /\ heard \subseteq heard'
  /\ \A o \in Orders :
       /\ status[o] # "none" => status'[o] # "none"
       /\ charge[o] # "none" => charge'[o] # "none" /\ buyer'[o] = buyer[o] /\ via'[o] = via[o]
       /\ charge[o] = "paid" => charge'[o] = "paid"
  /\ \A p \in Pairs : access[p] # "none" => access'[p] = access[p]
NothingTakenBack == [][Stable]_vars

(* The checkout implements what Purchase promises. *)
VouchedFor == {p \in Pairs : \E o \in Orders : buyer[o] = p /\ Vouched(o)}
Told == {p \in Pairs : \E o \in Orders : buyer[o] = p /\ receipts[o] > 0}
P == INSTANCE Purchase WITH vouched <- VouchedFor, told <- Told
PurchaseSpec == P!Spec

(* "Reuse an existing pending order instead of creating a duplicate        *)
(* checkout" (service.ts): at most one pending order per learner and       *)
(* course.                                                                 *)
OnePending == \A p \in Pairs : Cardinality(PendingOrders(p)) <= 1

(* Confirmation "is idempotent: a second confirmation for the same order   *)
(* simply returns the already-paid summary" (confirm.ts): no later         *)
(* notification or poll takes a paid order out of "paid" ...               *)
PaidIsFinal == [][\A o \in Orders : status[o] = "paid" => status'[o] = "paid"]_vars

(* ... and the learner gets one receipt for it. *)
OneReceipt == \A o \in Orders : receipts[o] <= 1

(* With one call at a time both hold.  What they rest on: what the call    *)
(* found when it began (no pending order, an order not yet paid, no        *)
(* receipt) is still so when it writes, and a receipt is for a paid order. *)
InTurn ==
  /\ status \in [Orders -> Status] /\ buyer \in [Orders -> Pairs \union {NoPair}]
  /\ charge \in [Orders -> Charge] /\ receipts \in [Orders -> 0..ReceiptCap]
  /\ call \in [Handlers -> Call]
  /\ RowsHaveIntents
  /\ \A o \in Orders : receipts[o] > 0 => status[o] = "paid"
  /\ \A h \in Handlers :
       LET c == call[h]
           o == call[h].order IN
       /\ c.pc \in {"dup", "intent"} => c.pair \in Pairs
       /\ c.pc = "intent" => PendingOrders(c.pair) = {}
       /\ c.pc \notin {"idle", "dup", "intent"} => o \in Orders
       /\ c.pc = "insert" =>
            charge[o] # "none" /\ status[o] = "none" /\ PendingOrders(buyer[o]) = {}
       /\ c.pc \in {"poll", "load", "ask", "markPaid", "markFailed"} =>
            status[o] \in {"pending", "failed"}
       /\ c.pc \in {"enrol", "mail"} => status[o] = "paid" /\ receipts[o] = 0

(* Liveness: money taken by a provider becomes an enrolment, unless the    *)
(* process crashed or a provider's answer was lost.                        *)
PaidLeadsToAccess ==
  \A o \in Orders :
    (charge[o] = "paid") ~> (faults > 0 \/ (buyer[o] \in Pairs /\ access[buyer[o]] # "none"))
=============================================================================

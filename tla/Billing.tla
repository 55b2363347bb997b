------------------------------- MODULE Billing -------------------------------
(***************************************************************************)
(* Subscriptions: checkouts that users begin, and the webhook that applies *)
(* the events of Stripe.                                                   *)
(*                                                                         *)
(* An event is applied in one READ COMMITTED transaction that begins with  *)
(* the INSERT of its id.  The INSERT does nothing when the id is there; it *)
(* waits while another transaction that inserted it is open.  When the     *)
(* transaction fails Stripe is not answered and delivers the event again;  *)
(* it may also deliver twice at once, and in any order.                    *)
(***************************************************************************)
EXTENDS Naturals, Sequences, FiniteSets

CONSTANTS Users, Checkouts, \* a checkout is also the Stripe customer and the
                            \* subscription it may make
          Workers,          \* deliveries that may be under way at once
          MaxEvents,        \* bound: events of a subscription
          MaxDeliveries,    \* bound: deliveries in all
          None

VARIABLES checkout,   \* calls of createCheckout()
          customer,   \* users.stripeCustomerId
          emitted,    \* per subscription, the events Stripe made, in order
          processed,  \* rows of processed_stripe_events
          tx,         \* the transactions of handleEvent()
          sub,        \* rows of user_subscriptions, by user
          invoice,    \* rows of invoices: one for each subscription
          deliveries,
          applied,    \* per subscription, the events that were committed (history)
          missed      \* events that found no row to update (history)

vars == <<checkout, customer, emitted, processed, tx, sub, invoice, deliveries, applied, missed>>

Type == {"checkout", "updated", "deleted", "paid", "failed"}
Status == {"active", "past_due", "canceled"}
Event == [type : Type, status : Status]
Idle == [pc |-> "idle", of |-> None, e |-> None, row |-> None]

TypeOK ==
  /\ \A c \in Checkouts : checkout[c].pc \in {"none", "read", "created", "ready"}
                          /\ checkout[c].user \in Users \cup {None}
  /\ customer \in [Users -> Checkouts \cup {None}]
  /\ \A c \in Checkouts : emitted[c] \in Seq(Event) /\ applied[c] \in Seq(Event)
  /\ processed \subseteq Checkouts \X Type /\ missed \subseteq Checkouts \X Type
  /\ \A w \in Workers : tx[w].pc \in {"idle", "inserted", "written"}
  /\ \A u \in Users : sub[u] = None \/ sub[u] \in [of : Checkouts, status : Status]
  /\ invoice \in [Checkouts -> {"none", "paid", "open"}]
  /\ deliveries \in 0..MaxDeliveries

Init ==
  /\ checkout = [c \in Checkouts |-> [pc |-> "none", user |-> None, customer |-> None]]
  /\ customer = [u \in Users |-> None]
  /\ emitted = [c \in Checkouts |-> <<>>] /\ applied = [c \in Checkouts |-> <<>>]
  /\ processed = {} /\ missed = {} /\ deliveries = 0
  /\ tx = [w \in Workers |-> Idle]
  /\ sub = [u \in Users |-> None] /\ invoice = [c \in Checkouts |-> "none"]

-----------------------------------------------------------------------------
(* createCheckout(): the user is read, a customer created when there is    *)
(* none, and stored; two calls at once make two.                           *)

eventVars == <<emitted, processed, tx, sub, invoice, deliveries, applied, missed>>

BeginCheckout(c, u) ==
  /\ checkout[c].pc = "none"
  /\ checkout' = [checkout EXCEPT ![c] = [pc |-> IF customer[u] = None THEN "read" ELSE "created",
                                          user |-> u, customer |-> customer[u]]]
  /\ UNCHANGED <<customer, eventVars>>

CreateCustomer(c) ==
  /\ checkout[c].pc = "read"
  /\ customer' = [customer EXCEPT ![checkout[c].user] = c]
  /\ checkout' = [checkout EXCEPT ![c].pc = "created", ![c].customer = c]
  /\ UNCHANGED eventVars

CreateSession(c) ==
  /\ checkout[c].pc = "created"
  /\ checkout' = [checkout EXCEPT ![c].pc = "ready"]
  /\ UNCHANGED <<customer, eventVars>>

-----------------------------------------------------------------------------
(* Stripe: the session is paid, and then the subscription lives; each kind *)
(* of event comes at most once here.                                       *)

Emit(c, type, status) ==
  /\ checkout[c].pc = "ready" /\ Len(emitted[c]) < MaxEvents
  /\ \A n \in DOMAIN emitted[c] : emitted[c][n].type \notin {type, "deleted"}
  /\ emitted' = [emitted EXCEPT ![c] = Append(@, [type |-> type, status |-> status])]
  /\ UNCHANGED <<checkout, customer, processed, tx, sub, invoice, deliveries, applied, missed>>

Stripe(c) ==
  \/ emitted[c] = <<>> /\ Emit(c, "checkout", "active")
  \/ /\ emitted[c] # <<>>
     /\ \/ Emit(c, "failed", "past_due")
        \/ Emit(c, "paid", "active")
        \/ Emit(c, "updated", emitted[c][Len(emitted[c])].status)
        \/ Emit(c, "deleted", "canceled")

-----------------------------------------------------------------------------
(* handleEvent()                                                           *)

\* Mutant: the id is looked up, and inserted at the end.
HolderUnseen(c, type) == {}

Holder(c, type) == {w \in Workers : tx[w].pc # "idle" /\ tx[w].of = c /\ tx[w].e.type = type}

\* INSERT ... ON CONFLICT DO NOTHING
Insert(w, c, e) ==
  /\ tx[w].pc = "idle" /\ deliveries < MaxDeliveries
  /\ Holder(c, e.type) = {}
  /\ deliveries' = deliveries + 1
  /\ tx' = IF <<c, e.type>> \in processed THEN tx
           ELSE [tx EXCEPT ![w] = [pc |-> "inserted", of |-> c, e |-> e, row |-> None]]
  /\ UNCHANGED <<checkout, customer, emitted, processed, sub, invoice, applied, missed>>

Deliver(w) == \E c \in Checkouts : \E n \in DOMAIN emitted[c] : Insert(w, c, emitted[c][n])

\* the row of the subscription the event is about
RowOf(c, e) == IF e.type = "checkout" THEN {checkout[c].user}
               ELSE {u \in Users : sub[u] # None /\ sub[u].of = c}

\* the upsert of a checkout, the UPDATE of the others: it waits for the row
WriteRow(w) ==
  LET rows == RowOf(tx[w].of, tx[w].e) IN
  /\ tx[w].pc = "inserted"
  /\ \A v \in Workers : tx[v].pc = "written" => tx[v].row \notin rows
  /\ tx' = [tx EXCEPT ![w].pc = "written",
                      ![w].row = IF rows = {} THEN None ELSE CHOOSE u \in rows : TRUE]
  /\ UNCHANGED <<checkout, customer, emitted, processed, sub, invoice, deliveries, applied, missed>>

\* the invoice of a customer whom no user has any longer is not stored
StoreInvoice(c, e) ==
  IF \E u \in Users : customer[u] = checkout[c].customer
  THEN CASE e.type = "paid"   -> [invoice EXCEPT ![c] = "paid"]
         [] e.type = "failed" -> [invoice EXCEPT ![c] = "open"]
         [] OTHER             -> invoice
  ELSE invoice

Commit(w) ==
  LET c == tx[w].of
      e == tx[w].e
      u == tx[w].row
  IN /\ tx[w].pc = "written"
     /\ processed' = processed \cup {<<c, e.type>>}
     /\ sub' = IF u = None THEN sub ELSE [sub EXCEPT ![u] = [of |-> c, status |-> e.status]]
     /\ invoice' = StoreInvoice(c, e)
     /\ applied' = [applied EXCEPT ![c] = Append(@, e)]
     /\ missed' = IF u = None THEN missed \cup {<<c, e.type>>} ELSE missed
     /\ tx' = [tx EXCEPT ![w] = Idle]
     /\ UNCHANGED <<checkout, customer, emitted, deliveries>>

\* a plan that is not there, Stripe, the user service or the queue fails: all
\* is taken back, the id too
Abort(w) ==
  /\ tx[w].pc \in {"inserted", "written"}
  /\ tx' = [tx EXCEPT ![w] = Idle]
  /\ UNCHANGED <<checkout, customer, emitted, processed, sub, invoice, deliveries, applied, missed>>

-----------------------------------------------------------------------------
Next ==
  \/ \E c \in Checkouts : \/ \E u \in Users : BeginCheckout(c, u)
                          \/ CreateCustomer(c) \/ CreateSession(c) \/ Stripe(c)
  \/ \E w \in Workers : Deliver(w) \/ WriteRow(w) \/ Commit(w) \/ Abort(w)

Spec == Init /\ [][Next]_vars

-----------------------------------------------------------------------------
\* what Stripe's last event among kinds says of a subscription
LastOf(c, kinds) == LET e == SelectSeq(emitted[c], LAMBDA x : x.type \in kinds)
                    IN IF e = <<>> THEN None ELSE e[Len(e)]

Alone(c) == \A d \in Checkouts \ {c} : checkout[d].user # checkout[c].user

\* An event takes effect once, however often and however close together it is
\* delivered, and after transactions that failed (handleEvent() inserts the id
\* first); so a subscription whose events came in order and found its row has
\* the status Stripe gave it, and its invoice is stored as Stripe has it, and no
\* old delivery brings back another.  (Of two checkouts of one user the second
\* takes the row, and perhaps the customer.)
EventsApplyOnce ==
  \A c \in Checkouts :
    /\ \A m, n \in DOMAIN applied[c] : applied[c][m] = applied[c][n] => m = n
    /\ applied[c] = emitted[c] /\ emitted[c] # <<>> /\ missed \cap ({c} \X Type) = {} =>
         /\ \A u \in Users : sub[u] # None /\ sub[u].of = c =>
              sub[u].status = LastOf(c, Type).status
         /\ Alone(c) => CASE LastOf(c, {"paid", "failed"}) = None          -> invoice[c] = "none"
                           [] LastOf(c, {"paid", "failed"}).type = "paid" -> invoice[c] = "paid"
                           [] OTHER                                       -> invoice[c] = "open"
=============================================================================

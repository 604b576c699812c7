-------------------------------- MODULE Counter --------------------------------
(***************************************************************************)
(* What else StoreService sells, next to the paid orders of OrderDesk:     *)
(* orders paid with a coupon (useCoupon) and gifts (the gift branch of the *)
(* payment webhook, sendGift).                                             *)
(*                                                                         *)
(* A coupon order starts as a request about a coupon; when the coupon's    *)
(* row is deleted it gets an order number and a sales_uid and goes the way *)
(* of every order: it is cached, sent, accepted, refused, finished.  From  *)
(* there on it is a task of OrderDesk, whose variables and actions this    *)
(* module shares; its price is 0.  A coupon that was spent is not given    *)
(* back by anything that fails later.                                      *)
(*                                                                         *)
(* Coupons are the rows of table coupon; the lists and gifts shown to the  *)
(* users are the subjects of CouponLedger and UserCache.                   *)
(***************************************************************************)
EXTENDS OrderDesk

CONSTANTS
    CouponOrders,   \* order numbers drawn for coupon orders
    Gifts,          \* payments of a gift (merchant_uid of PortOne)
    Codes,          \* coupon codes
    None,           \* no coupon
    MaxUses,        \* bound: calls of useCoupon
    MaxReports      \* bound: payment webhooks per gift

ASSUME CounterAssumption ==
    /\ CouponOrders \subseteq Orders \ PointOrders
    /\ \A o \in CouponOrders : Price[o] = 0
    /\ None \notin Codes
    /\ MaxUses \in Nat
    /\ MaxReports \in Nat

VARIABLES
    coupons,    \* Postgres: rows of table coupon
    gifts,      \* Postgres: rows of table gift, as <<payment, coupon code>>
    till,       \* what every slot is doing before there is an order, or for a gift
    drawn,      \* the codes published so far
    bill,       \* history: the coupon spent for an order
    reported,   \* history: webhooks about a gift
    announced,  \* history: gifts of which the receiver was told
    cutoff,     \* history: gifts whose webhook a crash cut short after they were there
    uses

deskVars    == <<orderCache, db, server, task, told, past, env, restarts>>
giftVars    == <<gifts, reported, announced, cutoff>>
counterVars == <<coupons, giftVars, drawn, bill, uses>>
allVars     == <<deskVars, counterVars, till>>

-----------------------------------------------------------------------------
(***************************************************************************)
(* useCoupon waits for the stores array, the coupon's row, the transaction *)
(* that deletes it.  A gift webhook waits for PortOne, has published a     *)
(* coupon and waits for the gift's row, has the row; or the background     *)
(* _refuseOrder of it waits for the cached order.                          *)
(***************************************************************************)
TillBusy ==
    [at: {"store", "validate", "spend"}, code: Codes]
      \cup [at: {"lookup", "refuse"}, gift: Gifts]
      \cup [at: {"wrap", "wrapped"}, gift: Gifts, code: Codes]

TillAt(t, p)  == till[t].at = p
PutTill(t, r) == till' = [till EXCEPT ![t] = r]
Leave(t)      == PutTill(t, Idle)

\* The wrapped gifts whose webhooks are still under way.
Unannounced ==
    {<<till[t].gift, till[t].code>> : t \in {s \in Tasks : TillAt(s, "wrapped")}}

\* A request takes a slot of the running process.
Take(t, r) == server # "down" /\ task[t] = Idle /\ till[t] = Idle /\ PutTill(t, r)

CounterInit ==
    /\ Init
    /\ coupons \in SUBSET Codes
    /\ drawn = coupons
    /\ gifts = {}
    /\ till = [t \in Tasks |-> Idle]
    /\ bill = [o \in CouponOrders |-> None]
    /\ reported = [g \in Gifts |-> 0]
    /\ announced = {}
    /\ cutoff = {}
    /\ uses = 0

-----------------------------------------------------------------------------
(* useCoupon.                                                              *)

\* The "stores" array is read.
UseCoupon(t, c) ==
    /\ uses < MaxUses
    /\ Take(t, [at |-> "store", code |-> c])
    /\ uses' = uses + 1
    /\ UNCHANGED <<deskVars, coupons, giftVars, drawn, bill>>

\* The store is closed, or the coupon is unknown or expired, or the database
\* fails: the buyer is answered that there is no order.
CouponOrderFails(t) ==
    /\ TillAt(t, "store") \/ TillAt(t, "validate") \/ TillAt(t, "spend")
    /\ Leave(t)
    /\ UNCHANGED <<deskVars, counterVars>>

StoreIsOpen(t) ==
    /\ TillAt(t, "store")
    /\ PutTill(t, [till[t] EXCEPT !.at = "validate"])
    /\ UNCHANGED <<deskVars, counterVars>>

\* _validate finds the coupon's row.
CouponIsValid(t) ==
    /\ TillAt(t, "validate")
    /\ till[t].code \in coupons
    /\ PutTill(t, [till[t] EXCEPT !.at = "spend"])
    /\ UNCHANGED <<deskVars, counterVars>>

\* Mutation: what _validate found is taken for the coupon.
SpendableOnce(c) == TRUE

\* The row is still there; checkValidateAndUpdateCoupon turns the database's
\* "no such row" into the answer that the order is cancelled.
Spendable(c) == c \in coupons

\* The transaction that deletes the row commits, the order is made up, and
\* redis.set of it is issued.  Its sales_uid is the first drawn for it.
SpendCoupon(t, o) ==
    LET c == till[t].code IN
    /\ TillAt(t, "spend")
    /\ Spendable(c)
    /\ bill[o] = None
    /\ coupons' = coupons \ {c}
    /\ bill' = [bill EXCEPT ![o] = c]
    /\ task' = [task EXCEPT ![t] = [at |-> "store", order |-> o, sale |-> 1, why |-> "payment"]]
    /\ calls' = [calls EXCEPT ![o].webhook = 1]
    /\ Leave(t)
    /\ UNCHANGED <<orderCache, db, server, told, past, inbox, restarts, giftVars, drawn, uses>>

\* The coupon runs out, or CouponController.deleteCoupon withdraws it.
WithdrawCoupon(c) ==
    /\ c \in coupons
    /\ coupons' = coupons \ {c}
    /\ UNCHANGED <<deskVars, giftVars, drawn, bill, uses, till>>

-----------------------------------------------------------------------------
(* The gift branch of paymentFactory: sendGift.                            *)

GiftPaid(t, g) ==
    /\ reported[g] < MaxReports
    /\ Take(t, [at |-> "lookup", gift |-> g])
    /\ reported' = [reported EXCEPT ![g] = @ + 1]
    /\ UNCHANGED <<deskVars, coupons, gifts, announced, cutoff, drawn, bill, uses>>

\* PortOne or the database fails, or the receiver has no account: the webhook
\* throws.  A coupon that was published for the gift stays.
GiftFails(t) ==
    /\ TillAt(t, "lookup") \/ TillAt(t, "wrap")
    /\ Leave(t)
    /\ UNCHANGED <<deskVars, counterVars>>

\* PortOne's numbers are others, or the payload has no giftInfo: _refuseOrder
\* in the background, and the webhook throws.
RejectGift(t) ==
    /\ TillAt(t, "lookup")
    /\ PutTill(t, [at |-> "refuse", gift |-> till[t].gift])
    /\ UNCHANGED <<deskVars, counterVars>>

\* No order is cached under the number of a gift's payment: the rejection of
\* _refuseOrder, which nobody handles, ends the process.
RefusalFails(t) ==
    /\ TillAt(t, "refuse")
    /\ Crash
    /\ till' = [s \in Tasks |-> Idle]
    /\ cutoff' = cutoff \cup Unannounced
    /\ UNCHANGED <<orderCache, db, told, env, restarts, coupons, gifts, reported, announced,
                   drawn, bill, uses>>

\* publishCoupon, with a code drawn for this gift.
PublishGiftCoupon(t, c) ==
    /\ TillAt(t, "lookup")
    /\ c \notin drawn
    /\ coupons' = coupons \cup {c}
    /\ drawn' = drawn \cup {c}
    /\ PutTill(t, [at |-> "wrap", gift |-> till[t].gift, code |-> c])
    /\ UNCHANGED <<deskVars, giftVars, bill, uses>>

\* Mutations: the gift's row is created in the background; payment and code
\* change places.
RowLater(x)   == gifts' = gifts \/ gifts' = gifts \cup {x}
RowSwapped(x) == gifts' = gifts \cup {<<x[2], x[1]>>}

\* updateGift creates the gift's row at the receiver.
RowCreated(x) == gifts' = gifts \cup {x}

WrapGift(t) ==
    /\ TillAt(t, "wrap")
    /\ RowCreated(<<till[t].gift, till[t].code>>)
    /\ PutTill(t, [till[t] EXCEPT !.at = "wrapped"])
    /\ UNCHANGED <<deskVars, coupons, reported, announced, cutoff, drawn, bill, uses>>

\* Mutation: the notice is not pushed.
NoPush(x) == UNCHANGED announced

\* pushGiftMessage.
PushGift(x) == announced' = announced \cup {x}

AnnounceGift(t) ==
    /\ TillAt(t, "wrapped")
    /\ PushGift(<<till[t].gift, till[t].code>>)
    /\ Leave(t)
    /\ UNCHANGED <<deskVars, coupons, gifts, reported, cutoff, drawn, bill, uses>>

-----------------------------------------------------------------------------
(* The desk.                                                               *)

\* A coupon order about to be cached: its store was open, and it has a socket.
ToBeCached(t) == At(t, "store") /\ task[t].order \in CouponOrders

DeskProceeds(t) ==
    \/ ~ToBeCached(t) /\ Proceed(t)
    \/ ToBeCached(t) /\ (CacheOrder(t) \/ AbandonOrder(t))

\* PortOne knows nothing of coupon orders; the merchant does.
DeskBegins(t, o) ==
    /\ till[t] = Idle
    /\ \/ o \notin CouponOrders /\ WebhookArrives(t, o)
       \/ AcceptOrder(t, o) \/ RefuseOrder(t, o) \/ FinishOrder(t, o)

\* A crash of the process, whichever it is, ends the requests at the till.
AtDesk ==
    /\ \/ \E t \in Tasks : DeskProceeds(t) \/ \E o \in Orders : DeskBegins(t, o)
       \/ Process
    /\ IF server' = "down" /\ server # "down"
         THEN till' = [t \in Tasks |-> Idle] /\ cutoff' = cutoff \cup Unannounced
         ELSE UNCHANGED <<till, cutoff>>
    /\ UNCHANGED <<coupons, gifts, reported, announced, drawn, bill, uses>>

AtTill(t) ==
    \/ \E c \in Codes : UseCoupon(t, c)
    \/ CouponOrderFails(t) \/ StoreIsOpen(t) \/ CouponIsValid(t)
    \/ \E o \in CouponOrders : SpendCoupon(t, o)
    \/ \E g \in Gifts : GiftPaid(t, g)
    \/ GiftFails(t) \/ RejectGift(t) \/ RefusalFails(t) \/ WrapGift(t) \/ AnnounceGift(t)
    \/ \E c \in Codes : PublishGiftCoupon(t, c)

CounterNext ==
    \/ AtDesk
    \/ \E t \in Tasks : AtTill(t)
    \/ \E c \in Codes : WithdrawCoupon(c)

CounterSpec == CounterInit /\ [][CounterNext]_allVars

-----------------------------------------------------------------------------
(* Properties.                                                             *)

CounterTypeOK ==
    /\ TypeOK
    /\ coupons \subseteq drawn
    /\ drawn \subseteq Codes
    /\ gifts \subseteq Gifts \X Codes
    /\ till \in [Tasks -> TillBusy \cup {Idle}]
    /\ bill \in [CouponOrders -> Codes \cup {None}]
    /\ reported \in [Gifts -> 0..MaxReports]
    /\ announced \subseteq Gifts \X Codes
    /\ cutoff \subseteq Gifts \X Codes
    /\ uses \in 0..MaxUses

\* A coupon buys one order, however many requests, of however many buyers,
\* found it valid before one of them deleted it; a coupon that bought an order
\* is no longer on record.
CouponBuysOneOrder ==
    \A o \in CouponOrders : bill[o] # None =>
        /\ bill[o] \notin coupons
        /\ \A n \in CouponOrders : bill[n] = bill[o] => n = o

\* Nobody's coupon vanishes without a word: when a coupon was spent and nothing
\* is in flight for its order any more, the buyer was told to wait or that the
\* order is refused, unless a crash cut it short.
SpentCouponIsAnswered ==
    \A o \in CouponOrders :
        (bill[o] # None /\ ~InFlight(o)) => told[o] # {} \/ past[o].cut

\* A payment reported once is one gift; a repeated webhook wraps at most
\* another one, around a coupon of its own; and the receiver hears of no gift
\* that is not there.
GiftsArePaidFor ==
    /\ \A g \in Gifts : Cardinality({c \in Codes : <<g, c>> \in gifts}) <= reported[g]
    /\ \A x, y \in gifts : x[2] = y[2] => x = y
    /\ announced \subseteq gifts

\* The receiver hears of every gift, unless a crash cut its webhook short.
WrappedGiftIsAnnounced == gifts \subseteq announced \cup cutoff \cup Unannounced
=============================================================================

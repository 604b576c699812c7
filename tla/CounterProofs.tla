----------------------------- MODULE CounterProofs -----------------------------
(* Proofs about Counter, for any number of orders, gifts, coupons and       *)
(* requests in flight.                                                      *)
EXTENDS Counter, OrderDeskProofs

USE CounterAssumption, BoundAssumption
USE DEF Spendable, RowCreated, PushGift

\* The coupon spent for an order was drawn once, so it is not published again;
\* a gift in the making has a coupon that was drawn for it.
BillsDrawn == \A o \in CouponOrders : bill[o] # None => bill[o] \in drawn

CounterInductive ==
    /\ CounterTypeOK
    /\ BillsDrawn
    /\ CouponBuysOneOrder
    /\ WrappedGiftIsAnnounced

-----------------------------------------------------------------------------
(* Types.                                                                   *)

TillType == till \in [Tasks -> TillBusy \cup {Idle}]

LEMMA TillFacts ==
  ASSUME TillType, NEW t \in Tasks
  PROVE  /\ TillAt(t, "store") \/ TillAt(t, "validate") \/ TillAt(t, "spend")
              => till[t] \in [at: {"store", "validate", "spend"}, code: Codes]
         /\ TillAt(t, "lookup") \/ TillAt(t, "refuse")
              => till[t] \in [at: {"lookup", "refuse"}, gift: Gifts]
         /\ TillAt(t, "wrap") \/ TillAt(t, "wrapped")
              => till[t] \in [at: {"wrap", "wrapped"}, gift: Gifts, code: Codes]
  BY DEF TillType, TillBusy, TillAt, Idle

LEMMA PutTillType ==
  ASSUME TillType, NEW t \in Tasks, NEW r \in TillBusy \cup {Idle}, PutTill(t, r)
  PROVE  TillType'
  BY DEF TillType, PutTill

LEMMA DeskTypeKept ==
  ASSUME TypeOK, UNCHANGED deskVars
  PROVE  TypeOK'
  BY NextType DEF deskVars, vars

LEMMA UnannouncedTyped ==
  ASSUME TillType
  PROVE  Unannounced \subseteq Gifts \X Codes
  BY TillFacts DEF Unannounced

LEMMA DeskStepType ==
  ASSUME TypeOK, AtDesk
  PROVE  TypeOK'
<1>1. ASSUME NEW t \in Tasks, DeskProceeds(t) PROVE TypeOK'
  BY <1>1, ProceedType DEF DeskProceeds, Proceed
<1>2. ASSUME NEW t \in Tasks, NEW o \in Orders, DeskBegins(t, o) PROVE TypeOK'
  BY <1>2, BeginType DEF DeskBegins, Begin
<1> QED
  BY <1>1, <1>2, ProcessType DEF AtDesk

LEMMA SpendType ==
  ASSUME CounterTypeOK, NEW t \in Tasks, NEW o \in CouponOrders, SpendCoupon(t, o)
  PROVE  CounterTypeOK'
<1> DEFINE r == [at |-> "store", order |-> o, sale |-> 1, why |-> "payment"]
<1>1. TypeOK /\ TillType
  BY DEF CounterTypeOK, TillType
<1>2. till[t].code \in Codes
  BY <1>1, TillFacts DEF SpendCoupon
<1>3. o \in Orders
  OBVIOUS
<1>4. r \in Busy
  BY <1>3 DEF Busy, Points, Causes
<1>5. task' \in [Tasks -> Busy \cup {Idle}]
  BY <1>1, <1>4 DEF SpendCoupon, TypeOK
<1>6. calls' \in [Orders -> [webhook: 0..MaxDeliveries, accept: 0..MaxAccepts,
                             remove: 0..MaxRemovals]]
  BY <1>1, <1>3 DEF SpendCoupon, TypeOK
<1>7. TypeOK'
  BY <1>1, <1>5, <1>6 DEF SpendCoupon, TypeOK, db
<1>8. TillType'
  BY <1>1, PutTillType DEF SpendCoupon, Leave
<1>9. bill' \in [CouponOrders -> Codes \cup {None}]
  BY <1>2 DEF SpendCoupon, CounterTypeOK
<1> QED
  BY <1>7, <1>8, <1>9 DEF SpendCoupon, CounterTypeOK, TillType, giftVars

LEMMA GiftStepType ==
  ASSUME CounterTypeOK, NEW t \in Tasks,
         \/ \E g \in Gifts : GiftPaid(t, g)
         \/ \E c \in Codes : PublishGiftCoupon(t, c)
         \/ GiftFails(t) \/ RejectGift(t) \/ WrapGift(t) \/ AnnounceGift(t)
  PROVE  CounterTypeOK'
<1>1. TypeOK /\ TillType
  BY DEF CounterTypeOK, TillType
<1>2. UNCHANGED deskVars
  BY DEF GiftPaid, PublishGiftCoupon, GiftFails, RejectGift, WrapGift, AnnounceGift
<1>3. TypeOK'
  BY <1>1, <1>2, DeskTypeKept
<1>4. ASSUME NEW g \in Gifts, GiftPaid(t, g) PROVE CounterTypeOK'
  <2>1. TillType'
    BY <1>1, <1>4, PutTillType DEF GiftPaid, Take, TillBusy
  <2>2. reported' \in [Gifts -> 0..MaxReports]
    BY <1>4 DEF GiftPaid, CounterTypeOK
  <2> QED
    BY <1>3, <1>4, <2>1, <2>2 DEF GiftPaid, CounterTypeOK, TillType
<1>5. ASSUME NEW c \in Codes, PublishGiftCoupon(t, c) PROVE CounterTypeOK'
  <2>1. TillType'
    BY <1>1, <1>5, TillFacts, PutTillType DEF PublishGiftCoupon, TillBusy
  <2> QED
    BY <1>3, <1>5, <2>1 DEF PublishGiftCoupon, CounterTypeOK, TillType, giftVars
<1>6. CASE GiftFails(t)
  <2>1. TillType'
    BY <1>1, <1>6, PutTillType DEF GiftFails, Leave
  <2> QED
    BY <1>3, <1>6, <2>1 DEF GiftFails, CounterTypeOK, TillType, counterVars, giftVars
<1>7. CASE RejectGift(t)
  <2>1. TillType'
    BY <1>1, <1>7, TillFacts, PutTillType DEF RejectGift, TillBusy
  <2> QED
    BY <1>3, <1>7, <2>1 DEF RejectGift, CounterTypeOK, TillType, counterVars, giftVars
<1>8. CASE WrapGift(t)
  <2>1. till[t] \in [at: {"wrap", "wrapped"}, gift: Gifts, code: Codes]
    BY <1>1, <1>8, TillFacts DEF WrapGift
  <2>2. [till[t] EXCEPT !.at = "wrapped"] \in TillBusy
    BY <2>1 DEF TillBusy
  <2>3. TillType'
    BY <1>1, <1>8, <2>2, PutTillType DEF WrapGift
  <2> QED
    BY <1>3, <1>8, <2>1, <2>3 DEF WrapGift, CounterTypeOK, TillType
<1>9. CASE AnnounceGift(t)
  <2>1. TillType'
    BY <1>1, <1>9, PutTillType DEF AnnounceGift, Leave
  <2> QED
    BY <1>1, <1>3, <1>9, <2>1, TillFacts DEF AnnounceGift, CounterTypeOK, TillType
<1> QED
  BY <1>4, <1>5, <1>6, <1>7, <1>8, <1>9

LEMMA RequestStepType ==
  ASSUME CounterTypeOK, NEW t \in Tasks,
         \/ \E c \in Codes : UseCoupon(t, c)
         \/ CouponOrderFails(t) \/ StoreIsOpen(t) \/ CouponIsValid(t)
  PROVE  CounterTypeOK'
<1>1. TypeOK /\ TillType
  BY DEF CounterTypeOK, TillType
<1>2. TypeOK'
  BY <1>1, DeskTypeKept DEF UseCoupon, CouponOrderFails, StoreIsOpen, CouponIsValid
<1>3. ASSUME NEW c \in Codes, UseCoupon(t, c) PROVE CounterTypeOK'
  <2>1. TillType'
    BY <1>1, <1>3, PutTillType DEF UseCoupon, Take, TillBusy
  <2>2. uses' \in 0..MaxUses
    BY <1>3 DEF UseCoupon, CounterTypeOK
  <2> QED
    BY <1>2, <1>3, <2>1, <2>2 DEF UseCoupon, CounterTypeOK, TillType, giftVars
<1>4. CASE CouponOrderFails(t)
  <2>1. TillType'
    BY <1>1, <1>4, PutTillType DEF CouponOrderFails, Leave
  <2> QED
    BY <1>2, <1>4, <2>1 DEF CouponOrderFails, CounterTypeOK, TillType, counterVars, giftVars
<1>5. CASE StoreIsOpen(t) \/ CouponIsValid(t)
  <2>1. till[t] \in [at: {"store", "validate", "spend"}, code: Codes]
    BY <1>1, <1>5, TillFacts DEF StoreIsOpen, CouponIsValid
  <2>2. \A p \in {"validate", "spend"} : [till[t] EXCEPT !.at = p] \in TillBusy
    BY <2>1 DEF TillBusy
  <2>3. TillType'
    BY <1>1, <1>5, <2>2, PutTillType DEF StoreIsOpen, CouponIsValid
  <2> QED
    BY <1>2, <1>5, <2>3 DEF StoreIsOpen, CouponIsValid, CounterTypeOK, TillType,
                            counterVars, giftVars
<1> QED
  BY <1>3, <1>4, <1>5

LEMMA RefusalStepType ==
  ASSUME CounterTypeOK, NEW t \in Tasks, RefusalFails(t)
  PROVE  CounterTypeOK'
<1>1. TypeOK /\ TillType
  BY DEF CounterTypeOK, TillType
<1>2. TypeOK'
  BY <1>1, CrashType DEF RefusalFails, TypeOK, db, env
<1>3. TillType' /\ cutoff' \subseteq Gifts \X Codes
  BY <1>1, UnannouncedTyped DEF RefusalFails, TillType, CounterTypeOK
<1> QED
  BY <1>2, <1>3 DEF RefusalFails, CounterTypeOK, TillType

LEMMA DeskKeepsTypes ==
  ASSUME CounterTypeOK, AtDesk
  PROVE  CounterTypeOK'
<1>1. TypeOK /\ TillType
  BY DEF CounterTypeOK, TillType
<1>2. TypeOK'
  BY <1>1, DeskStepType
<1>3. TillType' /\ cutoff' \subseteq Gifts \X Codes
  BY <1>1, UnannouncedTyped DEF AtDesk, TillType, CounterTypeOK
<1> QED
  BY <1>2, <1>3 DEF AtDesk, CounterTypeOK, TillType

LEMMA CounterStepType ==
  ASSUME CounterTypeOK, [CounterNext]_allVars
  PROVE  CounterTypeOK'
<1>1. ASSUME NEW t \in Tasks, AtTill(t) PROVE CounterTypeOK'
  BY <1>1, SpendType, GiftStepType, RequestStepType, RefusalStepType DEF AtTill
<1>2. ASSUME NEW c \in Codes, WithdrawCoupon(c) PROVE CounterTypeOK'
  BY <1>2, DeskTypeKept DEF WithdrawCoupon, CounterTypeOK, giftVars
<1>3. CASE UNCHANGED allVars
  BY <1>3, DeskTypeKept DEF allVars, CounterTypeOK, counterVars, giftVars
<1> QED
  BY <1>1, <1>2, <1>3, DeskKeepsTypes DEF CounterNext

-----------------------------------------------------------------------------
(* Coupons.                                                                 *)

\* Everything but SpendCoupon leaves the bills, and lets no coupon come back
\* that was drawn before.
LEMMA BillsKept ==
  ASSUME CounterTypeOK, BillsDrawn, CouponBuysOneOrder, UNCHANGED bill,
         drawn \subseteq drawn', \A c \in coupons' : c \in coupons \/ c \notin drawn
  PROVE  BillsDrawn' /\ CouponBuysOneOrder'
  BY DEF BillsDrawn, CouponBuysOneOrder

LEMMA SpendKeepsBills ==
  ASSUME CounterTypeOK, BillsDrawn, CouponBuysOneOrder,
         NEW t \in Tasks, NEW o \in CouponOrders, SpendCoupon(t, o)
  PROVE  BillsDrawn' /\ CouponBuysOneOrder'
<1> DEFINE c == till[t].code
<1>1. c \in coupons /\ c \in drawn /\ c # None
  BY DEF SpendCoupon, CounterTypeOK
<1>2. \A n \in CouponOrders : bill'[n] = IF n = o THEN c ELSE bill[n]
  BY DEF SpendCoupon, CounterTypeOK
<1>3. coupons' = coupons \ {c} /\ drawn' = drawn
  BY DEF SpendCoupon
<1>4. \A n \in CouponOrders : bill[n] # None => bill[n] # c
  BY <1>1 DEF CouponBuysOneOrder
<1> QED
  BY <1>1, <1>2, <1>3, <1>4 DEF BillsDrawn, CouponBuysOneOrder

LEMMA CounterStepBills ==
  ASSUME CounterTypeOK, BillsDrawn, CouponBuysOneOrder, [CounterNext]_allVars
  PROVE  BillsDrawn' /\ CouponBuysOneOrder'
<1>1. ASSUME NEW t \in Tasks, NEW c \in Codes, PublishGiftCoupon(t, c)
      PROVE  BillsDrawn' /\ CouponBuysOneOrder'
  BY <1>1, BillsKept DEF PublishGiftCoupon
<1>2. ASSUME NEW t \in Tasks, AtTill(t)
      PROVE  \/ \E o \in CouponOrders : SpendCoupon(t, o)
             \/ \E c \in Codes : PublishGiftCoupon(t, c)
             \/ UNCHANGED <<bill, drawn, coupons>>
  BY <1>2 DEF AtTill, UseCoupon, CouponOrderFails, StoreIsOpen, CouponIsValid, GiftPaid,
              GiftFails, RejectGift, RefusalFails, WrapGift, AnnounceGift, counterVars
<1>3. ASSUME NEW c \in Codes, WithdrawCoupon(c) PROVE BillsDrawn' /\ CouponBuysOneOrder'
  BY <1>3, BillsKept DEF WithdrawCoupon
<1>4. AtDesk \/ UNCHANGED allVars => UNCHANGED <<bill, drawn, coupons>>
  BY DEF AtDesk, allVars, counterVars
<1>5. CASE UNCHANGED <<bill, drawn, coupons>>
  BY <1>5, BillsKept
<1> QED
  BY <1>1, <1>2, <1>3, <1>4, <1>5, SpendKeepsBills DEF CounterNext

-----------------------------------------------------------------------------
(* Gifts.                                                                   *)

\* A slot that has no wrapped gift may turn to something else.
LEMMA UnannouncedKept ==
  ASSUME TillType, NEW t \in Tasks, NEW r, PutTill(t, r), ~TillAt(t, "wrapped")
  PROVE  Unannounced \subseteq Unannounced'
<1> SUFFICES ASSUME NEW s \in Tasks, TillAt(s, "wrapped")
             PROVE  <<till[s].gift, till[s].code>> \in Unannounced'
  BY DEF Unannounced
<1>1. s # t
  OBVIOUS
<1>2. till'[s] = till[s]
  BY <1>1 DEF PutTill, TillType
<1> QED
  BY <1>2 DEF Unannounced, TillAt

LEMMA TillKeepsNotices ==
  ASSUME CounterTypeOK, WrappedGiftIsAnnounced, NEW t \in Tasks, AtTill(t)
  PROVE  WrappedGiftIsAnnounced'
<1>1. TillType
  BY DEF CounterTypeOK, TillType
<1>2. ASSUME NEW r, PutTill(t, r), ~TillAt(t, "wrapped"), UNCHANGED <<gifts, announced, cutoff>>
      PROVE  WrappedGiftIsAnnounced'
  BY <1>1, <1>2, UnannouncedKept DEF WrappedGiftIsAnnounced
<1>3. CASE WrapGift(t)
  <2> DEFINE x == <<till[t].gift, till[t].code>>
  <2>1. Unannounced \subseteq Unannounced'
    BY <1>1, <1>3, UnannouncedKept DEF WrapGift, TillAt
  <2>2. x \in Unannounced'
    <3>1. till[t] \in [at: {"wrap", "wrapped"}, gift: Gifts, code: Codes]
      BY <1>1, <1>3, TillFacts DEF WrapGift
    <3>2. till'[t] = [till[t] EXCEPT !.at = "wrapped"]
      BY <1>1, <1>3 DEF WrapGift, PutTill, TillType
    <3>3. till'[t].at = "wrapped" /\ x = <<till'[t].gift, till'[t].code>>
      BY <3>1, <3>2
    <3> QED
      BY <3>3 DEF Unannounced, TillAt
  <2> QED
    BY <1>3, <2>1, <2>2 DEF WrapGift, WrappedGiftIsAnnounced
<1>4. CASE AnnounceGift(t)
  <2> SUFFICES ASSUME NEW x \in Unannounced, x \notin Unannounced' PROVE x \in announced'
    BY <1>4 DEF AnnounceGift, WrappedGiftIsAnnounced
  <2>1. PICK s \in Tasks : TillAt(s, "wrapped") /\ x = <<till[s].gift, till[s].code>>
    BY DEF Unannounced
  <2>2. s # t => till'[s] = till[s]
    BY <1>1, <1>4 DEF AnnounceGift, Leave, PutTill, TillType
  <2>3. s = t
    BY <2>1, <2>2 DEF Unannounced, TillAt
  <2> QED
    BY <1>4, <2>1, <2>3 DEF AnnounceGift
<1>5. CASE RefusalFails(t)
  BY <1>5 DEF RefusalFails, WrappedGiftIsAnnounced
<1>6. ASSUME NEW c \in Codes, UseCoupon(t, c)
      PROVE  WrappedGiftIsAnnounced'
  <2>1. till[t] = Idle /\ PutTill(t, [at |-> "store", code |-> c])
    BY <1>6 DEF UseCoupon, Take
  <2>2. UNCHANGED <<gifts, announced, cutoff>>
    BY <1>6 DEF UseCoupon, giftVars
  <2>3. ~TillAt(t, "wrapped")
    BY <2>1 DEF TillAt, Idle
  <2> QED
    BY <1>2, <2>1, <2>2, <2>3
<1>10. ASSUME NEW g \in Gifts, GiftPaid(t, g)
       PROVE  WrappedGiftIsAnnounced'
  <2>1. till[t] = Idle /\ PutTill(t, [at |-> "lookup", gift |-> g])
    BY <1>10 DEF GiftPaid, Take
  <2>2. UNCHANGED <<gifts, announced, cutoff>>
    BY <1>10 DEF GiftPaid, giftVars
  <2>3. ~TillAt(t, "wrapped")
    BY <2>1 DEF TillAt, Idle
  <2> QED
    BY <1>2, <2>1, <2>2, <2>3
<1>7. CASE CouponOrderFails(t) \/ GiftFails(t)
  BY <1>2, <1>7 DEF CouponOrderFails, GiftFails, Leave, counterVars, giftVars, TillAt
<1>8. CASE StoreIsOpen(t) \/ CouponIsValid(t) \/ RejectGift(t)
  BY <1>2, <1>8 DEF StoreIsOpen, CouponIsValid, RejectGift, counterVars, giftVars, TillAt
<1>9. CASE \/ \E o \in CouponOrders : SpendCoupon(t, o)
           \/ \E c \in Codes : PublishGiftCoupon(t, c)
  BY <1>2, <1>9 DEF SpendCoupon, PublishGiftCoupon, Leave, giftVars, TillAt
<1> QED
  BY <1>3, <1>4, <1>5, <1>6, <1>7, <1>8, <1>9, <1>10 DEF AtTill

LEMMA CounterStepNotices ==
  ASSUME CounterTypeOK, WrappedGiftIsAnnounced, [CounterNext]_allVars
  PROVE  WrappedGiftIsAnnounced'
<1>1. CASE AtDesk
  BY <1>1 DEF AtDesk, WrappedGiftIsAnnounced, Unannounced, TillAt
<1>2. ASSUME NEW c \in Codes, WithdrawCoupon(c) PROVE WrappedGiftIsAnnounced'
  BY <1>2 DEF WithdrawCoupon, WrappedGiftIsAnnounced, Unannounced, TillAt, giftVars
<1>3. CASE UNCHANGED allVars
  BY <1>3 DEF allVars, counterVars, giftVars, WrappedGiftIsAnnounced, Unannounced, TillAt
<1> QED
  BY <1>1, <1>2, <1>3, TillKeepsNotices DEF CounterNext

-----------------------------------------------------------------------------
(* The theorems.                                                            *)

LEMMA CounterInitInductive == CounterInit => CounterInductive
<1> SUFFICES ASSUME CounterInit PROVE CounterInductive
  OBVIOUS
<1>1. TypeOK
  BY InitType DEF CounterInit
<1> QED
  BY <1>1 DEF CounterInit, CounterInductive, CounterTypeOK, BillsDrawn, CouponBuysOneOrder,
              WrappedGiftIsAnnounced

THEOREM CounterIsInductive == CounterSpec => []CounterInductive
<1>1. CounterInductive /\ [CounterNext]_allVars => CounterInductive'
  BY CounterStepType, CounterStepBills, CounterStepNotices DEF CounterInductive
<1> QED
  BY <1>1, CounterInitInductive, PTL DEF CounterSpec

\* The variables of the counter, and those of the desk it shares, keep their
\* types.
THEOREM CounterTypeCorrect == CounterSpec => []CounterTypeOK
<1>1. CounterInductive => CounterTypeOK
  BY DEF CounterInductive
<1> QED
  BY <1>1, CounterIsInductive, PTL

\* However many requests find a coupon valid: it pays for one order, and is not
\* on record any more when it has.
THEOREM CouponsBuyOneOrder == CounterSpec => []CouponBuysOneOrder
<1>1. CounterInductive => CouponBuysOneOrder
  BY DEF CounterInductive
<1> QED
  BY <1>1, CounterIsInductive, PTL

\* A gift whose row is there was announced, is about to be, or its webhook was
\* cut short by a crash.
THEOREM GiftsAreAnnounced == CounterSpec => []WrappedGiftIsAnnounced
<1>1. CounterInductive => WrappedGiftIsAnnounced
  BY DEF CounterInductive
<1> QED
  BY <1>1, CounterIsInductive, PTL

-----------------------------------------------------------------------------
(* The desk, with coupon orders on it.                                      *)

\* What the proofs of the desk rest on; of a coupon order no webhook arrives,
\* and a slot serves one request at a time.
DeskSide == Inductive /\ Backed /\ CausesKnown /\ AnswerIsDue

CouponCalls ==
    \A o \in CouponOrders : calls[o].webhook = IF bill[o] = None THEN 0 ELSE 1

OneRequestPerSlot == \A t \in Tasks : till[t] = Idle \/ task[t] = Idle

\* Every step at the counter is one of the desk or none for the desk, but for
\* the coupon order that comes in and the crash of a gift's refusal.
LEMMA CounterStepAtDesk ==
  ASSUME [CounterNext]_allVars
  PROVE  \/ [Next]_vars
         \/ \E t \in Tasks : RefusalFails(t)
         \/ \E t \in Tasks : \E o \in CouponOrders : SpendCoupon(t, o)
<1>1. AtDesk => Next
  <2>1. ASSUME NEW t \in Tasks, DeskProceeds(t) PROVE Next
    BY <2>1 DEF DeskProceeds, Proceed, Next
  <2>2. ASSUME NEW t \in Tasks, NEW o \in Orders, DeskBegins(t, o) PROVE Next
    BY <2>2 DEF DeskBegins, Begin, Next
  <2> QED
    BY <2>1, <2>2 DEF AtDesk, Next
<1>2. ASSUME NEW t \in Tasks, AtTill(t)
      PROVE  \/ UNCHANGED deskVars \/ RefusalFails(t)
             \/ \E o \in CouponOrders : SpendCoupon(t, o)
  BY <1>2 DEF AtTill, UseCoupon, CouponOrderFails, StoreIsOpen, CouponIsValid, GiftPaid,
              GiftFails, RejectGift, WrapGift, AnnounceGift, PublishGiftCoupon
<1>3. \A c \in Codes : WithdrawCoupon(c) => UNCHANGED deskVars
  BY DEF WithdrawCoupon
<1>4. UNCHANGED allVars => UNCHANGED deskVars
  BY DEF allVars
<1>5. UNCHANGED deskVars => UNCHANGED vars
  BY DEF deskVars, vars
<1> QED
  BY <1>1, <1>2, <1>3, <1>4, <1>5 DEF CounterNext

LEMMA DeathKeepsDesk ==
  ASSUME DeskSide, TypeOK', Crash, UNCHANGED <<orderCache, db, told, env, restarts>>
  PROVE  DeskSide'
<1> USE DEF DeskSide, Inductive
<1>1. UNCHANGED <<orders, sales, inbox, calls>>
  BY DEF db, env
<1>2. SalesMatchOrders'
  BY <1>1, TablesKept, CrashPast
<1>3. SalesWereDelivered'
  BY <1>1, DeliveredKept, CrashTask DEF SalesWereDelivered
<1>4. OneAcceptInFlight'
  BY <1>1, QuietKeeps, CrashQuiet, CrashPast DEF Quiet
<1>5. Backed'
  BY <1>1, CrashBacked
<1>6. CausesKnown'
  <2>1. RemovalsHaveCauses'
    BY CrashTask DEF RemovalsHaveCauses, At, Idle
  <2>2. ASSUME NEW o \in Orders PROVE OneWebhookFor(o)' /\ OneBookingFor(o)'
    BY <1>1, <2>1, CrashTask, CrashPast, CausesKept DEF Paying, Undoing, At, Idle
  <2> QED
    BY <2>1, <2>2 DEF CausesKnown
<1>7. AnswerIsDue'
  BY <1>1, CrashAnswers DEF AnswerIsDue
<1> QED
  BY <1>2, <1>3, <1>4, <1>5, <1>6, <1>7

LEMMA SpendMoves ==
  ASSUME TypeOK, CouponCalls, OneRequestPerSlot,
         NEW t \in Tasks, NEW o \in CouponOrders, SpendCoupon(t, o)
  PROVE  /\ task[t] = Idle
         /\ \A u \in Tasks \ {t} : task'[u] = task[u]
         /\ task'[t] = [at |-> "store", order |-> o, sale |-> 1, why |-> "payment"]
         /\ calls[o].webhook = 0 /\ calls'[o].webhook = 1
         /\ \A q \in Orders \ {o} : calls'[q] = calls[q]
         /\ \A q \in Orders : calls'[q].accept = calls[q].accept
         /\ UNCHANGED <<orderCache, orders, sales, point, told, past, inbox>>
<1>1. task[t] = Idle
  BY DEF SpendCoupon, OneRequestPerSlot, TillAt, Idle
<1>2. calls[o].webhook = 0
  BY DEF SpendCoupon, CouponCalls
<1>3. /\ calls'[o].webhook = 1
      /\ \A q \in Orders \ {o} : calls'[q] = calls[q]
      /\ \A q \in Orders : calls'[q].accept = calls[q].accept
  BY DEF SpendCoupon, TypeOK
<1>4. /\ \A u \in Tasks \ {t} : task'[u] = task[u]
      /\ task'[t] = [at |-> "store", order |-> o, sale |-> 1, why |-> "payment"]
  BY DEF SpendCoupon, TypeOK
<1> QED
  BY <1>1, <1>2, <1>3, <1>4 DEF SpendCoupon, db

LEMMA SpendKeepsDesk ==
  ASSUME DeskSide, TypeOK', CouponCalls, OneRequestPerSlot,
         NEW t \in Tasks, NEW o \in CouponOrders, SpendCoupon(t, o)
  PROVE  DeskSide'
<1>0. o \in Orders
  OBVIOUS
<1>d. /\ TypeOK /\ SalesMatchOrders /\ SalesWereDelivered /\ OneAcceptInFlight
      /\ Backed /\ CausesKnown /\ AnswerIsDue
  BY DEF DeskSide, Inductive
<1>m. /\ task[t] = Idle
      /\ \A u \in Tasks \ {t} : task'[u] = task[u]
      /\ task'[t] = [at |-> "store", order |-> o, sale |-> 1, why |-> "payment"]
      /\ calls[o].webhook = 0 /\ calls'[o].webhook = 1
      /\ \A q \in Orders \ {o} : calls'[q] = calls[q]
      /\ \A q \in Orders : calls'[q].accept = calls[q].accept
      /\ UNCHANGED <<orderCache, orders, sales, point, told, past, inbox>>
  BY <1>d, SpendMoves
<1>1. SalesMatchOrders'
  BY <1>m, <1>d, TablesKept
<1>2. SalesWereDelivered'
  <2>1. \A q \in Orders : /\ calls'[q].webhook >= calls[q].webhook
                          /\ calls[q].webhook \in Nat /\ calls'[q].webhook \in Nat
    BY <1>0, <1>m, <1>d DEF TypeOK
  <2>2. \A q \in Orders : orderCache'[q] <= calls'[q].webhook
    BY <2>1, <1>m, <1>d DEF SalesWereDelivered, TypeOK
  <2>3. \A x \in sales' : x[2] <= calls'[x[1]].webhook
    BY <2>1, <1>m, <1>d DEF SalesWereDelivered, TypeOK, SaleIds
  <2>4. ASSUME NEW u \in Tasks
        PROVE  /\ Working(u)' => task'[u].sale <= calls'[task'[u].order].webhook
               /\ At(u, "lookup")' \/ At(u, "store")' => task'[u].sale # 0
    <3>1. CASE u = t
      BY <3>1, <1>m, <1>d DEF At
    <3>2. CASE u # t /\ Working(u)
      <4>1. task[u].order \in Orders /\ task[u].sale \in Nat
        BY <1>d, <3>2 DEF TypeOK, Working, Busy
      <4> QED
        BY <2>1, <3>2, <4>1, <1>m, <1>d DEF SalesWereDelivered, At
    <3>3. CASE u # t /\ ~Working(u)
      BY <3>3, <1>m, <1>d DEF Working, At, Idle
    <3> QED
      BY <3>1, <3>2, <3>3
  <2> QED
    BY <2>2, <2>3, <2>4 DEF SalesWereDelivered
<1>3. OneAcceptInFlight'
  BY <1>m, <1>d, QuietKeeps DEF Quiet
<1>4. Backed'
  BY <1>m, <1>d, MovedOn, BackedKept
<1>5. CausesKnown'
  <2>1. RemovalsHaveCauses'
    BY <1>m, <1>d DEF CausesKnown, RemovalsHaveCauses, At
  <2>2. ASSUME NEW q \in Orders PROVE OneWebhookFor(q)' /\ OneBookingFor(q)'
    <3>1. OneWebhookFor(q) /\ OneBookingFor(q)
      BY <1>d DEF CausesKnown
    <3>2. \A u \in Tasks : /\ Paying(u, q)' => Paying(u, q) \/ (u = t /\ q = o)
                           /\ Undoing(u, q)' => Undoing(u, q)
                           /\ At(u, "accept")' /\ task'[u].order = q
                                => At(u, "accept") /\ task[u].order = q
      BY <1>m, <1>d DEF Paying, Undoing, At
    <3>3. CASE q = o
      <4>1. o \notin inbox /\ \A u \in Tasks : ~Paying(u, o)
        BY <3>1, <3>3, <1>m, <1>d DEF OneWebhookFor
      <4>2. OneWebhookFor(q)'
        BY <3>1, <3>2, <3>3, <4>1, <1>m, <1>d DEF OneWebhookFor
      <4>3. OneBookingFor(q)'
        BY <3>1, <3>2, <1>m, <1>d DEF OneBookingFor, AcceptedAtMostOnce
      <4> QED
        BY <4>2, <4>3
    <3>4. CASE q # o
      BY <2>1, <3>2, <3>4, <1>m, <1>d, CausesKept
    <3> QED
      BY <3>3, <3>4
  <2> QED
    BY <2>1, <2>2 DEF CausesKnown
<1>6. AnswerIsDue'
  <2>1. ASSUME NEW q \in Orders PROVE AnswerIsDueFor(q)'
    <3>1. \A u \in Tasks : Answering(u, q) => Answering(u, q)'
      BY <1>m, <1>d DEF Answering, At, Idle
    <3>2. AnsweredFor(q) => AnsweredFor(q)'
      BY <1>m, <1>d DEF AnsweredFor
    <3>3. Ordinary(q)' => Ordinary(q)
      BY <1>m, <1>d DEF Ordinary
    <3> QED
      BY <3>1, <3>2, <3>3, <1>m, <1>d, AnswerKept DEF AnswerIsDue
  <2> QED
    BY <2>1 DEF AnswerIsDue
<1> QED
  BY <1>1, <1>2, <1>3, <1>4, <1>5, <1>6 DEF DeskSide, Inductive

LEMMA CounterStepDesk ==
  ASSUME DeskSide, TypeOK', CouponCalls, OneRequestPerSlot, [CounterNext]_allVars
  PROVE  DeskSide'
<1>1. CASE [Next]_vars
  BY <1>1, NextType, NextTables, NextDelivered, NextOneAccept, NextBacked, NextCauses, NextAnswers
  DEF DeskSide, Inductive
<1>2. ASSUME NEW t \in Tasks, RefusalFails(t) PROVE DeskSide'
  BY <1>2, DeathKeepsDesk DEF RefusalFails
<1> QED
  BY <1>1, <1>2, SpendKeepsDesk, CounterStepAtDesk

LEMMA CounterStepCalls ==
  ASSUME CounterTypeOK, CouponCalls, [CounterNext]_allVars
  PROVE  CouponCalls'
<1>0. TypeOK /\ CouponOrders \subseteq Orders
  BY DEF CounterTypeOK
<1>1. ASSUME UNCHANGED bill, \A o \in CouponOrders : calls'[o].webhook = calls[o].webhook
      PROVE  CouponCalls'
  BY <1>1 DEF CouponCalls
<1>2. CASE AtDesk
  <2>1. UNCHANGED bill
    BY <1>2 DEF AtDesk
  <2>2. ASSUME NEW t \in Tasks, Proceed(t) PROVE UNCHANGED calls
    BY <2>2 DEF Proceed, LookupFails, LookupMismatch, LookupDone, RejectOrder, AbandonOrder,
                CacheOrder, SendOrder, CreateOrderCommits, AcceptFails, AcceptDone,
                DeleteOrderCommits, RemovalFails, RemovalDone, HistoryCommits, HistoryFails,
                FinishDone, env
  <2>3. ASSUME NEW t \in Tasks, DeskProceeds(t) PROVE UNCHANGED calls
    BY <2>2, <2>3 DEF DeskProceeds, Proceed
  <2>4. Process => UNCHANGED calls
    BY DEF Process, Kill, Restart, StartupDeletes, StartupFails, RejectionUnhandled, env
  <2>5. ASSUME NEW t \in Tasks, NEW p \in Orders, DeskBegins(t, p), NEW o \in CouponOrders
        PROVE  calls'[o].webhook = calls[o].webhook
    <3>1. CASE p \notin CouponOrders /\ WebhookArrives(t, p)
      BY <1>0, <3>1 DEF WebhookArrives, TypeOK
    <3>2. CASE AcceptOrder(t, p)
      BY <1>0, <3>2 DEF AcceptOrder, TypeOK
    <3>3. CASE RefuseOrder(t, p) \/ FinishOrder(t, p)
      <4>1. calls' = [calls EXCEPT ![p].remove = @ + 1]
        BY <3>3 DEF RefuseOrder, FinishOrder
      <4> QED
        BY <1>0, <4>1 DEF TypeOK
    <3> QED
      BY <2>5, <3>1, <3>2, <3>3 DEF DeskBegins
  <2>6. \A o \in CouponOrders : calls'[o].webhook = calls[o].webhook
    BY <1>2, <2>3, <2>4, <2>5 DEF AtDesk
  <2> QED
    BY <1>1, <2>1, <2>6
<1>3. ASSUME NEW t \in Tasks, NEW o \in CouponOrders, SpendCoupon(t, o) PROVE CouponCalls'
  <2>1. till[t].code \in coupons
    BY <1>3 DEF SpendCoupon
  <2>2. till[t].code # None
    BY <2>1 DEF CounterTypeOK
  <2>3. /\ bill'[o] = till[t].code
        /\ \A q \in CouponOrders \ {o} : bill'[q] = bill[q]
    BY <1>3 DEF SpendCoupon, CounterTypeOK
  <2>4. /\ calls'[o].webhook = 1
        /\ \A q \in CouponOrders \ {o} : calls'[q].webhook = calls[q].webhook
    BY <1>0, <1>3 DEF SpendCoupon, TypeOK
  <2> QED
    BY <2>2, <2>3, <2>4 DEF CouponCalls
<1>4. ASSUME NEW t \in Tasks, AtTill(t)
      PROVE  \/ \E o \in CouponOrders : SpendCoupon(t, o)
             \/ UNCHANGED <<bill, calls>>
  BY <1>4 DEF AtTill, UseCoupon, CouponOrderFails, StoreIsOpen, CouponIsValid, GiftPaid,
              GiftFails, RejectGift, RefusalFails, WrapGift, AnnounceGift, PublishGiftCoupon,
              counterVars, deskVars, env
<1>5. (\E c \in Codes : WithdrawCoupon(c)) \/ UNCHANGED allVars => UNCHANGED <<bill, calls>>
  BY DEF WithdrawCoupon, allVars, counterVars, deskVars, env
<1> QED
  BY <1>1, <1>2, <1>3, <1>4, <1>5 DEF CounterNext

LEMMA CounterStepSlots ==
  ASSUME CounterTypeOK, OneRequestPerSlot, [CounterNext]_allVars
  PROVE  OneRequestPerSlot'
<1>0. TypeOK /\ TillType
  BY DEF CounterTypeOK, TillType
<1>1. CASE AtDesk
  <2>1. \A t \in Tasks : till'[t] = Idle \/ till'[t] = till[t]
    BY <1>1 DEF AtDesk
  <2>2. ASSUME NEW t \in Tasks, DeskProceeds(t)
        PROVE  OneRequestPerSlot'
    <3>1. Proceed(t)
      BY <2>2 DEF DeskProceeds, Proceed
    <3>2. task[t] # Idle
      BY <3>1 DEF Proceed, LookupFails, LookupMismatch, LookupDone, RejectOrder, AbandonOrder,
                CacheOrder, SendOrder, CreateOrderCommits, AcceptFails, AcceptDone,
                DeleteOrderCommits, RemovalFails, RemovalDone, HistoryCommits, HistoryFails,
                FinishDone, At, Idle
    <3>3. \A u \in Tasks \ {t} : task'[u] = task[u] \/ task'[u] = Idle
      BY <1>0, <3>1, ProceedTask, CrashTask
    <3> QED
      BY <2>1, <3>2, <3>3 DEF OneRequestPerSlot
  <2>3. ASSUME NEW t \in Tasks, NEW p \in Orders, DeskBegins(t, p)
        PROVE  OneRequestPerSlot'
    <3>1. \A u \in Tasks \ {t} : task'[u] = task[u]
      BY <1>0, <2>3, StartTask DEF DeskBegins, WebhookArrives, AcceptOrder, RefuseOrder, FinishOrder
    <3> QED
      BY <2>1, <2>3, <3>1 DEF OneRequestPerSlot, DeskBegins
  <2>4. Process => \A u \in Tasks : task'[u] = task[u] \/ task'[u] = Idle
    BY <1>0, CrashTask DEF Process, Kill, Restart, StartupDeletes, StartupFails, RejectionUnhandled
  <2>5. Process => OneRequestPerSlot'
    BY <2>1, <2>4 DEF OneRequestPerSlot
  <2> QED
    BY <1>1, <2>2, <2>3, <2>5 DEF AtDesk
<1>2. ASSUME NEW t \in Tasks, NEW r, PutTill(t, r), UNCHANGED task, r = Idle \/ task[t] = Idle
      PROVE  OneRequestPerSlot'
  BY <1>0, <1>2 DEF PutTill, TillType, OneRequestPerSlot
<1>3. ASSUME NEW t \in Tasks, TillAt(t, "store") \/ TillAt(t, "validate") \/ TillAt(t, "spend")
                              \/ TillAt(t, "lookup") \/ TillAt(t, "wrap") \/ TillAt(t, "wrapped")
      PROVE  task[t] = Idle
  BY <1>3 DEF OneRequestPerSlot, TillAt, Idle
<1>4. ASSUME NEW t \in Tasks, AtTill(t) PROVE OneRequestPerSlot'
  <2>1. CASE \/ \E c \in Codes : UseCoupon(t, c)
             \/ \E g \in Gifts : GiftPaid(t, g)
    BY <1>2, <2>1 DEF UseCoupon, GiftPaid, Take, deskVars
  <2>2. CASE CouponOrderFails(t) \/ GiftFails(t) \/ AnnounceGift(t)
    BY <1>2, <2>2 DEF CouponOrderFails, GiftFails, AnnounceGift, Leave, deskVars
  <2>3. CASE StoreIsOpen(t) \/ CouponIsValid(t) \/ RejectGift(t) \/ WrapGift(t)
             \/ \E c \in Codes : PublishGiftCoupon(t, c)
    <3>1. task[t] = Idle
      BY <1>3, <2>3 DEF StoreIsOpen, CouponIsValid, RejectGift, WrapGift, PublishGiftCoupon
    <3> QED
      BY <1>2, <2>3, <3>1 DEF StoreIsOpen, CouponIsValid, RejectGift, WrapGift,
                              PublishGiftCoupon, deskVars
  <2>4. CASE \E o \in CouponOrders : SpendCoupon(t, o)
    <3>1. till'[t] = Idle /\ \A u \in Tasks \ {t} : till'[u] = till[u]
      BY <1>0, <2>4 DEF SpendCoupon, Leave, PutTill, TillType
    <3>2. \A u \in Tasks \ {t} : task'[u] = task[u]
      BY <1>0, <2>4 DEF SpendCoupon, TypeOK
    <3> QED
      BY <3>1, <3>2 DEF OneRequestPerSlot
  <2>5. CASE RefusalFails(t)
    BY <2>5 DEF RefusalFails, OneRequestPerSlot
  <2> QED
    BY <1>4, <2>1, <2>2, <2>3, <2>4, <2>5 DEF AtTill
<1>5. (\E c \in Codes : WithdrawCoupon(c)) \/ UNCHANGED allVars => UNCHANGED <<till, task>>
  BY DEF WithdrawCoupon, allVars, deskVars
<1> QED
  BY <1>1, <1>4, <1>5 DEF CounterNext, OneRequestPerSlot

DeskInductive == DeskSide /\ CouponCalls /\ OneRequestPerSlot

LEMMA CounterInitDesk == CounterInit => DeskInductive
<1> SUFFICES ASSUME CounterInit PROVE DeskInductive
  OBVIOUS
<1>1. DeskSide
  BY InitType, InitTables, InitDelivered, InitOneAccept, InitBacked, InitCauses, InitAnswers
  DEF CounterInit, DeskSide, Inductive
<1>2. CouponCalls /\ OneRequestPerSlot
  BY DEF CounterInit, Init, CouponCalls, OneRequestPerSlot
<1> QED
  BY <1>1, <1>2 DEF DeskInductive

LEMMA DeskIsInductive == CounterSpec => [](CounterInductive /\ DeskInductive)
<1>1. CounterInductive /\ CounterInductive' /\ DeskInductive /\ [CounterNext]_allVars
        => DeskInductive'
  <2>1. CounterInductive => CounterTypeOK
    BY DEF CounterInductive
  <2>2. CounterInductive' => TypeOK'
    BY DEF CounterInductive, CounterTypeOK
  <2> QED
    BY <2>1, <2>2, CounterStepDesk, CounterStepCalls, CounterStepSlots DEF DeskInductive
<1> QED
  BY <1>1, CounterInitDesk, CounterIsInductive, PTL DEF CounterSpec

LEMMA CounterStepWallet ==
  ASSUME DeskInductive, WalletSound, [CounterNext]_allVars
  PROVE  WalletSound'
<1>1. Inductive /\ TypeOK
  BY DEF DeskInductive, DeskSide, Inductive
<1>2. CASE [Next]_vars
  BY <1>1, <1>2, NextWallet
<1>3. ASSUME NEW t \in Tasks, RefusalFails(t) PROVE WalletSound'
  BY <1>3, WalletUntouched DEF RefusalFails, db
<1>4. ASSUME NEW t \in Tasks, NEW o \in CouponOrders, SpendCoupon(t, o) PROVE WalletSound'
  BY <1>4, WalletUntouched DEF SpendCoupon, db
<1> QED
  BY <1>2, <1>3, <1>4, CounterStepAtDesk

\* What the desk guarantees for paid orders it guarantees next to coupon
\* orders, and for these: order and sales rows agree, an order on the books can
\* be settled, the wallet is the sum of the sales, histories are backed by
\* acceptances, and no order that was accepted disappears without an explanation.
THEOREM DeskServesCouponOrders ==
  CounterSpec => [](/\ SalesMatchOrders
                    /\ AcceptedOrderIsSettleable
                    /\ WalletIsSumOfSales
                    /\ HistoryBacked
                    /\ VanishedOrderIsExplained)
<1>1. DeskInductive /\ WalletSound => /\ SalesMatchOrders
                                     /\ AcceptedOrderIsSettleable
                                     /\ WalletIsSumOfSales
                                     /\ HistoryBacked
                                     /\ VanishedOrderIsExplained
  BY InductiveSettleable, BackedGives, AnswersGive
  DEF DeskInductive, DeskSide, Inductive, WalletSound, WalletIsSumOfSales, Total
<1>2. DeskInductive /\ WalletSound /\ [CounterNext]_allVars => WalletSound'
  BY CounterStepWallet
<1>3. CounterInit => WalletSound
  BY InitWallet DEF CounterInit
<1> QED
  BY <1>1, <1>2, <1>3, DeskIsInductive, PTL DEF CounterSpec

\* With coupon orders, too, the tables order and storewallet implement
\* OrderBook as long as a merchant accepts an order at most once: a coupon order
\* goes in and out of the books once, like a paid one.
THEOREM CounterImplementsBook ==
  ASSUME MaxAccepts <= 1
  PROVE  CounterSpec => ImplementsOrderBook
<1>1. CounterInductive /\ DeskInductive /\ [CounterNext]_allVars => [Book!Next]_<<Stages, point>>
  <2> SUFFICES ASSUME CounterInductive, DeskInductive, [CounterNext]_allVars
               PROVE  [Book!Next]_<<Stages, point>>
    OBVIOUS
  <2>1. Inductive /\ TypeOK
    BY DEF DeskInductive, DeskSide, Inductive
  <2>2. CASE [Next]_vars
    BY <2>1, <2>2, NextIsBookStep
  <2>3. ASSUME NEW t \in Tasks, RefusalFails(t) PROVE UNCHANGED <<Stages, point>>
    BY <2>1, <2>3, StageKept, CrashPast DEF RefusalFails, db
  <2>4. ASSUME NEW t \in Tasks, NEW o \in CouponOrders, SpendCoupon(t, o)
        PROVE  UNCHANGED <<Stages, point>>
    BY <2>4, StageKept DEF SpendCoupon, db
  <2> QED
    BY <2>2, <2>3, <2>4, CounterStepAtDesk
<1>2. CounterInit => Book!Init
  BY InitIsBookInit DEF CounterInit
<1> QED
  BY <1>1, <1>2, DeskIsInductive, PTL
  DEF CounterSpec, ImplementsOrderBook, Book!Spec, Stages

-----------------------------------------------------------------------------
(* Coupons that were spent.                                                 *)

\* A coupon order whose buyer is still to hear of it.
Waits(t, o) == task[t].at \in {"store", "cached"} /\ task[t].order = o

Served(o) == told[o] # {} \/ past[o].cut \/ \E t \in Tasks : Waits(t, o)

SpentIsServed == \A o \in CouponOrders : bill[o] # None => Served(o)

LEMMA ServedKept ==
  ASSUME NEW o \in Orders, Served(o), told[o] \subseteq told'[o], past[o].cut => past'[o].cut,
         \A u \in Tasks : Waits(u, o) => Waits(u, o)' \/ told'[o] # {}
  PROVE  Served(o)'
  BY DEF Served

\* The order of a request that a crash cuts short is marked.
LEMMA CrashServes ==
  ASSUME TypeOK, Crash, UNCHANGED told, NEW o \in Orders, Served(o)
  PROVE  Served(o)'
<1>1. past'[o].cut = (past[o].cut \/ \E t \in Tasks : Working(t) /\ task[t].order = o)
  BY DEF TypeOK, Crash
<1>2. \A t \in Tasks : Waits(t, o) => Working(t) /\ task[t].order = o
  BY DEF Waits, Working, Idle
<1>3. (\E t \in Tasks : Waits(t, o)) => past'[o].cut
  BY <1>1, <1>2
<1>4. past[o].cut => past'[o].cut
  BY <1>1
<1> QED
  BY <1>3, <1>4 DEF Served

\* A handler that goes on leaves no buyer of a coupon order without a word.
LEMMA ProceedServes ==
  ASSUME TypeOK, NEW t \in Tasks, DeskProceeds(t), NEW o \in CouponOrders, Served(o)
  PROVE  Served(o)'
<1>0. o \in Orders /\ Proceed(t)
  BY DEF DeskProceeds, Proceed
<1>1. CASE RemovalFails(t) /\ Crash
  BY <1>0, <1>1, CrashServes DEF RemovalFails
<1>2. CASE ~(RemovalFails(t) /\ Crash)
  <2>1. \A u \in Tasks \ {t} : task'[u] = task[u]
    BY <1>0, <1>2, ProceedTask
  <2>2. past[o].cut => past'[o].cut
    <3>1. CASE UNCHANGED past
      BY <3>1
    <3>2. CASE CreateOrderCommits(t)
      BY <1>0, <3>2 DEF CreateOrderCommits, TypeOK
    <3>3. CASE HistoryCommits(t)
      BY <1>0, <3>3 DEF HistoryCommits, TypeOK
    <3>4. CASE HistoryFails(t)
      BY <1>0, <3>4 DEF HistoryFails, TypeOK
    <3>5. CASE RemovalDone(t)
      BY <1>0, <3>5, RemovalPast
    <3> QED
      BY <1>0, <1>2, <3>1, <3>2, <3>3, <3>4, <3>5
      DEF Proceed, LookupFails, LookupMismatch, LookupDone, RejectOrder, AbandonOrder, CacheOrder,
          SendOrder, AcceptFails, AcceptDone, DeleteOrderCommits, RemovalFails, FinishDone
  <2>3. /\ told[o] \subseteq told'[o]
        /\ \A s \in States : Tell(task[t].order, s) /\ task[t].order = o => told'[o] # {}
    <3>1. UNCHANGED told \/ \E s \in States : Tell(task[t].order, s)
      BY <1>0 DEF Proceed, LookupFails, LookupMismatch, LookupDone, RejectOrder, AbandonOrder,
          CacheOrder, SendOrder, CreateOrderCommits, AcceptFails, AcceptDone, DeleteOrderCommits,
          RemovalFails, RemovalDone, HistoryCommits, HistoryFails, FinishDone, States
    <3>2. told' = told \/ \E q, s : told' = [told EXCEPT ![q] = @ \cup {s}]
      BY <3>1 DEF Tell
    <3>3. told[o] \subseteq told'[o]
      BY <1>0, <3>2 DEF TypeOK
    <3>4. ASSUME NEW s \in States, Tell(task[t].order, s), task[t].order = o
          PROVE  told'[o] # {}
      BY <1>0, <3>4, TellMore
    <3> QED
      BY <3>3, <3>4
  <2>4. Waits(t, o) => Waits(t, o)' \/ told'[o] # {}
    <3> SUFFICES ASSUME Waits(t, o) PROVE Waits(t, o)' \/ told'[o] # {}
      OBVIOUS
    <3>1. CASE At(t, "store")
      <4>1. CacheOrder(t) \/ AbandonOrder(t)
        BY <3>1 DEF Waits, ToBeCached, DeskProceeds
      <4>2. CASE CacheOrder(t)
        <5>1. Working(t) /\ Goto(t, "cached")
          BY <3>1, <4>2 DEF CacheOrder, At, Working, Idle
        <5>2. task'[t].at = "cached" /\ task'[t].order = task[t].order
          BY <5>1, GotoTask DEF Points
        <5> QED
          BY <5>2 DEF Waits
      <4>3. CASE AbandonOrder(t)
        BY <2>3, <4>3 DEF AbandonOrder, Waits, States
      <4> QED
        BY <4>1, <4>2, <4>3
    <3>2. CASE At(t, "cached")
      <4>1. SendOrder(t) \/ AbandonOrder(t)
        BY <1>0, <3>2 DEF At, Proceed, LookupFails, LookupMismatch, LookupDone, RejectOrder,
            CacheOrder, CreateOrderCommits, AcceptFails, AcceptDone, DeleteOrderCommits,
            RemovalFails, RemovalDone, HistoryCommits, HistoryFails, FinishDone
      <4>2. Tell(task[t].order, "wait") \/ Tell(task[t].order, "refuse")
        BY <4>1 DEF SendOrder, AbandonOrder
      <4> QED
        BY <2>3, <4>2 DEF Waits, States
    <3> QED
      BY <3>1, <3>2 DEF Waits, At
  <2>5. \A u \in Tasks : Waits(u, o) => Waits(u, o)' \/ told'[o] # {}
    BY <2>1, <2>4 DEF Waits
  <2> QED
    BY <1>0, <2>2, <2>3, <2>5, ServedKept
<1> QED
  BY <1>1, <1>2

LEMMA DeskServes ==
  ASSUME TypeOK, AtDesk, NEW o \in CouponOrders, Served(o)
  PROVE  Served(o)'
<1>0. o \in Orders
  OBVIOUS
<1>1. ASSUME NEW t \in Tasks, NEW p \in Orders, DeskBegins(t, p) PROVE Served(o)'
  <2>1. Begin(t, p)
    BY <1>1 DEF DeskBegins, Begin
  <2>2. /\ \A u \in Tasks \ {t} : task'[u] = task[u]
        /\ task[t] = Idle
        /\ UNCHANGED <<past, told>>
    BY <2>1, StartTask
    DEF Begin, WebhookArrives, AcceptOrder, RefuseOrder, FinishOrder, Start, Working
  <2>3. \A u \in Tasks : Waits(u, o) => Waits(u, o)'
    BY <2>2 DEF Waits, Idle
  <2> QED
    BY <1>0, <2>2, <2>3, ServedKept
<1>2. CASE Kill \/ StartupFails \/ RejectionUnhandled
  BY <1>0, <1>2, CrashServes DEF Kill, StartupFails, RejectionUnhandled
<1>3. CASE Restart
  BY <1>3 DEF Restart, Served, Waits
<1>4. CASE StartupDeletes
  <2>1. UNCHANGED <<told, task>> /\ past'[o].cut = past[o].cut
    BY <1>0, <1>4 DEF StartupDeletes, TypeOK
  <2> QED
    BY <2>1 DEF Served, Waits
<1> QED
  BY <1>1, <1>2, <1>3, <1>4, ProceedServes DEF AtDesk, Process

LEMMA SpendServes ==
  ASSUME TypeOK, CouponCalls, OneRequestPerSlot, SpentIsServed,
         NEW t \in Tasks, NEW p \in CouponOrders, SpendCoupon(t, p)
  PROVE  SpentIsServed'
<1>1. /\ task[t] = Idle
      /\ \A u \in Tasks \ {t} : task'[u] = task[u]
      /\ task'[t] = [at |-> "store", order |-> p, sale |-> 1, why |-> "payment"]
      /\ UNCHANGED <<told, past>>
  BY SpendMoves
<1> SUFFICES ASSUME NEW o \in CouponOrders, bill'[o] # None PROVE Served(o)'
  BY DEF SpentIsServed
<1>2. CASE o = p
  <2>1. Waits(t, o)'
    BY <1>1, <1>2 DEF Waits
  <2> QED
    BY <2>1 DEF Served
<1>3. CASE o # p
  <2>1. bill[o] # None
    BY <1>3 DEF SpendCoupon
  <2>2. Served(o)
    BY <2>1 DEF SpentIsServed
  <2>3. \A u \in Tasks : Waits(u, o) => Waits(u, o)'
    BY <1>1 DEF Waits, Idle
  <2> QED
    BY <1>1, <2>2, <2>3, ServedKept
<1> QED
  BY <1>2, <1>3

LEMMA CounterStepServes ==
  ASSUME TypeOK, CouponCalls, OneRequestPerSlot, SpentIsServed, [CounterNext]_allVars
  PROVE  SpentIsServed'
<1>1. CASE AtDesk
  <2>1. UNCHANGED bill
    BY <1>1 DEF AtDesk
  <2> QED
    BY <1>1, <2>1, DeskServes DEF SpentIsServed
<1>2. ASSUME NEW t \in Tasks, AtTill(t)
      PROVE  \/ \E o \in CouponOrders : SpendCoupon(t, o)
             \/ RefusalFails(t) /\ UNCHANGED bill
             \/ UNCHANGED <<bill, task, told, past>>
  BY <1>2 DEF AtTill, UseCoupon, CouponOrderFails, StoreIsOpen, CouponIsValid, GiftPaid,
              GiftFails, RejectGift, RefusalFails, WrapGift, AnnounceGift, PublishGiftCoupon,
              counterVars, deskVars
<1>3. (\E c \in Codes : WithdrawCoupon(c)) \/ UNCHANGED allVars
        => UNCHANGED <<bill, task, told, past>>
  BY DEF WithdrawCoupon, allVars, counterVars, deskVars
<1>4. CASE UNCHANGED <<bill, task, told, past>>
  BY <1>4 DEF SpentIsServed, Served, Waits
<1>5. ASSUME NEW t \in Tasks, RefusalFails(t), UNCHANGED bill PROVE SpentIsServed'
  BY <1>5, CrashServes DEF RefusalFails, SpentIsServed
<1> QED
  BY <1>1, <1>2, <1>3, <1>4, <1>5, SpendServes DEF CounterNext

\* Nobody's coupon vanishes without a word: when a coupon was spent and its
\* order is not in flight any more, the buyer was told to wait or that the order
\* is refused, unless a crash cut it short.
THEOREM SpentCouponsAreAnswered == CounterSpec => []SpentCouponIsAnswered
<1>1. CounterInit => SpentIsServed
  BY DEF CounterInit, SpentIsServed
<1>2. CounterInductive /\ DeskInductive /\ SpentIsServed /\ [CounterNext]_allVars
        => SpentIsServed'
  BY CounterStepServes DEF CounterInductive, CounterTypeOK, DeskInductive
<1>3. SpentIsServed => SpentCouponIsAnswered
  BY DEF SpentIsServed, Served, Waits, SpentCouponIsAnswered, InFlight, Working, Idle
<1> QED
  BY <1>1, <1>2, <1>3, DeskIsInductive, PTL DEF CounterSpec

-----------------------------------------------------------------------------
(* Gifts that were paid for.                                                *)

\* A gift in the making has a coupon that was drawn for it alone: no other
\* webhook has it and, until its row is there, no gift.
Making(t) == till[t].at \in {"wrap", "wrapped"}

OneCouponEach ==
    /\ \A t \in Tasks : Making(t) => till[t].code \in drawn
    /\ \A t, u \in Tasks : Making(t) /\ Making(u) /\ till[t].code = till[u].code => t = u
    /\ \A t \in Tasks : TillAt(t, "wrap") => \A x \in gifts : x[2] # till[t].code
    /\ \A t \in Tasks : TillAt(t, "wrapped") => <<till[t].gift, till[t].code>> \in gifts
    /\ \A x \in gifts : x[2] \in drawn
    /\ \A x, y \in gifts : x[2] = y[2] => x = y
    /\ announced \subseteq gifts

\* A webhook that may still wrap a gift was reported on its own account.
Pending(g) == {t \in Tasks : till[t].at \in {"lookup", "wrap"} /\ till[t].gift = g}
Wrapped(g) == {c \in Codes : <<g, c>> \in gifts}

PaidFor(g) ==
    /\ IsFiniteSet(Pending(g)) /\ IsFiniteSet(Wrapped(g))
    /\ Cardinality(Wrapped(g)) + Cardinality(Pending(g)) <= reported[g]

GiftSide == OneCouponEach /\ \A g \in Gifts : PaidFor(g)

\* What happens apart from gifts, and requests about gifts that end.
NothingWrapped ==
    /\ UNCHANGED <<gifts, announced, drawn, reported>>
    /\ \A t \in Tasks : till'[t] = till[t] \/ till'[t].at \notin {"lookup", "wrap", "wrapped"}

LEMMA CouponsKept ==
  ASSUME OneCouponEach, NothingWrapped
  PROVE  OneCouponEach'
<1>1. \A t \in Tasks : Making(t)' => Making(t) /\ till'[t] = till[t]
  BY DEF NothingWrapped, Making
<1>2. \A t \in Tasks : /\ TillAt(t, "wrap")' => TillAt(t, "wrap") /\ till'[t] = till[t]
                       /\ TillAt(t, "wrapped")' => TillAt(t, "wrapped") /\ till'[t] = till[t]
  BY DEF NothingWrapped, TillAt
<1> QED
  BY <1>1, <1>2 DEF OneCouponEach, NothingWrapped

\* The account of a payment for which no row, no report and no webhook is new.
LEMMA FewerPending ==
  ASSUME CounterTypeOK, NEW g \in Gifts, PaidFor(g), Pending(g)' \subseteq Pending(g),
         Wrapped(g)' = Wrapped(g), reported'[g] = reported[g]
  PROVE  PaidFor(g)'
<1>1. /\ IsFiniteSet(Pending(g)') /\ Cardinality(Pending(g)') <= Cardinality(Pending(g))
      /\ Cardinality(Pending(g)') \in Nat /\ Cardinality(Pending(g)) \in Nat
  BY FS_Subset, FS_CardinalityType DEF PaidFor
<1>2. Cardinality(Wrapped(g)) \in Nat /\ reported[g] \in Nat
  BY FS_CardinalityType DEF PaidFor, CounterTypeOK
<1> QED
  BY <1>1, <1>2 DEF PaidFor

LEMMA GiftsKept ==
  ASSUME CounterTypeOK, GiftSide, NothingWrapped
  PROVE  GiftSide'
<1>1. \A g \in Gifts : /\ Pending(g)' \subseteq Pending(g)
                       /\ Wrapped(g)' = Wrapped(g)
                       /\ reported'[g] = reported[g]
  BY DEF NothingWrapped, Pending, Wrapped
<1> QED
  BY <1>1, CouponsKept, FewerPending DEF GiftSide

\* A webhook takes a slot: one report more, one webhook more.
LEMMA PaidCounts ==
  ASSUME CounterTypeOK, GiftSide, NEW t \in Tasks, NEW h \in Gifts, GiftPaid(t, h)
  PROVE  GiftSide'
<1>1. /\ till[t] = Idle /\ till'[t] = [at |-> "lookup", gift |-> h]
      /\ \A u \in Tasks \ {t} : till'[u] = till[u]
      /\ UNCHANGED <<gifts, announced, drawn>>
  BY DEF GiftPaid, Take, PutTill, CounterTypeOK
<1>2. OneCouponEach'
  <2>1. \A u \in Tasks : Making(u)' => Making(u) /\ till'[u] = till[u]
    BY <1>1 DEF Making
  <2>2. \A u \in Tasks : /\ TillAt(u, "wrap")' => TillAt(u, "wrap") /\ till'[u] = till[u]
                         /\ TillAt(u, "wrapped")' => TillAt(u, "wrapped") /\ till'[u] = till[u]
    BY <1>1 DEF TillAt
  <2> QED
    BY <1>1, <2>1, <2>2 DEF OneCouponEach, GiftSide
<1>3. ASSUME NEW g \in Gifts PROVE PaidFor(g)'
  <2>1. PaidFor(g) /\ Wrapped(g)' = Wrapped(g)
    BY <1>1 DEF GiftSide, Wrapped
  <2>2. CASE g = h
    <3>1. Pending(g)' = Pending(g) \cup {t} /\ t \notin Pending(g)
      BY <1>1, <2>2 DEF Pending, Idle
    <3>2. reported'[g] = reported[g] + 1 /\ reported[g] \in Nat
      BY <2>2 DEF GiftPaid, CounterTypeOK
    <3>3. IsFiniteSet(Pending(g)') /\ Cardinality(Pending(g)') = Cardinality(Pending(g)) + 1
      BY <2>1, <3>1, FS_AddElement DEF PaidFor
    <3>4. Cardinality(Pending(g)) \in Nat /\ Cardinality(Wrapped(g)) \in Nat
      BY <2>1, FS_CardinalityType DEF PaidFor
    <3> QED
      BY <2>1, <3>2, <3>3, <3>4 DEF PaidFor
  <2>3. CASE g # h
    <3>1. Pending(g)' \subseteq Pending(g)
      BY <1>1, <2>3 DEF Pending
    <3>2. reported'[g] = reported[g]
      BY <2>3 DEF GiftPaid, CounterTypeOK
    <3> QED
      BY <2>1, <3>1, <3>2, FewerPending
  <2> QED
    BY <2>2, <2>3
<1> QED
  BY <1>2, <1>3 DEF GiftSide

\* A coupon is published for a gift: it was never drawn before.
LEMMA PublishKeepsGifts ==
  ASSUME CounterTypeOK, GiftSide, NEW t \in Tasks, NEW c \in Codes, PublishGiftCoupon(t, c)
  PROVE  GiftSide'
<1>1. /\ till[t].at = "lookup" /\ c \notin drawn
      /\ till'[t] = [at |-> "wrap", gift |-> till[t].gift, code |-> c]
      /\ \A u \in Tasks \ {t} : till'[u] = till[u]
      /\ drawn' = drawn \cup {c}
      /\ UNCHANGED <<gifts, announced, reported>>
  BY DEF PublishGiftCoupon, TillAt, PutTill, CounterTypeOK, giftVars
<1>2. OneCouponEach'
  <2> USE DEF OneCouponEach, GiftSide
  <2>1. \A u \in Tasks : Making(u)' => \/ u = t /\ till'[u].code = c
                                       \/ u # t /\ Making(u) /\ till'[u] = till[u]
    BY <1>1 DEF Making
  <2>2. \A u \in Tasks : Making(u)' => till'[u].code \in drawn'
    BY <1>1, <2>1
  <2>3. \A u, v \in Tasks : Making(u)' /\ Making(v)' /\ till'[u].code = till'[v].code => u = v
    BY <1>1, <2>1
  <2>4. ASSUME NEW u \in Tasks, TillAt(u, "wrap")', NEW x \in gifts'
        PROVE  x[2] # till'[u].code
    BY <1>1, <2>4 DEF TillAt
  <2>5. ASSUME NEW u \in Tasks, TillAt(u, "wrapped")'
        PROVE  <<till'[u].gift, till'[u].code>> \in gifts'
    BY <1>1, <2>5 DEF TillAt
  <2> QED
    BY <1>1, <2>2, <2>3, <2>4, <2>5
<1>3. \A g \in Gifts : /\ Pending(g)' \subseteq Pending(g)
                       /\ Wrapped(g)' = Wrapped(g)
                       /\ reported'[g] = reported[g]
  BY <1>1 DEF Pending, Wrapped
<1> QED
  BY <1>2, <1>3, FewerPending DEF GiftSide

\* The gift's row is there: one row more, one webhook less that may wrap.
LEMMA WrapCounts ==
  ASSUME CounterTypeOK, GiftSide, NEW t \in Tasks, WrapGift(t)
  PROVE  GiftSide'
<1> DEFINE h == till[t].gift
           c == till[t].code
<1>0. till[t] \in [at: {"wrap", "wrapped"}, gift: Gifts, code: Codes]
  BY TillFacts DEF WrapGift, CounterTypeOK, TillType
<1>1. /\ till[t].at = "wrap" /\ h \in Gifts /\ c \in Codes
      /\ till'[t].at = "wrapped" /\ till'[t].gift = h /\ till'[t].code = c
      /\ \A u \in Tasks \ {t} : till'[u] = till[u]
      /\ gifts' = gifts \cup {<<h, c>>}
      /\ UNCHANGED <<announced, drawn, reported>>
  BY <1>0 DEF WrapGift, TillAt, PutTill, CounterTypeOK
<1>2. /\ Making(t) /\ c \in drawn
      /\ \A x \in gifts : x[2] # c
      /\ \A u \in Tasks \ {t} : Making(u) => till[u].code # c
  BY <1>1 DEF GiftSide, OneCouponEach, Making, TillAt
<1>3. OneCouponEach'
  <2> HIDE DEF h, c
  <2> USE DEF OneCouponEach, GiftSide
  <2>1. \A u \in Tasks : Making(u)' => Making(u) /\ till'[u].code = till[u].code
    BY <1>1, <1>2 DEF Making, c
  <2>2. ASSUME NEW u \in Tasks, TillAt(u, "wrap")', NEW x \in gifts'
        PROVE  x[2] # till'[u].code
    <3>1. u # t /\ till'[u] = till[u] /\ Making(u) /\ TillAt(u, "wrap")
      BY <1>1, <2>2 DEF TillAt, Making
    <3>2. till[u].code # c
      BY <1>2, <3>1
    <3>3. x \in gifts \/ x[2] = c
      BY <1>1, <2>2
    <3> QED
      BY <3>1, <3>2, <3>3
  <2>3. ASSUME NEW u \in Tasks, TillAt(u, "wrapped")'
        PROVE  <<till'[u].gift, till'[u].code>> \in gifts'
    BY <1>1, <2>3 DEF TillAt
  <2>4. \A x \in gifts' : x[2] \in drawn'
    BY <1>1, <1>2
  <2>5. ASSUME NEW x \in gifts', NEW y \in gifts', x[2] = y[2] PROVE x = y
    <3>1. x \in gifts \/ x = <<h, c>>
      BY <1>1
    <3>2. y \in gifts \/ y = <<h, c>>
      BY <1>1
    <3>3. <<h, c>>[2] = c
      OBVIOUS
    <3> QED
      BY <1>2, <2>5, <3>1, <3>2, <3>3
  <2> QED
    BY <1>1, <2>1, <2>2, <2>3, <2>4, <2>5
<1>4. ASSUME NEW g \in Gifts PROVE PaidFor(g)'
  <2>1. PaidFor(g) /\ reported'[g] = reported[g] /\ reported[g] \in Nat
    BY <1>1 DEF GiftSide, CounterTypeOK
  <2>2. CASE g = h
    <3>1. Pending(g)' = Pending(g) \ {t} /\ t \in Pending(g)
      BY <1>1, <2>2 DEF Pending
    <3>2. Wrapped(g)' = Wrapped(g) \cup {c} /\ c \notin Wrapped(g)
      BY <1>1, <1>2, <2>2 DEF Wrapped
    <3>3. IsFiniteSet(Pending(g)') /\ Cardinality(Pending(g)') = Cardinality(Pending(g)) - 1
      BY <2>1, <3>1, FS_RemoveElement DEF PaidFor
    <3>4. IsFiniteSet(Wrapped(g)') /\ Cardinality(Wrapped(g)') = Cardinality(Wrapped(g)) + 1
      BY <2>1, <3>2, FS_AddElement DEF PaidFor
    <3>5. Cardinality(Pending(g)) \in Nat /\ Cardinality(Wrapped(g)) \in Nat
      BY <2>1, FS_CardinalityType DEF PaidFor
    <3> QED
      BY <2>1, <3>3, <3>4, <3>5 DEF PaidFor
  <2>3. CASE g # h
    <3>1. Pending(g)' \subseteq Pending(g)
      BY <1>1, <2>3 DEF Pending
    <3>2. Wrapped(g)' = Wrapped(g)
      BY <1>1, <2>3 DEF Wrapped
    <3> QED
      BY <2>1, <3>1, <3>2, FewerPending
  <2> QED
    BY <2>2, <2>3
<1> QED
  BY <1>3, <1>4 DEF GiftSide

LEMMA AnnounceKeepsGifts ==
  ASSUME CounterTypeOK, GiftSide, NEW t \in Tasks, AnnounceGift(t)
  PROVE  GiftSide'
<1>1. /\ till[t].at = "wrapped" /\ till'[t] = Idle
      /\ \A u \in Tasks \ {t} : till'[u] = till[u]
      /\ announced' = announced \cup {<<till[t].gift, till[t].code>>}
      /\ UNCHANGED <<gifts, drawn, reported>>
  BY DEF AnnounceGift, Leave, PutTill, TillAt, CounterTypeOK
<1>2. OneCouponEach'
  <2> USE DEF OneCouponEach, GiftSide
  <2>1. announced' \subseteq gifts'
    BY <1>1 DEF TillAt
  <2>2. \A u \in Tasks : Making(u)' => Making(u) /\ till'[u] = till[u]
    BY <1>1 DEF Making, Idle
  <2>3. \A u \in Tasks : /\ TillAt(u, "wrap")' => TillAt(u, "wrap") /\ till'[u] = till[u]
                         /\ TillAt(u, "wrapped")' => TillAt(u, "wrapped") /\ till'[u] = till[u]
    BY <1>1 DEF TillAt, Idle
  <2> QED
    BY <1>1, <2>1, <2>2, <2>3
<1>3. \A g \in Gifts : /\ Pending(g)' \subseteq Pending(g)
                       /\ Wrapped(g)' = Wrapped(g)
                       /\ reported'[g] = reported[g]
  BY <1>1 DEF Pending, Wrapped, Idle
<1> QED
  BY <1>2, <1>3, FewerPending DEF GiftSide

LEMMA CounterStepGifts ==
  ASSUME CounterTypeOK, GiftSide, [CounterNext]_allVars
  PROVE  GiftSide'
<1>1. AtDesk => NothingWrapped
  BY DEF AtDesk, NothingWrapped, Idle
<1>2. ASSUME NEW t \in Tasks, AtTill(t)
      PROVE  \/ \E g \in Gifts : GiftPaid(t, g)
             \/ \E c \in Codes : PublishGiftCoupon(t, c)
             \/ WrapGift(t) \/ AnnounceGift(t)
             \/ NothingWrapped
  <2>1. CASE RefusalFails(t)
    BY <2>1 DEF RefusalFails, NothingWrapped, Idle
  <2>2. ASSUME NEW r, PutTill(t, r), r.at \notin {"lookup", "wrap", "wrapped"},
               UNCHANGED <<gifts, announced, drawn, reported>>
        PROVE  NothingWrapped
    BY <2>2 DEF PutTill, NothingWrapped, CounterTypeOK
  <2>3. CASE \E c \in Codes : UseCoupon(t, c)
    BY <2>2, <2>3 DEF UseCoupon, Take, giftVars
  <2>4. CASE CouponOrderFails(t) \/ GiftFails(t) \/ \E o \in CouponOrders : SpendCoupon(t, o)
    BY <2>2, <2>4 DEF CouponOrderFails, GiftFails, SpendCoupon, Leave, Idle, counterVars, giftVars
  <2>5. CASE StoreIsOpen(t) \/ CouponIsValid(t)
    <3>1. till[t] \in [at: {"store", "validate", "spend"}, code: Codes]
      BY <2>5, TillFacts DEF StoreIsOpen, CouponIsValid, CounterTypeOK, TillType
    <3>2. \A p \in {"validate", "spend"} : [till[t] EXCEPT !.at = p].at = p
      BY <3>1
    <3>3. UNCHANGED <<gifts, announced, drawn, reported>>
      BY <2>5 DEF StoreIsOpen, CouponIsValid, counterVars, giftVars
    <3> QED
      BY <2>2, <2>5, <3>2, <3>3 DEF StoreIsOpen, CouponIsValid
  <2>6. CASE RejectGift(t)
    BY <2>2, <2>6 DEF RejectGift, counterVars, giftVars
  <2> QED
    BY <1>2, <2>1, <2>3, <2>4, <2>5, <2>6 DEF AtTill
<1>3. (\E c \in Codes : WithdrawCoupon(c)) \/ UNCHANGED allVars => NothingWrapped
  BY DEF WithdrawCoupon, allVars, counterVars, giftVars, NothingWrapped
<1> QED
  BY <1>1, <1>2, <1>3, GiftsKept, PaidCounts, PublishKeepsGifts, WrapCounts, AnnounceKeepsGifts
  DEF CounterNext

LEMMA InitGifts == CounterInit => GiftSide
<1> SUFFICES ASSUME CounterInit PROVE GiftSide
  OBVIOUS
<1>1. OneCouponEach
  BY DEF CounterInit, OneCouponEach, Making, TillAt, Idle
<1>2. ASSUME NEW g \in Gifts PROVE PaidFor(g)
  <2>1. Pending(g) = {} /\ Wrapped(g) = {} /\ reported[g] = 0
    BY DEF CounterInit, Pending, Wrapped, Idle
  <2> QED
    BY <2>1, FS_EmptySet DEF PaidFor
<1> QED
  BY <1>1, <1>2 DEF GiftSide

\* A payment reported once is one gift, and a repeated webhook wraps at most
\* another one, around a coupon of its own; the receiver hears of no gift that is
\* not there.
THEOREM GiftsAreWorthTheirPayments == CounterSpec => []GiftsArePaidFor
<1>1. CounterInductive /\ GiftSide /\ [CounterNext]_allVars => GiftSide'
  BY CounterStepGifts DEF CounterInductive
<1>2. CounterInductive /\ GiftSide => GiftsArePaidFor
  <2> SUFFICES ASSUME CounterTypeOK, GiftSide PROVE GiftsArePaidFor
    BY DEF CounterInductive
  <2>1. ASSUME NEW g \in Gifts PROVE Cardinality({c \in Codes : <<g, c>> \in gifts}) <= reported[g]
    <3>1. PaidFor(g) /\ reported[g] \in Nat
      BY DEF GiftSide, CounterTypeOK
    <3>2. Cardinality(Pending(g)) \in Nat /\ Cardinality(Wrapped(g)) \in Nat
      BY <3>1, FS_CardinalityType DEF PaidFor
    <3>3. Cardinality(Wrapped(g)) <= reported[g]
      BY <3>1, <3>2 DEF PaidFor
    <3> QED
      BY <3>3 DEF Wrapped
  <2> QED
    BY <2>1 DEF GiftsArePaidFor, GiftSide, OneCouponEach
<1> QED
  BY <1>1, <1>2, InitGifts, CounterIsInductive, PTL DEF CounterSpec
=============================================================================

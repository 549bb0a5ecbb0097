----------------------------- MODULE OrderReviews -----------------------------
(***************************************************************************)
(* The list of a user's orders with their receipts and reviews, and the    *)
(* dialog that reviews an order, just settled or of the list.  The list    *)
(* asks for the review of one completed order after the other, each with   *)
(* a timer.                                                                *)
(***************************************************************************)
EXTENDS FacadeLink, FiniteSets

CONSTANT MaxOrders   \* the user's completed orders are 1..MaxOrders

ASSUME OrdersAssumption == MaxOrders \in Nat \ {0}

VARIABLES
  reviewed,   \* the orders that have a row in charging_review
  history,    \* OrderHistoryDialog
  review      \* ReviewDialog, over the list or the dialog of a settled order

orderWindows == <<reviewed, history, review>>

Orders == 1..MaxOrders
ReviewRoutes == {"order.list", "order.detail", "review.get", "review.submit"}

\* state of the list, the receipt waited for, its timer, the last receipt;
\* and for the reviews: label and queue, the order asked about and its timer
NoHistory ==
  [list |-> "closed", detail |-> 0, timer |-> FALSE, receipt |-> 0,
   label |-> [o \in Orders |-> "none"], queue |-> <<>>, asked |-> 0, askTimer |-> FALSE]

NoReview == [order |-> 0, submitting |-> FALSE, timer |-> FALSE, accepted |-> FALSE]

-----------------------------------------------------------------------------
(* The server.                                                             *)

\* an order is reviewed once; the database may fail
SubmitReview(o, ok) ==
  /\ ok => o \notin reviewed
  /\ reviewed' = IF ok THEN reviewed \cup {o} ELSE reviewed

ServeOrders(ok) ==
  LET c == Head(calls)
  IN  /\ Executes(ok, IF c.route = "review.get" /\ c.arg \notin reviewed THEN 0 ELSE c.arg)
      /\ IF c.route = "review.submit" THEN SubmitReview(c.arg, ok) ELSE UNCHANGED reviewed
      /\ UNCHANGED <<history, review>>

-----------------------------------------------------------------------------
(* The handlers.                                                           *)

\* requests whose success UserClientFacade::handle completes without a signal
Unannounced == {"review.get", "review.submit"}

\* requestNextReview
NextAsked(h) ==
  IF h.queue = <<>> THEN [h EXCEPT !.asked = 0, !.askTimer = FALSE]
  ELSE [h EXCEPT !.asked = Head(h.queue), !.queue = Tail(h.queue), !.askTimer = TRUE]

\* a review could not be read: the next is asked for
AskFailed(h) == NextAsked([h EXCEPT !.label[h.asked] = "failed", !.askTimer = FALSE])

\* updateReviewState for the order asked about, and requestNextReview
AskAnswered(h, has) ==
  NextAsked([h EXCEPT !.label[h.asked] = IF has THEN "reviewed" ELSE "open"])

\* every request of the queue fails while the one before it is handled
AllFailed(h) ==
  [h EXCEPT !.label = [o \in Orders |-> IF @[o] = "asking" THEN "failed" ELSE @[o]],
            !.queue = <<>>, !.asked = 0, !.askTimer = FALSE]

\* render: every completed order is queued
Rendered(h) ==
  NextAsked([h EXCEPT !.list = "shown", !.timer = FALSE, !.askTimer = FALSE,
                      !.label = [o \in Orders |-> "asking"],
                      !.queue = [i \in 1..MaxOrders |-> i]])

\* requestFailed of the list or of a receipt
ReadFailed(h) ==
  [h EXCEPT !.timer = FALSE, !.detail = 0, !.list = IF @ = "loading" THEN "failed" ELSE @]

ReceiptShown(h, o) ==
  IF h.detail = o THEN [h EXCEPT !.detail = 0, !.timer = FALSE, !.receipt = o] ELSE h

SubmitFailed(r) == [r EXCEPT !.submitting = FALSE, !.timer = FALSE]

\* the answer arrives, and what the list then asks for is sent
ShownAndAsking(h) ==
  /\ history' = h
  /\ IF h.asked # 0 /\ connected THEN ArrivesThenSends("review.get", h.asked) ELSE Arrives

AnnounceOrders(a) ==
  CASE a.route \in Unannounced -> Arrives /\ UNCHANGED <<history, review>>
    [] a.route = "order.list" -> ShownAndAsking(Rendered(history)) /\ UNCHANGED review
    [] a.route = "order.detail" ->
         Arrives /\ history' = ReceiptShown(history, a.value) /\ UNCHANGED review
    [] a.route = "review.get" /\ a.route \notin Unannounced /\ history.asked # 0 ->
         ShownAndAsking(AskAnswered(history, a.value # 0)) /\ UNCHANGED review
    [] /\ a.route = "review.submit" /\ a.route \notin Unannounced
       /\ review.submitting /\ a.value = review.order ->
         /\ Arrives
         /\ review' = [review EXCEPT !.submitting = FALSE, !.timer = FALSE, !.accepted = TRUE]
         /\ history' = IF history.list = "shown"
                       THEN [history EXCEPT !.label[a.value] = "reviewed"] ELSE history
    [] OTHER -> Arrives /\ UNCHANGED <<history, review>>

FailOrders(a) ==
  CASE a.route \in {"order.list", "order.detail"} ->
         Arrives /\ history' = ReadFailed(history) /\ UNCHANGED review
    [] a.route = "review.get" /\ history.asked # 0 ->
         ShownAndAsking(AskFailed(history)) /\ UNCHANGED review
    [] OTHER -> /\ Arrives
                /\ review' = IF a.route = "review.submit" THEN SubmitFailed(review) ELSE review
                /\ UNCHANGED history

\* a closed window has no handlers
Hears(a) == IF a.route = "review.submit" THEN review.order # 0 ELSE history.list # "closed"

ReceiveOrders ==
  LET a == Head(answers)
  IN  /\ answers # <<>>
      /\ CASE ~a.live \/ ~Hears(a) -> Arrives /\ UNCHANGED <<history, review>>
           [] a.live /\ Hears(a) /\ a.ok -> AnnounceOrders(a)
           [] OTHER -> FailOrders(a)
      /\ UNCHANGED reviewed

\* the facade's timeout: the failure of a review sends the next request
ExpireOrders(r) ==
  /\ r \in waiting
  /\ CASE r = "review.get" /\ history.asked # 0 ->
            /\ history' = AskFailed(history)
            /\ IF history'.asked # 0 THEN Send(r, history'.asked) ELSE GivesUp(r)
            /\ UNCHANGED review
       [] r \in {"order.list", "order.detail"} /\ history.list # "closed" ->
            GivesUp(r) /\ history' = ReadFailed(history) /\ UNCHANGED review
       [] r = "review.submit" -> GivesUp(r) /\ review' = SubmitFailed(review) /\ UNCHANGED history
       [] OTHER -> GivesUp(r) /\ UNCHANGED <<history, review>>
  /\ UNCHANGED reviewed

\* networkError and the failure of all that waits
DisconnectOrders(n) ==
  /\ Breaks(n)
  /\ history' = IF history.list = "closed" THEN history ELSE ReadFailed(AllFailed(history))
  /\ review' = SubmitFailed(review)
  /\ UNCHANGED reviewed

-----------------------------------------------------------------------------
(* The windows.                                                            *)

OpenHistory ==
  /\ history.list = "closed" /\ review.order = 0
  /\ IF connected
     THEN Send("order.list", 0) /\ history' = [NoHistory EXCEPT !.list = "loading", !.timer = TRUE]
     ELSE UNCHANGED link /\ history' = [NoHistory EXCEPT !.list = "failed"]
  /\ UNCHANGED <<reviewed, review>>

\* the review dialog is modal
CloseHistory ==
  /\ history.list # "closed" /\ review.order = 0
  /\ history' = NoHistory
  /\ UNCHANGED <<link, reviewed, review>>

RequestDetail(o) ==
  /\ history.list = "shown" /\ history.detail = 0 /\ review.order = 0
  /\ IF connected
     THEN Send("order.detail", o) /\ history' = [history EXCEPT !.detail = o, !.timer = TRUE]
     ELSE UNCHANGED link /\ history' = ReadFailed(history)
  /\ UNCHANGED <<reviewed, review>>

HistoryTimer ==
  /\ history.timer
  /\ history' = ReadFailed(history)
  /\ UNCHANGED <<link, reviewed, review>>

\* reviewTimer_
AskTimer ==
  /\ history.askTimer
  /\ IF connected
     THEN /\ history' = AskFailed(history)
          /\ IF history'.asked # 0 THEN Send("review.get", history'.asked) ELSE UNCHANGED link
     ELSE history' = AllFailed(history) /\ UNCHANGED link
  /\ UNCHANGED <<reviewed, review>>

\* of the order just settled, or of one in the list that is known to have none
OpenReview(o) ==
  /\ history.list = "closed" \/ history.label[o] = "open"
  /\ review.order = 0
  /\ review' = [NoReview EXCEPT !.order = o]
  /\ UNCHANGED <<link, reviewed, history>>

SubmitClicked ==
  /\ review.order # 0 /\ ~review.submitting /\ ~review.accepted
  /\ IF connected
     THEN Send("review.submit", review.order) /\ review' = [review EXCEPT !.submitting = TRUE, !.timer = TRUE]
     ELSE UNCHANGED link /\ review' = [review EXCEPT !.timer = TRUE]
  /\ UNCHANGED <<reviewed, history>>

ReviewTimer ==
  /\ review.timer
  /\ review' = SubmitFailed(review)
  /\ UNCHANGED <<link, reviewed, history>>

\* also while it submits
CloseReview ==
  /\ review.order # 0
  /\ review' = NoReview
  /\ UNCHANGED <<link, reviewed, history>>

-----------------------------------------------------------------------------
InitOrders == reviewed = {} /\ history = NoHistory /\ review = NoReview

NextOrders ==
  \/ \E ok \in BOOLEAN : calls # <<>> /\ ServeOrders(ok)
  \/ ReceiveOrders
  \/ \E r \in ReviewRoutes : ExpireOrders(r)
  \/ connected /\ \E n \in 0..Len(calls) : DisconnectOrders(n)
  \/ OpenHistory \/ CloseHistory \/ HistoryTimer \/ AskTimer
  \/ \E o \in Orders : RequestDetail(o) \/ OpenReview(o)
  \/ SubmitClicked \/ ReviewTimer \/ CloseReview

reviewVars == <<link, orderWindows>>

\* server, connection and timers go on
ReviewSpec ==
  /\ InitOrders /\ waiting = {} /\ connected = TRUE /\ calls = <<>> /\ answers = <<>>
  /\ [][NextOrders]_reviewVars
  /\ WF_reviewVars(\E ok \in BOOLEAN : calls # <<>> /\ ServeOrders(ok))
  /\ WF_reviewVars(ReceiveOrders) /\ WF_reviewVars(ReviewTimer)

-----------------------------------------------------------------------------
(* Properties.                                                             *)

\* The list and the review dialog have a timer for whatever they wait for.
OrdersWatched ==
  /\ history.list = "loading" \/ history.detail # 0 => history.timer
  /\ history.asked # 0 => history.askTimer
  /\ \A o \in Orders : history.label[o] = "asking" =>
       history.asked = o \/ \E i \in DOMAIN history.queue : history.queue[i] = o
  /\ review.submitting => review.timer

\* A user who submits a review that the server stores is told so, if the
\* answer arrives while the dialog waits for it: every request has its
\* success, as docs/系统设计说明书.md:424 says of the windows.  The code violates
\* it: handle() has no branch for the route.
SubmittedReviewsAreConfirmed ==
  [][LET a == Head(answers)
     IN  ReceiveOrders /\ a.live /\ a.ok /\ a.route = "review.submit" /\ review.submitting
           /\ a.value = review.order => review'.accepted]_reviewVars
=============================================================================

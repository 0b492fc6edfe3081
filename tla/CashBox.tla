------------------------------ MODULE CashBox ------------------------------
(***************************************************************************)
(* The cash box of each day: CashBoxService of                             *)
(* backend/src/cash-box/cash-box.service.ts, and the expenses that are     *)
(* paid from the box (create of backend/src/expenses/expenses.service.ts). *)
(* Sales, which are paid into it, are in Sales.                            *)
(*                                                                         *)
(* Every handler that enters cash first finds a box that is open and then  *)
(* inserts; nothing locks the box in between.  closeDay likewise reads,    *)
(* sums up and updates.  Amounts do not matter here: calculatedBalance is  *)
(* a function of the transactions that were summed up, and counted is the  *)
(* set of these.                                                           *)
(*                                                                         *)
(* Requests that are refused change nothing and are left out.  A server    *)
(* that stops makes every request fail that is under way, which is what    *)
(* EntryFails and ClosingFails do to each of them.                         *)
(***************************************************************************)
EXTENDS Naturals, FiniteSets

CONSTANTS
  Day,          \* the dates a box is opened for, as numbers
  Entry,        \* requests that enter cash, by the id of their cash transaction
  Payment,      \* those of them that name the box themselves: addTransaction
  Closing,      \* requests to close a box
  NoDay, NoClosing

ASSUME DayAssumption == Day \subseteq Nat /\ NoDay \notin Day
ASSUME PaymentAssumption == Payment \subseteq Entry
ASSUME NoClosingAssumption == NoClosing \notin Closing

VARIABLES
  box,          \* box[d]: "none", "open" or "closed"
  entries,      \* entries[d]: the cash transactions of the box
  counted,      \* counted[d]: those that its calculatedBalance sums up
  closedBy,     \* closedBy[d]: the request whose closingBalance the box holds
  entering,     \* entering[e]: how far request e is
  found,        \* found[e]: the box that e has found to be open
  closing,      \* closing[k]: how far request k is
  target,       \* target[k]: the box that k closes
  summed,       \* summed[k]: the transactions k has summed up
  disturbed,    \* history: days with an entry under way while a closing held its sum
  contested     \* history: days with two closings under way at once

cashVars == <<box, entries, counted, closedBy, entering, found, closing, target,
              summed, disturbed, contested>>

CashTypeOK ==
  /\ box      \in [Day -> {"none", "open", "closed"}]
  /\ entries  \in [Day -> SUBSET Entry]
  /\ counted  \in [Day -> SUBSET Entry]
  /\ closedBy \in [Day -> Closing \cup {NoClosing}]
  /\ entering \in [Entry -> {"new", "found", "entered", "unbooked", "failed"}]
  /\ found    \in [Entry -> Day \cup {NoDay}]
  /\ closing  \in [Closing -> {"new", "checked", "calculated", "done", "failed"}]
  /\ target   \in [Closing -> Day \cup {NoDay}]
  /\ summed   \in [Closing -> SUBSET Entry]
  /\ disturbed \subseteq Day
  /\ contested \subseteq Day
  /\ \A e \in Entry : entering[e] = "found" => found[e] \in Day
  /\ \A k \in Closing : closing[k] \in {"checked", "calculated"} => target[k] \in Day

CashInit ==
  /\ box      = [d \in Day |-> "none"]
  /\ entries  = [d \in Day |-> {}]
  /\ counted  = [d \in Day |-> {}]
  /\ closedBy = [d \in Day |-> NoClosing]
  /\ entering = [e \in Entry |-> "new"]
  /\ found    = [e \in Entry |-> NoDay]
  /\ closing  = [k \in Closing |-> "new"]
  /\ target   = [k \in Closing |-> NoDay]
  /\ summed   = [k \in Closing |-> {}]
  /\ disturbed = {}
  /\ contested = {}

-----------------------------------------------------------------------------
(* Opening a day.                                                          *)

\* openDay.  The date is unique: of two requests that both find no box, one gets P2002.
OpenDay(d) ==
  /\ box[d] = "none"
  /\ box' = [box EXCEPT ![d] = "open"]
  /\ UNCHANGED <<entries, counted, closedBy, entering, found, closing, target, summed>>

-----------------------------------------------------------------------------
(* Entering cash.                                                          *)

OpenDays == {d \in Day : box[d] = "open"}

\* findFirst, isClosed: false, the latest date first: a set of one day or none.
LatestOpen == {d \in OpenDays : \A c \in OpenDays : c <= d}

Finds(e, d) ==
  /\ entering[e] = "new"
  /\ entering' = [entering EXCEPT ![e] = "found"]
  /\ found'    = [found EXCEPT ![e] = d]

\* A faulty variant of FindNamed: addTransaction does not look at isClosed.
FindAny(e, d) ==
  /\ e \in Payment
  /\ box[d] # "none"
  /\ Finds(e, d)
  /\ UNCHANGED <<box, entries, counted, closedBy, closing, target, summed>>

\* addTransaction's check of the box it is given.
FindNamed(e, d) ==
  /\ e \in Payment
  /\ box[d] = "open"
  /\ Finds(e, d)
  /\ UNCHANGED <<box, entries, counted, closedBy, closing, target, summed>>

\* The transaction of an expense, or of a sale, that is paid in cash.
FindLatest(e) ==
  /\ e \notin Payment
  /\ \E d \in LatestOpen : Finds(e, d)
  /\ UNCHANGED <<box, entries, counted, closedBy, closing, target, summed>>

\* A faulty variant of FindNone: the missing box is taken for one.
FindNoneUnnoticed(e) ==
  /\ e \notin Payment
  /\ LatestOpen = {}
  /\ Finds(e, NoDay)
  /\ UNCHANGED <<box, entries, counted, closedBy, closing, target, summed>>

\* It finds no open box and goes on without: the cash is entered nowhere.
FindNone(e) ==
  /\ e \notin Payment
  /\ LatestOpen = {}
  /\ entering[e] = "new"
  /\ entering' = [entering EXCEPT ![e] = "unbooked"]
  /\ UNCHANGED <<box, entries, counted, closedBy, found, closing, target, summed>>

\* cashTransaction.create, or the commit of the transaction it belongs to.
Enter(e) ==
  /\ entering[e] = "found"
  /\ entering' = [entering EXCEPT ![e] = "entered"]
  /\ entries'  = [entries EXCEPT ![found[e]] = @ \cup {e}]
  /\ UNCHANGED <<box, counted, closedBy, found, closing, target, summed>>

EntryFails(e) ==
  /\ entering[e] = "found"
  /\ entering' = [entering EXCEPT ![e] = "failed"]
  /\ UNCHANGED <<box, entries, counted, closedBy, found, closing, target, summed>>

-----------------------------------------------------------------------------
(* Closing a day.                                                          *)

\* A faulty variant of CheckOpen: a closed box can be closed again.
CheckOpened(k, d) ==
  /\ closing[k] = "new"
  /\ box[d] # "none"
  /\ closing' = [closing EXCEPT ![k] = "checked"]
  /\ target'  = [target EXCEPT ![k] = d]
  /\ UNCHANGED <<box, entries, counted, closedBy, entering, found, summed>>

\* closeDay's check.
CheckOpen(k, d) ==
  /\ closing[k] = "new"
  /\ box[d] = "open"
  /\ closing' = [closing EXCEPT ![k] = "checked"]
  /\ target'  = [target EXCEPT ![k] = d]
  /\ UNCHANGED <<box, entries, counted, closedBy, entering, found, summed>>

\* calculateBalance.
Calculate(k) ==
  /\ closing[k] = "checked"
  /\ closing' = [closing EXCEPT ![k] = "calculated"]
  /\ summed'  = [summed EXCEPT ![k] = entries[target[k]]]
  /\ UNCHANGED <<box, entries, counted, closedBy, entering, found, target>>

\* The update, whatever has become of the box since the check.
Close(k) ==
  /\ closing[k] = "calculated"
  /\ closing'  = [closing EXCEPT ![k] = "done"]
  /\ box'      = [box EXCEPT ![target[k]] = "closed"]
  /\ counted'  = [counted EXCEPT ![target[k]] = summed[k]]
  /\ closedBy' = [closedBy EXCEPT ![target[k]] = k]
  /\ UNCHANGED <<entries, entering, found, target, summed>>

ClosingFails(k) ==
  /\ closing[k] \in {"checked", "calculated"}
  /\ closing' = [closing EXCEPT ![k] = "failed"]
  /\ UNCHANGED <<box, entries, counted, closedBy, entering, found, target, summed>>

-----------------------------------------------------------------------------
(* The history of what overlapped.                                         *)

EntryUnderWay(d) == \E e \in Entry : entering[e] = "found" /\ found[e] = d

SumTaken(d) == \E k \in Closing : closing[k] = "calculated" /\ target[k] = d

At(k, d) == closing[k] \in {"checked", "calculated"} /\ target[k] = d

Watch ==
  /\ disturbed' = disturbed \cup {d \in Day : (EntryUnderWay(d) /\ SumTaken(d))'}
  /\ contested' = contested \cup
       {d \in Day : (\E k, m \in Closing : k # m /\ At(k, d) /\ At(m, d))'}

EntryStep(e) ==
  \/ \E d \in Day : FindNamed(e, d)
  \/ FindLatest(e)
  \/ FindNone(e)
  \/ Enter(e)
  \/ EntryFails(e)

ClosingStep(k) ==
  \/ \E d \in Day : CheckOpen(k, d)
  \/ Calculate(k)
  \/ Close(k)
  \/ ClosingFails(k)

\* What happens to the boxes when the requests that enter cash are those of E.
CashStep(E) ==
  \/ \E d \in Day : OpenDay(d)
  \/ \E e \in E : EntryStep(e)
  \/ \E k \in Closing : ClosingStep(k)

CashNext == CashStep(Entry) /\ Watch

CashSpec == CashInit /\ [][CashNext]_cashVars

-----------------------------------------------------------------------------
(* What a closed day promises.                                             *)

\* The balance calculated at the closing is the balance of every cash transaction the
\* box will ever have, unless some entry had found the box open, and was not in it yet,
\* while a closing held its sum (cash-box.service.ts lines 39-45 and 63-80).
ClosingIsComplete ==
  \A d \in Day : box[d] = "closed" /\ d \notin disturbed => counted[d] = entries[d]

\* The amounts stored by the closing of a day are not replaced by those of another
\* closing, unless the two overlapped (lines 63-80).
ClosingIsFinal ==
  [][\A d \in Day : box[d] = "closed" /\ d \notin contested =>
       closedBy'[d] = closedBy[d]]_cashVars

\* Why: the inductive invariant of the proofs.  As long as no entry overlaps a closing, the
\* sum a closing holds is the whole of the box, and nothing is on its way to a closed box.
Undisturbed(d) ==
  /\ ~(EntryUnderWay(d) /\ SumTaken(d))
  /\ \A k \in Closing :
       closing[k] = "calculated" /\ target[k] = d => summed[k] = entries[d]
  /\ box[d] = "closed" => counted[d] = entries[d] /\ ~EntryUnderWay(d)

\* As long as no two closings overlap, nothing is about to update a closed box.
Uncontested(d) ==
  /\ \A k, m \in Closing : At(k, d) /\ At(m, d) => k = m
  /\ box[d] = "closed" => \A k \in Closing : ~At(k, d)

CashInv ==
  /\ CashTypeOK
  /\ \A d \in Day \ disturbed : Undisturbed(d)
  /\ \A d \in Day \ contested : Uncontested(d)
=============================================================================

----------------------------- MODULE WorkOrders -----------------------------
(***************************************************************************)
(* What the office does with a job: customers and jobs (app/jobs), quotes  *)
(* (app/quotes), estimates and their prices (app/estimates, app/pricing).  *)
(* One company with its price settings, one job, one estimate.             *)
(*                                                                         *)
(* A request reads rows without a lock, checks them, and writes and        *)
(* commits in one transaction later (get_db, READ COMMITTED).  SQLAlchemy  *)
(* writes the columns whose value differs from what was READ; a row that   *)
(* is gone by then makes an UPDATE fail (StaleDataError) and a DELETE do   *)
(* nothing.                                                                *)
(***************************************************************************)
EXTENDS Integers, FiniteSets, FiniteSetsExt

CONSTANTS
    Requests,    \* requests that are served at the same time
    Customers,
    JobStatus,   \* pending, completed and others
    Quotes,      \* quotes of the job that may be generated
    Versions,    \* lists of line items, and the amounts of each, a client may send
    Columns,     \* columns of the company's pricing brain
    Values       \* values a client may send for a column

ASSUME StatusAssumption == {"pending", "completed"} \subseteq JobStatus

(* The default of a column.                                                *)
Default == "default"

VARIABLES
    customers,   \* rows of customers
    job,         \* the row of the job
    audit,       \* job_audit_logs: the new status of each entry
    output,      \* the AI output of the job: none, weak or good
    quotes,      \* status of each quote
    est,         \* the row of the estimate and its line items
    brain,       \* the row of company_pricing_brains
    req          \* what each request has read

officeVars == <<customers, job, audit, output, quotes, est, brain, req>>

Office == <<customers, job, audit>>
Free   == "free"

(* ai: whether ai_processing_state is queued, reserved or processing.      *)

NoJob == [at |-> "none", customer |-> Free, status |-> "pending", ai |-> "inactive"]

EstimateStatus ==
    {"ai_pending", "draft", "in_review", "approved", "sent", "accepted", "rejected"}

(* items: the lists whose line items are in the table.  amounts: subtotal, *)
(* tax and total, named by the list they were computed from.               *)
NoEstimate == [at |-> "none", status |-> "draft", items |-> {}, amounts |-> "none"]

NoBrain == [at |-> "none", column |-> [c \in Columns |-> Default]]

(* Estimates are kept from the time when amounts were floats, in any       *)
(* status, with amounts that belong to their items.                        *)
OfficeInit ==
    /\ customers = Customers
    /\ job = NoJob /\ audit = {} /\ output = "none"
    /\ quotes = [q \in Quotes |-> "none"]
    /\ est \in {NoEstimate} \cup
               [at : {"live"}, status : EstimateStatus, items : {{"old"}}, amounts : {"old"}]
    /\ brain = NoBrain
    /\ req = [r \in Requests |-> [op |-> Free]]

Idle(r)       == req[r].op = Free
Doing(r, op)  == req[r].op = op
Begin(r, x)   == req' = [req EXCEPT ![r] = x]
End(r)        == req' = [req EXCEPT ![r] = [op |-> Free]]

-----------------------------------------------------------------------------
(* Customers and jobs                                                      *)

(* The foreign key refuses a customer that is gone.                        *)
CreateJob(r, c) ==
    /\ Idle(r) /\ job.at = "none" /\ c \in customers
    /\ job' = [NoJob EXCEPT !.at = "live", !.customer = c]
    /\ UNCHANGED <<customers, audit, output, quotes, est, brain, req>>

CreateCustomer(r, c) ==
    /\ Idle(r) /\ c \notin customers
    /\ customers' = customers \cup {c}
    /\ UNCHANGED <<job, audit, output, quotes, est, brain, req>>

(* Whether the job may be completed is decided by what is read here.       *)
ReadForUpdate(r, s, c) ==
    /\ Idle(r) /\ job.at = "live"
    /\ ~ (s = "completed" /\ job.ai = "active")
    /\ c = Free \/ c \in customers
    /\ Begin(r, [op |-> "update_job", seen |-> [status |-> job.status, customer |-> job.customer], status |-> s, customer |-> c])
    /\ UNCHANGED <<Office, output, quotes, est, brain>>

(* Mutation: the previous status is taken after the assignment.            *)
Logged_Late(seen, s) == {}

(* The audit entry of a change, none when the status stays.                *)
Logged(seen, s) == IF s \notin {Free, seen.status} THEN {s} ELSE {}

(* SQLAlchemy leaves out what is as it was read; the foreign key of a new  *)
(* customer is checked.  A job that was soft-deleted meanwhile is written. *)
UpdateJob(r) ==
    LET w == req[r] IN
    /\ Doing(r, "update_job")
    /\ IF w.customer = Free \/ w.customer \in customers
       THEN /\ job' = [job EXCEPT
                 !.status   = IF w.status \in {Free, w.seen.status} THEN @ ELSE w.status,
                 !.customer = IF w.customer \in {Free, w.seen.customer} THEN @ ELSE w.customer]
            /\ audit' = audit \cup Logged(w.seen, w.status)
       ELSE UNCHANGED <<job, audit>>
    /\ End(r)
    /\ UNCHANGED <<customers, output, quotes, est, brain>>

(* One draft refuses; two drafts make scalar_one_or_none raise.            *)
ReadForDelete(r) ==
    /\ Idle(r) /\ job.at = "live"
    /\ \A q \in Quotes : quotes[q] # "draft"
    /\ Begin(r, [op |-> "delete_job"])
    /\ UNCHANGED <<Office, output, quotes, est, brain>>

DeleteJob(r) ==
    /\ Doing(r, "delete_job")
    /\ job' = [job EXCEPT !.at = "deleted"]
    /\ End(r)
    /\ UNCHANGED <<customers, audit, output, quotes, est, brain>>

(* Jobs are counted, soft-deleted ones too.                                *)
CountJobs(r, c) ==
    /\ Idle(r) /\ c \in customers
    /\ job.customer # c
    /\ Begin(r, [op |-> "delete_customer", customer |-> c])
    /\ UNCHANGED <<Office, output, quotes, est, brain>>

(* ON DELETE SET NULL on a column that may not be null: the delete fails.  *)
Restricted(c) == job.at # "none" /\ job.customer = c

DeleteCustomer(r) ==
    LET c == req[r].customer IN
    /\ Doing(r, "delete_customer")
    /\ customers' = IF Restricted(c) THEN customers ELSE customers \ {c}
    /\ End(r)
    /\ UNCHANGED <<job, audit, output, quotes, est, brain>>

-----------------------------------------------------------------------------
(* Quotes                                                                  *)

(* A soft-deleted job is found too, and drafts are not counted.  Fallback  *)
(* data and low confidence are refused.                                    *)
GenerateQuote(r, q) ==
    /\ Idle(r) /\ job.at # "none" /\ output = "good" /\ quotes[q] = "none"
    /\ quotes' = [quotes EXCEPT ![q] = "draft"]
    /\ UNCHANGED <<Office, output, est, brain, req>>

ReadQuote(r, q, op) ==
    /\ Idle(r) /\ quotes[q] \notin {"none", "deleted"}
    /\ Begin(r, [op |-> op, quote |-> q, seen |-> quotes[q]])
    /\ UNCHANGED <<Office, output, quotes, est, brain>>

(* Any quote can be approved, also one that was sent: the confidence was   *)
(* checked when it was generated.                                          *)
ApproveQuote(r, q) == ReadQuote(r, q, "approve_quote")

SendQuote(r, q) == quotes[q] = "approved" /\ ReadQuote(r, q, "send_quote")

DeleteQuote(r, q) == ReadQuote(r, q, "delete_quote")

QuoteTarget == [approve_quote |-> "approved", send_quote |-> "sent", delete_quote |-> "deleted"]

(* A quote that is gone is not written; an approval of an approved quote   *)
(* leaves the status alone, and so a concurrent sending stands.            *)
Written(w, now, s) == IF now = "deleted" \/ w.seen = s THEN now ELSE s

WriteQuote(r) ==
    LET w == req[r] IN
    /\ w.op \in DOMAIN QuoteTarget
    /\ quotes' = [quotes EXCEPT ![w.quote] = Written(w, @, QuoteTarget[w.op])]
    /\ End(r)
    /\ UNCHANGED <<Office, output, est, brain>>

-----------------------------------------------------------------------------
(* Estimates                                                               *)

(* _ALLOWED_TRANSITIONS                                                    *)
Allowed ==
    [ai_pending |-> {"draft"}, draft |-> {"in_review", "approved"},
     in_review |-> {"approved", "draft"}, approved |-> {"sent", "in_review"},
     sent |-> {"accepted", "rejected"}, accepted |-> {}, rejected |-> {"draft"}]

(* The status an operation asks for.                                       *)
Target == [review |-> "draft", approve |-> "approved", send |-> "sent", reopen |-> "in_review",
           update |-> "in_review", replace |-> "in_review"]

MayGo(s, op) == Target[op] \in Allowed[s]

(* Mutation: the serialiser knows Decimals.                                *)
Snapshot_AnyAmounts(op, sent) == TRUE

(* record_snapshot stores the amounts in a JSONB column.  Amounts that     *)
(* were loaded are Decimals and make the serialiser raise: the transaction *)
(* is rolled back.  Only an update that assigns all three of them, itself  *)
(* or with its line items, gets a snapshot.                                *)
Snapshot(op, sent) == op \in {"update", "replace"} /\ sent \in {"items", "amounts"}

(* The reservation, the estimate and its items are rolled back together.   *)
GenerateEstimate(r) ==
    /\ Idle(r) /\ est.at = "none" /\ brain.at = "live"
    /\ est' = IF Snapshot("generate", "none")
              THEN [at |-> "live", status |-> "ai_pending", items |-> {"ai"}, amounts |-> "ai"]
              ELSE est
    /\ UNCHANGED <<Office, output, quotes, brain, req>>

(* The row.  sent: the client's line items, all amounts, or neither.       *)
ReadEstimate(r, op, sent, v) ==
    /\ Idle(r) /\ est.at = "live"
    /\ Begin(r, [op |-> op, seen |-> est, sent |-> sent, version |-> v, items |-> {}])
    /\ UNCHANGED <<Office, output, quotes, est, brain>>

ReviewEstimate(r) ==
    est.status = "ai_pending" /\ MayGo(est.status, "review") /\ ReadEstimate(r, "review", "none", Free)

ApproveEstimate(r) ==
    MayGo(est.status, "approve") /\ ReadEstimate(r, "approve", "none", Free)

SendEstimate(r) ==
    est.status = "approved" /\ MayGo(est.status, "send") /\ ReadEstimate(r, "send", "none", Free)

(* Not a transition of the state machine: sent goes back to in_review.     *)
ReopenEstimate(r) ==
    est.status \in {"sent", "rejected"} /\ ReadEstimate(r, "reopen", "none", Free)

UpdateEstimate(r, sent, v) ==
    est.status \in {"draft", "in_review"} /\ ReadEstimate(r, "update", sent, v)

(* An update with line items reads those of the table after the row.       *)
ReadItems(r) ==
    /\ Doing(r, "update") /\ req[r].sent = "items"
    /\ Begin(r, [op |-> "replace", seen |-> req[r].seen, sent |-> "items",
                 version |-> req[r].version, items |-> est.items])
    /\ UNCHANGED <<Office, output, quotes, est, brain>>

(* Amounts are computed from the items that were sent, or those of the     *)
(* client whatever the items are; equal to those that were read, they are  *)
(* not written.                                                            *)
Totals(w, now) ==
    IF w.sent = "none" \/ w.version = w.seen.amounts THEN now ELSE w.version

(* The items that were READ are deleted, those of a concurrent update      *)
(* stay.                                                                   *)
WriteEstimate(r) ==
    LET w == req[r] IN
    /\ w.op \in DOMAIN Target
    /\ w.op = "update" => w.sent # "items"
    /\ est' = IF est.at = "live" /\ Snapshot(w.op, w.sent)
              THEN [est EXCEPT
                      !.status = IF w.seen.status = Target[w.op] THEN @ ELSE Target[w.op],
                      !.items = IF w.op = "replace" THEN (@ \ w.items) \cup {w.version} ELSE @,
                      !.amounts = Totals(w, @)]
              ELSE est
    /\ End(r)
    /\ UNCHANGED <<Office, output, quotes, brain>>

DeleteEstimate(r) ==
    /\ Idle(r) /\ est.at = "live"
    /\ est' = NoEstimate
    /\ UNCHANGED <<Office, output, quotes, brain, req>>

-----------------------------------------------------------------------------
(* The pricing brain: settings every estimate is made from.                *)

(* sent: the columns the client sent, with their values.                   *)
ReadBrain(r, sent) ==
    /\ Idle(r)
    /\ Begin(r, [op |-> "brain", seen |-> brain, sent |-> sent])
    /\ UNCHANGED <<Office, output, quotes, est, brain>>

(* Mutation: the whole row is written as it was read and changed.          *)
Assigned_WholeRow(w, now) ==
    [c \in Columns |-> IF c \in DOMAIN w.sent THEN w.sent[c] ELSE w.seen.column[c]]

(* exclude_unset, and of these the columns that differ from what was read. *)
Assigned(w, now) ==
    [c \in Columns |-> IF c \in DOMAIN w.sent /\ w.sent[c] # w.seen.column[c]
                       THEN w.sent[c] ELSE now[c]]

(* A first row that another request inserted meanwhile has the primary     *)
(* key: the INSERT fails.                                                  *)
UpdateBrain(r) ==
    LET w == req[r] IN
    /\ Doing(r, "brain")
    /\ brain' = IF w.seen.at = "none" /\ brain.at = "live" THEN brain
                ELSE [at |-> "live", column |-> Assigned(w, brain.column)]
    /\ End(r)
    /\ UNCHANGED <<Office, output, quotes, est>>

-----------------------------------------------------------------------------
(* The pipeline works on the job at the same time.                         *)

AIStarts ==
    /\ job.at = "live" /\ job.ai = "inactive"
    /\ job' = [job EXCEPT !.ai = "active"]
    /\ UNCHANGED <<customers, audit, output, quotes, est, brain, req>>

AIEnds ==
    /\ job.ai = "active"
    /\ job' = [job EXCEPT !.ai = "inactive"]
    /\ output' \in {output, "weak", "good"}
    /\ UNCHANGED <<customers, audit, quotes, est, brain, req>>

-----------------------------------------------------------------------------
OfficeNext ==
    \/ \E r \in Requests :
          \/ \E c \in Customers : CreateJob(r, c) \/ CreateCustomer(r, c) \/ CountJobs(r, c)
          \/ \E s \in JobStatus \cup {Free}, c \in Customers \cup {Free} : ReadForUpdate(r, s, c)
          \/ UpdateJob(r) \/ ReadForDelete(r) \/ DeleteJob(r) \/ DeleteCustomer(r)
          \/ \E q \in Quotes : \/ GenerateQuote(r, q)
                               \/ ApproveQuote(r, q) \/ SendQuote(r, q) \/ DeleteQuote(r, q)
          \/ WriteQuote(r)
          \/ GenerateEstimate(r) \/ ReadItems(r) \/ WriteEstimate(r) \/ DeleteEstimate(r)
          \/ ReviewEstimate(r) \/ ApproveEstimate(r) \/ SendEstimate(r) \/ ReopenEstimate(r)
          \/ \E sent \in {"items", "amounts", "none"}, v \in Versions : UpdateEstimate(r, sent, v)
          \/ \E cs \in SUBSET Columns : \E sent \in [cs -> Values] : ReadBrain(r, sent)
          \/ UpdateBrain(r)
    \/ AIStarts \/ AIEnds

OfficeSpec == OfficeInit /\ [][OfficeNext]_officeVars

-----------------------------------------------------------------------------
(* Prices (app/pricing/engine.py).  Amounts are integers in tenths of a    *)
(* cent, quantities in tenths: a Decimal made from a float is exact.       *)

Cent == 10

(* quantize("0.01", ROUND_HALF_UP): half a cent goes away from zero.       *)
RoundCurrency(x) ==
    IF x >= 0 THEN Cent * ((x + Cent \div 2) \div Cent)
              ELSE - Cent * ((Cent \div 2 - x) \div Cent)

LineTotal(i) == RoundCurrency((i.quantity * i.rate) \div 10)

RecomputeLineItem(i) == [i EXCEPT !.total = LineTotal(i)]

Subtotal(items) == RoundCurrency(MapThenSumSet(LAMBDA k : items[k].total, DOMAIN items))

Total(subtotal, tax) == RoundCurrency(subtotal + tax)

(* Mutation: the total of the model is trusted.                            *)
RecomputeEstimate_Trusts(e) ==
    LET items == [k \in DOMAIN e.items |-> RecomputeLineItem(e.items[k])] IN
    [e EXCEPT !.items = items, !.subtotal = Subtotal(items)]

(* The tax is rounded for the total and handed on as it was.               *)
RecomputeEstimate(e) ==
    LET items == [k \in DOMAIN e.items |-> RecomputeLineItem(e.items[k])] IN
    [e EXCEPT !.items = items, !.subtotal = Subtotal(items),
              !.total = Total(Subtotal(items), RoundCurrency(e.tax))]

Apart(x, y) == IF x > y THEN x - y > 2 * Cent ELSE y - x > 2 * Cent

ValidLineItem(i) == i.quantity >= 0 /\ i.rate >= 0 /\ ~ Apart(i.total, LineTotal(i))

ValidateEstimate(e) ==
    /\ \A k \in DOMAIN e.items : ValidLineItem(e.items[k])
    /\ ~ Apart(e.subtotal, Subtotal(e.items))
    /\ ~ Apart(e.total, Total(Subtotal(e.items), e.tax))

(* What the model may answer, its arithmetic right or wrong.               *)
Items == [quantity : {-10, 0, 5, 15}, rate : {0, 333, 99990}, total : {0, 7770}]

Answers ==
    [items : UNION {[1 .. n -> Items] : n \in 0 .. 2}, subtotal : {0}, tax : {0, 4, 1235},
     total : {0, 70}]

-----------------------------------------------------------------------------
(* The audit log accounts for the status of a job: it is the first one or  *)
(* the new value of some entry, also after updates that read stale rows.   *)
AuditCovers == job.status = "pending" \/ job.status \in audit

(* A job in the table always has a customer in the table, whatever         *)
(* requests delete, create and reassign at the same time.                  *)
JobKeepsCustomer == job.at # "none" => job.customer \in customers

(* Rows that speak of each other agree, although every request writes what *)
(* it computed from rows it read without a lock: the audit log and the     *)
(* job, the job and its customer.                                          *)
RowsAgree == AuditCovers /\ JobKeepsCustomer

(* The items and amounts of an estimate that is not open for editing stay  *)
(* until it is deleted: an update that read the row as a draft does not    *)
(* write to one that was approved, sent or reviewed before it wrote.       *)
ClosedEstimateStands ==
    [][est.at = "live" /\ est.status \notin {"draft", "in_review"} =>
          est'.at = "none" \/ (est'.items = est.items /\ est'.amounts = est.amounts)]_officeVars

(* A price setting changes only to what a client sent for it: two          *)
(* administrators who change different settings at the same time both keep *)
(* their change, although each writes a row it read before.                *)
SettingsKept ==
    [][\A c \in Columns : brain'.column[c] # brain.column[c] =>
          \E r \in Requests : Doing(r, "brain") /\ c \in DOMAIN req[r].sent
                              /\ brain'.column[c] = req[r].sent[c]]_officeVars

(* A recomputed estimate is refused only for the sign of its numbers,      *)
(* never for its arithmetic, and its total is off by at most half a cent   *)
(* per line and for the tax.  Stated of the first estimate of a company.   *)
RecomputedIsAccepted ==
    (job = NoJob /\ est = NoEstimate /\ brain = NoBrain /\ \A r \in Requests : Idle(r)) => \A e \in Answers :
        LET c     == RecomputeEstimate(e)
            exact == e.tax + MapThenSumSet(LAMBDA k : (e.items[k].quantity * e.items[k].rate) \div 10,
                                           DOMAIN e.items)
            slack == (Cent \div 2) * (Cardinality(DOMAIN e.items) + 1)
        IN (\A k \in DOMAIN e.items : e.items[k].quantity >= 0) =>
               /\ ValidateEstimate(c)
               /\ c.total - exact \in - slack .. slack
=============================================================================

------------------------------- MODULE Ledger -------------------------------
(***************************************************************************)
(* What the engine promises a cash register, without clocks, stages or     *)
(* scenarios: a book of payments.  A terminal has at most one open payment.*)
(* A payment is entered once, gets its outcome once, and only a charge can *)
(* later be refunded.  A step enters one payment or acts on one or lets    *)
(* time pass, which may settle several together; time may pass whenever it *)
(* likes, so the book does not say which call it is that settled one.      *)
(***************************************************************************)
EXTENDS Naturals, FiniteSets

CONSTANTS
  DeviceIds,
  MaxGeneration   \* bound: generations

VARIABLES
  generation,   \* the book's number; a reset begins a new one
  book          \* its entries: <<generation, n>> -> [device, status]

ledgerVars == <<generation, book>>

Outcome == {"charged", "void"}
Status  == {"open", "refunded"} \cup Outcome

LedgerInit == generation = 1 /\ book = << >>

Vacant(d) == \A id \in DOMAIN book : book[id].device = d => book[id].status # "open"

NextId == <<generation, Cardinality(DOMAIN book) + 1>>

\* A payment is entered, possibly with its outcome.
Enter(d, status) ==
  /\ Vacant(d)
  /\ status \in {"open"} \cup Outcome
  /\ book' = [id \in DOMAIN book \cup {NextId} |->
                IF id = NextId THEN [device |-> d, status |-> status] ELSE book[id]]
  /\ UNCHANGED generation

\* An open payment gets its outcome.
Close(id, status) ==
  /\ book[id].status = "open"
  /\ status \in Outcome
  /\ book' = [book EXCEPT ![id].status = status]
  /\ UNCHANGED generation

Refund(id) ==
  /\ book[id].status = "charged"
  /\ book' = [book EXCEPT ![id].status = "refunded"]
  /\ UNCHANGED generation

\* Time settles any of the open payments.
Settlement ==
  /\ DOMAIN book' = DOMAIN book
  /\ \A id \in DOMAIN book :
       \/ book'[id] = book[id]
       \/ /\ book[id].status = "open"
          /\ \E status \in Outcome : book'[id] = [book[id] EXCEPT !.status = status]
  /\ UNCHANGED generation

NewBook ==
  /\ generation < MaxGeneration
  /\ generation' = generation + 1
  /\ book' = << >>

LedgerNext ==
  \/ \E d \in DeviceIds, status \in Status : Enter(d, status)
  \/ \E id \in DOMAIN book : Refund(id) \/ \E status \in Outcome : Close(id, status)
  \/ Settlement
  \/ NewBook

LedgerSpec == LedgerInit /\ [][LedgerNext]_ledgerVars
=============================================================================

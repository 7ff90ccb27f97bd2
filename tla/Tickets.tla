------------------------------ MODULE Tickets ------------------------------
(***************************************************************************)
(* Tickets: a key's wish to take part in a round, signed                   *)
(* (src/src/tickets/tickets.service.ts), and the list of a key's rounds    *)
(* (findAllRounds of src/src/projects/projects.service.ts).                *)
(*                                                                         *)
(* A request looks for the ticket it is to create, and saves a new one     *)
(* after another await; no unique index guards the table.  A list reads    *)
(* the tickets first and the rounds afterwards.                            *)
(***************************************************************************)
EXTENDS Integers, FiniteSets

CONSTANTS
  Signers,
  TicketRounds,
  Requests,
  MaxTickets   \* bound on the tickets of a key and round

ASSUME TicketsAssumption == MaxTickets \in Nat

VARIABLES
  tickets,     \* the number of rows by key and round
  hidden,      \* rounds with the status hidden
  request,     \* the local variables of a request
  answered,    \* pairs a request was answered a ticket for (for properties)
  together   \* pairs that two requests were to create at once (likewise)

ticketVars == <<tickets, hidden, request, answered, together>>

Pairs == Signers \X TicketRounds

(* A list remembers what was answered when it was asked (for properties).  *)
Request ==
  [at: {"finding", "saving"}, pair: Pairs]
  \cup [at: {"tickets"}, key: Signers, answered: SUBSET Pairs]
  \cup [at: {"rounds", "listed"}, key: Signers, answered: SUBSET Pairs,
        rounds: SUBSET TicketRounds]

NoRequest == [at |-> "none"]

----------------------------------------------------------------------------

Proceed(q, rec) == request' = [request EXCEPT ![q] = rec]

Creating(q, pair) == request[q].at \in {"finding", "saving"}
                     /\ request[q].pair = pair

Answer(q) ==
  /\ answered' = answered \cup {request[q].pair}
  /\ Proceed(q, NoRequest)

Create(q, pair) ==
  /\ request[q] = NoRequest
  /\ Proceed(q, [at |-> "finding", pair |-> pair])
  /\ together' = IF \E p \in Requests : Creating(p, pair)
                   THEN together \cup {pair} ELSE together
  /\ UNCHANGED <<tickets, hidden, answered>>

(* Fault: the ticket is not looked for (DuplicatesOverlap).                *)
ExistsNever(pair) == FALSE

Exists(pair) == tickets[pair] > 0

(* Fault: the answer does not wait for the save (AnsweredIsListed).        *)
FoundNoneHasty(q) == Answer(q)

(* The signature is right, or the request is refused.                      *)
FoundNone(q) ==
  /\ \/ Proceed(q, [request[q] EXCEPT !.at = "saving"])
     \/ Proceed(q, NoRequest)
  /\ UNCHANGED answered

FindTicket(q) ==
  /\ request[q].at = "finding"
  /\ IF Exists(request[q].pair) THEN Answer(q) ELSE FoundNone(q)
  /\ UNCHANGED <<tickets, hidden, together>>

SaveTicket(q) ==
  /\ request[q].at = "saving"
  /\ tickets[request[q].pair] < MaxTickets
  /\ tickets' = [tickets EXCEPT ![request[q].pair] = @ + 1]
  /\ Answer(q)
  /\ UNCHANGED <<hidden, together>>

AskForRounds(q, k) ==
  /\ request[q] = NoRequest
  /\ Proceed(q, [at |-> "tickets", key |-> k, answered |-> answered])
  /\ UNCHANGED <<tickets, hidden, answered, together>>

GetRoundsForPubkey(q) ==
  /\ request[q].at = "tickets"
  /\ Proceed(q, [at |-> "rounds", key |-> request[q].key,
                answered |-> request[q].answered,
                rounds |-> {r \in TicketRounds : Exists(<<request[q].key, r>>)}])
  /\ UNCHANGED <<tickets, hidden, answered, together>>

FindRounds(q) ==
  /\ request[q].at = "rounds"
  /\ Proceed(q, [at |-> "listed", key |-> request[q].key,
                answered |-> request[q].answered,
                rounds |-> request[q].rounds \ hidden])
  /\ UNCHANGED <<tickets, hidden, answered, together>>

(* An answer is delivered, or the request dies.                            *)
EndRequest(q) ==
  /\ request[q] # NoRequest
  /\ Proceed(q, NoRequest)
  /\ UNCHANGED <<tickets, hidden, answered, together>>

HideOrShow(r) ==
  /\ hidden' = IF r \in hidden THEN hidden \ {r} ELSE hidden \cup {r}
  /\ UNCHANGED <<tickets, request, answered, together>>

TicketsInit ==
  /\ tickets = [pair \in Pairs |-> 0]
  /\ hidden = {}
  /\ request = [q \in Requests |-> NoRequest]
  /\ answered = {}
  /\ together = {}

TicketsNext ==
  \/ \E q \in Requests :
       \/ \E pair \in Pairs : Create(q, pair)
       \/ \E k \in Signers : AskForRounds(q, k)
       \/ FindTicket(q) \/ SaveTicket(q) \/ GetRoundsForPubkey(q)
       \/ FindRounds(q) \/ EndRequest(q)
  \/ \E r \in TicketRounds : HideOrShow(r)

TicketsSpec == TicketsInit /\ [][TicketsNext]_ticketVars

----------------------------------------------------------------------------
(* Properties.                                                             *)

(* The type of every variable.                                             *)
TicketsTypeOK ==
  /\ tickets \in [Pairs -> 0..MaxTickets]
  /\ hidden \subseteq TicketRounds
  /\ request \in [Requests -> Request \cup {NoRequest}]
  /\ answered \subseteq Pairs
  /\ together \subseteq Pairs

(* A key has several tickets for a round only if it asked for them at the  *)
(* same time; requests that were refused or died leave nothing behind.     *)
DuplicatesOverlap ==
  \A pair \in Pairs \ together : tickets[pair] <= 1

(* A round whose ticket had been answered before the list of a key's       *)
(* rounds was asked for is in the list, unless the round is hidden; no     *)
(* list has a round without a ticket.                                      *)
AnsweredIsListed ==
  [][\A q \in Requests :
       request'[q].at = "listed" /\ request[q].at # "listed" =>
         LET k == request[q].key IN \A r \in TicketRounds :
           /\ <<k, r>> \in request[q].answered \ (Signers \X hidden)
                => r \in request'[q].rounds
           /\ r \in request'[q].rounds => tickets[<<k, r>>] > 0]_ticketVars
=============================================================================

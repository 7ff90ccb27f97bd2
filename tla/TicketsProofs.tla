--------------------------- MODULE TicketsProofs ---------------------------
(***************************************************************************)
(* Theorems of Tickets for any keys, rounds and number of requests.        *)
(***************************************************************************)
EXTENDS Tickets, TLAPS

(* A pair two requests are to create is known to be one.                   *)
CreatingAlone ==
  \A pair \in Pairs \ together : \A p, q \in Requests :
    Creating(p, pair) /\ Creating(q, pair) => p = q

(* A request is about to save a ticket only where there is none yet.       *)
SavingFirst ==
  \A pair \in Pairs \ together : \A q \in Requests :
    Creating(q, pair) /\ request[q].at = "saving" => tickets[pair] = 0

(* What was answered is in the table.                                      *)
AnsweredExists == \A pair \in answered : tickets[pair] > 0

(* A list holds what has a ticket, and what was answered before it.        *)
ListsTickets ==
  \A q \in Requests :
    /\ request[q].at \in {"tickets", "rounds"} =>
         request[q].answered \subseteq answered
    /\ request[q].at = "rounds" =>
         \A r \in TicketRounds :
           /\ <<request[q].key, r>> \in request[q].answered
                => r \in request[q].rounds
           /\ r \in request[q].rounds => tickets[<<request[q].key, r>>] > 0

TicketsInv == /\ TicketsTypeOK /\ CreatingAlone /\ SavingFirst /\ DuplicatesOverlap
       /\ AnsweredExists /\ ListsTickets

----------------------------------------------------------------------------

LEMMA TicketsInitInv == TicketsInit => TicketsInv
  BY TicketsAssumption
  DEF TicketsInit, TicketsInv, TicketsTypeOK, CreatingAlone, SavingFirst,
      DuplicatesOverlap, AnsweredExists, ListsTickets, Creating, NoRequest

(* The shape of a request follows from where it is.                        *)
LEMMA RequestShape ==
  ASSUME TicketsTypeOK, NEW q \in Requests
  PROVE  /\ request[q] \in Request \cup {NoRequest}
         /\ request[q].at \in {"finding", "saving"} =>
              request[q] = [at |-> request[q].at, pair |-> request[q].pair]
              /\ request[q].pair \in Pairs
         /\ request[q].at = "tickets" =>
              request[q].key \in Signers /\ request[q].answered \in SUBSET Pairs
         /\ request[q].at = "rounds" =>
              /\ request[q] = [at |-> "rounds", key |-> request[q].key,
                               answered |-> request[q].answered,
                               rounds |-> request[q].rounds]
              /\ request[q].key \in Signers /\ request[q].answered \in SUBSET Pairs
              /\ request[q].rounds \in SUBSET TicketRounds
  BY DEF TicketsTypeOK, Request, NoRequest

(* Requests that end, or go on without a change of the tables, disturb     *)
(* nothing.                                                                *)
LEMMA QuietStep ==
  ASSUME TicketsInv, NEW q \in Requests, NEW rec \in Request \cup {NoRequest},
         Proceed(q, rec), UNCHANGED <<tickets, answered, together>>,
         hidden' \subseteq TicketRounds,
         rec.at \in {"none", "tickets", "listed", "rounds"},
         rec.at = "tickets" => rec.answered \subseteq answered,
         rec.at = "rounds" =>
           /\ rec.answered \subseteq answered
           /\ \A r \in TicketRounds :
                /\ <<rec.key, r>> \in rec.answered => r \in rec.rounds
                /\ r \in rec.rounds => tickets[<<rec.key, r>>] > 0
  PROVE  TicketsInv'
<1>1. TicketsTypeOK'
  BY DEF TicketsInv, TicketsTypeOK, Proceed
<1>2. request'[q] = rec /\ \A p \in Requests \ {q} : request'[p] = request[p]
  BY DEF TicketsInv, TicketsTypeOK, Proceed
<1>3. \A p \in Requests, pair \in Pairs :
        Creating(p, pair)' => Creating(p, pair) /\ request'[p] = request[p]
  BY <1>2 DEF Creating
<1>4. CreatingAlone' /\ SavingFirst' /\ DuplicatesOverlap'
  BY <1>3 DEF TicketsInv, CreatingAlone, SavingFirst, DuplicatesOverlap
<1>5. AnsweredExists' /\ ListsTickets'
  BY <1>2 DEF TicketsInv, AnsweredExists, ListsTickets
<1> QED
  BY <1>1, <1>4, <1>5 DEF TicketsInv

(* An answer: the pair has a ticket by now.                                *)
LEMMA AnswerStep ==
  ASSUME TicketsInv, NEW q \in Requests, request[q].at \in {"finding", "saving"},
         Answer(q), UNCHANGED <<hidden, together>>,
         tickets' \in [Pairs -> 0..MaxTickets],
         \A pair \in Pairs : tickets'[pair] >= tickets[pair],
         \A pair \in Pairs \ {request[q].pair} : tickets'[pair] = tickets[pair],
         tickets'[request[q].pair] > 0,
         \/ tickets' = tickets
         \/ /\ request[q].at = "saving"
            /\ tickets'[request[q].pair] = tickets[request[q].pair] + 1
  PROVE  TicketsInv'
<1> DEFINE mine == request[q].pair
<1>1. mine \in Pairs
  BY RequestShape DEF TicketsInv
<1>2. /\ request'[q] = NoRequest
      /\ \A p \in Requests \ {q} : request'[p] = request[p]
      /\ answered' = answered \cup {mine}
  BY DEF TicketsInv, TicketsTypeOK, Answer, Proceed
<1>3. TicketsTypeOK'
  BY <1>1 DEF TicketsInv, TicketsTypeOK, Answer, Proceed
<1>4. \A p \in Requests, pair \in Pairs :
        Creating(p, pair)' =>
          Creating(p, pair) /\ request'[p] = request[p] /\ p # q
  BY <1>2 DEF Creating, NoRequest
<1>5. CreatingAlone'
  BY <1>4 DEF TicketsInv, CreatingAlone
<1>6. Creating(q, mine)
  BY DEF Creating
<1>7. SavingFirst'
  BY <1>1, <1>4, <1>6 DEF TicketsInv, SavingFirst, CreatingAlone
<1>8. DuplicatesOverlap'
  <2> SUFFICES ASSUME NEW pair \in Pairs \ together PROVE tickets'[pair] <= 1
    BY DEF DuplicatesOverlap
  <2>1. CASE pair = mine /\ tickets' # tickets
    BY <1>1, <1>6, <2>1 DEF TicketsInv, SavingFirst
  <2>2. CASE pair # mine \/ tickets' = tickets
    BY <2>2 DEF TicketsInv, DuplicatesOverlap
  <2> QED
    BY <2>1, <2>2
<1>9. AnsweredExists'
  <2>1. answered \subseteq Pairs
    BY DEF TicketsInv, TicketsTypeOK
  <2>2. \A pair \in Pairs : tickets[pair] \in Nat /\ tickets'[pair] \in Nat
    BY TicketsAssumption DEF TicketsInv, TicketsTypeOK
  <2> QED
    BY <1>1, <1>2, <2>1, <2>2 DEF TicketsInv, AnsweredExists
<1>10. ListsTickets'
  <2> SUFFICES ASSUME NEW p \in Requests \ {q}
               PROVE  /\ request[p].at \in {"tickets", "rounds"} =>
                           request[p].answered \subseteq answered'
                      /\ request[p].at = "rounds" =>
                           \A r \in TicketRounds :
                             /\ <<request[p].key, r>> \in request[p].answered
                                  => r \in request[p].rounds
                             /\ r \in request[p].rounds
                                  => tickets'[<<request[p].key, r>>] > 0
    BY <1>2 DEF ListsTickets, NoRequest
  <2>1. \A pair \in Pairs : tickets[pair] \in Nat /\ tickets'[pair] \in Nat
    BY TicketsAssumption DEF TicketsInv, TicketsTypeOK
  <2>2. \A r \in TicketRounds :
          request[p].at = "rounds" => <<request[p].key, r>> \in Pairs
    BY RequestShape DEF TicketsInv, Pairs
  <2> QED
    BY <1>2, <2>1, <2>2 DEF TicketsInv, ListsTickets
<1> QED
  BY <1>3, <1>5, <1>7, <1>8, <1>9, <1>10 DEF TicketsInv

LEMMA CreateStep ==
  ASSUME TicketsInv, NEW q \in Requests, NEW pair \in Pairs, Create(q, pair)
  PROVE  TicketsInv'
<1> DEFINE rec == [at |-> "finding", pair |-> pair]
<1>1. /\ request'[q] = rec /\ request[q] = NoRequest
      /\ \A p \in Requests \ {q} : request'[p] = request[p]
      /\ UNCHANGED <<tickets, hidden, answered>>
      /\ together \subseteq together' /\ together' \subseteq Pairs
  BY DEF TicketsInv, TicketsTypeOK, Create, Proceed
<1>2. rec \in Request
  BY DEF Request
<1>3. TicketsTypeOK'
  BY <1>1, <1>2 DEF TicketsInv, TicketsTypeOK, Create, Proceed
<1>4. \A p \in Requests \ {q}, other \in Pairs :
        Creating(p, other)' = Creating(p, other)
  BY <1>1 DEF Creating
<1>5. \A other \in Pairs : Creating(q, other)' => other = pair
  BY <1>1 DEF Creating
<1>6. (\E p \in Requests : Creating(p, pair)) => pair \in together'
  BY DEF Create
<1>7. CreatingAlone'
  <2> SUFFICES ASSUME NEW other \in Pairs \ together', NEW p \in Requests,
                      NEW r \in Requests, Creating(p, other)', Creating(r, other)'
               PROVE  p = r
    BY DEF CreatingAlone
  <2>1. other \notin together
    BY <1>1
  <2> QED
    BY <1>4, <1>5, <1>6, <2>1 DEF TicketsInv, CreatingAlone
<1>8. SavingFirst'
  <2> SUFFICES ASSUME NEW other \in Pairs \ together', NEW p \in Requests,
                      Creating(p, other)', request'[p].at = "saving"
               PROVE  tickets[other] = 0
    BY <1>1 DEF SavingFirst
  <2>1. p # q /\ other \notin together
    BY <1>1
  <2> QED
    BY <1>1, <1>4, <2>1 DEF TicketsInv, SavingFirst
<1>9. DuplicatesOverlap' /\ AnsweredExists'
  BY <1>1 DEF TicketsInv, DuplicatesOverlap, AnsweredExists
<1>10. ListsTickets'
  BY <1>1 DEF TicketsInv, ListsTickets
<1> QED
  BY <1>3, <1>7, <1>8, <1>9, <1>10 DEF TicketsInv

(* From the find to the save: there was no ticket.                         *)
LEMMA SavingStep ==
  ASSUME TicketsInv, NEW q \in Requests, request[q].at = "finding",
         ~Exists(request[q].pair),
         Proceed(q, [request[q] EXCEPT !.at = "saving"]),
         UNCHANGED <<tickets, hidden, answered, together>>
  PROVE  TicketsInv'
<1> DEFINE mine == request[q].pair
<1>1. mine \in Pairs /\ tickets[mine] = 0
  BY RequestShape, TicketsAssumption DEF TicketsInv, TicketsTypeOK, Exists
<1>2. /\ request'[q] = [at |-> "saving", pair |-> mine]
      /\ \A p \in Requests \ {q} : request'[p] = request[p]
  BY RequestShape DEF TicketsInv, TicketsTypeOK, Proceed
<1>3. [at |-> "saving", pair |-> mine] \in Request
  BY <1>1 DEF Request
<1>4. TicketsTypeOK'
  BY <1>2, <1>3 DEF TicketsInv, TicketsTypeOK, Proceed
<1>5. \A p \in Requests, pair \in Pairs :
        Creating(p, pair)' = Creating(p, pair)
  BY <1>2 DEF Creating
<1>6. CreatingAlone'
  BY <1>5 DEF TicketsInv, CreatingAlone
<1>7. SavingFirst'
  BY <1>1, <1>2, <1>5 DEF TicketsInv, SavingFirst, Creating
<1>8. DuplicatesOverlap' /\ AnsweredExists' /\ ListsTickets'
  BY <1>2 DEF TicketsInv, DuplicatesOverlap, AnsweredExists, ListsTickets
<1> QED
  BY <1>4, <1>6, <1>7, <1>8 DEF TicketsInv

LEMMA FindStep ==
  ASSUME TicketsInv, NEW q \in Requests, FindTicket(q)
  PROVE  TicketsInv'
<1>0. request[q].at = "finding" /\ UNCHANGED <<tickets, hidden, together>>
      /\ request[q].pair \in Pairs
  BY RequestShape DEF FindTicket, TicketsInv
<1>1. CASE Exists(request[q].pair)
  <2>1. \A pair \in Pairs : tickets[pair] >= tickets[pair]
    BY TicketsAssumption DEF TicketsInv, TicketsTypeOK
  <2>2. Answer(q) /\ tickets' \in [Pairs -> 0..MaxTickets]
        /\ tickets'[request[q].pair] > 0
    BY <1>0, <1>1 DEF FindTicket, TicketsInv, TicketsTypeOK, Exists
  <2> QED
    BY <1>0, <2>1, <2>2, AnswerStep
<1>2. CASE ~Exists(request[q].pair)
  <2>1. UNCHANGED answered
        /\ \/ Proceed(q, [request[q] EXCEPT !.at = "saving"])
           \/ Proceed(q, NoRequest)
    BY <1>2 DEF FindTicket, FoundNone
  <2>2. CASE Proceed(q, [request[q] EXCEPT !.at = "saving"])
    BY <1>0, <1>2, <2>1, <2>2, SavingStep
  <2>3. CASE Proceed(q, NoRequest)
    <3>1. NoRequest.at = "none" /\ hidden' \subseteq TicketRounds
      BY <1>0 DEF NoRequest, TicketsInv, TicketsTypeOK
    <3> QED
      BY <1>0, <2>1, <2>3, <3>1, QuietStep
  <2> QED
    BY <2>1, <2>2, <2>3
<1> QED
  BY <1>1, <1>2

LEMMA SaveStep ==
  ASSUME TicketsInv, NEW q \in Requests, SaveTicket(q)
  PROVE  TicketsInv'
<1> DEFINE mine == request[q].pair
<1>1. mine \in Pairs /\ request[q].at = "saving"
  BY RequestShape DEF SaveTicket, TicketsInv
<1>2. \A pair \in Pairs : tickets[pair] \in Nat
  BY TicketsAssumption DEF TicketsInv, TicketsTypeOK
<1>3. /\ tickets'[mine] = tickets[mine] + 1
      /\ \A pair \in Pairs \ {mine} : tickets'[pair] = tickets[pair]
      /\ tickets' \in [Pairs -> 0..MaxTickets]
  BY <1>1, <1>2, TicketsAssumption DEF SaveTicket, TicketsInv, TicketsTypeOK
<1>4. /\ tickets'[mine] > 0
      /\ \A pair \in Pairs : tickets'[pair] >= tickets[pair]
  BY <1>1, <1>2, <1>3
<1>5. Answer(q) /\ UNCHANGED <<hidden, together>>
  BY DEF SaveTicket
<1> QED
  BY <1>1, <1>3, <1>4, <1>5, AnswerStep

LEMMA ListStep ==
  ASSUME TicketsInv, NEW q \in Requests,
         \/ \E k \in Signers : AskForRounds(q, k)
         \/ GetRoundsForPubkey(q) \/ FindRounds(q) \/ EndRequest(q)
  PROVE  TicketsInv'
<1>0. hidden \subseteq TicketRounds /\ answered \in SUBSET Pairs
  BY DEF TicketsInv, TicketsTypeOK
<1>1. ASSUME NEW k \in Signers, AskForRounds(q, k) PROVE TicketsInv'
  <2> DEFINE rec == [at |-> "tickets", key |-> k, answered |-> answered]
  <2>1. rec \in Request
    BY <1>0 DEF Request
  <2>2. rec.at = "tickets" /\ rec.answered \subseteq answered
    OBVIOUS
  <2>3. Proceed(q, rec) /\ UNCHANGED <<tickets, hidden, answered, together>>
    BY <1>1 DEF AskForRounds
  <2> HIDE DEF rec
  <2> QED
    BY <1>0, <2>1, <2>2, <2>3, QuietStep
<1>2. CASE GetRoundsForPubkey(q)
  <2> DEFINE k == request[q].key
             rec == [at |-> "rounds", key |-> k,
                     answered |-> request[q].answered,
                     rounds |-> {r \in TicketRounds : Exists(<<k, r>>)}]
  <2>0. request[q].at = "tickets"
    BY <1>2 DEF GetRoundsForPubkey
  <2>1. rec \in Request /\ k \in Signers /\ rec.answered \subseteq answered
    BY <2>0, RequestShape DEF Request, TicketsInv, ListsTickets
  <2>2. \A r \in TicketRounds :
          /\ <<k, r>> \in rec.answered => r \in rec.rounds
          /\ r \in rec.rounds => tickets[<<k, r>>] > 0
    BY <2>1 DEF Exists, TicketsInv, AnsweredExists
  <2>3. Proceed(q, rec) /\ UNCHANGED <<tickets, hidden, answered, together>>
    BY <1>2 DEF GetRoundsForPubkey
  <2>4. rec.at = "rounds" /\ rec.key = k
    OBVIOUS
  <2> HIDE DEF rec
  <2> QED
    BY <1>0, <2>1, <2>2, <2>3, <2>4, QuietStep
<1>3. CASE FindRounds(q)
  <2> DEFINE rec == [at |-> "listed", key |-> request[q].key,
                     answered |-> request[q].answered,
                     rounds |-> request[q].rounds \ hidden]
  <2>0. request[q].at = "rounds"
    BY <1>3 DEF FindRounds
  <2>1. rec \in Request /\ rec.at = "listed"
    BY <2>0, RequestShape DEF Request, TicketsInv
  <2>2. Proceed(q, rec) /\ UNCHANGED <<tickets, hidden, answered, together>>
    BY <1>3 DEF FindRounds
  <2> HIDE DEF rec
  <2> QED
    BY <1>0, <2>1, <2>2, QuietStep
<1>4. CASE EndRequest(q)
  <2>1. NoRequest.at = "none"
    BY DEF NoRequest
  <2>2. Proceed(q, NoRequest) /\ UNCHANGED <<tickets, hidden, answered, together>>
    BY <1>4 DEF EndRequest
  <2> QED
    BY <1>0, <2>1, <2>2, QuietStep
<1> QED
  BY <1>1, <1>2, <1>3, <1>4

LEMMA OtherStep ==
  ASSUME TicketsInv,
         \/ \E r \in TicketRounds : HideOrShow(r)
         \/ UNCHANGED ticketVars
  PROVE  TicketsInv'
<1>1. UNCHANGED <<tickets, request, answered, together>>
      /\ hidden' \subseteq TicketRounds
  BY DEF HideOrShow, ticketVars, TicketsInv, TicketsTypeOK
<1>2. TicketsTypeOK' /\ DuplicatesOverlap' /\ AnsweredExists' /\ ListsTickets'
  BY <1>1 DEF TicketsInv, TicketsTypeOK, DuplicatesOverlap, AnsweredExists, ListsTickets
<1>3. CreatingAlone' /\ SavingFirst'
  BY <1>1 DEF TicketsInv, CreatingAlone, SavingFirst, Creating
<1> QED
  BY <1>2, <1>3 DEF TicketsInv

LEMMA TicketsStep == TicketsInv /\ [TicketsNext]_ticketVars => TicketsInv'
  BY CreateStep, FindStep, SaveStep, ListStep, OtherStep DEF TicketsNext

(* The conjunction of all parts holds in every reachable state.            *)
THEOREM TicketsInvariance == TicketsSpec => []TicketsInv
  BY TicketsInitInv, TicketsStep, PTL DEF TicketsSpec

(* The type of every variable, for any keys, rounds and requests.          *)
THEOREM TicketsTypeCorrect == TicketsSpec => []TicketsTypeOK
<1>1. TicketsInv => TicketsTypeOK
  BY DEF TicketsInv
<1> QED
  BY TicketsInvariance, <1>1, PTL

(* Two tickets of one key and round need two requests at the same time.    *)
THEOREM OneTicketEach == TicketsSpec => []DuplicatesOverlap
<1>1. TicketsInv => DuplicatesOverlap
  BY DEF TicketsInv
<1> QED
  BY TicketsInvariance, <1>1, PTL

(* A list of rounds has every visible round that was answered before it,   *)
(* and only rounds with a ticket.                                          *)
THEOREM ListsAreComplete == TicketsSpec => AnsweredIsListed
<1> DEFINE Listed(q) ==
       request'[q].at = "listed" /\ request[q].at # "listed" =>
         \A r \in TicketRounds :
           /\ <<request[q].key, r>> \in request[q].answered \ (Signers \X hidden)
                => r \in request'[q].rounds
           /\ r \in request'[q].rounds => tickets[<<request[q].key, r>>] > 0
<1>1. ASSUME TicketsInv, [TicketsNext]_ticketVars, NEW q \in Requests,
             request'[q].at = "listed", request[q].at # "listed"
      PROVE  FindRounds(q)
  <2>0. request \in [Requests -> Request \cup {NoRequest}]
    BY <1>1 DEF TicketsInv, TicketsTypeOK
  <2>1. \A rec : \A p \in Requests : Proceed(p, rec) /\ p # q => request'[q] = request[q]
    BY <2>0 DEF Proceed
  <2>2. \A rec : Proceed(q, rec) => rec.at = "listed"
    BY <1>1, <2>0 DEF Proceed
  <2>3. request' # request
    BY <1>1
  <2>4. ~UNCHANGED ticketVars /\ \A r \in TicketRounds : ~HideOrShow(r)
    BY <2>3 DEF HideOrShow, ticketVars
  <2>5. PICK p \in Requests :
          \/ \E pair \in Pairs : Create(p, pair)
          \/ \E k \in Signers : AskForRounds(p, k)
          \/ FindTicket(p) \/ SaveTicket(p) \/ GetRoundsForPubkey(p)
          \/ FindRounds(p) \/ EndRequest(p)
    BY <1>1, <2>4 DEF TicketsNext
  <2>6. \E rec : Proceed(p, rec)
    BY <2>5 DEF Create, AskForRounds, FindTicket, SaveTicket, Answer, FoundNone,
                GetRoundsForPubkey, FindRounds, EndRequest
  <2>7. p = q
    BY <1>1, <2>1, <2>6
  <2>8. \A pair \in Pairs : ~Create(q, pair)
    BY <2>2 DEF Create
  <2>9. \A k \in Signers : ~AskForRounds(q, k)
    BY <2>2 DEF AskForRounds
  <2>10. ~SaveTicket(q) /\ ~EndRequest(q) /\ ~GetRoundsForPubkey(q)
    BY <2>2 DEF SaveTicket, Answer, EndRequest, GetRoundsForPubkey, NoRequest
  <2>11. ~FindTicket(q)
    <3> SUFFICES ASSUME FindTicket(q) PROVE FALSE
      OBVIOUS
    <3>1. request[q].at = "finding"
      BY DEF FindTicket
    <3>2. [request[q] EXCEPT !.at = "saving"].at = "saving"
      BY <1>1, <3>1, RequestShape DEF TicketsInv
    <3>3. \/ Proceed(q, [request[q] EXCEPT !.at = "saving"])
          \/ Proceed(q, NoRequest)
      BY DEF FindTicket, Answer, FoundNone
    <3>4. NoRequest.at = "none"
      BY DEF NoRequest
    <3>5. CASE Proceed(q, NoRequest)
      BY <2>2, <3>4, <3>5
    <3>6. CASE Proceed(q, [request[q] EXCEPT !.at = "saving"])
      BY <2>2, <3>2, <3>6
    <3> QED
      BY <3>3, <3>5, <3>6
  <2> QED
    BY <2>5, <2>7, <2>8, <2>9, <2>10, <2>11
<1>2. ASSUME TicketsInv, [TicketsNext]_ticketVars, NEW q \in Requests
      PROVE  Listed(q)
  <2> SUFFICES ASSUME request'[q].at = "listed", request[q].at # "listed",
                      NEW r \in TicketRounds
               PROVE  /\ <<request[q].key, r>> \in
                           request[q].answered \ (Signers \X hidden)
                           => r \in request'[q].rounds
                      /\ r \in request'[q].rounds
                           => tickets[<<request[q].key, r>>] > 0
    OBVIOUS
  <2>1. FindRounds(q)
    BY <1>1, <1>2
  <2>2. request[q].at = "rounds"
    BY <2>1 DEF FindRounds
  <2>3. request'[q].rounds = request[q].rounds \ hidden
        /\ request[q].key \in Signers
    BY <1>2, <2>1, <2>2, RequestShape DEF FindRounds, Proceed, TicketsInv, TicketsTypeOK
  <2> QED
    BY <1>2, <2>2, <2>3 DEF TicketsInv, ListsTickets
<1>3. TicketsInv /\ [TicketsNext]_ticketVars => [\A q \in Requests : Listed(q)]_ticketVars
  BY <1>2
<1> QED
  BY TicketsInvariance, <1>3, PTL DEF TicketsSpec, AnsweredIsListed
=============================================================================

----------------------------- MODULE WebPage_proofs -----------------------------
(* Proofs about WebPage, for any number of cards, fetches that fail and    *)
(* PHP workers: the page is a client of ZoneDepot, and shows what it has   *)
(* posted.                                                                 *)
EXTENDS WebPage, ZoneDepot_proofs

Card == [ip : Ips \cup NotAddresses, angles : Bodies, grey : BOOLEAN]

\* What has been posted is what the page shows, on cards nobody can change.
Shown ==
    \A n \in DOMAIN sent :
        LET c == sent[n].card IN
        /\ cards[c].grey /\ cards[c].ip = sent[n].ip
        /\ cards[1].grey /\ cards[1].angles = sent[n].body

\* An entry of commands.json comes from the page, unless it was there before.
PostedByPage ==
    \A entry \in posted["commands"] :
        \/ entry \in UNION {Stored(deposit) : deposit \in Deposits}
        \/ \E n \in DOMAIN sent : entry = [ip |-> sent[n].ip, body |-> sent[n].body]

PageInv == Inv /\ PageTypeOK /\ OnePostPerCard /\ Shown /\ PostedByPage

-------------------------------------------------------------------------------
\* The list of cards is one of cards at every place, and there is a first one
\* when there is any.
LEMMA CardsType ==
    ASSUME PageTypeOK
    PROVE  /\ Len(cards) \in Nat /\ DOMAIN cards = 1 .. Len(cards)
           /\ \A c \in DOMAIN cards : cards[c] \in Card /\ 1 \in DOMAIN cards
  <1>1. cards \in Seq(Card)
    BY DEF PageTypeOK, Card
  <1> QED
    BY <1>1, SMT

LEMMA SentType ==
    ASSUME PageTypeOK
    PROVE  /\ Len(sent) \in Nat /\ DOMAIN sent = 1 .. Len(sent)
           /\ \A n \in DOMAIN sent :
                 sent[n] \in [card : DOMAIN cards, ip : Ips \cup NotAddresses, body : Bodies]
  <1> DEFINE S == [card : DOMAIN cards, ip : Ips \cup NotAddresses, body : Bodies]
  <1>1. sent \in Seq(S)
    BY DEF PageTypeOK
  <1> HIDE DEF S
  <1>2. /\ Len(sent) \in Nat /\ DOMAIN sent = 1 .. Len(sent)
        /\ \A n \in DOMAIN sent : sent[n] \in S
    BY <1>1, SMT
  <1> QED
    BY <1>2 DEF S

LEMMA PageInitInv == PageInit => PageInv
  <1> SUFFICES ASSUME PageInit PROVE PageInv
    OBVIOUS
  <1>1. Init /\ cards = <<>> /\ sent = <<>> /\ calls = {} /\ lost = 0
    BY DEF PageInit
  <1>2. Inv
    BY <1>1, InitInv
  <1>3. cards \in Seq(Card) /\ Len(cards) = 0 /\ DOMAIN sent = {}
    BY <1>1, SMT
  <1>4. sent \in Seq([card : DOMAIN cards, ip : Ips \cup NotAddresses, body : Bodies])
    BY <1>1, SMT
  <1>5. PageTypeOK
    BY <1>1, <1>3, <1>4, WebPageAssumption, SMT DEF PageTypeOK, Card
  <1>6. PostedByPage
    <2>1. posted["commands"] = Stored(depot["commands"]) /\ depot["commands"] \in Deposits
      BY <1>1 DEF Init, Files
    <2> QED
      BY <2>1 DEF PostedByPage
  <1> QED
    BY <1>2, <1>3, <1>5, <1>6 DEF PageInv, OnePostPerCard, Shown

-------------------------------------------------------------------------------
(* The steps of the page.                                                  *)

\* Cards may be added, and those that are not grey changed.
LEMMA CardsStep ==
    ASSUME PageInv, AjoutRobot \/ \E c \in DOMAIN cards : Type(c)
    PROVE  /\ cards' \in Seq(Card) /\ Len(cards') =< MaxCards
           /\ DOMAIN cards \subseteq DOMAIN cards'
           /\ \A c \in DOMAIN cards : cards[c].grey => cards'[c] = cards[c]
           /\ sent' = sent /\ calls' = calls /\ lost' = lost /\ vars' = vars
  <1>1. PageTypeOK
    BY DEF PageInv
  <1>2. CASE AjoutRobot
    <2> DEFINE new == [ip |-> BlankIp, angles |-> BlankAngles, grey |-> FALSE]
    <2>1. /\ Len(cards) < MaxCards /\ cards' = Append(cards, new)
          /\ sent' = sent /\ calls' = calls /\ lost' = lost /\ vars' = vars
      BY <1>2 DEF AjoutRobot
    <2>2. new \in Card
      BY WebPageAssumption DEF Card
    <2>3. cards \in Seq(Card)
      BY <1>1 DEF PageTypeOK, Card
    <2>4. MaxCards \in Nat
      BY WebPageAssumption
    <2> HIDE DEF new
    <2>5. /\ cards' \in Seq(Card) /\ Len(cards') =< MaxCards
          /\ DOMAIN cards \subseteq DOMAIN cards'
          /\ \A c \in DOMAIN cards : cards'[c] = cards[c]
      BY <2>1, <2>2, <2>3, <2>4, SMT
    <2> QED
      BY <2>1, <2>5
  <1>3. ASSUME NEW c \in DOMAIN cards, Type(c)
        PROVE  /\ cards' \in Seq(Card) /\ Len(cards') =< MaxCards
               /\ DOMAIN cards \subseteq DOMAIN cards'
               /\ \A d \in DOMAIN cards : cards[d].grey => cards'[d] = cards[d]
               /\ sent' = sent /\ calls' = calls /\ lost' = lost /\ vars' = vars
    <2>1. /\ ~cards[c].grey
          /\ \/ \E text \in Ips \cup NotAddresses : cards' = [cards EXCEPT ![c].ip = text]
             \/ \E angles \in Bodies : cards' = [cards EXCEPT ![c].angles = angles]
          /\ sent' = sent /\ calls' = calls /\ lost' = lost /\ vars' = vars
      BY <1>3 DEF Type
    <2>2. cards[c] \in Card
      BY <1>1, CardsType
    <2>3. PICK card \in Card : cards' = [cards EXCEPT ![c] = card]
      <3>1. CASE \E text \in Ips \cup NotAddresses : cards' = [cards EXCEPT ![c].ip = text]
        <4>1. PICK text \in Ips \cup NotAddresses : cards' = [cards EXCEPT ![c].ip = text]
          BY <3>1
        <4>2. [cards[c] EXCEPT !.ip = text] \in Card
          BY <2>2 DEF Card
        <4> QED
          BY <4>1, <4>2
      <3>2. CASE \E angles \in Bodies : cards' = [cards EXCEPT ![c].angles = angles]
        <4>1. PICK angles \in Bodies : cards' = [cards EXCEPT ![c].angles = angles]
          BY <3>2
        <4>2. [cards[c] EXCEPT !.angles = angles] \in Card
          BY <2>2 DEF Card
        <4> QED
          BY <4>1, <4>2
      <3> QED
        BY <2>1, <3>1, <3>2
    <2>4. cards \in Seq(Card) /\ Len(cards) =< MaxCards
      BY <1>1 DEF PageTypeOK, Card
    <2>5. cards' \in Seq(Card) /\ Len(cards') = Len(cards) /\ DOMAIN cards' = DOMAIN cards
      BY <2>3, <2>4, SMT
    <2>6. \A d \in DOMAIN cards : d # c => cards'[d] = cards[d]
      BY <2>3
    <2> QED
      BY <2>1, <2>4, <2>5, <2>6
  <1> QED
    BY <1>2, <1>3

LEMMA CardsInv ==
    ASSUME PageInv, AjoutRobot \/ \E c \in DOMAIN cards : Type(c)
    PROVE  PageInv'
  <1>1. /\ cards' \in Seq(Card) /\ Len(cards') =< MaxCards
        /\ DOMAIN cards \subseteq DOMAIN cards'
        /\ \A c \in DOMAIN cards : cards[c].grey => cards'[c] = cards[c]
        /\ sent' = sent /\ calls' = calls /\ lost' = lost /\ vars' = vars
    BY CardsStep
  <1>2. PageTypeOK /\ Inv
    BY DEF PageInv
  <1>3. Inv'
    BY <1>1, <1>2, StepInv
  <1>4. \A n \in DOMAIN sent : sent[n].card \in DOMAIN cards /\ 1 \in DOMAIN cards
    BY <1>2, SentType, CardsType
  <1>5. PageTypeOK'
    <2> DEFINE S == [card : DOMAIN cards', ip : Ips \cup NotAddresses, body : Bodies]
    <2>1. \A n \in DOMAIN sent : sent[n] \in S
      BY <1>1, <1>2, SentType
    <2>2. sent \in Seq([card : DOMAIN cards, ip : Ips \cup NotAddresses, body : Bodies])
      BY <1>2 DEF PageTypeOK
    <2> HIDE DEF S
    <2>3. sent \in Seq(S)
      BY <2>1, <2>2, SMT
    <2> QED
      BY <1>1, <1>2, <2>3 DEF PageTypeOK, Card, S
  <1>6. Shown'
    <2> SUFFICES ASSUME NEW n \in DOMAIN sent
                 PROVE  /\ cards'[sent[n].card].grey /\ cards'[sent[n].card].ip = sent[n].ip
                        /\ cards'[1].grey /\ cards'[1].angles = sent[n].body
      BY <1>1 DEF Shown
    <2> QED
      BY <1>1, <1>4 DEF PageInv, Shown
  <1>7. PostedByPage' /\ OnePostPerCard'
    BY <1>1 DEF PageInv, PostedByPage, OnePostPerCard, vars
  <1> QED
    BY <1>3, <1>5, <1>6, <1>7 DEF PageInv

\* The card that is finished was not grey, so nothing had been posted for it;
\* from now on it is, and so is the first one.
LEMMA FinisInv ==
    ASSUME PageInv, NEW c \in DOMAIN cards, Finis(c)
    PROVE  PageInv'
  <1> DEFINE call == [card |-> c, ip |-> cards[c].ip, body |-> cards[1].angles]
             N == Len(sent)
  <1>1. /\ ~cards[c].grey /\ cards' = [d \in DOMAIN cards |-> [cards[d] EXCEPT !.grey = TRUE]]
        /\ sent' = Append(sent, call) /\ calls' = calls \cup {Len(sent')}
        /\ lost' = lost /\ vars' = vars
    BY DEF Finis, GriserElement, CommandsDiv
  <1>2. PageTypeOK /\ Inv
    BY DEF PageInv
  <1>3. Inv'
    BY <1>1, <1>2, StepInv
  <1>4. \A d \in DOMAIN cards :
            /\ cards'[d] \in Card /\ cards'[d].grey
            /\ cards'[d].ip = cards[d].ip /\ cards'[d].angles = cards[d].angles
    BY <1>1, <1>2, CardsType DEF Card
  <1>5. cards' \in Seq(Card) /\ Len(cards') = Len(cards) /\ DOMAIN cards' = DOMAIN cards
    <2>1. DOMAIN cards' = DOMAIN cards
      BY <1>1
    <2>2. cards' = [d \in 1 .. Len(cards) |-> cards'[d]]
      BY <1>1, <1>2, CardsType
    <2>3. \A d \in 1 .. Len(cards) : cards'[d] \in Card
      BY <1>2, <1>4, CardsType
    <2>4. Len(cards) \in Nat
      BY <1>2, CardsType
    <2> QED
      BY <2>1, <2>2, <2>3, <2>4, SMT
  <1>6. call \in [card : DOMAIN cards', ip : Ips \cup NotAddresses, body : Bodies]
    BY <1>2, <1>5, CardsType DEF Card
  <1>7. /\ N \in Nat /\ DOMAIN sent = 1 .. N /\ DOMAIN sent' = 1 .. N + 1 /\ Len(sent') = N + 1
        /\ sent' \in Seq([card : DOMAIN cards', ip : Ips \cup NotAddresses, body : Bodies])
        /\ sent'[N + 1] = call /\ \A n \in 1 .. N : sent'[n] = sent[n]
    <2> DEFINE S == [card : DOMAIN cards', ip : Ips \cup NotAddresses, body : Bodies]
    <2>1. sent \in Seq(S) /\ call \in S
      BY <1>2, <1>5, <1>6 DEF PageTypeOK
    <2> HIDE DEF S, call
    <2>2. /\ N \in Nat /\ DOMAIN sent = 1 .. N /\ DOMAIN sent' = 1 .. N + 1 /\ Len(sent') = N + 1
          /\ sent' \in Seq(S)
          /\ sent'[N + 1] = call /\ \A n \in 1 .. N : sent'[n] = sent[n]
      BY <1>1, <2>1, SMT
    <2> QED
      BY <2>2 DEF S
  <1>8. \A n \in 1 .. N + 1 : n \in 1 .. N \/ n = N + 1
    BY <1>7, SMT
  <1>9. PageTypeOK'
    <2>1. calls' \subseteq DOMAIN sent'
      <3>1. calls \subseteq 1 .. N
        BY <1>2, <1>7 DEF PageTypeOK
      <3> QED
        BY <1>1, <1>7, <3>1, SMT
    <2> QED
      BY <1>1, <1>2, <1>5, <1>7, <2>1 DEF PageTypeOK, Card
  <1>10. \A n \in 1 .. N : /\ cards[sent[n].card].grey /\ sent[n].card # c
                           /\ sent[n].card \in DOMAIN cards
    BY <1>1, <1>2, <1>7, SentType DEF PageInv, Shown
  <1>11. OnePostPerCard'
    <2> SUFFICES ASSUME NEW m \in 1 .. N + 1, NEW n \in 1 .. N + 1,
                        sent'[m].card = sent'[n].card
                 PROVE  m = n
      BY <1>7 DEF OnePostPerCard
    <2>1. m \in 1 .. N /\ n \in 1 .. N => m = n
      BY <1>7 DEF PageInv, OnePostPerCard
    <2> QED
      BY <1>7, <1>8, <1>10, <2>1
  <1>12. Shown'
    <2> SUFFICES ASSUME NEW n \in 1 .. N + 1
                 PROVE  /\ cards'[sent'[n].card].grey /\ cards'[sent'[n].card].ip = sent'[n].ip
                        /\ cards'[1].grey /\ cards'[1].angles = sent'[n].body
      BY <1>7 DEF Shown
    <2>1. 1 \in DOMAIN cards
      BY <1>2, CardsType
    <2>2. CASE n = N + 1
      BY <1>4, <1>7, <2>1, <2>2
    <2>3. CASE n \in 1 .. N
      BY <1>4, <1>7, <1>10, <2>1, <2>3 DEF PageInv, Shown
    <2> QED
      BY <1>8, <2>2, <2>3
  <1>13. PostedByPage'
    <2>1. posted' = posted
      BY <1>1 DEF vars
    <2>2. \A n \in DOMAIN sent : n \in DOMAIN sent' /\ sent'[n] = sent[n]
      BY <1>7, SMT
    <2> QED
      BY <2>1, <2>2 DEF PageInv, PostedByPage
  <1> QED
    BY <1>3, <1>9, <1>11, <1>12, <1>13 DEF PageInv

\* What the service does leaves the page as it is, but for the fetches.
LEMMA ServiceInv ==
    ASSUME PageInv, [Next]_vars, cards' = cards, sent' = sent,
           calls' \subseteq calls, lost' \in 0 .. MaxLost, PostedByPage'
    PROVE  PageInv'
  <1>1. Inv'
    BY StepInv DEF PageInv
  <1>2. PageTypeOK'
    BY DEF PageInv, PageTypeOK
  <1> QED
    BY <1>1, <1>2 DEF PageInv, OnePostPerCard, Shown

\* A fetch that arrives is a request, with the entry the page has sent.
LEMMA ArriveStep ==
    ASSUME PageInv, NEW n \in calls, Arrive(n)
    PROVE  [Next]_vars /\ PostedByPage'
  <1>1. n \in DOMAIN sent /\ sent[n].body \in Bodies
    BY SentType DEF PageInv, PageTypeOK
  <1>2. sent' = sent
    BY DEF Arrive
  <1>3. CASE UNCHANGED vars
    BY <1>2, <1>3 DEF PageInv, PostedByPage, vars
  <1>4. CASE sent[n].ip \in Ips
    <2> DEFINE r == [method |-> "POST", ip |-> sent[n].ip, body |-> sent[n].body]
    <2>1. PICK w \in Workers : Receive(w, r)
      BY <1>4 DEF Arrive
    <2>2. r \in Requests
      BY <1>1, <1>4 DEF Requests
    <2>3. Next
      BY <2>1, <2>2 DEF Next
    <2>4. posted'["commands"] = posted["commands"] \cup {[ip |-> sent[n].ip, body |-> sent[n].body]}
      BY <2>1 DEF Receive, PageInv, Inv, TypeOK, Files
    <2>5. PostedByPage'
      BY <1>1, <1>2, <2>4 DEF PageInv, PostedByPage
    <2> QED
      BY <2>3, <2>5
  <1> QED
    BY <1>3, <1>4 DEF Arrive

\* A worker posts nothing itself.
LEMMA WorkStep ==
    ASSUME PageInv, NEW w \in Workers, Work(w) \/ Crash(w)
    PROVE  [Next]_vars /\ PostedByPage' /\ pageVars' = pageVars
  <1>1. (Serve(w) \/ Die(w)) /\ pageVars' = pageVars
    BY DEF Work, Crash
  <1>2. posted' = posted
    BY <1>1 DEF Serve, Die, Refuse, Fail, Prepare, Truncate, Write, WriteFails, Answer
  <1>3. PostedByPage'
    BY <1>1, <1>2 DEF PageInv, PostedByPage, pageVars
  <1> QED
    BY <1>1, <1>3 DEF Next

\* To the web service a step of the page is a request, or nothing.
LEMMA PageStep ==
    ASSUME PageInv, [PageNext]_<<vars, pageVars>>
    PROVE  PageInv' /\ [Next]_vars
  <1>1. CASE AjoutRobot \/ \E c \in DOMAIN cards : Type(c)
    BY <1>1, CardsInv, CardsStep
  <1>2. ASSUME NEW c \in DOMAIN cards, Finis(c)
        PROVE  PageInv' /\ [Next]_vars
    BY <1>2, FinisInv DEF Finis
  <1>3. ASSUME NEW n \in calls, Arrive(n)
        PROVE  PageInv' /\ [Next]_vars
    <2>1. /\ cards' = cards /\ sent' = sent /\ calls' \subseteq calls /\ lost' = lost
      BY <1>3 DEF Arrive
    <2>2. [Next]_vars /\ PostedByPage'
      BY <1>3, ArriveStep
    <2>3. lost' \in 0 .. MaxLost
      BY <2>1 DEF PageInv, PageTypeOK
    <2> QED
      BY <2>1, <2>2, <2>3, ServiceInv
  <1>4. ASSUME NEW n \in calls, Lose(n)
        PROVE  PageInv' /\ [Next]_vars
    <2>1. /\ cards' = cards /\ sent' = sent /\ calls' \subseteq calls
          /\ lost < MaxLost /\ lost' = lost + 1 /\ vars' = vars
      BY <1>4 DEF Lose
    <2>2. lost' \in 0 .. MaxLost
      BY <2>1, WebPageAssumption, SMT DEF PageInv, PageTypeOK
    <2>3. PostedByPage'
      BY <2>1 DEF PageInv, PostedByPage, vars
    <2> QED
      BY <2>1, <2>2, <2>3, ServiceInv
  <1>5. ASSUME NEW w \in Workers, Work(w) \/ Crash(w)
        PROVE  PageInv' /\ [Next]_vars
    <2>1. [Next]_vars /\ PostedByPage' /\ pageVars' = pageVars
      BY <1>5, WorkStep
    <2>2. cards' = cards /\ sent' = sent /\ calls' = calls /\ lost' = lost
      BY <2>1 DEF pageVars
    <2>3. lost' \in 0 .. MaxLost
      BY <2>2 DEF PageInv, PageTypeOK
    <2> QED
      BY <2>1, <2>2, <2>3, ServiceInv
  <1>6. CASE UNCHANGED <<vars, pageVars>>
    <2>1. vars' = vars /\ cards' = cards /\ sent' = sent /\ calls' = calls /\ lost' = lost
      BY <1>6 DEF pageVars
    <2>2. lost' \in 0 .. MaxLost /\ PostedByPage'
      BY <2>1 DEF PageInv, PageTypeOK, PostedByPage, vars
    <2> QED
      BY <2>1, <2>2, ServiceInv
  <1> QED
    BY <1>1, <1>2, <1>3, <1>4, <1>5, <1>6 DEF PageNext

-------------------------------------------------------------------------------
(* The theorems.                                                           *)

\* The operator, the network and the workers keep the invariant of the page
\* (gestionKinova.js:13-117).
THEOREM PageInvHolds == Page => []PageInv
  BY PageInitInv, PageStep, PTL DEF Page

\* Behind the page the service is what ZoneDepot says it is: every fetch that
\* arrives is one of its requests (API.php:9-62, gestionKinova.js:184-213).
THEOREM PageServes == Page => Spec
  <1>1. PageInit => Init
    BY DEF PageInit
  <1>2. PageInv /\ [PageNext]_<<vars, pageVars>> => [Next]_vars
    BY PageStep
  <1> QED
    BY <1>1, <1>2, PageInvHolds, PTL DEF Page, Spec

\* Every variable of the page keeps its type.
THEOREM PageTypeCorrect == Page => []PageTypeOK
  BY PageInvHolds, PTL DEF PageInv

\* However often Finis is pressed, and whatever cards are added in between, no
\* card is posted twice (gestionKinova.js:69-86, 105-117).
THEOREM CardIsPostedOnce == Page => []OnePostPerCard
  BY PageInvHolds, PTL DEF PageInv

\* An entry the service lists is what the press on a card posted that still
\* shows its address, greyed, for any number of workers and whatever they and
\* the network lose (gestionKinova.js:66-86).
THEOREM ListIsShown == Page => []ListedAsShown
  <1>1. PageInv => ListedAsShown
    <2> SUFFICES ASSUME PageInv,
                        NEW entry \in Stored(depot["commands"]) \
                                      UNION {Stored(deposit) : deposit \in Deposits}
                 PROVE  \E n \in DOMAIN sent :
                            /\ sent[n].ip = entry.ip /\ sent[n].body = entry.body
                            /\ cards[sent[n].card].grey /\ cards[sent[n].card].ip = entry.ip
      BY DEF ListedAsShown
    <2>1. entry \in posted["commands"]
      BY DEF PageInv, Inv, FilesClean, Clean, Files, Stored
    <2>2. PICK n \in DOMAIN sent : entry = [ip |-> sent[n].ip, body |-> sent[n].body]
      BY <2>1 DEF PageInv, PostedByPage
    <2> QED
      BY <2>2 DEF PageInv, Shown
  <1> QED
    BY <1>1, PageInvHolds, PTL

\* Until a file is disturbed, what the page posts for it takes effect in one
\* step or not at all, whatever the network loses (gestionKinova.js:184-213,
\* controller.LMG.php:59-97).
THEOREM PageIsAtomic == Page => Atomic
  BY PageServes, UndisturbedIsAtomic
===============================================================================

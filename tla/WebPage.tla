-------------------------------- MODULE WebPage --------------------------------
(***************************************************************************)
(* gestionKinova.js in front of the web service: an operator adds cards,   *)
(* types an address and angles into them and presses Finis, which greys    *)
(* every card and posts.  Posts are in flight together, arrive in any      *)
(* order or not at all, and nobody waits for their answers.                *)
(***************************************************************************)
EXTENDS ZoneDepot

CONSTANTS
    NotAddresses,  \* texts the pattern of API.php does not match
    BlankIp,       \* an empty input
    BlankAngles,   \* the body that empty inputs make
    MaxCards,      \* bound: cards
    MaxLost        \* bound: fetches that fail

ASSUME WebPageAssumption ==
    /\ NotAddresses \cap Ips = {} /\ BlankIp \in NotAddresses
    /\ BlankAngles \in Bodies
    /\ MaxCards \in Nat /\ MaxLost \in Nat

VARIABLES
    cards,  \* the children of zoneRobot: their inputs, and whether disabled
    sent,   \* history: the fetches, in the order they were begun
    calls,  \* those under way, as their places in sent
    lost    \* fetches that have failed

pageVars == <<cards, sent, calls, lost>>

\* The inputs and the button of every card are disabled.  The mutant disables
\* those of the first card only.
GriserOneCard(list) == <<[list[1] EXCEPT !.grey = TRUE]>> \o Tail(list)
GriserElement(list) == [c \in DOMAIN list |-> [list[c] EXCEPT !.grey = TRUE]]

\* getElementById("commandsDiv"): every card has one, the first is found.  The
\* mutant forgets to read the inputs in it.
CommandsDivWhole(list) == list[1]
CommandsDiv(list) == list[1].angles

-------------------------------------------------------------------------------
PageInit == Init /\ cards = <<>> /\ sent = <<>> /\ calls = {} /\ lost = 0

AjoutRobot ==
    /\ Len(cards) < MaxCards
    /\ cards' = Append(cards, [ip |-> BlankIp, angles |-> BlankAngles, grey |-> FALSE])
    /\ UNCHANGED <<sent, calls, lost, vars>>

Type(c) ==
    /\ ~cards[c].grey
    /\ \/ \E text \in Ips \cup NotAddresses : cards' = [cards EXCEPT ![c].ip = text]
       \/ \E angles \in Bodies : cards' = [cards EXCEPT ![c].angles = angles]
    /\ UNCHANGED <<sent, calls, lost, vars>>

\* The click on a card's button, up to the fetch that CreationRobot begins.
Finis(c) ==
    /\ ~cards[c].grey
    /\ cards' = GriserElement(cards)
    /\ sent' = Append(sent, [card |-> c, ip |-> cards[c].ip, body |-> CommandsDiv(cards)])
    /\ calls' = calls \cup {Len(sent')}
    /\ UNCHANGED <<lost, vars>>

\* The service answers whatever it answers: callAPI's promise is dropped.
Arrive(n) ==
    /\ \/ /\ sent[n].ip \in Ips
          /\ \E w \in Workers :
                Receive(w, [method |-> "POST", ip |-> sent[n].ip, body |-> sent[n].body])
       \/ sent[n].ip \notin Ips /\ UNCHANGED vars
    /\ calls' = calls \ {n}
    /\ UNCHANGED <<cards, sent, lost>>

\* fetch rejects.
Lose(n) ==
    /\ lost < MaxLost /\ lost' = lost + 1
    /\ calls' = calls \ {n}
    /\ UNCHANGED <<cards, sent, vars>>

Work(w) == Serve(w) /\ UNCHANGED pageVars
Crash(w) == Die(w) /\ UNCHANGED pageVars

PageNext ==
    \/ AjoutRobot
    \/ \E c \in DOMAIN cards : Type(c) \/ Finis(c)
    \/ \E n \in calls : Arrive(n) \/ Lose(n)
    \/ \E w \in Workers : Work(w) \/ Crash(w)

Page == PageInit /\ [][PageNext]_<<vars, pageVars>>

\* The network carries what it does not lose and the workers serve; the
\* operator may leave.
FairPage ==
    /\ Page
    /\ WF_<<vars, pageVars>>(\E n \in calls : Arrive(n))
    /\ \A w \in Workers : WF_<<vars, pageVars>>(Work(w))

-------------------------------------------------------------------------------
PageTypeOK ==
    /\ cards \in Seq([ip : Ips \cup NotAddresses, angles : Bodies, grey : BOOLEAN])
    /\ Len(cards) =< MaxCards
    /\ sent \in Seq([card : DOMAIN cards, ip : Ips \cup NotAddresses, body : Bodies])
    /\ calls \subseteq DOMAIN sent
    /\ lost \in 0 .. MaxLost

\* No card is posted twice, however quickly Finis is pressed again
\* (gestionKinova.js:69-86, 105-117).
OnePostPerCard == \A m, n \in DOMAIN sent : sent[m].card = sent[n].card => m = n

\* What the service has got from the page still stands there, greyed: an entry is
\* that of a button pressed on a card that shows its address and can no longer be
\* changed, and has the angles which that press posted, however late the post
\* arrived and whatever else was posted for the address.  Whose angles these are
\* is AnglesOfTheCard (gestionKinova.js:66-86, 105-117).
ListedAsShown ==
    \A entry \in Stored(depot["commands"]) \ UNION {Stored(deposit) : deposit \in Deposits} :
        \E n \in DOMAIN sent :
            LET card == cards[sent[n].card]
            IN /\ sent[n].ip = entry.ip /\ sent[n].body = entry.body
               /\ card.grey /\ card.ip = entry.ip

\* A card that was finished with an address gets its robot listed, by one worker
\* or several, unless a post is lost, or commands.json is disturbed: then nothing
\* says so, and the card stays grey (gestionKinova.js:70, 206-213).
FinishedIsListed ==
    \A ip \in Ips :
        (\E n \in DOMAIN sent : sent[n].ip = ip) ~>
            \/ lost > 0 \/ "commands" \in disturbed
            \/ \E entry \in Stored(depot["commands"]) : entry.ip = ip

\* gestionKinova.js:64, 70: a "Finis" button for each robot, which says that
\* the configuration of this robot is complete: what is posted for it is its
\* own angles.
AnglesOfTheCard == \A n \in DOMAIN sent : sent[n].body = cards[sent[n].card].angles
===============================================================================

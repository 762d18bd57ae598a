-------------------------- MODULE StandaloneProofs --------------------------
(***************************************************************************)
(* Proofs about the parts that share nothing with the rest: Sessions,      *)
(* Website, Scans, Accounts, TripWorkflow and Seeding, for any values of   *)
(* their constants.                                                        *)
(*                                                                         *)
(* Sessions: what a chain goes on with is either a token that is good or a *)
(* request about to mint one, whose own token is spent; a step that spends *)
(* a good token takes the one end the chain has, and spending a token      *)
(* twice puts the chain aside.                                             *)
(*                                                                         *)
(* Website: a booking whose event is still to come has its shipment, and   *)
(* that is where it was stored unless it is put behind (EventInv).         *)
(*                                                                         *)
(* Scans: a try sends a notification only while its member is still to be  *)
(* told, and the tries before it sent at most one each (SentRight).        *)
(*                                                                         *)
(* Accounts: what a worker has read of an account, while nobody has        *)
(* overtaken anybody, fits the statement it comes to next (Fits), and      *)
(* nothing is known of an e-mail without an account (NoAccount).           *)
(*                                                                         *)
(* TripWorkflow: a trip that was read under way still has the units it     *)
(* had, and has come no less far, or its units are loose (AheadInv); a     *)
(* unit ON_TRIP has an active trip, and who has read that trip as it is    *)
(* has read that the unit is ON_TRIP (HeldInv).                            *)
(*                                                                         *)
(* Seeding: the program is a sequence of tables, by induction on the       *)
(* script; a unique key has one row, a row that a run awaits was not there *)
(* when it looked, and a run that was refused had its row or lost it       *)
(* (RunInv, RowInv).                                                       *)
(***************************************************************************)
EXTENDS Accounts, Sessions, Seeding, Website, Scans, TripWorkflow, TLAPS, WellFoundedInduction

Holds(t, root) == Of(t, root) /\ ~token[t].spent
Mints(c, root) == Pending(c, "mint") /\ Of(pending[c].token, root)

\* Tokens have roots that exist, requests have tokens that exist, and the token
\* of a request that is about to mint another is spent.
Trees ==
  /\ \A t \in Tokens : token[t] # NoToken => token[token[t].root] # NoToken
  /\ \A c \in Clients : pending[c] # NoToken =>
       /\ token[pending[c].token] # NoToken
       /\ pending[c].op = "mint" => token[pending[c].token].spent
  /\ \A t \in over \cup contested : token[t] # NoToken

\* The two properties, end by end.
OneEnd(root) ==
  /\ \A t, u \in Tokens : Holds(t, root) /\ Holds(u, root) => t = u
  /\ \A c, d \in Clients : Mints(c, root) /\ Mints(d, root) => c = d
  /\ \A t \in Tokens, c \in Clients : ~(Holds(t, root) /\ Mints(c, root))

NoEnd(root) ==
  /\ \A t \in Tokens : ~Holds(t, root)
  /\ \A c \in Clients : ~Mints(c, root)

Chains == \A root \in Tokens \ contested : OneEnd(root) /\ (root \in over => NoEnd(root))

SessionsInv == SessionsTypeOK /\ Trees /\ Chains

-----------------------------------------------------------------------------
\* The ends of a chain are those two kinds.
LEMMA EndsAre ==
  ASSUME NEW root
  PROVE  Ends(root) = {<<"token", t>> : t \in {u \in Tokens : Holds(u, root)}}
                      \cup {<<"request", c>> : c \in {d \in Clients : Mints(d, root)}}
BY DEF Ends, Holds, Mints

LEMMA SessionsImplied ==
  ASSUME SessionsInv
  PROVE  OneTokenPerLogin /\ LogoutHolds
<1>1. ASSUME NEW root \in Tokens \ contested, NEW a \in Ends(root), NEW b \in Ends(root)
      PROVE  a = b
  <2>1. OneEnd(root)
    BY <1>1 DEF SessionsInv, Chains
  <2>2. QED
    BY <1>1, <2>1, EndsAre DEF OneEnd
<1>2. ASSUME NEW root \in over \ contested
      PROVE  Ends(root) = {}
  <2>1. root \in Tokens /\ NoEnd(root)
    BY <1>2 DEF SessionsInv, Chains, SessionsTypeOK
  <2>2. QED
    BY <2>1, EndsAre DEF NoEnd
<1>3. QED
  BY <1>1, <1>2 DEF OneTokenPerLogin, LogoutHolds

-----------------------------------------------------------------------------
LEMMA SessionsStart == SessionsInit => SessionsInv
BY SessionsAssumption
DEF SessionsInit, SessionsInv, SessionsTypeOK, Trees, Chains, OneEnd, NoEnd, Holds, Mints, Of, Pending

LEMMA NewToken ==
  ASSUME NEW root \in Tokens, NEW spent \in BOOLEAN
  PROVE  [root |-> root, spent |-> spent] \in Token /\ [root |-> root, spent |-> spent] # NoToken
<1>1. [root |-> root, spent |-> spent] \in Token
  BY DEF Token
<1>2. QED
  BY <1>1, SessionsAssumption

\* A token that does not exist becomes the first of a chain of its own.
LEMMA NewChain ==
  ASSUME SessionsInv, NEW t \in Tokens, Mint(t, t), UNCHANGED <<over, contested>>,
         pending' \in [Clients -> TokenRequest \cup {NoToken}],
         \A c \in Clients : pending'[c] # pending[c] =>
           pending[c] = NoToken /\ pending'[c] = [op |-> "track", token |-> t],
         tracked' \subseteq Tokens
  PROVE  SessionsInv'
<1> USE SessionsAssumption DEF SessionsInv
<1>1. token' = [token EXCEPT ![t] = [root |-> t, spent |-> FALSE]] /\ token[t] = NoToken
  BY DEF Mint
<1>2. SessionsTypeOK'
  BY <1>1 DEF SessionsTypeOK, Token
<1>3. Trees'
  <2>1. \A u \in Tokens : token[u] # NoToken => u # t /\ token'[u] = token[u]
    BY <1>1 DEF SessionsTypeOK
  <2>2. token'[t] = [root |-> t, spent |-> FALSE] /\ token'[t] # NoToken
    BY <1>1, NewToken DEF SessionsTypeOK
  <2>3. ASSUME NEW u \in Tokens, token'[u] # NoToken
        PROVE  token'[token'[u].root] # NoToken
    BY <2>1, <2>2, <2>3, <1>1 DEF SessionsTypeOK, Trees, Token
  <2>4. ASSUME NEW c \in Clients, pending'[c] # NoToken
        PROVE  token'[pending'[c].token] # NoToken
               /\ (pending'[c].op = "mint" => token'[pending'[c].token].spent)
    BY <2>1, <2>2, <2>4 DEF SessionsTypeOK, Trees, TokenRequest
  <2>5. QED
    BY <2>1, <2>3, <2>4 DEF SessionsTypeOK, Trees
<1>4. \A u \in Tokens, root \in Tokens : root # t => (Holds(u, root)' <=> Holds(u, root))
  BY <1>1 DEF SessionsTypeOK, Holds, Of, Token
<1>5. \A c \in Clients, root \in Tokens : Mints(c, root)' <=> (Mints(c, root) /\ root # t)
  BY <1>1 DEF SessionsTypeOK, Trees, Mints, Pending, Of, Token, TokenRequest
<1>6. \A u \in Tokens : Holds(u, t)' => u = t
  BY <1>1 DEF SessionsTypeOK, Trees, Holds, Of, Token
<1>7. t \notin over
  BY <1>1 DEF Trees
<1>8. Chains'
  BY <1>4, <1>5, <1>6, <1>7 DEF Chains, OneEnd, NoEnd
<1>9. QED
  BY <1>2, <1>3, <1>8

\* A request ends, or one begins that has verified a token.
LEMMA RequestChange ==
  ASSUME SessionsInv, UNCHANGED <<token, over, contested>>,
         pending' \in [Clients -> TokenRequest \cup {NoToken}],
         \A c \in Clients : pending'[c] # pending[c] =>
           \/ pending'[c] = NoToken
           \/ pending'[c].op # "mint" /\ token[pending'[c].token] # NoToken,
         tracked' \subseteq Tokens
  PROVE  SessionsInv'
<1> USE SessionsAssumption DEF SessionsInv
<1>1. SessionsTypeOK'
  BY DEF SessionsTypeOK
<1>2. Trees'
  BY DEF SessionsTypeOK, Trees
<1>3. \A c \in Clients, root \in Tokens : Mints(c, root)' => Mints(c, root)
  BY DEF SessionsTypeOK, Mints, Pending, Of
<1>4. \A u \in Tokens, root \in Tokens : Holds(u, root)' <=> Holds(u, root)
  BY DEF Holds, Of
<1>5. Chains'
  BY <1>3, <1>4 DEF Chains, OneEnd, NoEnd
<1>6. QED
  BY <1>1, <1>2, <1>5

\* A token is spent: the chain loses its one end, or has spent the token twice.
LEMMA Spent ==
  ASSUME SessionsInv, NEW t \in Tokens, token[t] # NoToken, Blacklist(t)
  PROVE  /\ token' \in [Tokens -> Token \cup {NoToken}]
         /\ contested' \subseteq Tokens /\ contested \subseteq contested'
         /\ \A u \in contested' : token'[u] # NoToken
         /\ \A u \in Tokens \ {t} : token'[u] = token[u]
         /\ token'[t] # NoToken /\ token'[t].root = token[t].root /\ token'[t].spent
         /\ token[t].root \notin contested' => Holds(t, token[t].root)
<1> USE SessionsAssumption DEF SessionsInv, Blacklist
<1>1. token[t] \in Token
  BY DEF SessionsTypeOK
<1>2. /\ token' \in [Tokens -> Token \cup {NoToken}]
      /\ token'[t] = [root |-> token[t].root, spent |-> TRUE]
      /\ \A u \in Tokens \ {t} : token'[u] = token[u]
  BY <1>1 DEF SessionsTypeOK, Token
<1>3. token'[t] # NoToken
  BY <1>1, <1>2, NewToken DEF Token
<1>4. contested' \subseteq Tokens /\ contested \subseteq contested'
  BY <1>1 DEF SessionsTypeOK, Token
<1>5. \A u \in contested' : token[u] # NoToken
  BY DEF Trees
<1>6. token[t].root \notin contested' => Holds(t, token[t].root)
  BY DEF Holds, Of
<1>7. QED
  BY <1>1, <1>2, <1>3, <1>4, <1>5, <1>6 DEF SessionsTypeOK, Token

LEMMA RotateStep ==
  ASSUME SessionsInv, NEW c \in Clients, Rotate(c)
  PROVE  SessionsInv'
<1>1. SessionsTypeOK /\ Trees /\ Chains
  BY DEF SessionsInv
<1>2. PICK t \in Tokens : t = pending[c].token
  BY <1>1, SessionsAssumption DEF Rotate, Logout, Pending, SessionsTypeOK, TokenRequest
<1>3. pending[c] \in TokenRequest /\ t \in Tokens /\ token[t] # NoToken /\ Blacklist(t)
  BY <1>1, <1>2, SessionsAssumption DEF Rotate, Pending, SessionsTypeOK, Trees, TokenRequest
<1>4. /\ token' \in [Tokens -> Token \cup {NoToken}]
      /\ contested' \subseteq Tokens /\ contested \subseteq contested'
      /\ \A u \in contested' : token'[u] # NoToken
      /\ \A u \in Tokens \ {t} : token'[u] = token[u]
      /\ token'[t] # NoToken /\ token'[t].root = token[t].root /\ token'[t].spent
      /\ token[t].root \notin contested' => Holds(t, token[t].root)
  BY <1>3, Spent
<1>5. /\ pending' \in [Clients -> TokenRequest \cup {NoToken}]
      /\ pending'[c] = [op |-> "mint", token |-> t]
      /\ \A d \in Clients \ {c} : pending'[d] = pending[d]
      /\ over' = over /\ tracked' = tracked
  BY <1>1, <1>2, <1>3 DEF Rotate, SessionsTypeOK, TokenRequest
<1>6. SessionsTypeOK'
  BY <1>3, <1>5, <1>1, <1>4 DEF SessionsTypeOK
<1>7. Trees'
  <2>1. \A u \in Tokens : token'[u] # NoToken => token'[token'[u].root] # NoToken
    BY <1>3, <1>1, <1>4 DEF SessionsTypeOK, Trees, Token
  <2>2. \A d \in Clients : pending'[d] # NoToken =>
          /\ token'[pending'[d].token] # NoToken
          /\ pending'[d].op = "mint" => token'[pending'[d].token].spent
    BY <1>3, <1>5, <1>1, <1>4 DEF SessionsTypeOK, Trees, TokenRequest
  <2>3. QED
    BY <1>3, <1>5, <2>1, <2>2, <1>1, <1>4 DEF SessionsTypeOK, Trees
<1>8. \A u \in Tokens, root \in Tokens : Holds(u, root)' <=> (Holds(u, root) /\ u # t)
  BY <1>3, <1>1, <1>4 DEF Holds, Of
<1>9. \A d \in Clients, root \in Tokens :
        Mints(d, root)' <=> (Mints(d, root) \/ (d = c /\ root = token[t].root))
  <2>1. pending'[c] # NoToken /\ ~Pending(c, "mint")
    BY <1>5, <1>3, SessionsAssumption DEF Rotate, Pending, TokenRequest
  <2>2. \A root \in Tokens : ~Mints(c, root) /\ (Mints(c, root)' <=> root = token[t].root)
    BY <2>1, <1>5, <1>4, <1>3 DEF Mints, Pending, Of
  <2>3. \A d \in Clients \ {c}, root \in Tokens : Mints(d, root)' <=> Mints(d, root)
    <3>1. \A d \in Clients \ {c}, root \in Tokens :
            pending[d] # NoToken => (Of(pending[d].token, root)' <=> Of(pending[d].token, root))
      BY <1>1, <1>3, <1>4, <1>5 DEF Of, SessionsTypeOK, TokenRequest
    <3>2. QED
      BY <3>1, <1>5 DEF Mints, Pending, Of
  <2>4. QED
    BY <2>2, <2>3
<1>10. \A root \in Tokens : Holds(t, root) => root = token[t].root
  BY DEF Holds, Of
<1>11. Chains'
  BY <1>3, <1>5, <1>8, <1>9, <1>10, <1>1, <1>4 DEF Chains, OneEnd, NoEnd
<1>12. QED
  BY <1>6, <1>7, <1>11 DEF SessionsInv

LEMMA LogoutStep ==
  ASSUME SessionsInv, NEW c \in Clients, Logout(c)
  PROVE  SessionsInv'
<1>1. SessionsTypeOK /\ Trees /\ Chains
  BY DEF SessionsInv
<1>2. PICK t \in Tokens : t = pending[c].token
  BY <1>1, SessionsAssumption DEF Rotate, Logout, Pending, SessionsTypeOK, TokenRequest
<1>3. pending[c] \in TokenRequest /\ t \in Tokens /\ token[t] \in Token /\ token[t] # NoToken
      /\ Blacklist(t)
  BY <1>1, <1>2, SessionsAssumption DEF Logout, Pending, SessionsTypeOK, Trees, TokenRequest
<1>4. /\ token' \in [Tokens -> Token \cup {NoToken}]
      /\ contested' \subseteq Tokens /\ contested \subseteq contested'
      /\ \A u \in contested' : token'[u] # NoToken
      /\ \A u \in Tokens \ {t} : token'[u] = token[u]
      /\ token'[t] # NoToken /\ token'[t].root = token[t].root /\ token'[t].spent
      /\ token[t].root \notin contested' => Holds(t, token[t].root)
  BY <1>3, Spent
<1>5. /\ pending' \in [Clients -> TokenRequest \cup {NoToken}]
      /\ pending'[c] = NoToken
      /\ \A d \in Clients \ {c} : pending'[d] = pending[d]
      /\ over' = over \cup {token[t].root} /\ tracked' = tracked
  BY <1>1, <1>2, <1>3 DEF Logout, Finish, SessionsTypeOK
<1>6. SessionsTypeOK'
  BY <1>3, <1>5, <1>1, <1>4 DEF SessionsTypeOK, Token
<1>7. Trees'
  <2>1. \A u \in Tokens : token'[u] # NoToken => token'[token'[u].root] # NoToken
    BY <1>3, <1>1, <1>4 DEF SessionsTypeOK, Trees, Token
  <2>2. \A d \in Clients : pending'[d] # NoToken =>
          /\ token'[pending'[d].token] # NoToken
          /\ pending'[d].op = "mint" => token'[pending'[d].token].spent
    BY <1>3, <1>5, <1>1, <1>4 DEF SessionsTypeOK, Trees, TokenRequest
  <2>3. QED
    BY <1>3, <1>5, <2>1, <2>2, <1>1, <1>4 DEF SessionsTypeOK, Trees, Token
<1>8. \A u \in Tokens, root \in Tokens : Holds(u, root)' <=> (Holds(u, root) /\ u # t)
  BY <1>3, <1>1, <1>4 DEF Holds, Of
<1>9. \A d \in Clients, root \in Tokens : Mints(d, root)' => Mints(d, root)
  BY <1>2, <1>3, <1>5, <1>1, <1>4 DEF Mints, Pending, Of, SessionsTypeOK, TokenRequest
<1>10. \A root \in Tokens : Holds(t, root) => root = token[t].root
  BY DEF Holds, Of
<1>11. Chains'
  BY <1>3, <1>5, <1>8, <1>9, <1>10, <1>1, <1>4 DEF Chains, OneEnd, NoEnd
<1>12. QED
  BY <1>6, <1>7, <1>11 DEF SessionsInv

\* The request that spent a token becomes the next token of its chain.
LEMMA RefreshStep ==
  ASSUME SessionsInv, NEW c \in Clients, NEW u \in Tokens, Refresh(c, u)
  PROVE  SessionsInv'
<1> DEFINE root == token[pending[c].token].root
<1> USE SessionsAssumption DEF SessionsInv
<1>1. /\ pending[c] \in TokenRequest /\ pending[c].token \in Tokens
      /\ token[pending[c].token] \in Token /\ root \in Tokens /\ token[root] # NoToken
      /\ Mints(c, root) /\ token[u] = NoToken
  BY DEF Refresh, Pending, Mint, Mints, Of, SessionsTypeOK, Trees, Token, TokenRequest
<1>2. /\ token' \in [Tokens -> Token \cup {NoToken}]
      /\ token'[u] = [root |-> root, spent |-> FALSE]
      /\ \A v \in Tokens \ {u} : token'[v] = token[v]
      /\ pending' \in [Clients -> TokenRequest \cup {NoToken}]
      /\ pending'[c] = NoToken
      /\ \A d \in Clients \ {c} : pending'[d] = pending[d]
      /\ over' = over /\ contested' = contested /\ tracked' = tracked
  BY <1>1 DEF Refresh, Mint, Finish, SessionsTypeOK, Token
<1>3. token'[u] # NoToken
  BY <1>1, <1>2, NewToken
<1>4. SessionsTypeOK'
  BY <1>2 DEF SessionsTypeOK
<1>5. Trees'
  <2>1. \A v \in Tokens : token'[v] # NoToken => token'[token'[v].root] # NoToken
    BY <1>1, <1>2, <1>3 DEF SessionsTypeOK, Trees, Token
  <2>2. \A d \in Clients : pending'[d] # NoToken =>
          /\ token'[pending'[d].token] # NoToken
          /\ pending'[d].op = "mint" => token'[pending'[d].token].spent
    BY <1>1, <1>2 DEF SessionsTypeOK, Trees, TokenRequest
  <2>3. QED
    BY <1>1, <1>2, <1>3, <2>1, <2>2 DEF SessionsTypeOK, Trees
<1>6. \A v \in Tokens, r \in Tokens : Holds(v, r)' <=> (Holds(v, r) \/ (v = u /\ r = root))
  BY <1>1, <1>2, <1>3 DEF Holds, Of
<1>7. \A d \in Clients, r \in Tokens : Mints(d, r)' <=> (Mints(d, r) /\ d # c)
  BY <1>1, <1>2 DEF Mints, Pending, Of, SessionsTypeOK, Trees, TokenRequest
<1>8. Chains'
  BY <1>1, <1>2, <1>6, <1>7 DEF Chains, OneEnd, NoEnd
<1>9. QED
  BY <1>4, <1>5, <1>8

LEMMA SessionsStep == SessionsInv /\ [SessionsNext]_sessionVars => SessionsInv'
<1> SUFFICES ASSUME SessionsInv, [SessionsNext]_sessionVars PROVE SessionsInv'
  OBVIOUS
<1> USE DEF SessionsInv, SessionsTypeOK
<1>1. ASSUME NEW c \in Clients, NEW t \in Tokens, Login(c, t) PROVE SessionsInv'
  BY <1>1, NewChain, SessionsAssumption DEF Login, Start, TokenRequest
<1>2. ASSUME NEW t \in Tokens, Issue(t) PROVE SessionsInv'
  BY <1>2, NewChain DEF Issue
<1>3. ASSUME NEW c \in Clients, Track(c) PROVE SessionsInv'
  BY <1>3, RequestChange DEF Track, Finish, Pending, TokenRequest
<1>4. ASSUME NEW c \in Clients, NEW t \in Tokens, NEW op \in {"refresh", "logout"}, Verify(c, op, t)
      PROVE  SessionsInv'
  BY <1>4, RequestChange DEF Verify, Start, Good, TokenRequest
<1>5. ASSUME NEW c \in Clients, Drop(c) PROVE SessionsInv'
  BY <1>5, RequestChange DEF Drop, Finish
<1>6. CASE UNCHANGED sessionVars
  BY <1>6, RequestChange DEF sessionVars
<1>7. QED
  BY <1>1, <1>2, <1>3, <1>4, <1>5, <1>6, RotateStep, LogoutStep, RefreshStep DEF SessionsNext

\* Sessions: tokens, requests and histories keep their types.
THEOREM SessionsTypeCorrect == SessionsSpec => []SessionsTypeOK
<1>1. SessionsInv => SessionsTypeOK
  BY DEF SessionsInv
<1>2. QED
  BY <1>1, SessionsStart, SessionsStep, PTL DEF SessionsSpec

\* Sessions: a login is good for one refresh token at a time, for any number of
\* clients and tokens, unless a token was spent twice.
THEOREM RotationCorrect == SessionsSpec => []OneTokenPerLogin
BY SessionsStart, SessionsStep, SessionsImplied, PTL DEF SessionsSpec

\* Sessions: after a logout with a token that was good nothing of the chain is
\* left, unless a token of it was spent twice.
THEOREM LogoutCorrect == SessionsSpec => []LogoutHolds
BY SessionsStart, SessionsStep, SessionsImplied, PTL DEF SessionsSpec

-----------------------------------------------------------------------------
\* A booking whose event is still to come has its shipment, and nobody has moved
\* the shipment unnoticed.
EventInv ==
  \A g \in Guests : AtStep(g, "event") =>
    /\ parcel[booking[g].code] # Nothing /\ parcel[booking[g].code].by = g
    /\ booking[g].code \notin behind => parcel[booking[g].code].status = "BOOKED"

WebsiteInv == WebsiteTypeOK /\ EventInv /\ BookingsHold

LEMMA WebsiteStart == WebsiteInit => WebsiteInv
BY WebsiteAssumption DEF WebsiteInit, WebsiteInv, WebsiteTypeOK, EventInv, BookingsHold, AtStep

\* The kinds of bookings.
LEMMA BookingShape ==
  ASSUME NEW b \in Booking
  PROVE  /\ b # Nothing
         /\ b.step = "slug" => b.address \in Addresses
         /\ b.step = "draw" => b.company \in Companies
         /\ b.step = "store" => b.company \in Companies /\ b.code \in Codes
         /\ b.step = "event" => b.code \in Codes
BY WebsiteAssumption DEF Booking

\* A booking begins, goes on or ends before it has a shipment.
LEMMA BookingStep ==
  ASSUME WebsiteInv, NEW g \in Guests, NEW b \in Booking \cup {Nothing},
         booking' = [booking EXCEPT ![g] = b], b = Nothing \/ b.step # "event",
         UNCHANGED <<open, site, parcel, worked, given, behind>>
  PROVE  WebsiteInv'
<1> USE DEF WebsiteInv
<1>1. WebsiteTypeOK'
  BY DEF WebsiteTypeOK
<1>2. EventInv' /\ BookingsHold'
  BY DEF WebsiteTypeOK, EventInv, BookingsHold, AtStep
<1>3. QED
  BY <1>1, <1>2

\* Companies and sites change, bookings and shipments do not.
LEMMA SiteStep ==
  ASSUME WebsiteInv, open' \subseteq Companies, site' \in [Sites -> Site \cup {Nothing}],
         worked' \in 0..MaxWork, UNCHANGED <<parcel, booking, given, behind>>
  PROVE  WebsiteInv'
BY DEF WebsiteInv, WebsiteTypeOK, EventInv, BookingsHold, AtStep

\* Somebody works on a shipment: the event of its booking is left as it was, and
\* so is its status unless the shipment is put behind.
LEMMA ParcelStep ==
  ASSUME WebsiteInv, NEW code \in Codes, NEW new \in Parcel, parcel[code] # Nothing,
         parcel' = [parcel EXCEPT ![code] = new], new.by = parcel[code].by,
         behind \subseteq behind', behind' \subseteq Codes, worked' \in 0..MaxWork,
         code \notin behind' =>
           /\ parcel[code].shown = parcel[code].status => new.shown = new.status
           /\ \A g \in Guests : AtStep(g, "event") /\ booking[g].code = code =>
                new.status = parcel[code].status,
         UNCHANGED <<open, site, booking, given>>
  PROVE  WebsiteInv'
<1> USE DEF WebsiteInv
<1>1. WebsiteTypeOK'
  BY DEF WebsiteTypeOK
<1>2. new # Nothing
  BY WebsiteAssumption
<1>3. EventInv'
  BY <1>2, BookingShape DEF WebsiteTypeOK, EventInv, AtStep
<1>4. BookingsHold'
  BY <1>2 DEF WebsiteTypeOK, BookingsHold
<1>5. QED
  BY <1>1, <1>3, <1>4

LEMMA StoreStep ==
  ASSUME WebsiteInv, NEW g \in Guests, Store(g)
  PROVE  WebsiteInv'
<1>1. PICK code \in Codes, owner \in Companies :
        code = booking[g].code /\ owner = booking[g].company
  BY BookingShape DEF WebsiteInv, WebsiteTypeOK, Store, AtStep
<1>2. CASE parcel[code] # Nothing
  BY <1>1, <1>2, BookingStep DEF Store, Close
<1>3. CASE parcel[code] = Nothing
  <2> DEFINE new == [company |-> owner, by |-> g, live |-> TRUE, status |-> "BOOKED", shown |-> "none"]
             next == [step |-> "event", code |-> code]
  <2> USE DEF WebsiteInv
  <2>1. new \in Parcel /\ new # Nothing /\ new.by = g /\ new.status = "BOOKED"
    <3>1. new \in Parcel
      BY DEF Parcel
    <3>2. QED
      BY <3>1, WebsiteAssumption
  <2>2. next \in Booking /\ next # Nothing /\ next.code = code
    <3>1. next \in Booking
      BY DEF Booking
    <3>2. QED
      BY <3>1, WebsiteAssumption
  <2> HIDE DEF new, next
  <2>3. parcel' = [parcel EXCEPT ![code] = new] /\ booking' = [booking EXCEPT ![g] = next]
        /\ UNCHANGED <<open, site, worked, given, behind>>
    BY <1>1, <1>3 DEF Store, new, next
  <2>4. WebsiteTypeOK'
    BY <2>1, <2>2, <2>3 DEF WebsiteTypeOK
  <2>5. EventInv'
    BY <1>3, <2>1, <2>2, <2>3, BookingShape DEF WebsiteTypeOK, EventInv, AtStep
  <2>6. BookingsHold'
    BY <1>3, <2>1, <2>3 DEF WebsiteTypeOK, BookingsHold
  <2>7. QED
    BY <2>4, <2>5, <2>6
<1>4. QED
  BY <1>2, <1>3

LEMMA EventStep ==
  ASSUME WebsiteInv, NEW g \in Guests, Event(g)
  PROVE  WebsiteInv'
<1> USE DEF WebsiteInv
<1>1. PICK code \in Codes : code = booking[g].code
  BY BookingShape DEF WebsiteTypeOK, Event, AtStep
<1>2. /\ parcel[code] \in Parcel /\ parcel[code].by = g
      /\ code \notin behind => parcel[code].status = "BOOKED"
  BY <1>1 DEF WebsiteTypeOK, EventInv, Event
<1>3. PICK new \in Parcel :
        /\ new = [parcel[code] EXCEPT !.shown = "BOOKED"]
        /\ new.by = g /\ new.shown = "BOOKED" /\ new.status = parcel[code].status
  <2>1. [parcel[code] EXCEPT !.shown = "BOOKED"] \in Parcel
        /\ [parcel[code] EXCEPT !.shown = "BOOKED"].by = g
        /\ [parcel[code] EXCEPT !.shown = "BOOKED"].shown = "BOOKED"
        /\ [parcel[code] EXCEPT !.shown = "BOOKED"].status = parcel[code].status
    BY <1>2 DEF Parcel
  <2>2. QED
    BY <2>1
<1>4. /\ new # Nothing
      /\ parcel' = [parcel EXCEPT ![code] = new] /\ booking' = [booking EXCEPT ![g] = Nothing]
      /\ given' = given \cup {<<g, code>>}
      /\ UNCHANGED <<open, site, worked, behind>>
  BY <1>1, <1>3, WebsiteAssumption DEF Event, Close
<1>5. WebsiteTypeOK'
  BY <1>4 DEF WebsiteTypeOK
<1>6. EventInv'
  BY <1>2, <1>3, <1>4, BookingShape DEF WebsiteTypeOK, EventInv, AtStep
<1>7. BookingsHold'
  BY <1>2, <1>3, <1>4 DEF WebsiteTypeOK, BookingsHold
<1>8. QED
  BY <1>5, <1>6, <1>7

LEMMA WebsiteStep == WebsiteInv /\ [WebsiteNext]_siteVars => WebsiteInv'
<1> SUFFICES ASSUME WebsiteInv, [WebsiteNext]_siteVars PROVE WebsiteInv'
  OBVIOUS
<1>1. CASE UNCHANGED siteVars
  BY <1>1 DEF siteVars, WebsiteInv, WebsiteTypeOK, EventInv, BookingsHold, AtStep
<1>2. ASSUME NEW g \in Guests, NEW address \in Addresses, FindSite(g, address)
      PROVE  WebsiteInv'
  <2>1. /\ [step |-> "slug", address |-> address] \in Booking
        /\ \A owner \in Companies : [step |-> "draw", company |-> owner] \in Booking
    BY DEF Booking
  <2>2. \/ \E owner \in Companies : Draw(g, owner)
        \/ booking' = [booking EXCEPT ![g] = [step |-> "slug", address |-> address]]
    BY <1>2 DEF FindSite, WebsiteInv, WebsiteTypeOK
  <2>3. PICK b \in Booking : booking' = [booking EXCEPT ![g] = b] /\ b.step # "event"
    <3>1. ASSUME NEW owner \in Companies, Draw(g, owner)
          PROVE  \E b \in Booking : booking' = [booking EXCEPT ![g] = b] /\ b.step # "event"
      BY <3>1, <2>1 DEF Draw
    <3>2. CASE booking' = [booking EXCEPT ![g] = [step |-> "slug", address |-> address]]
      <4> DEFINE b == [step |-> "slug", address |-> address]
      <4>1. b \in Booking /\ b.step # "event"
        BY <2>1
      <4>2. QED
        BY <3>2, <4>1
    <3>3. QED
      BY <2>2, <3>1, <3>2
  <2>4. QED
    BY <1>2, <2>3, BookingStep DEF FindSite
<1>3. ASSUME NEW g \in Guests, FindSlug(g)
      PROVE  WebsiteInv'
  <2>1. \A owner \in Companies : [step |-> "draw", company |-> owner] \in Booking
    BY DEF Booking
  <2>2. PICK b \in Booking \cup {Nothing} :
          booking' = [booking EXCEPT ![g] = b] /\ (b = Nothing \/ b.step # "event")
    BY <1>3, <2>1 DEF FindSlug, Draw, Close, WebsiteInv, WebsiteTypeOK
  <2>3. QED
    BY <1>3, <2>2, BookingStep DEF FindSlug
<1>4. ASSUME NEW g \in Guests, Abandon(g)
      PROVE  WebsiteInv'
  BY <1>4, BookingStep DEF Abandon, Close
<1>5. ASSUME NEW g \in Guests, NEW code \in Codes, DrawCode(g, code)
      PROVE  WebsiteInv'
  <2> DEFINE b == [step |-> "store", company |-> booking[g].company, code |-> code]
  <2>1. booking[g].company \in Companies
    BY <1>5, BookingShape DEF DrawCode, AtStep, WebsiteInv, WebsiteTypeOK
  <2>2. b \in Booking
    BY <2>1 DEF Booking
  <2>3. QED
    BY <1>5, <2>2, BookingStep DEF DrawCode
<1>6. ASSUME NEW s \in Sites, NEW address \in Addresses,
             MoveSite(s, address) \/ \E owner \in Companies : CreateSite(s, owner, address)
      PROVE  WebsiteInv'
  <2>1. worked' \in 0..MaxWork /\ open' = open
    BY <1>6, WebsiteAssumption DEF MoveSite, CreateSite, Labour, WebsiteInv, WebsiteTypeOK
  <2>2. site' \in [Sites -> Site \cup {Nothing}]
    <3>1. CASE MoveSite(s, address)
      <4>1. [site[s] EXCEPT !.subdomain = address] \in Site
        BY <3>1 DEF MoveSite, LiveSite, WebsiteInv, WebsiteTypeOK, Site
      <4>2. QED
        BY <3>1, <4>1 DEF MoveSite, WebsiteInv, WebsiteTypeOK
    <3>2. ASSUME NEW owner \in Companies, CreateSite(s, owner, address)
          PROVE  site' \in [Sites -> Site \cup {Nothing}]
      BY <3>2 DEF CreateSite, WebsiteInv, WebsiteTypeOK, Site
    <3>3. QED
      BY <1>6, <3>1, <3>2
  <2>3. QED
    BY <1>6, <2>1, <2>2, SiteStep DEF MoveSite, CreateSite, WebsiteInv, WebsiteTypeOK
<1>7. ASSUME NEW s \in Sites, DeleteSite(s)
      PROVE  WebsiteInv'
  <2>1. worked' \in 0..MaxWork /\ open' = open
    BY <1>7, WebsiteAssumption DEF DeleteSite, Labour, WebsiteInv, WebsiteTypeOK
  <2>2. site' \in [Sites -> Site \cup {Nothing}]
    BY <1>7 DEF DeleteSite, LiveSite, WebsiteInv, WebsiteTypeOK, Site
  <2>3. QED
    BY <1>7, <2>1, <2>2, SiteStep DEF DeleteSite, WebsiteInv, WebsiteTypeOK
<1>8. ASSUME NEW owner \in Companies, ChangeStatus(owner)
      PROVE  WebsiteInv'
  BY <1>8, SiteStep, WebsiteAssumption DEF ChangeStatus, Labour, WebsiteInv, WebsiteTypeOK
<1>9. ASSUME NEW code \in Codes, NEW status \in {"BOOKED", "moved"},
             SaveParcel(code, status) \/ WriteEvent(code, status)
      PROVE  WebsiteInv'
  <2>1. parcel[code] \in Parcel /\ parcel[code] # Nothing /\ worked' \in 0..MaxWork
    BY <1>9, WebsiteAssumption DEF SaveParcel, WriteEvent, Was, Labour, WebsiteInv, WebsiteTypeOK
  <2>2. /\ behind \subseteq behind' /\ behind' \subseteq Codes
        /\ code \notin behind' => status = parcel[code].status
        /\ UNCHANGED <<open, site, booking, given>>
    BY <1>9 DEF SaveParcel, WriteEvent, Behind, WebsiteInv, WebsiteTypeOK
  <2>3. PICK new \in Parcel :
          /\ parcel' = [parcel EXCEPT ![code] = new] /\ new.by = parcel[code].by
          /\ \/ new.status = status /\ new.shown = parcel[code].shown
             \/ new.status = parcel[code].status /\ new.shown = status
    <3>1. CASE SaveParcel(code, status)
      <4> DEFINE new == [parcel[code] EXCEPT !.status = status, !.live = TRUE]
      <4>1. new \in Parcel /\ new.by = parcel[code].by /\ new.status = status
            /\ new.shown = parcel[code].shown
        BY <2>1 DEF Parcel
      <4>2. parcel' = [parcel EXCEPT ![code] = new]
        BY <3>1 DEF SaveParcel, WebsiteInv, WebsiteTypeOK
      <4>3. QED
        BY <4>1, <4>2
    <3>2. CASE WriteEvent(code, status)
      <4> DEFINE new == [parcel[code] EXCEPT !.shown = status]
      <4>1. new \in Parcel /\ new.by = parcel[code].by /\ new.shown = status
            /\ new.status = parcel[code].status
        BY <2>1 DEF Parcel
      <4>2. parcel' = [parcel EXCEPT ![code] = new]
        BY <3>2 DEF WriteEvent, WebsiteInv, WebsiteTypeOK
      <4>3. QED
        BY <4>1, <4>2
    <3>3. QED
      BY <1>9, <3>1, <3>2
  <2>4. QED
    BY <2>1, <2>2, <2>3, ParcelStep
<1>10. ASSUME NEW code \in Codes, MoveParcel(code)
       PROVE  WebsiteInv'
  <2>1. parcel[code] \in Parcel /\ parcel[code] # Nothing /\ worked' \in 0..MaxWork
    BY <1>10, WebsiteAssumption DEF MoveParcel, Labour, WebsiteInv, WebsiteTypeOK
  <2>2. /\ behind \subseteq behind' /\ behind' \subseteq Codes
        /\ code \notin behind' => \A g \in Guests : ~(AtStep(g, "event") /\ booking[g].code = code)
        /\ UNCHANGED <<open, site, booking, given>>
    BY <1>10 DEF MoveParcel, WebsiteInv, WebsiteTypeOK
  <2> DEFINE new == [parcel[code] EXCEPT !.status = "moved", !.shown = "moved"]
  <2>3. new \in Parcel /\ new.by = parcel[code].by /\ new.status = "moved" /\ new.shown = "moved"
    BY <2>1 DEF Parcel
  <2>4. parcel' = [parcel EXCEPT ![code] = new]
    BY <1>10 DEF MoveParcel, WebsiteInv, WebsiteTypeOK
  <2> HIDE DEF new
  <2>5. QED
    BY <2>1, <2>2, <2>3, <2>4, ParcelStep
<1>11. ASSUME NEW code \in Codes, DeleteParcel(code)
       PROVE  WebsiteInv'
  <2>1. parcel[code] \in Parcel /\ parcel[code] # Nothing /\ worked' \in 0..MaxWork
    BY <1>11, WebsiteAssumption DEF DeleteParcel, Labour, WebsiteInv, WebsiteTypeOK
  <2> DEFINE new == [parcel[code] EXCEPT !.live = FALSE]
  <2>2. new \in Parcel /\ new.by = parcel[code].by /\ new.status = parcel[code].status
        /\ new.shown = parcel[code].shown
    BY <2>1 DEF Parcel
  <2>3. parcel' = [parcel EXCEPT ![code] = new]
    BY <1>11 DEF DeleteParcel, WebsiteInv, WebsiteTypeOK
  <2> HIDE DEF new
  <2>4. QED
    BY <1>11, <2>1, <2>2, <2>3, ParcelStep DEF DeleteParcel, WebsiteInv, WebsiteTypeOK
<1>12. QED
  BY <1>1, <1>2, <1>3, <1>4, <1>5, <1>6, <1>7, <1>8, <1>9, <1>10, <1>11, StoreStep, EventStep
  DEF WebsiteNext

\* Website: sites, shipments, bookings and histories keep their types.
THEOREM WebsiteTypeCorrect == WebsiteSpec => []WebsiteTypeOK
<1>1. WebsiteInv => WebsiteTypeOK
  BY DEF WebsiteInv
<1>2. QED
  BY <1>1, WebsiteStart, WebsiteStep, PTL DEF WebsiteSpec

\* Website: for any number of guests, codes and companies, an answered code leads
\* to its guest's shipment, and the newest event says where it is, unless the
\* shipment was overtaken.
THEOREM BookingsCorrect == WebsiteSpec => []BookingsHold
<1>1. WebsiteInv => BookingsHold
  BY DEF WebsiteInv
<1>2. QED
  BY <1>1, WebsiteStart, WebsiteStep, PTL DEF WebsiteSpec

-----------------------------------------------------------------------------
\* The try an execution is at has not come to this notification.
Awaits(e, s, m) ==
  \/ e.step = "queued"
  \/ e.step = "scanning" /\ s \in e.todo
  \/ e.step = "sending" /\ s \in e.todo /\ (s = First(e.todo) => m \in e.to)

\* Each try sends each notification once.
SentRight(e) ==
  /\ e.step = "sending" => e.todo # {}
  /\ \A s \in Subjects, m \in Members :
       e.sent[<<s, m>>] <= IF Awaits(e, s, m) THEN e.tries ELSE e.tries + 1

ScansInv ==
  /\ ScansTypeOK
  /\ \A x \in Executions : execution[x] # None => SentRight(execution[x])

LEMMA ScansStart == ScansInit => ScansInv
BY ScansAssumption DEF ScansInit, ScansInv, ScansTypeOK, Standings

\* The first of what is left to do is one of it.
LEMMA FirstIsOne ==
  ASSUME NEW todo \in SUBSET Subjects, todo # {}
  PROVE  First(todo) \in todo
<1>1. todo \subseteq Nat
  BY ScansAssumption
<1>2. PICK s \in todo : \A u \in todo : ~(<<u, s>> \in OpToRel(<, Nat))
  BY <1>1, NatLessThanWellFounded, WFMin
<1>3. ASSUME NEW u \in todo
      PROVE  s <= u
  <2>1. u \in Nat /\ s \in Nat
    BY <1>1
  <2>2. ~(u < s)
    BY <2>1, <1>2 DEF OpToRel
  <2>3. QED
    BY <2>1, <2>2
<1>4. QED
  BY <1>3 DEF First

\* One execution changes, by a statement that leaves the rest alone.
LEMMA ExecutionStep ==
  ASSUME ScansInv, NEW x \in Executions, NEW e,
         e = None \/ (e \in Execution /\ SentRight(e)),
         execution' = [execution EXCEPT ![x] = e],
         notified' \subseteq Subjects \X Members, failures' \in 0..MaxFailures,
         UNCHANGED <<due, standing>>
  PROVE  ScansInv'
BY DEF ScansInv, ScansTypeOK

LEMMA ExecutionIs ==
  ASSUME ScansInv, NEW x \in Executions, execution[x] # None
  PROVE  execution[x] \in Execution /\ SentRight(execution[x])
BY DEF ScansInv, ScansTypeOK

LEMMA BeginScanStep ==
  ASSUME ScansInv, NEW x \in Executions, BeginScan(x)
  PROVE  ScansInv'
<1> DEFINE e == [execution[x] EXCEPT !.step = "scanning",
                                     !.todo = {s \in due : Scan[s] = execution[x].scan}]
<1>1. execution[x] \in Execution /\ SentRight(execution[x])
  BY ExecutionIs DEF BeginScan, At
<1>2. e \in Execution
  BY <1>1 DEF Execution, ScansInv, ScansTypeOK
<1>3. SentRight(e)
  BY <1>1, ScansAssumption DEF Execution, SentRight, Awaits, BeginScan, At
<1>4. QED
  BY <1>2, <1>3, ExecutionStep DEF BeginScan, ScansInv, ScansTypeOK

LEMMA ListRecipientsStep ==
  ASSUME ScansInv, NEW x \in Executions, ListRecipients(x)
  PROVE  ScansInv'
<1> DEFINE s == First(execution[x].todo)
           e == [execution[x] EXCEPT !.step = "sending", !.to = {m \in Members : Entitled(s, m)}]
<1>1. execution[x] \in Execution /\ SentRight(execution[x])
  BY ExecutionIs DEF ListRecipients, At
<1>2. e \in Execution
  BY <1>1 DEF Execution
<1>3. SentRight(e)
  BY <1>1, ScansAssumption DEF Execution, SentRight, Awaits, ListRecipients, At
<1>4. QED
  BY <1>2, <1>3, ExecutionStep DEF ListRecipients, ScansInv, ScansTypeOK

LEMMA NextSubjectStep ==
  ASSUME ScansInv, NEW x \in Executions, NextSubject(x)
  PROVE  ScansInv'
<1> DEFINE todo == execution[x].todo
           e == [execution[x] EXCEPT !.step = "scanning", !.todo = todo \ {First(todo)}]
<1>1. execution[x] \in Execution /\ SentRight(execution[x])
  BY ExecutionIs DEF NextSubject, At
<1>2. e \in Execution
  BY <1>1 DEF Execution
<1>3. SentRight(e)
  BY <1>1, ScansAssumption DEF Execution, SentRight, Awaits, NextSubject, At
<1>4. QED
  BY <1>2, <1>3, ExecutionStep DEF NextSubject, ScansInv, ScansTypeOK

LEMMA SendStep ==
  ASSUME ScansInv, NEW x \in Executions, NEW m \in Members, Send(x, m)
  PROVE  ScansInv'
<1>1. execution[x] \in Execution /\ SentRight(execution[x]) /\ execution[x].step = "sending"
  BY ExecutionIs DEF Send, At
<1>2. PICK s \in execution[x].todo : s = First(execution[x].todo) /\ s \in Subjects
  BY <1>1, FirstIsOne DEF Execution, SentRight
<1> DEFINE e == [execution[x] EXCEPT !.to = @ \ {m}, !.sent[<<s, m>>] = @ + 1]
<1>3. execution[x].sent[<<s, m>>] <= execution[x].tries /\ m \in execution[x].to
  BY <1>1, <1>2 DEF SentRight, Awaits, Send
<1>4. e \in Execution
  <2>1. execution[x].sent \in [Subjects \X Members -> 0..MaxRetries + 2]
        /\ execution[x].sent[<<s, m>>] + 1 \in 0..MaxRetries + 2
    BY <1>1, <1>2, <1>3, ScansAssumption DEF Execution
  <2>2. [execution[x].sent EXCEPT ![<<s, m>>] = @ + 1] \in [Subjects \X Members -> 0..MaxRetries + 2]
    BY <2>1
  <2>3. execution[x].to \ {m} \in SUBSET Members
    BY <1>1 DEF Execution
  <2>4. QED
    BY <1>1, <2>2, <2>3 DEF Execution
<1>5. SentRight(e)
  BY <1>1, <1>2, <1>3, ScansAssumption DEF Execution, SentRight, Awaits
<1>6. notified' \subseteq Subjects \X Members
  BY <1>2 DEF Send, ScansInv, ScansTypeOK
<1>7. execution' = [execution EXCEPT ![x] = e]
  BY <1>2 DEF Send
<1>8. QED
  BY <1>4, <1>5, <1>6, <1>7, ExecutionStep DEF Send, ScansInv, ScansTypeOK

\* A retry has one more notification of everybody to send.
LEMMA RetriedRight ==
  ASSUME NEW x \in Executions, execution[x] \in Execution, SentRight(execution[x])
  PROVE  Retried(x) = None \/ (Retried(x) \in Execution /\ SentRight(Retried(x)))
<1> DEFINE e == [execution[x] EXCEPT !.tries = @ + 1, !.step = "queued", !.todo = {}, !.to = {}]
<1>1. CASE execution[x].tries # MaxRetries
  <2>1. e \in Execution
    <3>1. execution[x].tries + 1 \in 0..MaxRetries
      BY <1>1, ScansAssumption DEF Execution
    <3>2. QED
      BY <3>1 DEF Execution
  <2>2. SentRight(e)
    BY <1>1, ScansAssumption DEF Execution, SentRight, Awaits
  <2>3. QED
    BY <1>1, <2>1, <2>2 DEF Retried
<1>2. QED
  BY <1>1 DEF Retried

LEMMA FreshRight ==
  ASSUME NEW scan \in Scans
  PROVE  Fresh(scan) \in Execution /\ SentRight(Fresh(scan))
BY ScansAssumption DEF Fresh, Execution, SentRight, Awaits

LEMMA ScansStep == ScansInv /\ [ScansNext]_scanVars => ScansInv'
<1> SUFFICES ASSUME ScansInv, [ScansNext]_scanVars PROVE ScansInv'
  OBVIOUS
<1>1. CASE UNCHANGED scanVars
  BY <1>1 DEF scanVars, ScansInv, ScansTypeOK
<1>2. ASSUME NEW x \in Executions, Work(x)
      PROVE  ScansInv'
  <2>1. CASE EndScan(x)
    BY <2>1, ExecutionStep DEF EndScan, ScansInv, ScansTypeOK
  <2>2. CASE Raise(x)
    BY <2>2, ExecutionStep, ExecutionIs, RetriedRight DEF Raise, At, ScansInv, ScansTypeOK
  <2>3. QED
    BY <1>2, <2>1, <2>2, BeginScanStep, ListRecipientsStep, NextSubjectStep, SendStep DEF Work
<1>3. ASSUME NEW x \in Executions, Break(x) \/ Die(x)
      PROVE  ScansInv'
  <2>1. failures' \in 0..MaxFailures
    BY <1>3, ScansAssumption DEF Break, Die, ScansInv, ScansTypeOK
  <2>2. execution[x] \in Execution /\ SentRight(execution[x])
    BY <1>3, ExecutionIs DEF Break, Die, At
  <2>3. QED
    BY <1>3, <2>1, <2>2, ExecutionStep, RetriedRight DEF Break, Die, ScansInv, ScansTypeOK
<1>4. ASSUME NEW scan \in Scans, Tick(scan)
      PROVE  ScansInv'
  BY <1>4, ExecutionStep, FreshRight DEF Tick, ScansInv, ScansTypeOK
<1>5. ASSUME NEW s \in Subjects, ChangeSubject(s)
      PROVE  ScansInv'
  BY <1>5 DEF ChangeSubject, ScansInv, ScansTypeOK
<1>6. ASSUME NEW m \in Members, ChangeMember(m)
      PROVE  ScansInv'
  BY <1>6 DEF ChangeMember, ScansInv, ScansTypeOK
<1>7. QED
  BY <1>1, <1>2, <1>3, <1>4, <1>5, <1>6 DEF ScansNext

\* Scans: what is due, members, executions and notifications keep their types.
THEOREM ScansTypeCorrect == ScansSpec => []ScansTypeOK
<1>1. ScansInv => ScansTypeOK
  BY DEF ScansInv
<1>2. QED
  BY <1>1, ScansStart, ScansStep, PTL DEF ScansSpec

\* Scans: however often an execution is retried, and whatever changes meanwhile,
\* it sends nobody a notification more than once per try.
THEOREM RepeatsCorrect == ScansSpec => []RepeatsBounded
<1>1. ScansInv => RepeatsBounded
  <2> SUFFICES ASSUME ScansInv, NEW x \in Executions, execution[x] # None,
                      NEW s \in Subjects, NEW m \in Members
               PROVE  execution[x].sent[<<s, m>>] <= execution[x].tries + 1
    BY DEF RepeatsBounded
  <2>1. execution[x] \in Execution /\ SentRight(execution[x])
    BY ExecutionIs
  <2>2. execution[x].sent[<<s, m>>] \in Int /\ execution[x].tries \in Int
    BY <2>1, ScansAssumption DEF Execution
  <2>3. QED
    BY <2>1, <2>2 DEF SentRight
<1>2. QED
  BY <1>1, ScansStart, ScansStep, PTL DEF ScansSpec

-----------------------------------------------------------------------------
\* What a worker read fits what it is about to do with it.
Fits(s) ==
  /\ s.req # Nobody /\ s.req.op \in {"register", "provision"} => s.copy = Nobody
  /\ s.req # Nobody /\ s.req.op \in {"change", "save"} => s.copy \in User
  /\ s.req # Nobody /\ s.req.op = "create role" => s.req.roles = 0

\* Nobody has a company, or a password, without an account.
NoAccount ==
  \A e \in Emails : user[e] = Nobody => company[e] = 0 /\ (told[e] = Unset \/ Excused("reset", e))

AccountsInv ==
  TypeOK /\ (\A w \in Workers : Fits(seen[w])) /\ NoAccount /\ AnswersHold /\ RoleIsOne

LEMMA IdleFits == Idle \in Seen /\ Fits(Idle)
BY DEF Idle, Seen, Fits

LEMMA AccountsStart == Init => AccountsInv
BY IdleFits DEF Init, AccountsInv, TypeOK, Rows, NoAccount, AnswersHold, RoleIsOne

\* The kinds of requests.
LEMMA RequestShape ==
  ASSUME NEW r \in Request
  PROVE  /\ r # Nobody
         /\ r.op \in {"register", "provision", "change"} => r.password \in Passwords
         /\ r.op = "register" => r.admin \in BOOLEAN
         /\ r.op = "save" => r.job \in Jobs
         /\ r.op \in {"provision", "create role", "link"} => r.roles \in Rows
BY AccountsAssumption DEF Request

\* A worker that serves a request has read something of an account.
LEMMA ServingShape ==
  ASSUME TypeOK, NEW w \in Workers, seen[w] # Idle
  PROVE  /\ seen[w].email \in Emails
         /\ seen[w].copy \in User \cup {Nobody}
         /\ seen[w].req \in Request
         /\ seen[w] = [email |-> seen[w].email, copy |-> seen[w].copy, req |-> seen[w].req]
BY DEF TypeOK, Seen

LEMMA ServingIs ==
  ASSUME NEW w \in Workers, NEW op, Serving(w, op)
  PROVE  seen[w] # Idle
BY DEF Serving, Idle

\* A worker begins, goes on or ends, and no account changes.
LEMMA WorkerStep ==
  ASSUME AccountsInv, NEW w \in Workers, NEW s \in Seen, Fits(s),
         seen' = [seen EXCEPT ![w] = s], member' \subseteq Emails,
         UNCHANGED <<user, role, told, company, overtaken>>
  PROVE  AccountsInv'
<1> USE DEF AccountsInv
<1>1. TypeOK' /\ (\A v \in Workers : Fits(seen[v]))'
  BY DEF TypeOK
<1>2. NoAccount' /\ AnswersHold' /\ RoleIsOne'
  BY DEF NoAccount, AnswersHold, RoleIsOne, Excused
<1>3. QED
  BY <1>1, <1>2

\* An account is written, with what its owner is told and the companies there are.
LEMMA AccountStep ==
  ASSUME AccountsInv, NEW e \in Emails, NEW u \in User, NEW p \in Passwords \cup {Unset}, NEW n \in Nat,
         user' = [user EXCEPT ![e] = u], told' = [told EXCEPT ![e] = p],
         company' = [company EXCEPT ![e] = n],
         seen' \in [Workers -> Seen], \A w \in Workers : Fits(seen'[w]),
         overtaken \subseteq overtaken', overtaken' \subseteq Excuse,
         role' \in Rows, RoleIsOne', member' \subseteq Emails,
         [kind |-> "user", of |-> e] \notin overtaken' =>
           /\ n <= 1
           /\ \/ [kind |-> "reset", of |-> e] \in overtaken'
              \/ [kind |-> "sample", of |-> e] \in overtaken'
              \/ p = Unset \/ u.password = p
  PROVE  AccountsInv'
<1> USE DEF AccountsInv
<1>1. u # Nobody
  BY AccountsAssumption
<1>2. TypeOK'
  BY DEF TypeOK
<1>3. NoAccount'
  BY <1>1 DEF TypeOK, NoAccount, Excused
<1>4. AnswersHold'
  BY <1>1 DEF TypeOK, AnswersHold, Excused
<1>5. QED
  BY <1>2, <1>3, <1>4

\* What a worker does next, of what it has read.
LEMMA ThenSeen ==
  ASSUME TypeOK, NEW w \in Workers, seen[w] # Idle, NEW req \in Request, Then(w, req)
  PROVE  \E s \in Seen : /\ seen' = [seen EXCEPT ![w] = s]
                         /\ s.req = req /\ s.copy = seen[w].copy
<1> DEFINE s == [seen[w] EXCEPT !.req = req]
<1>1. seen[w] \in [email : Emails, copy : User \cup {Nobody}, req : Request]
  BY DEF TypeOK, Seen
<1>2. s \in [email : Emails, copy : User \cup {Nobody}, req : Request]
      /\ s.req = req /\ s.copy = seen[w].copy
  BY <1>1
<1>3. seen' = [seen EXCEPT ![w] = s]
  BY DEF Then
<1>4. QED
  BY <1>2, <1>3 DEF Seen

LEMMA AnswerSeen ==
  ASSUME AccountsInv, NEW w \in Workers, Answer(w)
  PROVE  seen' \in [Workers -> Seen] /\ \A v \in Workers : Fits(seen'[v])
BY IdleFits DEF Answer, AccountsInv, TypeOK

\* An excuse is one of those there are, and there for who overtook whom.
LEMMA ExcusesAre ==
  ASSUME NEW e \in Emails, NEW if \in BOOLEAN
  PROVE  /\ Excuses("user", e, if) \subseteq Excuse
         /\ Excuses("sample", e, if) \subseteq Excuse
         /\ Excuses("reset", e, if) \subseteq Excuse
         /\ Excuses("role", "manager", if) \subseteq Excuse
         /\ if => /\ [kind |-> "user", of |-> e] \in Excuses("user", e, if)
                  /\ [kind |-> "sample", of |-> e] \in Excuses("sample", e, if)
                  /\ [kind |-> "reset", of |-> e] \in Excuses("reset", e, if)
                  /\ [kind |-> "role", of |-> "manager"] \in Excuses("role", "manager", if)
BY DEF Excuses, Excuse

LEMMA BeginStep ==
  ASSUME AccountsInv, NEW w \in Workers, NEW e \in Emails, NEW req \in Request, Begin(w, e, req),
         \/ req.op = "register" /\ user[e] = Nobody
         \/ req.op = "change" /\ user[e] # Nobody,
         UNCHANGED <<user, role, member, told, company, overtaken>>
  PROVE  AccountsInv'
<1> DEFINE s == [email |-> e, copy |-> user[e], req |-> req]
<1>1. user[e] \in User \cup {Nobody}
  BY DEF AccountsInv, TypeOK
<1>2. s \in Seen /\ Fits(s)
  BY <1>1 DEF Seen, Fits
<1>3. QED
  BY <1>2, WorkerStep DEF Begin, AccountsInv, TypeOK

\* A worker goes on to a statement for which what it read still fits.
LEMMA ThenStep ==
  ASSUME AccountsInv, NEW w \in Workers, seen[w] # Idle, NEW next \in Request, Then(w, next),
         next.op \in {"register", "provision"} => seen[w].copy = Nobody,
         next.op \notin {"change", "save"}, next.op = "create role" => next.roles = 0,
         member' \subseteq Emails, UNCHANGED <<user, role, told, company, overtaken>>
  PROVE  AccountsInv'
<1> DEFINE s == [seen[w] EXCEPT !.req = next]
<1>1. seen[w] \in [email : Emails, copy : User \cup {Nobody}, req : Request]
  BY DEF AccountsInv, TypeOK, Seen
<1>2. s \in Seen /\ s.req = next /\ s.copy = seen[w].copy
  BY <1>1 DEF Seen
<1>3. seen' = [seen EXCEPT ![w] = s]
  BY DEF Then
<1> HIDE DEF s
<1>4. Fits(s)
  BY <1>2 DEF Fits
<1>5. QED
  BY <1>2, <1>3, <1>4, WorkerStep

LEMMA ProvisionStep ==
  ASSUME AccountsInv, NEW w \in Workers, Provision(w)
  PROVE  AccountsInv'
<1> DEFINE req == [op |-> "provision", password |-> seen[w].req.password, roles |-> role]
<1>1. seen[w] # Idle /\ seen[w].req \in Request /\ seen[w].req.op = "register"
      /\ seen[w].copy = Nobody
  BY ServingShape, ServingIs DEF Provision, Serving, AccountsInv, Fits
<1>2. req \in Request
  BY <1>1, RequestShape DEF Request, AccountsInv, TypeOK
<1>3. QED
  BY <1>1, <1>2, ThenStep DEF Provision, AccountsInv, TypeOK

LEMMA RegisterCompanyStep ==
  ASSUME AccountsInv, NEW w \in Workers, RegisterCompany(w)
  PROVE  AccountsInv'
<1> USE DEF AccountsInv
<1>1. /\ seen[w] # Idle /\ seen[w].req \in Request /\ seen[w].req.op = "provision"
      /\ seen[w].email \in Emails /\ seen[w].copy = Nobody
      /\ seen[w].req.password \in Passwords /\ seen[w].req.roles \in Rows
  BY ServingShape, ServingIs, RequestShape DEF RegisterCompany, Serving, Fits
<1>2. PICK e \in Emails, p \in Passwords, roles \in Rows :
        e = seen[w].email /\ p = seen[w].req.password /\ roles = seen[w].req.roles
  BY <1>1
<1>3. New(p, FALSE) \in User /\ New(p, FALSE).password = p
  BY DEF New, User
<1>4. PICK u \in User : /\ user' = [user EXCEPT ![e] = u]
                        /\ user[e] = Nobody => u.password = p
  <2>1. CASE user[e] = Nobody
    BY <2>1, <1>2, <1>3 DEF RegisterCompany
  <2>2. CASE user[e] # Nobody
    BY <2>2, <1>2 DEF RegisterCompany, TypeOK
  <2>3. QED
    BY <2>1, <2>2
<1>5. company[e] + 1 \in Nat /\ company' = [company EXCEPT ![e] = company[e] + 1]
  BY <1>2 DEF RegisterCompany, TypeOK
<1>6. overtaken' = overtaken \cup Excuses("user", e, user[e] # Nobody)
                     \cup Excuses("role", "manager", roles = 0 /\ role # roles)
  BY <1>1, <1>2 DEF RegisterCompany
<1>7. /\ overtaken \subseteq overtaken' /\ overtaken' \subseteq Excuse
      /\ user[e] # Nobody => [kind |-> "user", of |-> e] \in overtaken'
      /\ roles = 0 /\ role # roles => [kind |-> "role", of |-> "manager"] \in overtaken'
  BY <1>6, ExcusesAre DEF TypeOK
<1>8. role' \in Rows /\ RoleIsOne'
  BY <1>2, <1>7 DEF RegisterCompany, TypeOK, Rows, OneMore, RoleIsOne, Excused
<1>9. user[e] = Nobody => company[e] = 0
  BY DEF NoAccount
<1>10. seen' \in [Workers -> Seen] /\ \A v \in Workers : Fits(seen'[v])
  BY AnswerSeen DEF RegisterCompany
<1>11. told' = [told EXCEPT ![e] = p] /\ member' \subseteq Emails
  BY <1>2 DEF RegisterCompany, TypeOK
<1>12. PICK n \in Nat : company' = [company EXCEPT ![e] = n] /\ n = company[e] + 1
  BY <1>5, Zenon
<1>13. [kind |-> "user", of |-> e] \notin overtaken' => n <= 1 /\ u.password = p
  BY <1>4, <1>7, <1>9, <1>12
<1>14. QED
  BY <1>4, <1>7, <1>8, <1>10, <1>11, <1>12, <1>13, AccountStep

\* A worker saves an account, from what it has read, and its owner is told.
LEMMA SaveStep ==
  ASSUME AccountsInv, NEW w \in Workers, NEW e \in Emails, seen[w].email = e,
         NEW u \in User, NEW p \in Passwords, u.password = p,
         Save(w, u), told' = [told EXCEPT ![e] = p],
         seen' \in [Workers -> Seen], \A v \in Workers : Fits(seen'[v]),
         company[e] <= 1 \/ Excused("user", e),
         UNCHANGED <<role, member, company>>
  PROVE  AccountsInv'
<1> USE DEF AccountsInv
<1>1. /\ user' = [user EXCEPT ![e] = u]
      /\ overtaken' = overtaken \cup Excuses("user", e, user[e] # seen[w].copy)
  BY DEF Save
<1>2. overtaken \subseteq overtaken' /\ overtaken' \subseteq Excuse
  BY <1>1, ExcusesAre DEF TypeOK
<1>3. company' = [company EXCEPT ![e] = company[e]] /\ company[e] \in Nat
  BY DEF TypeOK
<1>4. RoleIsOne' /\ role' \in Rows /\ member' \subseteq Emails
  BY <1>2 DEF RoleIsOne, Excused, TypeOK
<1>5. [kind |-> "user", of |-> e] \notin overtaken' => company[e] <= 1
  BY <1>2 DEF Excused
<1>6. QED
  BY <1>1, <1>2, <1>3, <1>4, <1>5, AccountStep

LEMMA Registered ==
  ASSUME AccountsInv, NEW e \in Emails
  PROVE  company[e] <= 1 \/ Excused("user", e)
BY DEF AccountsInv, AnswersHold

LEMMA RegisterAdminStep ==
  ASSUME AccountsInv, NEW w \in Workers, RegisterAdmin(w)
  PROVE  AccountsInv'
<1>1. /\ seen[w] # Idle /\ seen[w].req \in Request /\ seen[w].email \in Emails
      /\ seen[w].req.password \in Passwords
  BY ServingShape, ServingIs, RequestShape DEF RegisterAdmin, Serving, AccountsInv
<1>2. PICK e \in Emails, p \in Passwords : e = seen[w].email /\ p = seen[w].req.password
  BY <1>1
<1>3. New(p, TRUE) \in User /\ New(p, TRUE).password = p
  BY DEF New, User
<1>4. seen' \in [Workers -> Seen] /\ \A v \in Workers : Fits(seen'[v])
  BY AnswerSeen DEF RegisterAdmin
<1>5. QED
  BY <1>2, <1>3, <1>4, SaveStep, Registered DEF RegisterAdmin

LEMMA ChangePasswordStep ==
  ASSUME AccountsInv, NEW w \in Workers, ChangePassword(w)
  PROVE  AccountsInv'
<1>1. /\ seen[w] # Idle /\ seen[w].req \in Request /\ seen[w].email \in Emails
      /\ seen[w].req.password \in Passwords /\ seen[w].copy \in User
  BY ServingShape, ServingIs, RequestShape DEF ChangePassword, Serving, AccountsInv, Fits
<1>2. PICK e \in Emails, p \in Passwords, old \in User :
        e = seen[w].email /\ p = seen[w].req.password /\ old = seen[w].copy
  BY <1>1
<1>3. [old EXCEPT !.password = p] \in User /\ [old EXCEPT !.password = p].password = p
  BY DEF User
<1>4. seen' \in [Workers -> Seen] /\ \A v \in Workers : Fits(seen'[v])
  BY AnswerSeen DEF ChangePassword
<1>5. QED
  BY <1>2, <1>3, <1>4, SaveStep, Registered DEF ChangePassword

LEMMA SaveUserStep ==
  ASSUME AccountsInv, NEW w \in Workers, SaveUser(w)
  PROVE  AccountsInv'
<1>1. /\ seen[w] # Idle /\ seen[w].req \in Request /\ seen[w].email \in Emails
      /\ seen[w].req.job \in Jobs /\ seen[w].copy \in User
  BY ServingShape, ServingIs, RequestShape DEF SaveUser, Serving, AccountsInv, Fits
<1>2. PICK e \in Emails, job \in Jobs, old \in User :
        e = seen[w].email /\ job = seen[w].req.job /\ old = seen[w].copy
  BY <1>1
<1>3. /\ Reset(job, old) \in User /\ Reset(job, old).password = ScriptPassword
      /\ ScriptPassword \in Passwords
  BY AccountsAssumption DEF Reset, User
<1>4. seen' \in [Workers -> Seen] /\ \A v \in Workers : Fits(seen'[v])
  <2>1. CASE Answer(w)
    BY <2>1, AnswerSeen
  <2>2. CASE Then(w, [op |-> "role"])
    <3>1. [op |-> "role"] \in Request
      BY DEF Request
    <3>2. PICK s \in Seen : seen' = [seen EXCEPT ![w] = s] /\ s.req = [op |-> "role"]
      BY <1>1, <2>2, <3>1, ThenSeen DEF AccountsInv
    <3>3. Fits(s)
      BY <3>2 DEF Fits
    <3>4. QED
      BY <3>2, <3>3 DEF AccountsInv, TypeOK
  <2>3. QED
    BY <2>1, <2>2 DEF SaveUser
<1>5. QED
  BY <1>2, <1>3, <1>4, SaveStep, Registered DEF SaveUser

LEMMA RehashStep ==
  ASSUME AccountsInv, NEW e \in Emails, NEW password \in Passwords, Rehash(e, password)
  PROVE  AccountsInv'
<1> USE DEF AccountsInv
<1> DEFINE u == [user[e] EXCEPT !.password = password]
<1>1. user[e] \in User
  BY DEF Rehash, TypeOK
<1>2. u \in User /\ user' = [user EXCEPT ![e] = u]
  BY <1>1 DEF Rehash, User
<1> HIDE DEF u
<1>3. /\ overtaken \subseteq overtaken' /\ overtaken' \subseteq Excuse
      /\ [kind |-> "sample", of |-> e] \in overtaken'
  BY ExcusesAre DEF Rehash, TypeOK
<1>4. PICK p \in Passwords \cup {Unset} : told' = [told EXCEPT ![e] = p]
  BY DEF Rehash, TypeOK
<1>5. PICK n \in Nat : company' = [company EXCEPT ![e] = n] /\ n = company[e]
  BY DEF Rehash, TypeOK
<1>6. [kind |-> "user", of |-> e] \notin overtaken' => n <= 1
  BY <1>3, <1>5, Registered DEF Excused
<1>7. seen' \in [Workers -> Seen] /\ \A w \in Workers : Fits(seen'[w])
  BY DEF Rehash, TypeOK
<1>8. role' \in Rows /\ RoleIsOne' /\ member' \subseteq Emails
  BY <1>3 DEF Rehash, TypeOK, RoleIsOne, Excused
<1>9. QED
  BY <1>2, <1>3, <1>4, <1>5, <1>6, <1>7, <1>8, AccountStep

LEMMA ConfirmResetStep ==
  ASSUME AccountsInv, NEW e \in Emails, NEW password \in Passwords, ConfirmReset(e, password)
  PROVE  AccountsInv'
<1> USE DEF AccountsInv
<1>1. /\ overtaken \subseteq overtaken' /\ overtaken' \subseteq Excuse
      /\ [kind |-> "reset", of |-> e] \in overtaken'
  BY ExcusesAre DEF ConfirmReset, TypeOK
<1>2. told' = [told EXCEPT ![e] = password] /\ UNCHANGED <<user, role, member, seen, company>>
  BY DEF ConfirmReset
<1>3. TypeOK'
  BY <1>1, <1>2 DEF TypeOK
<1>4. NoAccount' /\ AnswersHold' /\ RoleIsOne'
  BY <1>1, <1>2 DEF TypeOK, NoAccount, AnswersHold, RoleIsOne, Excused
<1>5. QED
  BY <1>2, <1>3, <1>4

LEMMA FindUserStep ==
  ASSUME AccountsInv, NEW w \in Workers, NEW e \in Emails, NEW job \in Jobs, FindUser(w, e, job)
  PROVE  AccountsInv'
<1> USE DEF AccountsInv
<1>1. PICK u \in User : u = IF user[e] = Nobody THEN Sample(job) ELSE user[e]
  <2>1. Sample(job) \in User
    BY DEF Sample, User
  <2>2. QED
    BY <2>1 DEF TypeOK
<1> DEFINE req == [op |-> "save", job |-> job]
           s == [email |-> e, copy |-> u, req |-> req]
<1>2. req \in Request
  BY DEF Request
<1>3. s \in Seen /\ Fits(s)
  BY <1>2 DEF Seen, Fits
<1>4. seen' = [seen EXCEPT ![w] = s] /\ user' = [user EXCEPT ![e] = u]
  BY <1>1 DEF FindUser
<1> HIDE DEF s
<1>5. seen' \in [Workers -> Seen] /\ \A v \in Workers : Fits(seen'[v])
  BY <1>3, <1>4 DEF TypeOK
<1>6. PICK p \in Passwords \cup {Unset} : told' = [told EXCEPT ![e] = p] /\ p = told[e]
  BY DEF FindUser, TypeOK
<1>7. PICK n \in Nat : company' = [company EXCEPT ![e] = n] /\ n = company[e]
  BY DEF FindUser, TypeOK
<1>8. ~Excused("user", e) =>
        n <= 1 /\ (Excused("reset", e) \/ Excused("sample", e) \/ p = Unset \/ u.password = p)
  BY <1>1, <1>6, <1>7 DEF AnswersHold, NoAccount
<1>9. overtaken' = overtaken /\ role' \in Rows /\ RoleIsOne' /\ member' \subseteq Emails
      /\ overtaken' \subseteq Excuse
  BY DEF FindUser, TypeOK, RoleIsOne, Excused
<1>10. QED
  BY <1>4, <1>5, <1>6, <1>7, <1>8, <1>9, AccountStep DEF Excused

LEMMA FindRoleStep ==
  ASSUME AccountsInv, NEW w \in Workers, FindRole(w)
  PROVE  AccountsInv'
<1> DEFINE next == [op |-> IF role = 0 THEN "create role" ELSE "link", roles |-> role]
<1>1. seen[w] # Idle
  BY ServingIs DEF FindRole
<1>2. next \in Request /\ next.op \in {"create role", "link"} /\ (next.op = "create role" => next.roles = 0)
  BY DEF Request, AccountsInv, TypeOK
<1>3. QED
  BY <1>1, <1>2, ThenStep DEF FindRole, AccountsInv, TypeOK

LEMMA CreateRoleStep ==
  ASSUME AccountsInv, NEW w \in Workers, CreateRole(w)
  PROVE  AccountsInv'
<1> USE DEF AccountsInv
<1>1. seen[w] # Idle /\ seen[w].req.roles = 0
  BY ServingIs DEF CreateRole, Serving, Fits
<1>2. PICK named \in Rows : role' = named /\ named = OneMore(role)
  <2>1. role' = OneMore(role)
    BY DEF CreateRole
  <2>2. OneMore(role) \in Rows
    BY DEF OneMore, Rows, TypeOK
  <2>3. QED
    BY <2>1, <2>2
<1> DEFINE next == [op |-> "link", roles |-> named]
           s == [seen[w] EXCEPT !.req = next]
<1>3. next \in Request
  BY DEF Request
<1>4. seen[w] \in [email : Emails, copy : User \cup {Nobody}, req : Request]
  BY <1>1 DEF TypeOK, Seen
<1>5. s \in Seen /\ s.req = next /\ s.req.op = "link"
  BY <1>3, <1>4 DEF Seen
<1>6. seen' = [seen EXCEPT ![w] = s]
  BY <1>2 DEF CreateRole, Then
<1>7. Fits(s)
  BY <1>5 DEF Fits
<1> HIDE DEF s
<1>8. /\ overtaken \subseteq overtaken' /\ overtaken' \subseteq Excuse
      /\ role # 0 => [kind |-> "role", of |-> "manager"] \in overtaken'
  <2>1. overtaken' = overtaken \cup Excuses("role", "manager", role # 0)
    BY <1>1 DEF CreateRole
  <2>2. QED
    BY <2>1 DEF TypeOK, Excuses, Excuse
<1>9. UNCHANGED <<user, member, told, company>>
  BY DEF CreateRole
<1>10. TypeOK' /\ (\A v \in Workers : Fits(seen[v]))'
  BY <1>2, <1>5, <1>6, <1>7, <1>8, <1>9 DEF TypeOK
<1>11. RoleIsOne'
  BY <1>2, <1>8 DEF RoleIsOne, Excused, OneMore
<1>12. NoAccount' /\ AnswersHold'
  BY <1>8, <1>9 DEF NoAccount, AnswersHold, Excused
<1>13. QED
  BY <1>10, <1>11, <1>12

LEMMA EndStep ==
  ASSUME AccountsInv, NEW w \in Workers, Answer(w), member' \subseteq Emails,
         UNCHANGED <<user, role, told, company, overtaken>>
  PROVE  AccountsInv'
BY IdleFits, WorkerStep DEF Answer

LEMMA AccountsStep == AccountsInv /\ [Next]_vars => AccountsInv'
<1> SUFFICES ASSUME AccountsInv, [Next]_vars PROVE AccountsInv'
  OBVIOUS
<1>1. CASE UNCHANGED vars
  BY <1>1 DEF vars, AccountsInv, TypeOK, NoAccount, AnswersHold, RoleIsOne, Excused
<1>2. ASSUME NEW w \in Workers, NEW e \in Emails, NEW password \in Passwords, NEW admin \in BOOLEAN,
             BeginRegister(w, e, password, admin)
      PROVE  AccountsInv'
  <2> DEFINE next == [op |-> "register", password |-> password, admin |-> admin]
  <2>1. next \in Request
    BY DEF Request
  <2>2. QED
    BY <1>2, <2>1, BeginStep DEF BeginRegister
<1>3. ASSUME NEW w \in Workers, NEW e \in Emails, NEW password \in Passwords, NEW old \in Passwords,
             BeginChange(w, e, old, password)
      PROVE  AccountsInv'
  <2> DEFINE next == [op |-> "change", password |-> password]
  <2>1. next \in Request
    BY DEF Request
  <2>2. QED
    BY <1>3, <2>1, BeginStep DEF BeginChange
<1>4. ASSUME NEW w \in Workers, Link(w)
      PROVE  AccountsInv'
  <2>1. member' \subseteq Emails
    BY <1>4, ServingIs, ServingShape DEF Link, AccountsInv, TypeOK
  <2>2. QED
    BY <1>4, <2>1, EndStep DEF Link
<1>5. ASSUME NEW w \in Workers, Fail(w)
      PROVE  AccountsInv'
  BY <1>5, EndStep DEF Fail, AccountsInv, TypeOK
<1>6. ASSUME NEW w \in Workers,
             \/ Provision(w) \/ RegisterCompany(w) \/ RegisterAdmin(w) \/ ChangePassword(w)
             \/ SaveUser(w) \/ FindRole(w) \/ CreateRole(w) \/ Link(w) \/ Fail(w)
      PROVE  AccountsInv'
  BY <1>4, <1>5, <1>6, ProvisionStep, RegisterCompanyStep, RegisterAdminStep, ChangePasswordStep,
     SaveUserStep, FindRoleStep, CreateRoleStep
<1>7. QED
  BY <1>1, <1>2, <1>3, <1>6, FindUserStep, RehashStep, ConfirmResetStep DEF Next

\* Accounts: accounts, roles, requests and histories keep their types.
THEOREM AccountsTypeCorrect == Spec => []TypeOK
<1>1. AccountsInv => TypeOK
  BY DEF AccountsInv
<1>2. QED
  BY <1>1, AccountsStart, AccountsStep, PTL DEF Spec

\* Accounts: however many register one e-mail at once, and whatever else writes
\* the account, it has one company and the password its owner was told last,
\* unless somebody overtook somebody, a reset was confirmed, or a sample password
\* was used.
THEOREM AnswersCorrect == Spec => []AnswersHold
<1>1. AccountsInv => AnswersHold
  BY DEF AccountsInv
<1>2. QED
  BY <1>1, AccountsStart, AccountsStep, PTL DEF Spec

\* Accounts: the role of managers is doubled only by somebody who looked for it
\* before somebody else made it.
THEOREM RoleCorrect == Spec => []RoleIsOne
<1>1. AccountsInv => RoleIsOne
  BY DEF AccountsInv
<1>2. QED
  BY <1>1, AccountsStart, AccountsStep, PTL DEF Spec

\* A save by a worker who had read the account as it still is changes no flag but
\* those its job is to change.
LEMMA RanksStep ==
  ASSUME AccountsInv, [Next]_vars, NEW e \in Emails, user[e] # Nobody,
         [kind |-> "user", of |-> e] \notin overtaken'
  PROVE  /\ user[e].superuser /\ ~user'[e].superuser =>
              \E w \in Workers : Serving(w, "save") /\ seen[w].req.job = "staff"
         /\ user[e].platform /\ ~user'[e].platform =>
              \E w \in Workers : Serving(w, "save") /\ seen[w].req.job = "tenant"
<1>1. user[e] \in User
  BY DEF AccountsInv, TypeOK
<1>2. CASE user'[e] = user[e]
  BY <1>2
<1>3. ASSUME NEW w \in Workers, seen[w] # Idle, NEW u, Save(w, u), user'[e] # user[e]
      PROVE  seen[w].email = e /\ seen[w].copy = user[e] /\ user'[e] = u
  <2>1. seen[w].email = e /\ user'[e] = u
    BY <1>3 DEF Save, AccountsInv, TypeOK
  <2>2. overtaken' = overtaken \cup Excuses("user", e, user[e] # seen[w].copy)
    BY <1>3, <2>1 DEF Save
  <2>3. seen[w].copy = user[e]
    BY <2>2, ExcusesAre
  <2>4. QED
    BY <2>1, <2>3
<1>4. ASSUME NEW w \in Workers, ChangePassword(w), user'[e] # user[e]
      PROVE  (user'[e].superuser <=> user[e].superuser) /\ (user'[e].platform <=> user[e].platform)
  <2>1. user'[e] = [user[e] EXCEPT !.password = seen[w].req.password]
    BY <1>3, <1>4, ServingIs DEF ChangePassword
  <2>2. QED
    BY <1>1, <2>1 DEF User
<1>5. ASSUME NEW w \in Workers, SaveUser(w), user'[e] # user[e]
      PROVE  /\ user[e].superuser /\ ~user'[e].superuser => seen[w].req.job = "staff"
             /\ user[e].platform /\ ~user'[e].platform => seen[w].req.job = "tenant"
             /\ Serving(w, "save")
  <2>1. user'[e] = Reset(seen[w].req.job, user[e]) /\ Serving(w, "save")
    BY <1>3, <1>5, ServingIs DEF SaveUser
  <2>2. QED
    BY <1>1, <2>1 DEF User, Reset
<1>6. ASSUME NEW w \in Workers, RegisterAdmin(w)
      PROVE  user'[e] = user[e]
  BY <1>6 DEF RegisterAdmin, Save, AccountsInv, TypeOK
<1>7. ASSUME NEW d \in Emails, NEW password \in Passwords, Rehash(d, password), user'[e] # user[e]
      PROVE  (user'[e].superuser <=> user[e].superuser) /\ (user'[e].platform <=> user[e].platform)
  <2>1. user'[e] = [user[e] EXCEPT !.password = password]
    BY <1>7 DEF Rehash, AccountsInv, TypeOK
  <2>2. QED
    BY <1>1, <2>1 DEF User
<1>8. ASSUME NEW w \in Workers, RegisterCompany(w)
      PROVE  user'[e] = user[e]
  BY <1>8 DEF RegisterCompany, AccountsInv, TypeOK
<1>9. ASSUME NEW w \in Workers, NEW d \in Emails, NEW job \in Jobs, FindUser(w, d, job)
      PROVE  user'[e] = user[e]
  BY <1>9 DEF FindUser, AccountsInv, TypeOK
<1>10. \/ user' = user
       \/ \E w \in Workers :
            \/ ChangePassword(w) \/ SaveUser(w) \/ RegisterAdmin(w) \/ RegisterCompany(w)
            \/ \E d \in Emails, job \in Jobs : FindUser(w, d, job)
       \/ \E d \in Emails, password \in Passwords : Rehash(d, password)
  BY DEF Next, vars, BeginRegister, BeginChange, Provision, FindRole, CreateRole, Link, Fail, ConfirmReset
<1>11. QED
  BY <1>2, <1>4, <1>5, <1>6, <1>7, <1>8, <1>9, <1>10

\* Accounts: nobody loses a rank but by the script, or by somebody who had read
\* the account before it was given.
THEOREM RanksCorrect == Spec => RanksKept
<1>1. AccountsInv /\ [Next]_vars =>
        [\A e \in Emails : user[e] # Nobody /\ [kind |-> "user", of |-> e] \notin overtaken' =>
           /\ user[e].superuser /\ ~user'[e].superuser =>
                \E w \in Workers : Serving(w, "save") /\ seen[w].req.job = "staff"
           /\ user[e].platform /\ ~user'[e].platform =>
                \E w \in Workers : Serving(w, "save") /\ seen[w].req.job = "tenant"]_vars
  BY RanksStep
<1>2. QED
  BY <1>1, AccountsStart, AccountsStep, PTL DEF Spec, RanksKept

-----------------------------------------------------------------------------
\* How far a trip has come; in its planning it may go either way.
Rank(s) ==
  IF s \in Planning THEN 0 ELSE IF s = "DISPATCHED" THEN 1 ELSE IF s = "STARTED" THEN 2
  ELSE IF s = "IN_PROGRESS" THEN 3 ELSE 4

Asks(w, t) == asked[w] # NoRequest /\ asked[w].trip = t

\* Nothing is known of a trip before there is one.
Absent == \A t \in Trips : trips[t].state = "absent" => trips[t].status \in Planning

\* The row a request has read allowed its transition.
AllowedInv ==
  \A w \in Servers : asked[w] # NoRequest =>
    /\ snapshot[w].trip.state = "live"
    /\ asked[w].target \in Allowed[snapshot[w].trip.status]
    /\ trips[asked[w].trip].state # "absent"

\* A trip that was read under way still has the units it had, and has come no
\* less far, or its units are loose.
AheadOf(w, t) ==
  Asks(w, t) /\ snapshot[w].trip.status \notin Planning =>
    /\ UnitsOf(snapshot[w].trip) \subseteq loose \cup UnitsOf(trips[t])
    /\ Rank(trips[t].status) < Rank(snapshot[w].trip.status) => UnitsOf(snapshot[w].trip) \subseteq loose

AheadInv == \A w \in Servers, t \in Trips : AheadOf(w, t)

\* An active trip with the unit; who has read it as it is knows the unit ON_TRIP.
HeldBy(u, t) ==
  /\ trips[t].status \in Active /\ u \in UnitsOf(trips[t])
  /\ \A w \in Servers : Asks(w, t) /\ snapshot[w].trip = trips[t] => u \in snapshot[w].onTrip

HeldInv ==
  \A u \in Units \ loose :
    /\ unit[u] = "ON_TRIP" => \E t \in Trips : HeldBy(u, t)
    /\ u \in Vehicles => (unit[u] = "ON_TRIP" <=> u \in assigned)

TripsInv == TripsTypeOK /\ Absent /\ AllowedInv /\ AheadInv /\ HeldInv /\ ActiveTripHasUnits

LEMMA TripsStart == TripsInit => TripsInv
<1> SUFFICES ASSUME TripsInit PROVE TripsInv
  OBVIOUS
<1>1. TripsTypeOK
  BY DEF TripsInit, TripsTypeOK, Trip, NoTrip, TripStatus, UnitStatus, Snapshot, NoSnapshot
<1>2. Absent /\ AllowedInv /\ ActiveTripHasUnits
  BY DEF TripsInit, Absent, AllowedInv, ActiveTripHasUnits, NoTrip, Planning, Active
<1>3. AheadInv /\ HeldInv
  BY DEF TripsInit, AheadInv, AheadOf, Asks, HeldInv
<1>4. QED
  BY <1>1, <1>2, <1>3 DEF TripsInv

LEMMA TripUnits ==
  ASSUME NEW row \in Trip
  PROVE  /\ UnitsOf(row) \subseteq Units
         /\ \A s : UnitsOf([row EXCEPT !.status = s]) = UnitsOf(row)
         /\ \A s \in TripStatus : [row EXCEPT !.status = s] \in Trip
BY DEF Trip, UnitsOf, Units

\* The transitions, one status at a time.
LEMMA AllowedIs ==
  ASSUME NEW s \in TripStatus, NEW n \in Allowed[s]
  PROVE  /\ n \in Targets => Rank(s) < Rank(n)
         /\ n = "DISPATCHED" => s \in Planning
         /\ n = "STARTED" => s = "DISPATCHED"
         /\ n \notin Targets => \/ s \in Planning /\ n \in Planning
                                \/ s = "STARTED" /\ n = "IN_PROGRESS"
                                \/ s = "COMPLETED" /\ n = "BILLING_READY"
<1>1. CASE s = "REQUESTED"
  <2>1. n \in {"SCHEDULED", "CONFIRMED", "CANCELLED"}
    BY <1>1 DEF Allowed
  <2>2. QED
    BY <1>1, <2>1 DEF Targets, Rank, Planning
<1>2. CASE s = "SCHEDULED"
  <2>1. n \in {"CONFIRMED", "DISPATCHED", "CANCELLED"}
    BY <1>2 DEF Allowed
  <2>2. QED
    BY <1>2, <2>1 DEF Targets, Rank, Planning
<1>3. CASE s = "CONFIRMED"
  <2>1. n \in {"DISPATCHED", "CANCELLED"}
    BY <1>3 DEF Allowed
  <2>2. QED
    BY <1>3, <2>1 DEF Targets, Rank, Planning
<1>4. CASE s = "DISPATCHED"
  <2>1. n \in {"STARTED", "CANCELLED"}
    BY <1>4 DEF Allowed
  <2>2. QED
    BY <1>4, <2>1 DEF Targets, Rank, Planning
<1>5. CASE s = "STARTED"
  <2>1. n \in {"IN_PROGRESS", "COMPLETED", "CANCELLED"}
    BY <1>5 DEF Allowed
  <2>2. QED
    BY <1>5, <2>1 DEF Targets, Rank, Planning
<1>6. CASE s = "IN_PROGRESS"
  <2>1. n \in {"COMPLETED", "CANCELLED"}
    BY <1>6 DEF Allowed
  <2>2. QED
    BY <1>6, <2>1 DEF Targets, Rank, Planning
<1>7. CASE s = "COMPLETED"
  <2>1. n \in {"BILLING_READY"}
    BY <1>7 DEF Allowed
  <2>2. QED
    BY <1>7, <2>1 DEF Targets, Rank, Planning
<1>8. CASE s \in {"BILLING_READY", "CANCELLED"}
  BY <1>8 DEF Allowed
<1>9. QED
  BY <1>1, <1>2, <1>3, <1>4, <1>5, <1>6, <1>7, <1>8 DEF TripStatus

\* What a worker is about to save, of what.
LEMMA AskedIs ==
  ASSUME TripsInv, NEW w \in Servers, asked[w] # NoRequest
  PROVE  /\ asked[w].trip \in Trips /\ asked[w].target \in Targets
         /\ asked[w].target \in TripStatus
         /\ trips[asked[w].trip] \in Trip
         /\ snapshot[w].trip \in Trip /\ snapshot[w].trip.status \in TripStatus
         /\ snapshot[w].onTrip \subseteq Units
         /\ snapshot[w].trip.state = "live"
         /\ asked[w].target \in Allowed[snapshot[w].trip.status]
         /\ trips[asked[w].trip].state # "absent"
<1>1. asked[w] \in Transition
  BY DEF TripsInv, TripsTypeOK
<1>2. snapshot[w] \in Snapshot
  BY DEF TripsInv, TripsTypeOK
<1>3. QED
  BY <1>1, <1>2 DEF TripsInv, TripsTypeOK, Transition, Snapshot, Targets, TripStatus, AllowedInv, Trip

\* The requests of the others go on, of trips that are left alone or whose row
\* is replaced by one that is no less far, or that has let its units loose.
LEMMA OthersAhead ==
  ASSUME TripsInv, NEW t \in Trips, NEW row \in Trip, row.state # "absent",
         trips' = [trips EXCEPT ![t] = row],
         loose \subseteq loose',
         \/ UnitsOf(trips[t]) \subseteq loose'
         \/ /\ trips[t].status \notin Planning => UnitsOf(row) = UnitsOf(trips[t])
            /\ Rank(trips[t].status) <= Rank(row.status),
         NEW w \in Servers, asked'[w] = asked[w], snapshot'[w] = snapshot[w]
  PROVE  /\ \A u \in Trips : AheadOf(w, u)'
         /\ asked[w] # NoRequest => trips'[asked[w].trip].state # "absent"
<1>1. TripsTypeOK
  BY DEF TripsInv
<1>2. ASSUME NEW u \in Trips, Asks(w, u), snapshot[w].trip.status \notin Planning
      PROVE  /\ UnitsOf(snapshot[w].trip) \subseteq loose' \cup UnitsOf(trips'[u])
             /\ Rank(trips'[u].status) < Rank(snapshot[w].trip.status) => UnitsOf(snapshot[w].trip) \subseteq loose'
  <2>1. /\ UnitsOf(snapshot[w].trip) \subseteq loose \cup UnitsOf(trips[u])
        /\ Rank(trips[u].status) < Rank(snapshot[w].trip.status) => UnitsOf(snapshot[w].trip) \subseteq loose
    BY <1>2 DEF TripsInv, AheadInv, AheadOf
  <2>2. CASE u # t
    BY <2>1, <2>2, <1>1 DEF TripsTypeOK
  <2>3. CASE u = t
    <3>1. trips'[u] = row
      BY <2>3, <1>1 DEF TripsTypeOK
    <3>2. CASE UnitsOf(trips[t]) \subseteq loose'
      BY <2>1, <2>3, <3>1, <3>2
    <3>3. CASE /\ trips[t].status \notin Planning => UnitsOf(row) = UnitsOf(trips[t])
               /\ Rank(trips[t].status) <= Rank(row.status)
      <4>1. Rank(trips[t].status) \in 0..4 /\ Rank(row.status) \in 0..4 /\ Rank(snapshot[w].trip.status) \in 1..4
        BY <1>2 DEF Rank
      <4>2. CASE trips[t].status \in Planning
        <5>1. Rank(trips[t].status) = 0
          BY <4>2 DEF Rank
        <5>2. QED
          BY <5>1, <4>1, <2>1, <2>3
      <4>3. CASE trips[t].status \notin Planning
        <5>1. Rank(row.status) < Rank(snapshot[w].trip.status) => Rank(trips[t].status) < Rank(snapshot[w].trip.status)
          BY <4>1, <3>3
        <5>2. QED
          BY <5>1, <2>1, <2>3, <3>1, <3>3, <4>3
      <4>4. QED
        BY <4>2, <4>3
    <3>4. QED
      BY <3>2, <3>3
  <2>4. QED
    BY <2>2, <2>3
<1>3. asked[w] # NoRequest => trips'[asked[w].trip].state # "absent"
  <2> SUFFICES ASSUME asked[w] # NoRequest PROVE trips'[asked[w].trip].state # "absent"
    OBVIOUS
  <2>1. asked[w].trip \in Trips /\ trips[asked[w].trip].state # "absent"
    BY AskedIs
  <2>2. QED
    BY <2>1, <1>1 DEF TripsTypeOK
<1>4. QED
  BY <1>2, <1>3 DEF AheadOf, Asks

\* A unit is held on by a trip that is left alone.
LEMMA HeldElsewhere ==
  ASSUME NEW u, NEW t \in Trips, HeldBy(u, t), trips'[t] = trips[t],
         \A w \in Servers : \/ asked'[w] = asked[w] /\ snapshot'[w] = snapshot[w]
                            \/ asked'[w] = NoRequest
  PROVE  HeldBy(u, t)'
BY DEF HeldBy, Asks

\* All but the units, when a request saves its trip.
LEMMA TripSaved ==
  ASSUME TripsInv, NEW w \in Servers, asked[w] # NoRequest, SaveTrip(w), EndRequest(w),
         asked[w].target = "DISPATCHED" => NoUnit \notin {snapshot[w].trip.vehicle, snapshot[w].trip.driver}
  PROVE  /\ trips' \in [Trips -> Trip] /\ rewritten' \subseteq Trips /\ loose' \subseteq Units
         /\ asked' \in [Servers -> Transition \cup {NoRequest}] /\ snapshot' \in [Servers -> Snapshot]
         /\ Absent' /\ AllowedInv' /\ AheadInv' /\ ActiveTripHasUnits'
<1> DEFINE t == asked[w].trip
           row == [snapshot[w].trip EXCEPT !.status = asked[w].target]
<1>1. TripsTypeOK
  BY DEF TripsInv
<1>2. /\ t \in Trips /\ asked[w].target \in Targets /\ asked[w].target \in TripStatus
      /\ trips[t] \in Trip /\ snapshot[w].trip \in Trip /\ snapshot[w].trip.status \in TripStatus
      /\ snapshot[w].trip.state = "live"
      /\ asked[w].target \in Allowed[snapshot[w].trip.status]
  BY AskedIs
<1>3. /\ row \in Trip /\ row.state = "live" /\ row.status = asked[w].target
      /\ row.vehicle = snapshot[w].trip.vehicle /\ row.driver = snapshot[w].trip.driver
      /\ UnitsOf(row) = UnitsOf(snapshot[w].trip)
  <2>1. row \in Trip /\ UnitsOf(row) = UnitsOf(snapshot[w].trip)
    BY <1>2, TripUnits
  <2>2. QED
    BY <2>1, <1>2 DEF Trip
<1>4. /\ trips' = [trips EXCEPT ![t] = row]
      /\ \/ /\ trips[t] = snapshot[w].trip /\ UNCHANGED <<rewritten, loose>>
         \/ /\ rewritten' = rewritten \cup {t}
            /\ loose' = loose \cup UnitsOf(trips[t])
  BY DEF SaveTrip
<1>5. UnitsOf(trips[t]) \subseteq Units
  BY <1>2, TripUnits
<1>6. Rank(snapshot[w].trip.status) < Rank(asked[w].target)
  BY <1>2, AllowedIs
<1>7. /\ Rank(snapshot[w].trip.status) \in 0..4 /\ Rank(asked[w].target) \in 0..4
  BY DEF Rank
<1> HIDE DEF row
<1>8. /\ trips' \in [Trips -> Trip] /\ rewritten' \subseteq Trips /\ loose' \subseteq Units
  BY <1>1, <1>2, <1>3, <1>4, <1>5 DEF TripsTypeOK
<1>9. /\ asked' \in [Servers -> Transition \cup {NoRequest}] /\ snapshot' \in [Servers -> Snapshot]
  <2>1. NoSnapshot \in Snapshot
    BY DEF NoSnapshot, Snapshot, NoTrip, Trip, TripStatus
  <2>2. QED
    BY <2>1, <1>1 DEF TripsTypeOK, EndRequest
<1>10. Absent'
  BY <1>1, <1>3, <1>4 DEF TripsTypeOK, TripsInv, Absent
<1>11. ASSUME NEW v \in Servers PROVE
       /\ \A u \in Trips : AheadOf(v, u)'
       /\ asked'[v] # NoRequest => trips'[asked'[v].trip].state # "absent"
       /\ asked'[v] # NoRequest => asked'[v] = asked[v] /\ snapshot'[v] = snapshot[v]
  <2>1. CASE v = w
    <3>1. asked'[v] = NoRequest
      BY <2>1, <1>1 DEF EndRequest, TripsTypeOK
    <3>2. QED
      BY <3>1 DEF AheadOf, Asks
  <2>2. CASE v # w
    <3>1. asked'[v] = asked[v] /\ snapshot'[v] = snapshot[v]
      BY <2>2, <1>1 DEF EndRequest, TripsTypeOK
    <3>2. \/ UnitsOf(trips[t]) \subseteq loose'
          \/ /\ trips[t].status \notin Planning => UnitsOf(row) = UnitsOf(trips[t])
             /\ Rank(trips[t].status) <= Rank(row.status)
      BY <1>3, <1>4, <1>6, <1>7
    <3>3. loose \subseteq loose' /\ row.state # "absent"
      BY <1>3, <1>4
    <3>4. QED
      BY <3>1, <3>2, <3>3, <1>2, <1>3, <1>4, OthersAhead
  <2>3. QED
    BY <2>1, <2>2
<1>12. AllowedInv' /\ AheadInv'
  BY <1>11 DEF TripsInv, AllowedInv, AheadInv
<1>13. ActiveTripHasUnits'
  <2> SUFFICES ASSUME NEW u \in Trips, u \notin rewritten', trips'[u].status \in Active
               PROVE  NoUnit \notin {trips'[u].vehicle, trips'[u].driver}
    BY DEF ActiveTripHasUnits
  <2>1. CASE u # t
    BY <2>1, <1>1, <1>4 DEF TripsTypeOK, TripsInv, ActiveTripHasUnits
  <2>2. CASE u = t
    <3>1. trips'[u] = row /\ u \notin rewritten /\ trips[t] = snapshot[w].trip
      BY <2>2, <1>1, <1>2, <1>4 DEF TripsTypeOK
    <3>2. asked[w].target \in {"DISPATCHED", "STARTED"}
      BY <3>1, <1>2, <1>3 DEF Active, Targets
    <3>3. CASE asked[w].target = "DISPATCHED"
      BY <3>1, <3>3, <1>3
    <3>4. CASE asked[w].target = "STARTED"
      <4>1. trips[t].status = "DISPATCHED"
        BY <3>4, <3>1, <1>2, AllowedIs
      <4>2. QED
        BY <4>1, <3>1, <2>2, <1>2, <1>3 DEF TripsInv, ActiveTripHasUnits, Active
    <3>5. QED
      BY <3>2, <3>3, <3>4
  <2>3. QED
    BY <2>1, <2>2
<1>14. QED
  BY <1>8, <1>9, <1>10, <1>12, <1>13

LEMMA PutIs ==
  ASSUME TripsInv, NEW S \in SUBSET Units, NEW s \in {"ON_TRIP", "AVAILABLE"}, Put(S, s)
  PROVE  /\ unit' \in [Units -> UnitStatus] /\ assigned' \subseteq Vehicles
         /\ \A u \in Units : unit'[u] = IF u \in S THEN s ELSE unit[u]
         /\ \A u \in Vehicles : (unit[u] = "ON_TRIP" <=> u \in assigned)
                                   => (unit'[u] = "ON_TRIP" <=> u \in assigned')
BY DEF TripsInv, TripsTypeOK, Put, Units, UnitStatus

\* Units, when a request has saved its trip: a unit that stays ON_TRIP is not
\* one the request held and frees.
LEMMA UnitsHeld ==
  ASSUME TripsInv, NEW w \in Servers, asked[w] # NoRequest, SaveTrip(w), EndRequest(w),
         \/ asked[w].target = "DISPATCHED" /\ Put(UnitsOf(snapshot[w].trip), "ON_TRIP")
         \/ asked[w].target = "STARTED" /\ UNCHANGED <<unit, assigned>>
         \/ asked[w].target = "COMPLETED" /\ Put(UnitsOf(snapshot[w].trip), "AVAILABLE")
         \/ asked[w].target = "CANCELLED" /\ Put(snapshot[w].onTrip, "AVAILABLE")
  PROVE  unit' \in [Units -> UnitStatus] /\ assigned' \subseteq Vehicles /\ HeldInv'
<1>0. PICK t \in Trips : t = asked[w].trip
  BY AskedIs
<1> DEFINE row == [snapshot[w].trip EXCEPT !.status = asked[w].target]
<1>1. TripsTypeOK /\ HeldInv
  BY DEF TripsInv
<1>2. /\ asked[w].target \in Targets /\ asked[w].target \in TripStatus
      /\ trips[t] \in Trip /\ snapshot[w].trip \in Trip /\ snapshot[w].trip.status \in TripStatus
      /\ snapshot[w].onTrip \subseteq Units
      /\ asked[w].target \in Allowed[snapshot[w].trip.status]
  BY <1>0, AskedIs
<1>3. /\ row \in Trip /\ row.status = asked[w].target
      /\ UnitsOf(row) = UnitsOf(snapshot[w].trip) /\ UnitsOf(row) \subseteq Units
  BY <1>2, TripUnits DEF Trip
<1>4. /\ trips' = [trips EXCEPT ![t] = row]
      /\ \/ /\ trips[t] = snapshot[w].trip /\ UNCHANGED <<rewritten, loose>>
         \/ loose' = loose \cup UnitsOf(trips[t])
  BY <1>0 DEF SaveTrip
<1> HIDE DEF row
<1>5. /\ unit' \in [Units -> UnitStatus] /\ assigned' \subseteq Vehicles
      /\ \A u \in Vehicles : (unit[u] = "ON_TRIP" <=> u \in assigned)
                                => (unit'[u] = "ON_TRIP" <=> u \in assigned')
  BY <1>1, <1>2, <1>3, PutIs DEF TripsTypeOK
<1>6. \A v \in Servers : \/ asked'[v] = asked[v] /\ snapshot'[v] = snapshot[v]
                         \/ asked'[v] = NoRequest
  BY <1>1 DEF EndRequest, TripsTypeOK
\* The row that was saved is nobody's snapshot, or its units are loose.
<1>7. ASSUME NEW u \in UnitsOf(row) \ loose', row.status \in Active PROVE HeldBy(u, t)'
  <2>1. trips'[t] = row
    BY <1>1, <1>4 DEF TripsTypeOK
  <2>2. row.status \in {"DISPATCHED", "STARTED"}
    BY <1>7, <1>2, <1>3 DEF Active, Targets
  <2>3. ASSUME NEW v \in Servers, asked'[v] # NoRequest, asked'[v].trip = t, snapshot'[v].trip = row
        PROVE  FALSE
    <3>1. Asks(v, t) /\ snapshot[v].trip = row
      BY <2>3, <1>6 DEF Asks
    <3>2. row.status \notin Planning
      BY <2>2 DEF Planning
    <3>3. /\ UnitsOf(row) \subseteq loose \cup UnitsOf(trips[t])
          /\ Rank(trips[t].status) < Rank(row.status) => UnitsOf(row) \subseteq loose
      BY <3>1, <3>2, <1>2 DEF TripsInv, AheadInv, AheadOf
    <3>4. CASE trips[t] = snapshot[w].trip /\ loose' = loose
      <4>1. Rank(snapshot[w].trip.status) < Rank(asked[w].target)
        BY <1>2, AllowedIs
      <4>2. QED
        BY <4>1, <3>3, <3>4, <1>3, <1>7
    <3>5. CASE loose' = loose \cup UnitsOf(trips[t])
      BY <3>3, <3>5, <1>7
    <3>6. QED
      BY <3>4, <3>5, <1>4
  <2>4. QED
    BY <2>1, <2>3, <1>7 DEF HeldBy, Asks
<1>8. ASSUME NEW u \in Units \ loose', unit'[u] = "ON_TRIP" PROVE \E s \in Trips : HeldBy(u, s)'
  <2>1. CASE asked[w].target = "DISPATCHED" /\ u \in UnitsOf(snapshot[w].trip)
    BY <2>1, <1>2, <1>3, <1>7, <1>8 DEF Active
  <2>2. CASE ~(asked[w].target = "DISPATCHED" /\ u \in UnitsOf(snapshot[w].trip))
    <3>1. /\ unit[u] = "ON_TRIP"
          /\ asked[w].target = "COMPLETED" => u \notin UnitsOf(snapshot[w].trip)
          /\ asked[w].target = "CANCELLED" => u \notin snapshot[w].onTrip
      BY <2>2, <1>2, <1>3, <1>8, PutIs
    <3>2. u \notin loose
      BY <1>4, <1>8
    <3>3. PICK s \in Trips : HeldBy(u, s)
      BY <3>1, <3>2, <1>1 DEF HeldInv
    <3>4. CASE s # t
      <4>1. trips'[s] = trips[s]
        BY <3>4, <1>1, <1>4 DEF TripsTypeOK
      <4>2. QED
        BY <4>1, <3>3, <1>6, HeldElsewhere
    <3>5. CASE s = t
      <4>1. trips[t].status \in Active /\ u \in UnitsOf(trips[t])
        BY <3>3, <3>5 DEF HeldBy
      <4>2. trips[t] = snapshot[w].trip /\ u \in UnitsOf(row)
        BY <4>1, <1>3, <1>4, <1>8
      <4>3. u \in snapshot[w].onTrip
        BY <4>2, <3>3, <3>5, <1>0 DEF HeldBy, Asks
      <4>4. asked[w].target # "DISPATCHED"
        BY <2>2, <4>2, <1>3
      <4>5. asked[w].target = "STARTED"
        BY <4>2, <4>3, <4>4, <3>1, <1>2, <1>3 DEF Targets
      <4>6. QED
        BY <4>2, <4>5, <1>2, <1>3, <1>7, <1>8 DEF Active
    <3>6. QED
      BY <3>4, <3>5
  <2>3. QED
    BY <2>1, <2>2
<1>9. HeldInv'
  <2>1. ASSUME NEW u \in Units \ loose', u \in Vehicles PROVE unit'[u] = "ON_TRIP" <=> u \in assigned'
    BY <2>1, <1>1, <1>4, <1>5 DEF HeldInv
  <2>2. QED
    BY <2>1, <1>8 DEF HeldInv
<1>10. QED
  BY <1>5, <1>9

LEMMA RankIs == \A s : Rank(s) \in 0..4 /\ (s \in Planning => Rank(s) = 0)
BY DEF Rank

\* Somebody writes a row by hand: it goes on as it was, or lets its units loose.
LEMMA RowWritten ==
  ASSUME TripsInv, NEW t \in Trips, NEW row \in Trip, row.state # "absent",
         trips' = [trips EXCEPT ![t] = row],
         UNCHANGED <<unit, assigned, asked, snapshot>>,
         loose' \subseteq Units, loose \subseteq loose',
         rewritten' \subseteq Trips, rewritten \subseteq rewritten',
         \/ UnitsOf(trips[t]) \subseteq loose'
         \/ trips[t].status \in Planning
         \/ UnitsOf(row) = UnitsOf(trips[t]) /\ Rank(trips[t].status) <= Rank(row.status),
         \/ UnitsOf(trips[t]) \subseteq loose'
         \/ trips[t].status \in Active => \/ row = trips[t]
                                          \/ row.status \in Active /\ Rank(trips[t].status) < Rank(row.status),
         t \in rewritten' \/ (row.status \in Active => NoUnit \notin {row.vehicle, row.driver})
  PROVE  TripsInv'
<1>1. TripsTypeOK /\ HeldInv
  BY DEF TripsInv
<1>2. TripsTypeOK'
  BY <1>1 DEF TripsTypeOK
<1>3. Absent'
  BY <1>1 DEF TripsInv, TripsTypeOK, Absent
<1>4. ActiveTripHasUnits'
  BY <1>1 DEF TripsInv, TripsTypeOK, ActiveTripHasUnits
<1>5. \/ UnitsOf(trips[t]) \subseteq loose'
      \/ /\ trips[t].status \notin Planning => UnitsOf(row) = UnitsOf(trips[t])
         /\ Rank(trips[t].status) <= Rank(row.status)
  BY RankIs
<1>6. ASSUME NEW v \in Servers PROVE
        /\ \A u \in Trips : AheadOf(v, u)'
        /\ asked[v] # NoRequest => trips'[asked[v].trip].state # "absent"
  BY <1>5, OthersAhead
<1>7. AheadInv' /\ AllowedInv'
  BY <1>6 DEF TripsInv, AheadInv, AllowedInv
<1>8. ASSUME NEW u \in Units \ loose', unit[u] = "ON_TRIP" PROVE \E s \in Trips : HeldBy(u, s)'
  <2>1. PICK s \in Trips : HeldBy(u, s)
    BY <1>1, <1>8 DEF HeldInv
  <2>2. CASE s # t \/ row = trips[t]
    <3>1. trips'[s] = trips[s]
      BY <2>2, <1>1 DEF TripsTypeOK
    <3>2. QED
      BY <3>1, <2>1, HeldElsewhere
  <2>3. CASE s = t /\ row # trips[t]
    <3>1. /\ trips[t].status \in Active /\ u \in UnitsOf(trips[t])
          /\ row.status \in Active /\ Rank(trips[t].status) < Rank(row.status)
      BY <2>1, <2>3, <1>8 DEF HeldBy
    <3>2. trips[t].status \notin Planning /\ row.status \notin Planning
      BY <3>1 DEF Active, Planning
    <3>3. u \in UnitsOf(row) /\ trips'[t] = row
      BY <3>1, <3>2, <1>1, <1>5, <1>8 DEF TripsTypeOK
    <3>4. ASSUME NEW v \in Servers, Asks(v, t), snapshot[v].trip = row PROVE FALSE
      BY <3>1, <3>2, <3>3, <3>4, <1>8 DEF TripsInv, AheadInv, AheadOf
    <3>5. HeldBy(u, t)'
      BY <3>1, <3>3, <3>4 DEF HeldBy, Asks
    <3>6. QED
      BY <3>5
  <2>4. QED
    BY <2>2, <2>3
<1>9. HeldInv'
  BY <1>1, <1>8 DEF HeldInv
<1>10. QED
  BY <1>2, <1>3, <1>4, <1>7, <1>9 DEF TripsInv

LEMMA WriteTripStep == ASSUME TripsInv, NEW t \in Trips, WriteTrip(t) PROVE TripsInv'
<1>1. TripsTypeOK
  BY DEF TripsInv
<1>2. PICK s \in EditStatuses, v \in Vehicles \cup {NoUnit}, d \in Drivers \cup {NoUnit} :
        LET row == [state |-> "live", status |-> s, vehicle |-> v, driver |-> d] IN
        /\ trips' = [trips EXCEPT ![t] = row]
        /\ IF ByTheBook(trips[t], row)
           THEN UNCHANGED <<rewritten, loose>>
           ELSE /\ MayRewrite
                /\ rewritten' = rewritten \cup {t}
                /\ loose' = loose \cup UnitsOf(trips[t])
  BY DEF WriteTrip
<1> DEFINE row == [state |-> "live", status |-> s, vehicle |-> v, driver |-> d]
<1>3. trips[t] \in Trip /\ trips[t].status \in TripStatus /\ UnitsOf(trips[t]) \subseteq Units
  BY <1>1, TripUnits DEF TripsTypeOK, Trip
<1>4. row \in Trip /\ row.state = "live" /\ row.status = s /\ row.vehicle = v /\ row.driver = d
  BY TripWorkflowAssumption DEF Trip
<1>0. row = [state |-> row.state, status |-> row.status, vehicle |-> row.vehicle, driver |-> row.driver]
  OBVIOUS
<1>5. /\ trips' = [trips EXCEPT ![t] = row]
      /\ \/ ByTheBook(trips[t], row) /\ UNCHANGED <<rewritten, loose>>
         \/ rewritten' = rewritten \cup {t} /\ loose' = loose \cup UnitsOf(trips[t])
  BY <1>2
<1>6. UNCHANGED <<unit, assigned, asked, snapshot>>
  BY DEF WriteTrip
<1>7. /\ loose' \subseteq Units /\ loose \subseteq loose'
      /\ rewritten' \subseteq Trips /\ rewritten \subseteq rewritten'
  BY <1>1, <1>3, <1>5 DEF TripsTypeOK
<1> HIDE DEF row
<1>8. CASE rewritten' = rewritten \cup {t} /\ loose' = loose \cup UnitsOf(trips[t])
  BY <1>4, <1>5, <1>6, <1>7, <1>8, RowWritten
<1>9. CASE ByTheBook(trips[t], row) /\ UNCHANGED <<rewritten, loose>>
  <2>1. /\ trips[t].state = "live"
        /\ row.status = trips[t].status \/ row.status \in Allowed[trips[t].status] \ Targets
        /\ trips[t].status \in Planning \/ UnitsOf(row) = UnitsOf(trips[t])
    BY <1>9 DEF ByTheBook
  <2>2. row.status # trips[t].status =>
          \/ trips[t].status \in Planning /\ row.status \in Planning
          \/ trips[t].status = "STARTED" /\ row.status = "IN_PROGRESS"
          \/ trips[t].status = "COMPLETED" /\ row.status = "BILLING_READY"
    BY <2>1, <1>3, AllowedIs
  <2>3. CASE trips[t].status \in Planning
    <3>1. row.status \in Planning
      BY <2>2, <2>3 DEF Planning
    <3>2. trips[t].status \notin Active /\ row.status \notin Active
      BY <3>1, <2>3 DEF Planning, Active
    <3>3. QED
      BY <3>2, <2>3, <1>4, <1>5, <1>6, <1>7, RowWritten
  <2>4. CASE trips[t].status \notin Planning
    <3>1. UnitsOf(row) = UnitsOf(trips[t])
      BY <2>1, <2>4
    <3>2. row.vehicle = trips[t].vehicle /\ row.driver = trips[t].driver
      BY <3>1, <1>3, <1>4, TripWorkflowAssumption DEF Trip, UnitsOf, Units
    <3>3. row.status = trips[t].status => row = trips[t]
      <4>1. trips[t] = [state |-> trips[t].state, status |-> trips[t].status,
                        vehicle |-> trips[t].vehicle, driver |-> trips[t].driver]
        BY <1>3 DEF Trip
      <4>2. trips[t].state = row.state
        BY <2>1, <1>4
      <4>3. QED
        BY <4>1, <4>2, <3>2, <1>0
    <3>4. Rank(trips[t].status) <= Rank(row.status)
      BY <2>2, <2>4, RankIs DEF Rank, Planning
    <3>5. trips[t].status \in Active =>
            row = trips[t] \/ (row.status \in Active /\ Rank(trips[t].status) < Rank(row.status))
      BY <2>2, <2>4, <3>3 DEF Rank, Planning, Active
    <3>6. t \in rewritten \/ (row.status \in Active => NoUnit \notin {row.vehicle, row.driver})
      BY <2>2, <2>4, <3>2 DEF TripsInv, ActiveTripHasUnits, Active
    <3>7. QED
      BY <3>1, <3>4, <3>5, <3>6, <1>4, <1>5, <1>6, <1>7, <1>9, RowWritten
  <2>5. QED
    BY <2>3, <2>4
<1>10. QED
  BY <1>5, <1>8, <1>9

LEMMA CreateTripStep == ASSUME TripsInv, NEW t \in Trips, CreateTrip(t) PROVE TripsInv'
<1>1. TripsTypeOK
  BY DEF TripsInv
<1>2. PICK s \in EditStatuses, v \in Vehicles \cup {NoUnit}, d \in Drivers \cup {NoUnit} :
        LET row == [state |-> "live", status |-> s, vehicle |-> v, driver |-> d] IN
        /\ trips' = [trips EXCEPT ![t] = row]
        /\ rewritten' = IF s \in Planning THEN rewritten ELSE rewritten \cup {t}
  BY DEF CreateTrip
<1> DEFINE row == [state |-> "live", status |-> s, vehicle |-> v, driver |-> d]
<1>3. trips[t].status \in Planning /\ trips[t].status \notin Active
  BY DEF CreateTrip, TripsInv, Absent, Planning, Active
<1>4. row \in Trip /\ row.state # "absent" /\ row.status = s
  BY TripWorkflowAssumption DEF Trip
<1>0. row = [state |-> row.state, status |-> row.status, vehicle |-> row.vehicle, driver |-> row.driver]
  OBVIOUS
<1>5. /\ trips' = [trips EXCEPT ![t] = row]
      /\ UNCHANGED <<unit, assigned, asked, snapshot, loose>>
  BY <1>2 DEF CreateTrip
<1>6. /\ loose' \subseteq Units /\ loose \subseteq loose'
      /\ rewritten' \subseteq Trips /\ rewritten \subseteq rewritten'
  BY <1>1, <1>2, <1>5 DEF TripsTypeOK
<1>7. t \in rewritten' \/ row.status \notin Active
  BY <1>2, <1>4 DEF Planning, Active
<1> HIDE DEF row
<1>8. QED
  BY <1>3, <1>4, <1>5, <1>6, <1>7, RowWritten

LEMMA DeleteTripStep == ASSUME TripsInv, NEW t \in Trips, DeleteTrip(t) PROVE TripsInv'
<1> DEFINE row == [trips[t] EXCEPT !.state = "deleted"]
<1>1. TripsTypeOK /\ trips[t] \in Trip
  BY DEF TripsInv, TripsTypeOK
<1>2. /\ row \in Trip /\ row.state # "absent" /\ row.status = trips[t].status
      /\ row.vehicle = trips[t].vehicle /\ row.driver = trips[t].driver
  BY <1>1 DEF Trip
<1>3. /\ trips' = [trips EXCEPT ![t] = row]
      /\ loose' = loose \cup UnitsOf(trips[t])
      /\ UNCHANGED <<unit, assigned, asked, snapshot, rewritten>>
  BY <1>1 DEF DeleteTrip, TripsTypeOK
<1>4. /\ loose' \subseteq Units /\ loose \subseteq loose'
      /\ rewritten' \subseteq Trips /\ rewritten \subseteq rewritten'
  BY <1>1, <1>3, TripUnits DEF TripsTypeOK
<1>5. t \in rewritten' \/ (row.status \in Active => NoUnit \notin {row.vehicle, row.driver})
  BY <1>2, <1>3 DEF TripsInv, ActiveTripHasUnits
<1> HIDE DEF row
<1>6. QED
  BY <1>2, <1>3, <1>4, <1>5, RowWritten

LEMMA WriteUnitStep == ASSUME TripsInv, NEW u \in Units, WriteUnit(u) PROVE TripsInv'
<1>1. TripsTypeOK /\ HeldInv
  BY DEF TripsInv
<1>2. /\ \E s \in UnitStatus : unit' = [unit EXCEPT ![u] = s]
      /\ \/ assigned' = assigned
         \/ u \in Vehicles /\ assigned' \in {assigned \cup {u}, assigned \ {u}}
      /\ loose' = loose \cup {u}
      /\ UNCHANGED <<trips, asked, snapshot, rewritten>>
  BY DEF WriteUnit
<1>3. TripsTypeOK'
  BY <1>1, <1>2 DEF TripsTypeOK
<1>4. Absent' /\ AllowedInv' /\ ActiveTripHasUnits'
  BY <1>2 DEF TripsInv, Absent, AllowedInv, ActiveTripHasUnits
<1>5. AheadInv'
  BY <1>2 DEF TripsInv, AheadInv, AheadOf, Asks
<1>6. ASSUME NEW v \in Units \ loose' PROVE
        /\ unit'[v] = "ON_TRIP" => \E t \in Trips : HeldBy(v, t)'
        /\ v \in Vehicles => (unit'[v] = "ON_TRIP" <=> v \in assigned')
  <2>1. /\ unit'[v] = unit[v] /\ v \notin loose
        /\ v \in assigned' <=> v \in assigned
    BY <1>1, <1>2, <1>6 DEF TripsTypeOK
  <2>2. \A t \in Trips : HeldBy(v, t) => HeldBy(v, t)'
    BY <1>2 DEF HeldBy, Asks
  <2>3. QED
    BY <2>1, <2>2, <1>1 DEF HeldInv
<1>7. HeldInv'
  BY <1>6 DEF HeldInv
<1>8. QED
  BY <1>3, <1>4, <1>5, <1>7 DEF TripsInv

LEMMA AskForStep ==
  ASSUME TripsInv, NEW w \in Servers, NEW t \in Trips, NEW target \in Targets, AskFor(w, t, target)
  PROVE  TripsInv'
<1> DEFINE read == [trip |-> trips[t], onTrip |-> {u \in UnitsOf(trips[t]) : unit[u] = "ON_TRIP"}]
<1>1. TripsTypeOK /\ HeldInv /\ trips[t] \in Trip
  BY DEF TripsInv, TripsTypeOK
<1>2. /\ trips[t].state = "live" /\ target \in Allowed[trips[t].status]
      /\ asked' = [asked EXCEPT ![w] = [trip |-> t, target |-> target]]
      /\ snapshot' = [snapshot EXCEPT ![w] = read]
      /\ UNCHANGED <<trips, unit, assigned, rewritten, loose>>
  BY DEF AskFor
<1>3. read \in Snapshot /\ read.trip = trips[t]
      /\ \A u \in UnitsOf(trips[t]) : unit[u] = "ON_TRIP" => u \in read.onTrip
  BY <1>1, TripUnits DEF Snapshot
<1> HIDE DEF read
<1>4. TripsTypeOK'
  BY <1>1, <1>2, <1>3 DEF TripsTypeOK, Transition
<1>5. Absent' /\ ActiveTripHasUnits'
  BY <1>2 DEF TripsInv, Absent, ActiveTripHasUnits
<1>6. ASSUME NEW v \in Servers PROVE
        \/ v = w /\ asked'[v] = [trip |-> t, target |-> target] /\ snapshot'[v] = read
        \/ v # w /\ asked'[v] = asked[v] /\ snapshot'[v] = snapshot[v]
  BY <1>1, <1>2 DEF TripsTypeOK
<1>7. AllowedInv'
  BY <1>2, <1>3, <1>6 DEF TripsInv, AllowedInv
<1>8. ASSUME NEW v \in Servers, NEW u \in Trips PROVE AheadOf(v, u)'
  <2>1. CASE v = w
    <3>1. /\ asked'[v].trip = t /\ snapshot'[v].trip = trips[t]
      BY <2>1, <1>3, <1>6
    <3>2. ~(Rank(trips[t].status) < Rank(trips[t].status))
      BY RankIs
    <3>3. QED
      BY <3>1, <3>2, <1>2 DEF AheadOf, Asks
  <2>2. CASE v # w
    BY <2>2, <1>2, <1>6 DEF TripsInv, AheadInv, AheadOf, Asks
  <2>3. QED
    BY <2>1, <2>2
<1>9. ASSUME NEW u \in Units \ loose, unit[u] = "ON_TRIP", NEW s \in Trips, HeldBy(u, s)
      PROVE  HeldBy(u, s)'
  BY <1>2, <1>3, <1>6, <1>9 DEF HeldBy, Asks
<1>10. HeldInv'
  <2>1. ASSUME NEW u \in Units \ loose, unit[u] = "ON_TRIP" PROVE \E s \in Trips : HeldBy(u, s)'
    BY <1>1, <1>9, <2>1 DEF HeldInv
  <2>2. QED
    BY <2>1, <1>1, <1>2 DEF HeldInv
<1>11. QED
  BY <1>4, <1>5, <1>7, <1>8, <1>10 DEF TripsInv, AheadInv

LEMMA GiveUpStep == ASSUME TripsInv, NEW w \in Servers, GiveUp(w) PROVE TripsInv'
<1>1. TripsTypeOK /\ HeldInv
  BY DEF TripsInv
<1>2. UNCHANGED <<trips, unit, assigned, rewritten, loose>>
  BY DEF GiveUp
<1>3. ASSUME NEW v \in Servers PROVE
        \/ asked'[v] = NoRequest
        \/ asked'[v] = asked[v] /\ snapshot'[v] = snapshot[v]
  BY <1>1 DEF GiveUp, EndRequest, TripsTypeOK
<1>4. TripsTypeOK'
  <2>1. NoSnapshot \in Snapshot
    BY DEF NoSnapshot, Snapshot, NoTrip, Trip, TripStatus
  <2>2. QED
    BY <2>1, <1>1, <1>2 DEF TripsTypeOK, GiveUp, EndRequest
<1>5. Absent' /\ ActiveTripHasUnits'
  BY <1>2 DEF TripsInv, Absent, ActiveTripHasUnits
<1>6. AllowedInv'
  BY <1>2, <1>3 DEF TripsInv, AllowedInv
<1>7. AheadInv'
  BY <1>2, <1>3 DEF TripsInv, AheadInv, AheadOf, Asks
<1>8. \A u \in Units, s \in Trips : HeldBy(u, s) => HeldBy(u, s)'
  BY <1>2, <1>3 DEF HeldBy, Asks
<1>9. HeldInv'
  BY <1>1, <1>2, <1>8 DEF HeldInv
<1>10. QED
  BY <1>4, <1>5, <1>6, <1>7, <1>9 DEF TripsInv

LEMMA TripsStep == TripsInv /\ [TripsNext]_tripVars => TripsInv'
<1> SUFFICES ASSUME TripsInv, [TripsNext]_tripVars PROVE TripsInv'
  OBVIOUS
<1>1. ASSUME NEW t \in Trips, CreateTrip(t) \/ WriteTrip(t) \/ DeleteTrip(t) PROVE TripsInv'
  BY <1>1, CreateTripStep, WriteTripStep, DeleteTripStep
<1>2. ASSUME NEW w \in Servers, DispatchTrip(w) \/ StartTrip(w) \/ CompleteTrip(w) \/ CancelTrip(w)
      PROVE  TripsInv'
  <2>1. /\ asked[w] # NoRequest /\ SaveTrip(w) /\ EndRequest(w)
        /\ asked[w].target = "DISPATCHED" =>
             NoUnit \notin {snapshot[w].trip.vehicle, snapshot[w].trip.driver}
        /\ \/ asked[w].target = "DISPATCHED" /\ Put(UnitsOf(snapshot[w].trip), "ON_TRIP")
           \/ asked[w].target = "STARTED" /\ UNCHANGED <<unit, assigned>>
           \/ asked[w].target = "COMPLETED" /\ Put(UnitsOf(snapshot[w].trip), "AVAILABLE")
           \/ asked[w].target = "CANCELLED" /\ Put(snapshot[w].onTrip, "AVAILABLE")
    BY <1>2 DEF DispatchTrip, StartTrip, CompleteTrip, CancelTrip
  <2>2. /\ trips' \in [Trips -> Trip] /\ rewritten' \subseteq Trips /\ loose' \subseteq Units
        /\ asked' \in [Servers -> Transition \cup {NoRequest}] /\ snapshot' \in [Servers -> Snapshot]
        /\ Absent' /\ AllowedInv' /\ AheadInv' /\ ActiveTripHasUnits'
    BY <2>1, TripSaved
  <2>3. unit' \in [Units -> UnitStatus] /\ assigned' \subseteq Vehicles /\ HeldInv'
    BY <2>1, UnitsHeld
  <2>4. QED
    BY <2>2, <2>3 DEF TripsInv, TripsTypeOK
<1>3. ASSUME UNCHANGED tripVars PROVE TripsInv'
  BY <1>3 DEF tripVars, TripsInv, TripsTypeOK, Absent, AllowedInv, AheadInv, AheadOf, Asks,
              HeldInv, HeldBy, ActiveTripHasUnits
<1>4. QED
  BY <1>1, <1>2, <1>3, WriteUnitStep, AskForStep, GiveUpStep DEF TripsNext

\* Trips: rows, units and requests keep their columns' values, for any trips,
\* vehicles, drivers and web workers.
THEOREM TripsTypeCorrect == TripsSpec => []TripsTypeOK
<1>1. TripsInv => TripsTypeOK
  BY DEF TripsInv
<1>2. QED
  BY <1>1, TripsStart, TripsStep, PTL DEF TripsSpec

\* Trips: nobody is left on a trip that is over, however dispatches, completions
\* and cancels race, but for units that were let loose by hand or by a trip saved
\* over a newer one.
THEOREM UnitsCorrect == TripsSpec => []OnTripHasTrip
<1>1. TripsInv => OnTripHasTrip
  BY DEF TripsInv, HeldInv, HeldBy, OnTripHasTrip
<1>2. QED
  BY <1>1, TripsStart, TripsStep, PTL DEF TripsSpec

\* Trips: a trip on the road has a vehicle and a driver, unless its row was
\* rewritten.
THEOREM ActiveCorrect == TripsSpec => []ActiveTripHasUnits
<1>1. TripsInv => ActiveTripHasUnits
  BY DEF TripsInv
<1>2. QED
  BY <1>1, TripsStart, TripsStep, PTL DEF TripsSpec

\* Trips: the status moves along VALID_TRANSITIONS unless the row was rewritten.
THEOREM TransitionsCorrect == TripsSpec => StateMachineKept
<1> DEFINE Still == \A t \in Trips : \/ trips'[t].status = trips[t].status
                                     \/ trips[t].state = "absent"
                                     \/ trips'[t].status \in Allowed[trips[t].status]
                                     \/ t \in rewritten'
<1>1. ASSUME TripsInv, [TripsNext]_tripVars PROVE [Still]_tripVars
  <2> SUFFICES ASSUME NEW t \in Trips, trips[t].state # "absent", t \notin rewritten'
               PROVE  \/ trips'[t].status = trips[t].status
                      \/ trips'[t].status \in Allowed[trips[t].status]
    OBVIOUS
  <2>1. TripsTypeOK
    BY <1>1 DEF TripsInv
  <2>2. ASSUME NEW s \in Trips, CreateTrip(s) PROVE trips'[t] = trips[t]
    BY <2>1, <2>2 DEF CreateTrip, TripsTypeOK
  <2>3. ASSUME NEW s \in Trips, DeleteTrip(s) PROVE trips'[t].status = trips[t].status
    BY <2>1, <2>3 DEF DeleteTrip, TripsTypeOK, Trip
  <2>4. ASSUME NEW s \in Trips, WriteTrip(s)
        PROVE  trips'[t].status = trips[t].status \/ trips'[t].status \in Allowed[trips[t].status]
    <3>1. CASE s # t
      BY <2>1, <2>4, <3>1 DEF WriteTrip, TripsTypeOK
    <3>2. CASE s = t
      BY <2>1, <2>4, <3>2 DEF WriteTrip, TripsTypeOK, ByTheBook
    <3>3. QED
      BY <3>1, <3>2
  <2>5. ASSUME NEW w \in Servers, DispatchTrip(w) \/ StartTrip(w) \/ CompleteTrip(w) \/ CancelTrip(w)
        PROVE  trips'[t].status = trips[t].status \/ trips'[t].status \in Allowed[trips[t].status]
    <3>1. asked[w] # NoRequest /\ SaveTrip(w)
      BY <2>5 DEF DispatchTrip, StartTrip, CompleteTrip, CancelTrip
    <3>2. /\ asked[w].trip \in Trips /\ snapshot[w].trip \in Trip
          /\ asked[w].target \in Allowed[snapshot[w].trip.status]
      BY <3>1, <1>1, AskedIs
    <3>3. [snapshot[w].trip EXCEPT !.status = asked[w].target].status = asked[w].target
      BY <3>2 DEF Trip
    <3>4. CASE asked[w].trip = t
      BY <3>1, <3>2, <3>3, <3>4, <2>1 DEF SaveTrip, TripsTypeOK
    <3>5. CASE asked[w].trip # t
      BY <3>1, <3>2, <3>5, <2>1 DEF SaveTrip, TripsTypeOK
    <3>6. QED
      BY <3>4, <3>5
  <2>6. ASSUME \/ UNCHANGED tripVars
               \/ \E u \in Units : WriteUnit(u)
               \/ \E w \in Servers, s \in Trips, target \in Targets : AskFor(w, s, target)
               \/ \E w \in Servers : GiveUp(w)
        PROVE  trips' = trips
    BY <2>6 DEF WriteUnit, AskFor, GiveUp, tripVars
  <2>7. QED
    BY <1>1, <2>2, <2>3, <2>4, <2>5, <2>6 DEF TripsNext
<1>2. QED
  BY <1>1, TripsStart, TripsStep, PTL DEF TripsSpec, StateMachineKept

-----------------------------------------------------------------------------
\* Induction over the numbers, with a set where the library's rule has a
\* predicate.
LEMMA SetInduction ==
  ASSUME NEW G \in SUBSET Nat, 0 \in G, \A n \in G : n + 1 \in G
  PROVE  G = Nat
<1> SUFFICES ASSUME Nat \ G # {} PROVE FALSE
  OBVIOUS
<1>1. PICK m \in Nat \ G : \A n \in Nat \ G : ~(<<n, m>> \in OpToRel(<, Nat))
  BY NatLessThanWellFounded, WFMin
<1>2. m \in Nat /\ m \notin G /\ m - 1 \in Nat /\ m - 1 < m /\ (m - 1) + 1 = m
  OBVIOUS
<1>3. ~(m - 1 < m) \/ m - 1 \in G
  <2>1. m - 1 \in Nat \ G => ~(<<m - 1, m>> \in OpToRel(<, Nat))
    BY <1>1, Zenon
  <2>2. QED
    BY <2>1, <1>2 DEF OpToRel
<1>4. QED
  BY <1>2, <1>3

-----------------------------------------------------------------------------
\* The program of the seeding script.
Named ==
  {"vertical", "branch", "category", "driver", "driver document", "vehicle",
   "vehicle document", "assignment", "customer", "route", "booking", "trip", "expense",
   "warehouse", "supplier", "part", "schedule", "record", "policy", "contract"}

LEMMA ScriptType == Script \in Seq(Named)
<1>1. Masters \in Seq(Named) /\ Crew \in Seq(Named) /\ Fleet \in Seq(Named)
  BY DEF Named, Masters, Crew, Fleet
<1>2. Papers \in Seq(Named) /\ Customers \in Seq(Named) /\ Routes \in Seq(Named)
  BY DEF Named, Papers, Customers, Routes
<1>3. Movements \in Seq(Named) /\ Stock \in Seq(Named)
  BY DEF Named, Movements, Stock
<1>4. Upkeep \in Seq(Named) /\ Covers \in Seq(Named)
  BY DEF Named, Upkeep, Covers
<1>5. QED
  BY <1>1, <1>2, <1>3, <1>4 DEF Script

One(g, n) ==
  IF n = 0 THEN <<>>
  ELSE IF Script[n] \in Tables THEN Append(g[n - 1], Script[n]) ELSE g[n - 1]

\* Kept is what its definition says: there is such a function.
LEMMA KeptIs == \A n \in 0..Len(Script) : Kept[n] = One(Kept, n)
<1> DEFINE G == {n \in Nat : \E g : \A m \in 0..n : g[m] = One(g, m)}
<1>1. 0 \in G
  <2> DEFINE g == [m \in 0..0 |-> <<>>]
  <2>1. \A m \in 0..0 : g[m] = One(g, m)
    BY DEF One
  <2> HIDE DEF g
  <2>2. \E h : \A m \in 0..0 : h[m] = One(h, m)
    BY <2>1
  <2>3. QED
    BY <2>2
<1>2. ASSUME NEW n \in G PROVE n + 1 \in G
  <2>1. n \in Nat /\ \E g : \A m \in 0..n : g[m] = One(g, m)
    OBVIOUS
  <2>2. PICK g : \A m \in 0..n : g[m] = One(g, m)
    BY <2>1
  <2> DEFINE h == [m \in 0..n + 1 |-> One(g, m)]
  <2>3. ASSUME NEW m \in 0..n + 1 PROVE h[m] = One(h, m)
    <3>1. h[m] = One(g, m)
      OBVIOUS
    <3>2. m = 0 \/ m - 1 \in 0..n
      BY <2>1
    <3>3. m - 1 \in 0..n => h[m - 1] = g[m - 1]
      BY <2>1, <2>2
    <3> HIDE DEF h
    <3>4. QED
      BY <3>1, <3>2, <3>3 DEF One
  <2> HIDE DEF h
  <2>4. \E f : \A m \in 0..n + 1 : f[m] = One(f, m)
    BY <2>3
  <2>5. n + 1 \in Nat
    BY <2>1
  <2>6. QED
    BY <2>4, <2>5
<1> HIDE DEF G
<1>3. G = Nat
  BY <1>1, <1>2, SetInduction DEF G
<1>4. Len(Script) \in Nat
  BY ScriptType
<1>5. PICK g : \A m \in 0..Len(Script) : g[m] = One(g, m)
  BY <1>3, <1>4 DEF G
<1> DEFINE kept == [m \in 0..Len(Script) |-> g[m]]
<1>6. \A m \in 0..Len(Script) : kept[m] = One(kept, m)
  BY <1>4, <1>5 DEF One
<1> HIDE DEF kept
<1>7. kept = [n \in 0..Len(Script) |-> IF n = 0 THEN <<>>
        ELSE IF Script[n] \in Tables THEN Append(kept[n - 1], Script[n]) ELSE kept[n - 1]]
  <2>1. kept = [n \in 0..Len(Script) |-> kept[n]]
    BY DEF kept
  <2>2. QED
    BY <1>6, <2>1, Zenon DEF One
<1>8. Kept = [n \in 0..Len(Script) |-> IF n = 0 THEN <<>>
        ELSE IF Script[n] \in Tables THEN Append(Kept[n - 1], Script[n]) ELSE Kept[n - 1]]
  BY <1>7, Zenon DEF Kept
<1>9. QED
  BY <1>8 DEF One

\* The script has a table of the instance at least, and no others.
LEMMA ProgramIs == Program \in Seq(Tables) /\ Len(Program) \in Nat \ {0}
<1>0. Len(Script) \in Nat
  BY ScriptType
<1> DEFINE Reached(n) == \E m \in 1..n : Script[m] \in Tables
           G == {n \in Nat : n <= Len(Script) =>
                   Kept[n] \in Seq(Tables) /\ (Reached(n) => Len(Kept[n]) > 0)}
<1>1. 0 \in G
  <2>1. 0 \in 0..Len(Script)
    BY <1>0
  <2>2. Kept[0] = <<>>
    BY <2>1, KeptIs DEF One
  <2>3. ~Reached(0)
    OBVIOUS
  <2>4. Kept[0] \in Seq(Tables)
    BY <2>2
  <2>5. QED
    BY <2>3, <2>4
<1>2. ASSUME NEW n \in G PROVE n + 1 \in G
  <2>1. n \in Nat
    OBVIOUS
  <2>2. ASSUME n + 1 <= Len(Script)
        PROVE  Kept[n + 1] \in Seq(Tables) /\ (Reached(n + 1) => Len(Kept[n + 1]) > 0)
    <3>1. /\ Kept[n] \in Seq(Tables)
          /\ Reached(n) => Len(Kept[n]) > 0
      BY <1>0, <2>1, <2>2
    <3>2. n + 1 \in 0..Len(Script) /\ n + 1 # 0 /\ (n + 1) - 1 = n
      BY <1>0, <2>1, <2>2
    <3>3. Kept[n + 1] = IF Script[n + 1] \in Tables THEN Append(Kept[n], Script[n + 1]) ELSE Kept[n]
      BY <3>2, KeptIs DEF One
    <3>4. Reached(n + 1) => Reached(n) \/ Script[n + 1] \in Tables
      BY <2>1
    <3>5. QED
      BY <3>1, <3>3, <3>4
  <2>3. QED
    BY <2>1, <2>2
<1> HIDE DEF G
<1>3. G = Nat
  BY <1>1, <1>2, SetInduction DEF G
<1>4. Kept[Len(Script)] \in Seq(Tables) /\ (Reached(Len(Script)) => Len(Kept[Len(Script)]) > 0)
  BY <1>0, <1>3 DEF G
<1>5. Reached(Len(Script))
  <2>1. PICK t \in Tables : t \in Range(Script)
    BY SeedingAssumption
  <2>2. DOMAIN Script = 1..Len(Script)
    BY ScriptType
  <2>3. QED
    BY <2>1, <2>2 DEF Range
<1>6. QED
  BY <1>4, <1>5 DEF Program

-----------------------------------------------------------------------------
\* The seeding script.

\* A run is in its script; the row it is about to insert is not there, or came
\* meanwhile; and a run that was refused had the row, or lost it.
RunInv(r) ==
  /\ run[r].step # "done" => run[r].at <= Len(Program)
  /\ run[r].step = "company" => run[r].at = 1 /\ run[r].home = "sample"
  /\ run[r].step = "insert" /\ Found(r) > 0 => Key(r) \in doubled
  /\ run[r].step = "again" =>
       /\ Table(r) \in Unique
       /\ Found(r) = 1 \/ Key(r) \in deleted \/ Table(r) \in run[r].lost
  /\ run[r].step = "stopped" =>
       \/ run[r].at = 1 /\ Contains(companies, "sample") /\ run[r].home = "sample"
       \/ Table(r) \in Unique /\ (Key(r) \in deleted \/ Table(r) \in run[r].lost)
       \/ Table(r) \notin Unique /\ Key(r) \in doubled

\* A unique key has one row, and a row that was deleted is known to have been.
RowInv(key) ==
  /\ key[2] \in Unique => rows[key].live + rows[key].dead <= 1
  /\ rows[key].dead > 0 => key \in deleted
  /\ rows[key].live > 1 => key \in doubled

SeedingInv ==
  /\ SeedingTypeOK
  /\ \A r \in Runners : RunInv(r)
  /\ \A key \in Homes \X Tables : RowInv(key)

LEMMA KeyIs ==
  ASSUME SeedingInv, NEW r \in Runners, run[r].step # "done"
  PROVE  Table(r) \in Tables /\ Key(r) \in Homes \X Tables
<1>1. run[r].at \in 1..Len(Program) /\ run[r].home \in Homes
  BY ProgramIs DEF SeedingInv, SeedingTypeOK, RunInv, Run
<1>2. Table(r) \in Tables
  BY <1>1, ProgramIs DEF Table
<1>3. QED
  BY <1>1, <1>2 DEF Key, Place, Homes

LEMMA SeedingStart == SeedingInit => SeedingInv
<1> SUFFICES ASSUME SeedingInit PROVE SeedingInv
  OBVIOUS
<1>1. [step |-> "idle", home |-> "sample", at |-> 1, lost |-> {}] \in Run
  BY ProgramIs DEF Run, Homes
<1>2. SeedingTypeOK
  BY <1>1, SeedingAssumption DEF SeedingInit, SeedingTypeOK
<1>3. \A r \in Runners : RunInv(r)
  BY ProgramIs DEF SeedingInit, RunInv
<1>4. \A key \in Homes \X Tables : RowInv(key)
  BY DEF SeedingInit, RowInv
<1>5. QED
  BY <1>2, <1>3, <1>4 DEF SeedingInv

\* A run that does not move, whatever it has lost.
LEMMA RunKept ==
  ASSUME SeedingInv, NEW v \in Runners,
         run'[v].step = run[v].step, run'[v].at = run[v].at, run'[v].home = run[v].home,
         run[v].lost \subseteq run'[v].lost,
         Contains(companies, "sample") => Contains(companies', "sample"),
         deleted \subseteq deleted', doubled \subseteq doubled',
         run[v].step = "insert" /\ rows'[Key(v)].live > 0 => Key(v) \in doubled',
         run[v].step = "again" =>
           rows'[Key(v)].live = 1 \/ Key(v) \in deleted' \/ Table(v) \in run'[v].lost
  PROVE  RunInv(v)'
<1>1. Table(v)' = Table(v) /\ Key(v)' = Key(v)
  BY DEF Table, Key
<1>2. Found(v)' = rows'[Key(v)].live
  BY <1>1 DEF Found
<1>3. RunInv(v)
  BY DEF SeedingInv
<1>4. QED
  BY <1>1, <1>2, <1>3 DEF RunInv

\* A run moves, with the rows as they are.
LEMMA RunMoves ==
  ASSUME SeedingInv, NEW r \in Runners, NEW new \in Run, run' = [run EXCEPT ![r] = new],
         companies' \in Seq(Homes),
         Contains(companies, "sample") => Contains(companies', "sample"),
         UNCHANGED <<rows, edits, deleted, doubled>>, RunInv(r)'
  PROVE  SeedingInv'
<1>1. SeedingTypeOK'
  BY DEF SeedingInv, SeedingTypeOK
<1>2. ASSUME NEW v \in Runners PROVE RunInv(v)'
  <2>1. CASE v = r
    BY <2>1
  <2>2. CASE v # r
    <3>1. run'[v] = run[v]
      BY <2>2 DEF SeedingInv, SeedingTypeOK
    <3>2. RunInv(v)
      BY DEF SeedingInv
    <3>3. QED
      BY <3>1, <3>2, RunKept DEF RunInv, Found
  <2>3. QED
    BY <2>1, <2>2
<1>3. \A key \in Homes \X Tables : RowInv(key)'
  BY DEF SeedingInv, RowInv
<1>4. QED
  BY <1>1, <1>2, <1>3 DEF SeedingInv

\* The row of a run is there, and it goes on.
LEMMA OnwardIs ==
  ASSUME SeedingInv, NEW r \in Runners, run[r].step # "done"
  PROVE  /\ Onward(r) \in [Runners -> Run]
         /\ \A v \in Runners \ {r} : Onward(r)[v] = run[v]
         /\ Onward(r)[r] \in Run
         /\ Onward(r) = [run EXCEPT ![r] = Onward(r)[r]]
         /\ run' = Onward(r) => RunInv(r)'
<1>1. run \in [Runners -> Run] /\ run[r] \in Run /\ run[r].at \in 1..Len(Program)
  BY ProgramIs DEF SeedingInv, SeedingTypeOK, RunInv, Run
<1> DEFINE step == IF run[r].at = Len(Program) THEN "done" ELSE "get"
           new == [run[r] EXCEPT !.at = @ + 1, !.step = step]
<1>2. new \in Run
  <2>1. run[r].at + 1 \in 1..Len(Program) + 1
    BY <1>1, ProgramIs
  <2>2. step \in {"get", "done"}
    OBVIOUS
  <2> HIDE DEF step
  <2>3. QED
    BY <1>1, <2>1, <2>2 DEF Run
<1>3. Onward(r) = [run EXCEPT ![r] = new]
  BY <1>1 DEF Onward
<1>4. Onward(r)[r] = new /\ \A v \in Runners \ {r} : Onward(r)[v] = run[v]
  BY <1>1, <1>3
<1>5. ASSUME run' = Onward(r) PROVE RunInv(r)'
  <2>1. run'[r].step = step /\ run'[r].at = run[r].at + 1
    BY <1>1, <1>4, <1>5 DEF Run
  <2>2. QED
    BY <1>1, <2>1, ProgramIs DEF RunInv
<1>6. QED
  BY <1>1, <1>2, <1>3, <1>4, <1>5

LEMMA StartRunStep ==
  ASSUME SeedingInv, NEW r \in Runners, StartRun(r)
  PROVE  SeedingInv'
<1> DEFINE new ==
      [step |-> IF companies = <<>> THEN "company" ELSE "get",
       home |-> IF companies = <<>> THEN "sample" ELSE Last(companies), at |-> 1, lost |-> {}]
<1>1. run' = [run EXCEPT ![r] = new] /\ UNCHANGED <<companies, rows, edits, deleted, doubled>>
  BY DEF StartRun
<1>2. companies # <<>> => Last(companies) \in Homes
  BY DEF SeedingInv, SeedingTypeOK, Last
<1>3. new \in Run
  BY <1>2, ProgramIs DEF Run, Homes
<1>4. RunInv(r)'
  <2>1. run'[r] = new
    BY <1>1 DEF SeedingInv, SeedingTypeOK
  <2>2. /\ run'[r].at = 1 /\ run'[r].step \in {"company", "get"}
        /\ run'[r].step = "company" => run'[r].home = "sample"
    BY <2>1
  <2>3. QED
    BY <2>2, ProgramIs DEF RunInv
<1> HIDE DEF new
<1>5. companies' \in Seq(Homes)
  BY <1>1 DEF SeedingInv, SeedingTypeOK
<1>6. QED
  BY <1>1, <1>3, <1>4, <1>5, RunMoves

LEMMA CreateCompanyStep ==
  ASSUME SeedingInv, NEW r \in Runners, CreateCompany(r)
  PROVE  SeedingInv'
<1> DEFINE new(step) == [run[r] EXCEPT !.step = step]
<1>1. /\ run[r] \in Run /\ companies \in Seq(Homes) /\ run \in [Runners -> Run]
      /\ run[r].step = "company" /\ run[r].at = 1 /\ run[r].home = "sample"
  BY DEF CreateCompany, SeedingInv, SeedingTypeOK, RunInv
<1>2. new("stopped") \in Run /\ new("get") \in Run
  BY <1>1 DEF Run
<1>3. UNCHANGED <<rows, edits, deleted, doubled>>
  BY DEF CreateCompany, Stop
<1>4. CASE Contains(companies, "sample") /\ Stop(r)
  <2>1. run' = [run EXCEPT ![r] = new("stopped")] /\ companies' = companies
    BY <1>1, <1>4 DEF Stop
  <2>2. run'[r].step = "stopped" /\ run'[r].at = 1 /\ run'[r].home = "sample"
    BY <1>1, <2>1 DEF Run
  <2>3. RunInv(r)'
    BY <1>4, <2>1, <2>2, ProgramIs DEF RunInv, Contains
  <2>4. QED
    BY <1>1, <1>2, <1>3, <2>1, <2>3, RunMoves
<1>5. CASE companies' = Append(companies, "sample") /\ run' = [run EXCEPT ![r].step = "get"]
  <2>1. run' = [run EXCEPT ![r] = new("get")]
    BY <1>1, <1>5
  <2>2. run'[r].step = "get" /\ run'[r].at = 1
    BY <1>1, <2>1 DEF Run
  <2>3. RunInv(r)'
    BY <2>2, ProgramIs DEF RunInv
  <2>4. companies' \in Seq(Homes) /\ (Contains(companies, "sample") => Contains(companies', "sample"))
    BY <1>1, <1>5 DEF Contains, Homes
  <2>5. QED
    BY <1>2, <1>3, <2>1, <2>3, <2>4, RunMoves
<1>6. QED
  BY <1>4, <1>5 DEF CreateCompany

\* A run waits or stops at its table.
LEMMA StepMoves ==
  ASSUME SeedingInv, NEW r \in Runners, run[r].step \in {"get", "insert", "again"},
         NEW step \in {"insert", "again", "stopped"},
         run' = [run EXCEPT ![r].step = step],
         UNCHANGED <<companies, rows, edits, deleted, doubled>>,
         step = "insert" => Found(r) = 0,
         step = "again" =>
           Table(r) \in Unique /\ (Found(r) = 1 \/ Key(r) \in deleted \/ Table(r) \in run[r].lost),
         step = "stopped" =>
           \/ Table(r) \in Unique /\ (Key(r) \in deleted \/ Table(r) \in run[r].lost)
           \/ Table(r) \notin Unique /\ Key(r) \in doubled
  PROVE  SeedingInv'
<1> DEFINE new == [run[r] EXCEPT !.step = step]
<1>1. run[r] \in Run /\ companies \in Seq(Homes) /\ run \in [Runners -> Run]
  BY DEF SeedingInv, SeedingTypeOK
<1>2. new \in Run
  BY <1>1 DEF Run
<1>3. run' = [run EXCEPT ![r] = new]
  BY <1>1
<1>4. /\ run'[r].step = step /\ run'[r].at = run[r].at
      /\ run'[r].home = run[r].home /\ run'[r].lost = run[r].lost
  BY <1>1, <1>3 DEF Run
<1>5. Table(r)' = Table(r) /\ Key(r)' = Key(r) /\ Found(r)' = Found(r)
  BY <1>4 DEF Table, Key, Found
<1>6. run[r].at <= Len(Program)
  BY DEF SeedingInv, RunInv
<1>7. RunInv(r)'
  BY <1>4, <1>5, <1>6 DEF RunInv
<1> HIDE DEF new
<1>8. QED
  BY <1>1, <1>2, <1>3, <1>7, RunMoves

LEMMA OnwardMoves ==
  ASSUME SeedingInv, NEW r \in Runners, run[r].step # "done", run' = Onward(r),
         UNCHANGED <<companies, rows, edits, deleted, doubled>>
  PROVE  SeedingInv'
<1>1. companies' \in Seq(Homes)
  BY DEF SeedingInv, SeedingTypeOK
<1>2. QED
  BY <1>1, OnwardIs, RunMoves

LEMMA GetStep ==
  ASSUME SeedingInv, NEW r \in Runners, Get(r)
  PROVE  SeedingInv'
<1>1. run[r].step = "get" /\ UNCHANGED <<companies, rows, edits, deleted, doubled>>
  BY DEF Get
<1>2. CASE Found(r) = 0 /\ run' = [run EXCEPT ![r].step = "insert"]
  BY <1>1, <1>2, StepMoves
<1>3. CASE Found(r) = 1 /\ run' = Onward(r)
  BY <1>1, <1>3, OnwardMoves
<1>4. CASE Found(r) > 1 /\ run' = [run EXCEPT ![r].step = "stopped"]
  <2>1. Key(r) \in Homes \X Tables /\ Key(r)[2] = Table(r)
    BY <1>1, KeyIs DEF Key
  <2>2. RowInv(Key(r)) /\ rows[Key(r)] \in [live : Nat, dead : Nat]
    BY <2>1 DEF SeedingInv, SeedingTypeOK
  <2>3. Table(r) \notin Unique /\ Key(r) \in doubled
    BY <1>4, <2>1, <2>2 DEF RowInv, Found
  <2>4. QED
    BY <1>1, <1>4, <2>3, StepMoves
<1>5. QED
  BY <1>2, <1>3, <1>4 DEF Get

LEMMA GetAgainStep ==
  ASSUME SeedingInv, NEW r \in Runners, GetAgain(r)
  PROVE  SeedingInv'
<1>1. run[r].step = "again" /\ UNCHANGED <<companies, rows, edits, deleted, doubled>>
  BY DEF GetAgain
<1>2. CASE Found(r) = 1 /\ run' = Onward(r)
  BY <1>1, <1>2, OnwardMoves
<1>3. CASE Found(r) # 1 /\ run' = [run EXCEPT ![r].step = "stopped"]
  <2>1. Table(r) \in Unique /\ (Key(r) \in deleted \/ Table(r) \in run[r].lost)
    BY <1>1, <1>3 DEF SeedingInv, RunInv
  <2>2. QED
    BY <1>1, <1>3, <2>1, StepMoves
<1>4. QED
  BY <1>2, <1>3 DEF GetAgain

LEMMA LeaveStep ==
  ASSUME SeedingInv, NEW r \in Runners, Leave(r)
  PROVE  SeedingInv'
<1> DEFINE new == [step |-> "idle", home |-> "sample", at |-> 1, lost |-> {}]
<1>1. run' = [run EXCEPT ![r] = new] /\ UNCHANGED <<companies, rows, edits, deleted, doubled>>
  BY DEF Leave
<1>2. new \in Run
  BY ProgramIs DEF Run, Homes
<1>3. run'[r].step = "idle" /\ run'[r].at = 1
  BY <1>1 DEF SeedingInv, SeedingTypeOK
<1>4. RunInv(r)'
  BY <1>3, ProgramIs DEF RunInv
<1>5. companies' \in Seq(Homes)
  BY <1>1 DEF SeedingInv, SeedingTypeOK
<1> HIDE DEF new
<1>6. QED
  BY <1>1, <1>2, <1>4, <1>5, RunMoves

LEMMA InsertStep ==
  ASSUME SeedingInv, NEW r \in Runners, Insert(r)
  PROVE  SeedingInv'
<1>1. /\ run[r].step = "insert" /\ UNCHANGED <<companies, edits, deleted>>
      /\ run \in [Runners -> Run] /\ rows \in [Homes \X Tables -> [live : Nat, dead : Nat]]
      /\ doubled \subseteq Homes \X Tables
  BY DEF Insert, SeedingInv, SeedingTypeOK
<1>2. Key(r) \in Homes \X Tables /\ Key(r)[2] = Table(r)
  BY <1>1, KeyIs DEF Key
<1>3. RowInv(Key(r)) /\ Found(r) = rows[Key(r)].live /\ rows[Key(r)] \in [live : Nat, dead : Nat]
  BY <1>1, <1>2 DEF SeedingInv, Found
<1>4. CASE Table(r) \in Unique /\ Found(r) + rows[Key(r)].dead > 0
  <2>1. run' = [run EXCEPT ![r].step = "again"] /\ UNCHANGED <<rows, doubled>>
    BY <1>4 DEF Insert, Refused
  <2>2. Found(r) = 1 \/ Key(r) \in deleted
    BY <1>2, <1>3, <1>4 DEF RowInv
  <2>3. QED
    BY <1>1, <1>4, <2>1, <2>2, StepMoves
<1>5. CASE ~(Table(r) \in Unique /\ Found(r) + rows[Key(r)].dead > 0)
  <2>1. /\ rows' = [rows EXCEPT ![Key(r)].live = @ + 1]
        /\ run' = Onward(r)
        /\ doubled' = IF Awaited(Runners \ {r}, Key(r)) THEN doubled \cup {Key(r)} ELSE doubled
    BY <1>5 DEF Insert
  <2>2. /\ run' \in [Runners -> Run] /\ RunInv(r)'
        /\ \A v \in Runners \ {r} : run'[v] = run[v]
    BY <1>1, <2>1, OnwardIs
  <2>3. /\ rows' \in [Homes \X Tables -> [live : Nat, dead : Nat]]
        /\ rows'[Key(r)].live = rows[Key(r)].live + 1 /\ rows'[Key(r)].dead = rows[Key(r)].dead
        /\ \A key \in Homes \X Tables : key # Key(r) => rows'[key] = rows[key]
    BY <1>1, <1>2, <1>3, <2>1
  <2>4. doubled \subseteq doubled' /\ doubled' \subseteq Homes \X Tables
    BY <1>1, <1>2, <2>1
  <2>5. SeedingTypeOK'
    BY <1>1, <2>2, <2>3, <2>4 DEF SeedingInv, SeedingTypeOK
  <2>6. ASSUME NEW v \in Runners \ {r} PROVE RunInv(v)'
    <3>1. run'[v] = run[v] /\ RunInv(v)
      BY <2>2 DEF SeedingInv
    <3>2. run[v].step \in {"insert", "again"} => Key(v) \in Homes \X Tables /\ Key(v)[2] = Table(v)
      BY KeyIs DEF Key
    <3>3. run[v].step = "insert" /\ rows'[Key(v)].live > 0 => Key(v) \in doubled'
      <4>1. CASE run[v].step = "insert" /\ Key(v) = Key(r)
        BY <2>1, <4>1 DEF Awaited
      <4>2. CASE run[v].step = "insert" /\ Key(v) # Key(r)
        BY <2>3, <2>4, <3>1, <3>2, <4>2 DEF RunInv, Found
      <4>3. QED
        BY <4>1, <4>2
    <3>4. run[v].step = "again" =>
            rows'[Key(v)].live = 1 \/ Key(v) \in deleted' \/ Table(v) \in run'[v].lost
      <4>1. CASE run[v].step = "again" /\ Key(v) = Key(r)
        <5>1. Table(r) \in Unique
          BY <1>2, <3>1, <3>2, <4>1 DEF RunInv
        <5>2. Found(v) # 1
          BY <1>3, <1>5, <5>1, <4>1 DEF Found
        <5>3. QED
          BY <1>1, <3>1, <4>1, <5>2 DEF RunInv
      <4>2. CASE run[v].step = "again" /\ Key(v) # Key(r)
        BY <1>1, <2>3, <3>1, <3>2, <4>2 DEF RunInv, Found
      <4>3. QED
        BY <4>1, <4>2
    <3>5. QED
      BY <1>1, <2>4, <3>1, <3>3, <3>4, RunKept
  <2>7. ASSUME NEW key \in Homes \X Tables PROVE RowInv(key)'
    <3>1. RowInv(key)
      BY DEF SeedingInv
    <3>2. CASE key # Key(r)
      BY <1>1, <2>3, <2>4, <3>1, <3>2 DEF RowInv
    <3>3. CASE key = Key(r)
      <4>1. rows[key].live > 0 => key \in doubled
        BY <1>1, <1>3, <3>3 DEF SeedingInv, RunInv
      <4>2. key[2] \in Unique => rows[key].live + rows[key].dead = 0
        BY <1>2, <1>3, <1>5, <3>3
      <4>3. rows[key].live \in Nat /\ rows[key].dead \in Nat
        BY <1>3, <3>3
      <4>4. /\ rows'[key].live = rows[key].live + 1
            /\ rows'[key].dead = rows[key].dead
        BY <2>3, <3>3
      <4>5. QED
        BY <1>1, <2>4, <3>1, <4>1, <4>2, <4>3, <4>4 DEF RowInv
    <3>4. QED
      BY <3>2, <3>3
  <2>8. QED
    BY <2>2, <2>5, <2>6, <2>7 DEF SeedingInv
<1>6. QED
  BY <1>4, <1>5

\* A client changes the row of a key, in sight of the runs that await it.
LEMMA ClientMoves ==
  ASSUME SeedingInv, NEW key \in Homes \X Tables, Edit, UNCHANGED companies,
         rows' \in [Homes \X Tables -> [live : Nat, dead : Nat]],
         \A other \in Homes \X Tables : other # key => rows'[other] = rows[other],
         deleted \subseteq deleted', deleted' \subseteq Homes \X Tables,
         doubled \subseteq doubled', doubled' \subseteq Homes \X Tables,
         run' \in [Runners -> Run],
         \A v \in Runners : /\ run'[v].step = run[v].step /\ run'[v].at = run[v].at
                            /\ run'[v].home = run[v].home /\ run[v].lost \subseteq run'[v].lost,
         RowInv(key)',
         \A v \in Runners : run[v].step = "insert" /\ Key(v) = key /\ rows'[key].live > 0 =>
           key \in doubled',
         \A v \in Runners : run[v].step = "again" /\ Key(v) = key =>
           rows'[key].live = 1 \/ key \in deleted' \/ Table(v) \in run'[v].lost
  PROVE  SeedingInv'
<1>1. SeedingTypeOK'
  <2>1. companies' \in Seq(Homes)
    BY DEF SeedingInv, SeedingTypeOK
  <2>2. edits' \in 0..MaxEdits
    <3>1. edits \in 0..MaxEdits /\ MaxEdits \in Nat
      BY SeedingAssumption DEF SeedingInv, SeedingTypeOK
    <3>2. edits < MaxEdits /\ edits' = edits + 1
      BY DEF Edit
    <3>3. QED
      BY <3>1, <3>2
  <2>3. QED
    BY <2>1, <2>2 DEF SeedingTypeOK
<1>2. ASSUME NEW v \in Runners PROVE RunInv(v)'
  <2>1. RunInv(v)
    BY DEF SeedingInv
  <2>2. run[v].step \in {"insert", "again"} => Key(v) \in Homes \X Tables
    BY KeyIs
  <2>3. run[v].step = "insert" /\ rows'[Key(v)].live > 0 => Key(v) \in doubled'
    BY <2>1, <2>2 DEF RunInv, Found
  <2>4. run[v].step = "again" =>
          rows'[Key(v)].live = 1 \/ Key(v) \in deleted' \/ Table(v) \in run'[v].lost
    BY <2>1, <2>2 DEF RunInv, Found
  <2>5. QED
    BY <2>3, <2>4, RunKept
<1>3. ASSUME NEW other \in Homes \X Tables PROVE RowInv(other)'
  <2>1. RowInv(other)
    BY DEF SeedingInv
  <2>2. QED
    BY <2>1 DEF RowInv
<1>4. QED
  BY <1>1, <1>2, <1>3 DEF SeedingInv

\* What a run has lost.
LEMMA LoseIs ==
  ASSUME SeedingInv, NEW key \in Homes \X Tables, key[2] \in Editable, Lose(key)
  PROVE  /\ run' \in [Runners -> Run]
         /\ \A v \in Runners :
              /\ run'[v].step = run[v].step /\ run'[v].at = run[v].at
              /\ run'[v].home = run[v].home /\ run[v].lost \subseteq run'[v].lost
              /\ Key(v) = key => Table(v) \in run'[v].lost
<1>1. ASSUME NEW v \in Runners
      PROVE  /\ run'[v] \in Run
             /\ run'[v].step = run[v].step /\ run'[v].at = run[v].at
             /\ run'[v].home = run[v].home /\ run[v].lost \subseteq run'[v].lost
             /\ run[v].home = key[1] => key[2] \in run'[v].lost
  <2>1. run[v] \in Run
    BY DEF SeedingInv, SeedingTypeOK
  <2>2. CASE run[v].home = key[1]
    <3>1. run'[v] = [run[v] EXCEPT !.lost = @ \cup {key[2]}]
      BY <2>2 DEF Lose
    <3>2. QED
      BY <2>1, <3>1 DEF Run
  <2>3. CASE run[v].home # key[1]
    BY <2>1, <2>3 DEF Lose
  <2>4. QED
    BY <2>2, <2>3
<1>2. \A v \in Runners : Key(v) = key => Table(v) = key[2] /\ run[v].home = key[1]
  BY DEF Key, Place, Editable
<1>3. run' = [v \in Runners |-> run'[v]]
  BY DEF Lose
<1>4. QED
  BY <1>1, <1>2, <1>3

\* What is known of the row of a key, and of the runs that await it.
LEMMA RowIs ==
  ASSUME SeedingInv, NEW key \in Homes \X Tables
  PROVE  /\ rows \in [Homes \X Tables -> [live : Nat, dead : Nat]]
         /\ rows[key].live \in Nat /\ rows[key].dead \in Nat /\ RowInv(key)
         /\ deleted \subseteq Homes \X Tables /\ doubled \subseteq Homes \X Tables
         /\ run \in [Runners -> Run]
         /\ \A v \in Runners : run[v].step = "insert" /\ Key(v) = key /\ rows[key].live > 0 =>
              key \in doubled
         /\ \A v \in Runners : run[v].step = "again" /\ Key(v) = key =>
              /\ key[2] \in Unique
              /\ rows[key].live = 1 \/ key \in deleted \/ Table(v) \in run[v].lost
<1>1. \A v \in Runners : Key(v) = key /\ run[v].step = "again" => Table(v) = key[2]
  BY DEF Key
<1>2. rows[key] \in [live : Nat, dead : Nat]
  BY DEF SeedingInv, SeedingTypeOK
<1>3. QED
  BY <1>1, <1>2 DEF SeedingInv, SeedingTypeOK, RunInv, Found

LEMMA DeleteRowStep ==
  ASSUME SeedingInv, NEW key \in Homes \X Tables, Delete(key)
  PROVE  SeedingInv'
<1>1. /\ Edit /\ key[2] \in Editable /\ rows[key].live > 0 /\ Lose(key)
      /\ deleted' = deleted \cup {key} /\ UNCHANGED <<companies, doubled>>
  BY DEF Delete
<1>2. /\ rows' \in [Homes \X Tables -> [live : Nat, dead : Nat]]
      /\ \A other \in Homes \X Tables : other # key => rows'[other] = rows[other]
      /\ rows'[key].live = rows[key].live - 1 /\ rows'[key].dead = rows[key].dead + 1
  BY <1>1, RowIs DEF Delete
<1>3. RowInv(key)'
  BY <1>1, <1>2, RowIs DEF RowInv
<1>4. \A v \in Runners : run[v].step = "insert" /\ Key(v) = key => key \in doubled'
  BY <1>1, RowIs
<1>5. QED
  BY <1>1, <1>2, <1>3, <1>4, RowIs, LoseIs, ClientMoves

LEMMA ReviveStep ==
  ASSUME SeedingInv, NEW key \in Homes \X Tables, Revive(key)
  PROVE  SeedingInv'
<1>1. /\ Edit /\ rows[key].dead > 0 /\ Double(key) /\ UNCHANGED <<companies, run, deleted>>
  BY DEF Revive
<1>2. /\ rows' \in [Homes \X Tables -> [live : Nat, dead : Nat]]
      /\ \A other \in Homes \X Tables : other # key => rows'[other] = rows[other]
      /\ rows'[key].live = rows[key].live + 1 /\ rows'[key].dead = rows[key].dead - 1
  BY <1>1, RowIs DEF Revive
<1>3. /\ doubled \subseteq doubled' /\ doubled' \subseteq Homes \X Tables
      /\ rows[key].live > 0 \/ Awaited(Runners, key) => key \in doubled'
  BY <1>1, RowIs DEF Double
<1>4. RowInv(key)'
  BY <1>1, <1>2, <1>3, RowIs DEF RowInv
<1>5. \A v \in Runners : run[v].step = "insert" /\ Key(v) = key => key \in doubled'
  BY <1>3 DEF Awaited
<1>6. key \in deleted'
  BY <1>1, RowIs DEF RowInv
<1>7. QED
  BY <1>1, <1>2, <1>3, <1>4, <1>5, <1>6, RowIs, ClientMoves

LEMMA RenameStep ==
  ASSUME SeedingInv, NEW key \in Homes \X Tables, Rename(key)
  PROVE  SeedingInv'
<1>1. /\ Edit /\ key[2] \in Editable /\ rows[key].live > 0 /\ Lose(key)
      /\ UNCHANGED <<companies, deleted, doubled>>
  BY DEF Rename
<1>2. /\ rows' \in [Homes \X Tables -> [live : Nat, dead : Nat]]
      /\ \A other \in Homes \X Tables : other # key => rows'[other] = rows[other]
      /\ rows'[key].live = rows[key].live - 1 /\ rows'[key].dead = rows[key].dead
  <2> DEFINE row == [rows[key] EXCEPT !.live = @ - 1]
  <2>1. rows' = [rows EXCEPT ![key] = row]
    BY RowIs DEF Rename
  <2>2. row \in [live : Nat, dead : Nat] /\ row.live = rows[key].live - 1 /\ row.dead = rows[key].dead
    BY <1>1, RowIs
  <2> HIDE DEF row
  <2>3. QED
    BY <2>1, <2>2, RowIs
<1>3. RowInv(key)'
  BY <1>1, <1>2, RowIs DEF RowInv
<1>4. \A v \in Runners : run[v].step = "insert" /\ Key(v) = key => key \in doubled'
  BY <1>1, RowIs
<1>5. QED
  BY <1>1, <1>2, <1>3, <1>4, RowIs, LoseIs, ClientMoves

LEMMA AddStep ==
  ASSUME SeedingInv, NEW key \in Homes \X Tables, Add(key)
  PROVE  SeedingInv'
<1>1. /\ Edit /\ Double(key) /\ UNCHANGED <<companies, run, deleted>>
      /\ key[2] \in Unique => rows[key].live + rows[key].dead = 0
  BY DEF Add
<1>2. /\ rows' \in [Homes \X Tables -> [live : Nat, dead : Nat]]
      /\ \A other \in Homes \X Tables : other # key => rows'[other] = rows[other]
      /\ rows'[key].live = rows[key].live + 1 /\ rows'[key].dead = rows[key].dead
  <2> DEFINE row == [rows[key] EXCEPT !.live = @ + 1]
  <2>1. rows' = [rows EXCEPT ![key] = row]
    BY RowIs DEF Add
  <2>2. row \in [live : Nat, dead : Nat] /\ row.live = rows[key].live + 1 /\ row.dead = rows[key].dead
    BY <1>1, RowIs
  <2> HIDE DEF row
  <2>3. QED
    BY <2>1, <2>2, RowIs
<1>3. /\ doubled \subseteq doubled' /\ doubled' \subseteq Homes \X Tables
      /\ rows[key].live > 0 \/ Awaited(Runners, key) => key \in doubled'
  BY <1>1, RowIs DEF Double
<1>4. RowInv(key)'
  BY <1>1, <1>2, <1>3, RowIs DEF RowInv
<1>5. \A v \in Runners : run[v].step = "insert" /\ Key(v) = key => key \in doubled'
  BY <1>3 DEF Awaited
<1>6. \A v \in Runners : run[v].step = "again" /\ Key(v) = key =>
        key \in deleted' \/ Table(v) \in run'[v].lost
  BY <1>1, RowIs
<1>7. QED
  BY <1>1, <1>2, <1>3, <1>4, <1>5, <1>6, RowIs, ClientMoves

LEMMA NextDayStep ==
  ASSUME SeedingInv, NextDay
  PROVE  SeedingInv'
<1>1. /\ edits' \in 0..MaxEdits /\ UNCHANGED <<companies, deleted, doubled>> /\ "record" \in Tables
      /\ run \in [Runners -> Run] /\ rows \in [Homes \X Tables -> [live : Nat, dead : Nat]]
  BY SeedingAssumption DEF NextDay, Edit, SeedingInv, SeedingTypeOK
<1>2. \A v \in Runners :
        /\ run'[v] \in Run
        /\ run'[v].step = run[v].step /\ run'[v].at = run[v].at
        /\ run'[v].home = run[v].home /\ run[v].lost \subseteq run'[v].lost
  <2>1. ASSUME NEW v \in Runners PROVE run'[v] = [run[v] EXCEPT !.lost = @ \cup {"record"}]
    BY DEF NextDay
  <2>2. \A v \in Runners : run[v] \in Run
    BY <1>1
  <2>3. ASSUME NEW v \in Runners
        PROVE  /\ run'[v] \in Run
               /\ run'[v].step = run[v].step /\ run'[v].at = run[v].at
               /\ run'[v].home = run[v].home /\ run[v].lost \subseteq run'[v].lost
    <3>1. run[v] \in Run /\ run'[v] = [run[v] EXCEPT !.lost = @ \cup {"record"}]
      BY <2>1, <2>2
    <3>2. PICK table \in Tables : table = "record"
      BY <1>1
    <3>3. run'[v] = [run[v] EXCEPT !.lost = @ \cup {table}]
      BY <3>1, <3>2
    <3>4. QED
      BY <3>1, <3>3 DEF Run
  <2>4. QED
    BY <2>3
<1>3. run' \in [Runners -> Run]
  <2>1. run' = [v \in Runners |-> run'[v]]
    BY DEF NextDay
  <2>2. QED
    BY <1>2, <2>1
<1>4. \A key \in Homes \X Tables :
        rows'[key] = IF key[2] = "record" THEN [live |-> 0, dead |-> 0] ELSE rows[key]
  BY DEF NextDay
<1>5. rows' \in [Homes \X Tables -> [live : Nat, dead : Nat]]
  <2>1. rows' = [key \in Homes \X Tables |-> rows'[key]]
    BY DEF NextDay
  <2>2. QED
    BY <1>1, <1>4, <2>1
<1>6. SeedingTypeOK'
  BY <1>1, <1>3, <1>5 DEF SeedingInv, SeedingTypeOK
<1>7. ASSUME NEW v \in Runners PROVE RunInv(v)'
  <2>1. RunInv(v)
    BY DEF SeedingInv
  <2>2. run[v].step \in {"insert", "again"} => Key(v) \in Homes \X Tables /\ Key(v)[2] = Table(v)
    BY KeyIs DEF Key
  <2>3. "record" \notin Unique
    BY DEF Unique
  <2>4. run[v].step = "insert" /\ rows'[Key(v)].live > 0 => Key(v) \in doubled'
    BY <1>1, <1>4, <2>1, <2>2 DEF RunInv, Found
  <2>5. run[v].step = "again" =>
          rows'[Key(v)].live = 1 \/ Key(v) \in deleted' \/ Table(v) \in run'[v].lost
    BY <1>1, <1>2, <1>4, <2>1, <2>2, <2>3 DEF RunInv, Found
  <2>6. QED
    BY <1>1, <1>2, <2>4, <2>5, RunKept
<1>8. ASSUME NEW key \in Homes \X Tables PROVE RowInv(key)'
  <2>1. RowInv(key)
    BY DEF SeedingInv
  <2>2. QED
    BY <1>1, <1>4, <2>1 DEF RowInv
<1>9. QED
  BY <1>6, <1>7, <1>8 DEF SeedingInv

LEMMA SeedingStep == SeedingInv /\ [SeedingNext]_seedingVars => SeedingInv'
<1> SUFFICES ASSUME SeedingInv, [SeedingNext]_seedingVars PROVE SeedingInv'
  OBVIOUS
<1>1. ASSUME UNCHANGED <<rows, run, edits, deleted, doubled>>, companies' \in Seq(Homes),
             Contains(companies, "sample") => Contains(companies', "sample")
      PROVE  SeedingInv'
  <2>1. SeedingTypeOK'
    BY <1>1 DEF SeedingInv, SeedingTypeOK
  <2>2. ASSUME NEW v \in Runners PROVE RunInv(v)'
    BY <1>1 DEF SeedingInv, RunInv, Table, Key, Found
  <2>3. \A key \in Homes \X Tables : RowInv(key)'
    BY <1>1 DEF SeedingInv, RowInv
  <2>4. QED
    BY <2>1, <2>2, <2>3 DEF SeedingInv
<1>2. companies \in Seq(Homes)
  BY DEF SeedingInv, SeedingTypeOK
<1>3. CASE Register
  <2>1. /\ companies' = Append(companies, "registered") /\ "registered" \in Homes
        /\ UNCHANGED <<rows, run, edits, deleted, doubled>>
    BY <1>3 DEF Register, Homes
  <2>2. companies' \in Seq(Homes) /\ (Contains(companies, "sample") => Contains(companies', "sample"))
    BY <1>2, <2>1 DEF Contains
  <2>3. QED
    BY <1>1, <2>1, <2>2
<1>4. CASE UNCHANGED seedingVars
  BY <1>1, <1>2, <1>4 DEF seedingVars
<1>5. QED
  BY <1>3, <1>4, StartRunStep, CreateCompanyStep, GetStep, InsertStep, GetAgainStep, LeaveStep,
     DeleteRowStep, ReviveStep, RenameStep, AddStep, NextDayStep DEF SeedingNext

\* Seeding: companies, rows, runs and histories keep their types.
THEOREM SeedingTypeCorrect == SeedingSpec => []SeedingTypeOK
<1>1. SeedingInv => SeedingTypeOK
  BY DEF SeedingInv
<1>2. QED
  BY <1>1, SeedingStart, SeedingStep, PTL DEF SeedingSpec

\* Seeding: for any number of runs at once, any tables and any edits meanwhile, a
\* run stops only over rows that were deleted, lost or doubled, and no key gets
\* a second row but from a client, or in the gap of get_or_create.
THEOREM RunsCorrect == SeedingSpec => []RunsExplained
<1>1. SeedingInv => RunsExplained
  <2> SUFFICES ASSUME SeedingInv PROVE RunsExplained
    OBVIOUS
  <2>1. \A key \in Homes \X Tables : rows[key].live > 1 => key[2] \notin Unique /\ key \in doubled
    BY RowIs DEF RowInv
  <2>2. QED
    BY <2>1 DEF SeedingInv, RunInv, RunsExplained
<1>2. QED
  BY <1>1, SeedingStart, SeedingStep, PTL DEF SeedingSpec
=============================================================================

------------------------------ MODULE Website ------------------------------
(***************************************************************************)
(* The public side of a company: its mini-sites, and the bookings anybody  *)
(* makes at an address.                                                    *)
(*                                                                         *)
(* An address is the subdomain of a site, or else the slug of a company: a *)
(* booking looks for the one and then for the other, draws a code, stores  *)
(* the shipment and then its first tracking event, every statement         *)
(* committed at once, while the company's own people work on sites and     *)
(* shipments.                                                              *)
(***************************************************************************)
EXTENDS Naturals

CONSTANTS
  Companies,   \* each one's slug is its name
  Addresses,   \* slugs and subdomains
  Sites,
  Guests,      \* who books, one request at a time each
  Codes,       \* AWB numbers
  MaxWork,     \* bounds what the companies do with sites, shipments and statuses
  Nothing      \* no row, no request

\* A deleted site keeps its subdomain.
Site == [owner : Companies, subdomain : Addresses, live : BOOLEAN]

\* "moved" says that somebody has worked on the shipment, "shown" is the status
\* of its newest tracking event, "by" is history.
Parcel ==
  [company : Companies, by : Guests, live : BOOLEAN, status : {"BOOKED", "moved"},
   shown : {"none", "BOOKED", "moved"}]

Booking ==
  [step : {"slug"}, address : Addresses]
  \cup [step : {"draw"}, company : Companies]
  \cup [step : {"store"}, company : Companies, code : Codes]
  \cup [step : {"event"}, code : Codes]

ASSUME WebsiteAssumption ==
  /\ Companies \subseteq Addresses
  /\ MaxWork \in Nat
  /\ Nothing \notin Site \cup Parcel \cup Booking

VARIABLES
  open,      \* the companies that are ACTIVE
  site,
  parcel,    \* the shipment of each code
  booking,   \* the request of each guest
  worked,
  given,     \* history: the codes answered, and to whom
  behind     \* history: shipments somebody worked on before their first event, or
             \* from a row read before a transition

siteVars == <<open, site, parcel, booking, worked, given, behind>>

WebsiteInit ==
  /\ open = Companies
  /\ site = [s \in Sites |-> Nothing]
  /\ parcel = [code \in Codes |-> Nothing]
  /\ booking = [g \in Guests |-> Nothing]
  /\ worked = 0
  /\ given = {}
  /\ behind = {}

-----------------------------------------------------------------------------
\* Bookings

AtStep(g, step) == booking[g] # Nothing /\ booking[g].step = step

Draw(g, company) == booking' = [booking EXCEPT ![g] = [step |-> "draw", company |-> company]]

Close(g) == booking' = [booking EXCEPT ![g] = Nothing]

LiveSite(s) == site[s] # Nothing /\ site[s].live

\* resolve_public_tenant: the site with this subdomain, if its company is active.
FindSite(g, address) ==
  /\ booking[g] = Nothing
  /\ \/ \E s \in Sites : LiveSite(s) /\ site[s].subdomain = address /\ site[s].owner \in open
                         /\ Draw(g, site[s].owner)
     \/ /\ ~\E s \in Sites : LiveSite(s) /\ site[s].subdomain = address /\ site[s].owner \in open
        /\ booking' = [booking EXCEPT ![g] = [step |-> "slug", address |-> address]]
  /\ UNCHANGED <<open, site, parcel, worked, given, behind>>

\* Then the active company with this slug, or the answer 404.
FindSlug(g) ==
  /\ AtStep(g, "slug")
  /\ IF booking[g].address \in open THEN Draw(g, booking[g].address) ELSE Close(g)
  /\ UNCHANGED <<open, site, parcel, worked, given, behind>>

\* Taxi, bus and transport requests, and bodies that are not valid, are answered
\* without a trace.  So ends a request whose process dies.
Abandon(g) ==
  /\ booking[g] # Nothing
  /\ Close(g)
  /\ UNCHANGED <<open, site, parcel, worked, given, behind>>

\* generate_awb: a code no shipment has, deleted ones aside.
DrawCode(g, code) ==
  /\ AtStep(g, "draw")
  /\ parcel[code] # Nothing => ~parcel[code].live
  /\ booking' = [booking EXCEPT ![g] =
                   [step |-> "store", company |-> booking[g].company, code |-> code]]
  /\ UNCHANGED <<open, site, parcel, worked, given, behind>>

MutStore(g) ==   \* mutant: codes are unique among the shipments of a company
  LET code == booking[g].code IN
  /\ AtStep(g, "store")
  /\ parcel[code] # Nothing => parcel[code].company # booking[g].company
  /\ parcel' = [parcel EXCEPT ![code] =
       [company |-> booking[g].company, by |-> g, live |-> TRUE, status |-> "BOOKED", shown |-> "none"]]
  /\ booking' = [booking EXCEPT ![g] = [step |-> "event", code |-> code]]
  /\ UNCHANGED <<open, site, worked, given, behind>>

\* Shipment.objects.create: codes are unique among all shipments, and the second
\* with one of them is answered with an error.
Store(g) ==
  LET code == booking[g].code IN
  /\ AtStep(g, "store")
  /\ IF parcel[code] # Nothing THEN Close(g) /\ UNCHANGED parcel
     ELSE /\ parcel' = [parcel EXCEPT ![code] =
                [company |-> booking[g].company, by |-> g, live |-> TRUE,
                 status |-> "BOOKED", shown |-> "none"]]
          /\ booking' = [booking EXCEPT ![g] = [step |-> "event", code |-> code]]
  /\ UNCHANGED <<open, site, worked, given, behind>>

\* TrackingEvent.objects.create, and the answer with the code.
Event(g) ==
  LET code == booking[g].code IN
  /\ AtStep(g, "event")
  /\ parcel' = [parcel EXCEPT ![code].shown = "BOOKED"]
  /\ given' = given \cup {<<g, code>>}
  /\ Close(g)
  /\ UNCHANGED <<open, site, worked, behind>>

-----------------------------------------------------------------------------
\* The companies

Labour == worked < MaxWork /\ worked' = worked + 1

Taken(address) == \E s \in Sites : site[s] # Nothing /\ site[s].subdomain = address

CreateSite(s, company, address) ==
  /\ Labour
  /\ site[s] = Nothing /\ company \in open /\ ~Taken(address)
  /\ site' = [site EXCEPT ![s] = [owner |-> company, subdomain |-> address, live |-> TRUE]]
  /\ UNCHANGED <<open, parcel, booking, given, behind>>

MoveSite(s, address) ==
  /\ Labour
  /\ LiveSite(s) /\ site[s].owner \in open /\ ~Taken(address)
  /\ site' = [site EXCEPT ![s].subdomain = address]
  /\ UNCHANGED <<open, parcel, booking, given, behind>>

DeleteSite(s) ==
  /\ Labour
  /\ LiveSite(s) /\ site[s].owner \in open
  /\ site' = [site EXCEPT ![s].live = FALSE]
  /\ UNCHANGED <<open, parcel, booking, given, behind>>

\* A transition of the shipment: status and event in one transaction.
MoveParcel(code) ==
  /\ Labour
  /\ parcel[code] # Nothing /\ parcel[code].live /\ parcel[code].company \in open
  /\ parcel' = [parcel EXCEPT ![code].status = "moved", ![code].shown = "moved"]
  /\ behind' = IF \E g \in Guests : AtStep(g, "event") /\ booking[g].code = code
               THEN behind \cup {code} ELSE behind
  /\ UNCHANGED <<open, site, booking, given>>

DeleteParcel(code) ==
  /\ Labour
  /\ parcel[code] # Nothing /\ parcel[code].live /\ parcel[code].company \in open
  /\ parcel' = [parcel EXCEPT ![code].live = FALSE]
  /\ UNCHANGED <<open, site, booking, given, behind>>

\* The shipment has been in this status: somebody may still hold such a row.
Was(code, status) ==
  /\ parcel[code] # Nothing /\ parcel[code].company \in open
  /\ status = "moved" => parcel[code].status = "moved" \/ code \in behind

Behind(code, status) ==
  behind' = IF status # parcel[code].status THEN behind \cup {code} ELSE behind

\* An edit saves the whole row as it was when it was read: before a transition,
\* or before the shipment was deleted.
SaveParcel(code, status) ==
  /\ Labour
  /\ Was(code, status)
  /\ parcel' = [parcel EXCEPT ![code].status = status, ![code].live = TRUE]
  /\ Behind(code, status)
  /\ UNCHANGED <<open, site, booking, given>>

\* The events of a failed pickup and of the warehouse, where the shipment joins a
\* group or its cross-dock moves on, have the status of the row they read.
WriteEvent(code, status) ==
  /\ Labour
  /\ Was(code, status)
  /\ parcel' = [parcel EXCEPT ![code].shown = status]
  /\ Behind(code, status)
  /\ UNCHANGED <<open, site, booking, given>>

\* A suspension, or its end.
ChangeStatus(company) ==
  /\ Labour
  /\ open' = IF company \in open THEN open \ {company} ELSE open \cup {company}
  /\ UNCHANGED <<site, parcel, booking, given, behind>>

WebsiteNext ==
  \/ \E g \in Guests :
       \/ \E address \in Addresses : FindSite(g, address)
       \/ \E code \in Codes : DrawCode(g, code)
       \/ FindSlug(g) \/ Store(g) \/ Event(g) \/ Abandon(g)
  \/ \E s \in Sites, address \in Addresses :
       (\E company \in Companies : CreateSite(s, company, address)) \/ MoveSite(s, address)
  \/ \E s \in Sites : DeleteSite(s)
  \/ \E code \in Codes, status \in {"BOOKED", "moved"} :
       SaveParcel(code, status) \/ WriteEvent(code, status)
  \/ \E code \in Codes : MoveParcel(code) \/ DeleteParcel(code)
  \/ \E company \in Companies : ChangeStatus(company)

WebsiteSpec == WebsiteInit /\ [][WebsiteNext]_siteVars

-----------------------------------------------------------------------------
\* Properties

WebsiteTypeOK ==
  /\ open \subseteq Companies
  /\ site \in [Sites -> Site \cup {Nothing}]
  /\ parcel \in [Codes -> Parcel \cup {Nothing}]
  /\ booking \in [Guests -> Booking \cup {Nothing}]
  /\ worked \in 0..MaxWork
  /\ given \subseteq Guests \X Codes
  /\ behind \subseteq Codes

\* A code that was answered leads to the shipment of whoever it was answered to,
\* for ever, and no two are given one: generate_awb alone does not see to that,
\* two requests may draw the same.  And what the newest event of the shipment says
\* is its status, unless the company was faster than the event of the booking, or
\* an edit, a failed pickup or the warehouse had read the shipment before a
\* transition.
BookingsHold ==
  \A g \in Guests, code \in Codes : <<g, code>> \in given =>
    /\ parcel[code] # Nothing /\ parcel[code].by = g
    /\ code \notin behind => parcel[code].shown = parcel[code].status
=============================================================================

---------------------------- MODULE PeopleAndPages ----------------------------
(***************************************************************************)
(* The members of an organization (Membership), or the pages that lead a   *)
(* person with an invitation to it (Arrival).  The two have no variable in *)
(* common.                                                                 *)
(***************************************************************************)
EXTENDS Membership

CONSTANTS Tokens, Offer, None                   \* Arrival's

VARIABLES
  part,                                         \* which of the two the behaviour is of
  account, session, page, carried, mails, field, info, asked, accept, open, seats, came, detour

pages == <<account, session, page, carried, mails, field, info, asked, accept, open, seats, came,
           detour>>

Pages == INSTANCE Arrival WITH invite <- open

PagesRest ==
  /\ account = None /\ session = None /\ page = None /\ carried = None /\ mails = None
  /\ field = None /\ info = None /\ asked = None /\ accept = None /\ open = None
  /\ seats = None /\ came = None /\ detour = None

InitEither ==
  \/ part = "membership" /\ Init /\ PagesRest
  \/ part = "pages" /\ Pages!Init /\ Init
NextEither ==
  \/ part = "membership" /\ Next /\ UNCHANGED <<part, pages>>
  \/ part = "pages" /\ Pages!Next /\ UNCHANGED <<part, vars>>
Either == InitEither /\ [][NextEither]_<<part, vars, pages>>

\* Who comes by the link of an invitation and signs in finds its form (Arrival).
InvitedArrives == [][part = "pages" => Pages!FindsTheForm]_pages

\* Who joins by the form joins what was on display (Arrival).
JoinsWhatWasShown == part = "pages" => Pages!JoinsWhatWasShown
==============================================================================

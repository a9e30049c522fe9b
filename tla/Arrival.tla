------------------------------- MODULE Arrival -------------------------------
(***************************************************************************)
(* How a person who was given an invitation link gets into the             *)
(* organization: the pages of sign-in and sign-up that hand the link on,   *)
(* the verification mail that carries it past the inbox, and the form that *)
(* looks the invitation up, shows it and accepts it.                       *)
(*                                                                         *)
(* One person, in one tab; the administrator and other invitees are the    *)
(* environment.  Accounts are better-auth's, seen from the pages: sign-in  *)
(* needs a verified address, and a social sign-in is never merged into an  *)
(* account that has a password.                                            *)
(***************************************************************************)
CONSTANTS
  Tokens,   \* the invitations the person can be given the link of
  Offer,    \* [Tokens -> the organization and the role an invitation admits to]
  None      \* no token

VARIABLES
  account,  \* none, unverified or verified (with a password), social
  session,  \* the tab is signed in
  page,     \* invite (also /join and the dialogs that hold its form), login, register, inbox, home
  carried,  \* the ?redirect of the page, or None; on the invite page, the token it was opened with
  mails,    \* the verification links in the person's inbox
  field,    \* the token the form looked up
  info,     \* react-query's cache of lookups: what is shown under each key
  asked,    \* the lookup under way under each key, and the token it is of
  accept,   \* the acceptance under way: of which token, with what on display
  invite,   \* the invitations still open on the server: not used, expired or revoked
  seats,    \* the offers the person has a membership from, each with what was on display
  came,     \* history: the link the person last came by
  detour    \* history: the person took a way that hands no link on

signs == <<account, session, page, carried, mails>>
form == <<field, info, asked, accept>>
vars == <<signs, form, invite, seats, came, detour>>

Unseen == [state |-> "none", offer |-> None]
Unasked == [phase |-> "idle", of |-> None]
Idle == [phase |-> "idle", token |-> None, shown |-> None, joined |-> FALSE]

Init ==
  /\ account \in {"none", "unverified", "verified", "social"}
  /\ session \in {FALSE} \cup {account \in {"verified", "social"}}
  /\ page = "home" /\ carried = None
  /\ mails = {}
  /\ field = None
  /\ info = [t \in Tokens |-> Unseen]
  /\ asked = [t \in Tokens |-> Unasked]
  /\ accept = Idle
  /\ invite = Tokens
  /\ seats = {}
  /\ came = None /\ detour = FALSE

TypeOK ==
  /\ account \in {"none", "unverified", "verified", "social"}
  /\ session \in BOOLEAN
  /\ page \in {"invite", "login", "register", "inbox", "home"}
  /\ carried \in Tokens \cup {None} /\ field \in Tokens \cup {None}
  /\ \A k \in Tokens : asked[k].phase \in {"idle", "sent", "valid", "invalid"}
  /\ accept.phase \in {"idle", "sent", "served"}
  /\ invite \subseteq Tokens

-----------------------------------------------------------------------------
\* The pages of sign-in and sign-up.

\* The cache is keyed by the token that is looked up.
Key(t) == t

\* The form is given a token: its lookup starts, unless one is under way or
\* what it found is still fresh.
Looks(t) ==
  /\ field' = t
  /\ \/ /\ t # None /\ asked[Key(t)] = Unasked
        /\ asked' = [asked EXCEPT ![Key(t)] = [phase |-> "sent", of |-> t]]
     \/ /\ t # None => asked[Key(t)] # Unasked \/ info[Key(t)].state = "shown"
        /\ UNCHANGED asked
  /\ UNCHANGED <<info, accept>>

\* A page that does not hold the form is shown: the form is unmounted.
Unmounts == field' = None /\ UNCHANGED <<info, asked, accept>>

\* Where a sign-in leads: to what ?redirect names, else to the dashboard.
Lands(to) ==
  /\ page' = IF to = None THEN "home" ELSE "invite"
  /\ carried' = to
  /\ Looks(to)

\* The link of an invitation is opened; without a session the page sends the
\* person to sign in and hands the link on.
OpenLink(t) ==
  /\ came' = t /\ detour' = FALSE
  /\ IF session THEN Lands(t)
     ELSE page' = "login" /\ carried' = t /\ Unmounts
  /\ UNCHANGED <<account, session, mails, invite, seats>>

\* "Create one": the link goes along.
ToRegister ==
  /\ page = "login"
  /\ page' = "register"
  /\ UNCHANGED <<account, session, carried, mails, form, invite, seats, came, detour>>

\* Registration, of an address that has no account: the mail carries the link on.
SignUp ==
  /\ page = "register" /\ account = "none"
  /\ account' = "unverified"
  /\ page' = "inbox"
  /\ mails' = mails \cup {[to |-> carried, came |-> came, detour |-> detour]}
  /\ UNCHANGED <<session, carried, form, invite, seats, came, detour>>

\* The mail is sent once more, without a callback: it leads to the plain sign-in.
Resend ==
  /\ page = "inbox" /\ account = "unverified"
  /\ mails' = mails \cup {[to |-> None, came |-> came, detour |-> TRUE]}
  /\ UNCHANGED <<account, session, page, carried, form, invite, seats, came, detour>>

\* Mutant: the inbox leads to the plain sign-in.
LeaveInboxBare ==
  /\ page = "inbox"
  /\ page' \in {"login", "register"} /\ carried' = None
  /\ UNCHANGED <<account, session, mails, form, invite, seats, came, detour>>

\* "Back to sign in" and "Start over" keep the link.
LeaveInbox ==
  /\ page = "inbox"
  /\ page' \in {"login", "register"}
  /\ UNCHANGED <<account, session, carried, mails, form, invite, seats, came, detour>>

\* A link of a mail is followed, in time or once it expired (then the address
\* stays unverified), and leads to the sign-in page: in this tab, or in another
\* one that the person closes to come back to this.
Verify(m) ==
  /\ account \in {"unverified", "verified"}
  /\ account' \in {account, "verified"}
  /\ \/ /\ page' = "login" /\ carried' = m.to
        /\ came' = m.came /\ detour' = m.detour
        /\ Unmounts
     \/ UNCHANGED <<page, carried, form, came, detour>>
  /\ UNCHANGED <<session, mails, invite, seats>>

\* "Already have an account? Sign in", and the way through a reset password:
\* both lead to the plain sign-in.
ForgetLink ==
  /\ \/ page = "register"
     \/ page = "login" /\ account \in {"unverified", "verified"}
  /\ page' = "login" /\ carried' = None
  /\ detour' = TRUE
  /\ UNCHANGED <<account, session, mails, form, invite, seats, came>>

\* A password is accepted for a verified address only.
SignIn ==
  /\ page = "login" /\ account = "verified"
  /\ session' = TRUE
  /\ Lands(carried)
  /\ UNCHANGED <<account, mails, invite, seats, came, detour>>

\* A provider vouches for the person; the account is a new one or its own.
SocialSignIn ==
  /\ page \in {"login", "register"} /\ account \in {"none", "social"}
  /\ account' = "social" /\ session' = TRUE
  /\ Lands(carried)
  /\ UNCHANGED <<mails, invite, seats, came, detour>>

\* The provider is not asked to the end, or the address has a password: back
\* to the page, whose address is rebuilt without its query.
SocialFails ==
  /\ page \in {"login", "register"}
  /\ carried' = None /\ detour' = TRUE
  /\ UNCHANGED <<account, session, page, mails, form, invite, seats, came>>

\* The session ends, by itself or by signing out elsewhere: an invite page
\* sends the person to sign in with the link it was opened with.
SessionEnds ==
  /\ session
  /\ session' = FALSE
  /\ page' = "login"
  /\ came' = carried /\ detour' = FALSE
  /\ Unmounts
  /\ UNCHANGED <<account, carried, mails, invite, seats>>

-----------------------------------------------------------------------------
\* The form.

\* A code or a link is pasted where the form asks for one; /onboarding, /join
\* and the dialog of the organization switcher show it without a token.
Paste(t) ==
  /\ session /\ accept.phase = "idle"
  /\ page = "home" \/ field = None
  /\ page' = "invite"
  /\ Looks(t)
  /\ UNCHANGED <<account, session, carried, mails, invite, seats, came, detour>>

\* "Cancel", or "Try a different invite".
Clear ==
  /\ field # None /\ accept.phase = "idle"
  /\ field' = None
  /\ UNCHANGED <<signs, info, asked, accept, invite, seats, came, detour>>

\* getInviteInfo.
LookupServed(k) ==
  /\ asked[k].phase = "sent"
  /\ asked' = [asked EXCEPT ![k] =
       [phase |-> IF session /\ @.of \in invite THEN "valid" ELSE "invalid", of |-> @.of]]
  /\ UNCHANGED <<signs, field, info, accept, invite, seats, came, detour>>

\* Its answer, or none, which shows as an error too.
LookupArrives(k) ==
  /\ asked[k].phase \in {"valid", "invalid"}
  /\ info' \in {[info EXCEPT ![k] = [state |-> "failed", offer |-> None]]} \cup
       IF asked[k].phase = "invalid" THEN {}
       ELSE {[info EXCEPT ![k] = [state |-> "shown", offer |-> Offer[asked[k].of]]]}
  /\ asked' = [asked EXCEPT ![k] = Unasked]
  /\ UNCHANGED <<signs, field, accept, invite, seats, came, detour>>

\* "Join": offered under what the lookup found.
Join ==
  /\ page = "invite" /\ field # None /\ info[Key(field)].state = "shown"
  /\ accept.phase = "idle"
  /\ accept' = [phase |-> "sent", token |-> field, shown |-> info[Key(field)].offer, joined |-> FALSE]
  /\ UNCHANGED <<signs, field, info, asked, invite, seats, came, detour>>

Answered(joined) ==
  [phase |-> "served", token |-> accept.token, shown |-> accept.shown, joined |-> joined]

MemberOf(org) == \E s \in seats : s.offer.org = org

\* acceptInvite: an open invitation, a person who is not a member yet.
AcceptServed ==
  /\ accept.phase = "sent"
  /\ IF session /\ accept.token \in invite /\ ~MemberOf(Offer[accept.token].org)
     THEN /\ invite' = invite \ {accept.token}
          \* The membership is inserted after the invitation is marked, and may fail.
          /\ \/ /\ seats' = seats \cup {[offer |-> Offer[accept.token], shown |-> accept.shown]}
                /\ accept' = Answered(TRUE)
             \/ accept' = Answered(FALSE) /\ UNCHANGED seats
     ELSE accept' = Answered(FALSE) /\ UNCHANGED <<invite, seats>>
  /\ UNCHANGED <<signs, field, info, asked, came, detour>>

\* The person is in, and on the dashboard; or an error is shown, as when the
\* answer is lost.
AcceptArrives ==
  /\ accept.phase = "served"
  /\ accept' = Idle
  /\ \/ /\ accept.joined
        /\ page' = "home" /\ carried' = None /\ field' = None
     \/ UNCHANGED <<page, carried, field>>
  /\ UNCHANGED <<account, session, mails, info, asked, invite, seats, came, detour>>

\* Somebody else uses the invitation, it expires or it is revoked.
Spoil(t) ==
  /\ t \in invite
  /\ invite' = invite \ {t}
  /\ UNCHANGED <<signs, form, seats, came, detour>>

Next ==
  \/ \E t \in Tokens : OpenLink(t) \/ Paste(t) \/ LookupServed(t) \/ LookupArrives(t) \/ Spoil(t)
  \/ \E m \in mails : Verify(m)
  \/ ToRegister \/ SignUp \/ Resend \/ LeaveInbox \/ ForgetLink
  \/ SignIn \/ SocialSignIn \/ SocialFails \/ SessionEnds
  \/ Clear \/ Join \/ AcceptServed \/ AcceptArrives

Spec == Init /\ [][Next]_vars

-----------------------------------------------------------------------------
SignedIn == ~session /\ session'

\* Somebody who came by an invitation's link and registers, verifies the address
\* by the mail of the registration and signs in, or signs in right away, finds the
\* form of that very invitation: the link is handed on from page to page and
\* through the mail (invite/accept/page.tsx:43, verification-url.ts:18).
FindsTheForm == SignedIn /\ came # None /\ ~detour => page' = "invite" /\ field' = came
InvitedArrives == [][FindsTheForm]_vars

\* register/page.tsx:42, "so the intended destination survives the sign-in step
\* that follows verification": whatever way the person takes.  Refuted: the mail
\* sent once more, the link from registration to sign-in, a reset password and a
\* failed social sign-in forget it.
LinkSurvives == [][SignedIn /\ came # None => page' = "invite" /\ field' = came]_vars

\* Whoever joins by the form joins the organization, and with the role, that was on
\* display when they pressed "Join", whatever other invitations they looked up
\* before and however late those lookups were answered (invite-accept-form.tsx:71,
\* organizations.mdx:47, "After confirming the org name and role").
JoinsWhatWasShown == \A s \in seats : s.shown = s.offer

=============================================================================

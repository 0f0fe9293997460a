---- MODULE MCOAuth ----
(***************************************************************************)
(* A scenario of OAuthAccounts for TLC: one person, and another who was    *)
(* given the same email later, or gives none; a second email, and both     *)
(* identities, are taken and given up by registrations and updates.        *)
(***************************************************************************)
EXTENDS OAuthAccounts

CONSTANTS a1, a2, b1, e1, e2, g1, g2, s1, r1, r2

MCProfiles ==
  {[id |-> g1, email |-> e1, base |-> b1], [id |-> g2, email |-> e1, base |-> b1],
   [id |-> g2, email |-> None, base |-> b1]}

\* Without an identity, and with that of the person.
MCRegistrations ==
  {[base |-> b1, email |-> e2, google |-> None], [base |-> b1, email |-> e1, google |-> g1]}

\* The name and the email; an identity that is claimed; one that is given up with
\* the email.
MCUpdates ==
  {[sets |-> {"name", "email"}, base |-> b1, email |-> e2, google |-> None],
   [sets |-> {"google"}, base |-> b1, email |-> e1, google |-> g2],
   [sets |-> {"email", "google"}, base |-> b1, email |-> e2, google |-> None]}
====

---------------------------- MODULE MCContacts ----------------------------
(* Contacts with one lead for the number. *)
EXTENDS Contacts
=============================================================================

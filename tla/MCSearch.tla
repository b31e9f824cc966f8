------------------------------ MODULE MCSearch ------------------------------
(* Instances of Search for TLC. *)
EXTENDS Search

\* The columns of a user: what the e-mail and the display name may hold.
User(email, name) == [email |-> email, display_name |-> name]
MCContents == {User("none", "none"), User("none", "pattern"), User("none", "inside"),
               User("inside", "prefix")}
=============================================================================

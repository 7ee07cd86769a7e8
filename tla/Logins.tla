------------------------------- MODULE Logins -------------------------------
(* The user names that the session controler and the database share.       *)
CONSTANTS
    Login,
    EmptyLogin   \* the user name "", which getLogin cannot tell from none
=============================================================================

--------------------------- MODULE MCCreateListing ---------------------------
(* Creating and funding a listing, without the rest of the app.            *)
EXTENDS CreateListing

Spec == CreateInit /\ [][CreateNext]_createVars
=============================================================================

---------------------------- MODULE MC_Dashboard ----------------------------
(***************************************************************************)
(* Two URLs (the default and one the user types), two fetches of a kind  *)
(* in flight, two URL edits: enough for an answer to the old URL to       *)
(* overtake the new URL's, and for the mount closure's interval to fire   *)
(* after the first load.                                                   *)
(***************************************************************************)
EXTENDS Dashboard

MCUrls == {"default", "typed"}

=============================================================================

---------------------------- MODULE MCRtspClient ----------------------------
(***************************************************************************)
(* Instances of RtspClient, whose constants are plain numbers.  Two        *)
(* streams suffice for one to end while another goes on, two subsessions   *)
(* for one to end while another is being set up.                           *)
(***************************************************************************)
EXTENDS RtspClient
=============================================================================

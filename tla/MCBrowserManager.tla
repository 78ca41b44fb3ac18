-------------------------- MODULE MCBrowserManager --------------------------
(* Two runs of one user, each with at most one recovery. *)
EXTENDS BrowserManager

=============================================================================

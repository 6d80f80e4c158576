-------------------------- MODULE MCBrowserMirror --------------------------
(***************************************************************************)
(* Finite instances of BrowserMirror.                                      *)
(***************************************************************************)
EXTENDS BrowserMirror
=============================================================================
